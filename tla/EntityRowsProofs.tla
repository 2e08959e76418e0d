--------------------------- MODULE EntityRowsProofs ---------------------------
(* Theorems about the rows of EntityTables, for any entities, operations,     *)
(* engines and faults: what the tables hold during and after an operation.    *)
EXTENDS EntityTablesProofs, FiniteSetTheorems, SequenceTheorems

Writes == {"Insert", "Update", "Delete"}

Signatures == "transfer_signatures"

-----------------------------------------------------------------------------
(* The contents of the database.                                             *)

HasRow(c, i) == Row(i) \in Rows(c, i.table)

HasKey(c, i) == \E r \in Rows(c, i.table) : r.id = i.id

\* The rows of the entities there are, one per key, and no signature without its
\* transfer.
KeysAndRows(c) ==
  \A t \in DOMAIN c \ {Signatures} :
    /\ c[t] \subseteq {Row(i) : i \in {j \in Items : j.table = t}}
    /\ \A q, r \in c[t] : q.id = r.id => q = r

NoOrphans(c) ==
  \A q \in Rows(c, Signatures) : \E r \in Rows(c, "transfers") : r.id = q.id

RowsOK(c) ==
  /\ DOMAIN c \subseteq Provided \cup Range(CreatedTables)
  /\ KeysAndRows(c)
  /\ NoOrphans(c)
  /\ IsFiniteSet(Rows(c, "transfers"))

SameRows(c, d) == \A t \in DOMAIN c \cup DOMAIN d : Rows(c, t) = Rows(d, t)

\* The rows that are not of entity i: c and d differ in rows of that entity only.
Own(i, t, r) ==
  /\ r.id = i.id
  /\ t = i.table \/ (t = Signatures /\ i.table = "transfers")

Others(c, t, i) == {r \in Rows(c, t) : ~Own(i, t, r)}

SameOthers(c, d, i) ==
  /\ DOMAIN c = DOMAIN d
  /\ \A t \in DOMAIN c : Others(c, t, i) = Others(d, t, i)

-----------------------------------------------------------------------------
(* How far an operation is.                                                  *)

OwnStatement(kind, i) == Statement(kind, i.table, Row(i))

SignatureStatement(kind, i) == Statement(kind, Signatures, Row(i))

\* The statements left, and the signatures there, when m of them are inserted.
SignaturesFrom(i, m) ==
  [n \in 1..(Len(i.signatures) - m) |->
    Statement("insert", Signatures,
              [id |-> i.id, signature |-> i.signatures[n + m]])]

FirstSignatures(i, m) == {i.signatures[n] : n \in 1..m}

AtStart == todo = Script(op.name, item)

RowUpdated ==
  /\ item.table = "transfers"
  /\ Single(op.name) = "Update"
  /\ todo = <<SignatureStatement("delete", item)>> \o SignatureInserts(item)
  /\ HasRow(current, item)

Inserting ==
  /\ Single(op.name) \in {"Insert", "Update"}
  /\ HasRow(current, item)
  /\ \E m \in 0..Len(item.signatures) :
       /\ todo = SignaturesFrom(item, m)
       /\ item.table = "transfers" =>
            SignaturesOf(item, current) = FirstSignatures(item, m)

SignaturesDeleted ==
  /\ item.table = "transfers"
  /\ Single(op.name) = "Delete"
  /\ todo = <<OwnStatement("delete", item)>>
  /\ SignaturesOf(item, current) = {}

RowDeleted ==
  /\ Single(op.name) = "Delete"
  /\ todo = <<>>
  /\ ~HasKey(current, item)

Progress ==
  AtStart \/ RowUpdated \/ Inserting \/ SignaturesDeleted \/ RowDeleted

-----------------------------------------------------------------------------
(* The inductive invariant.                                                  *)

\* The control of an operation.
CallInv ==
  /\ pc \in {"idle", "begin", "run", "rollback", "down"}
  /\ pc = "idle" => queue = <<>> /\ found = {}
  /\ pc \in {"begin", "rollback"} => op.name \in Writes \cup {"CreateTable"}
  /\ pc = "run" => op.name \in Writes \cup Bulk \cup Reads \cup {"CreateTable"}
  /\ pc \in {"begin", "run", "rollback"} /\ op.name # "CreateTable" =>
       last = NothingYet
  /\ pc \in {"begin", "run", "rollback"} /\ op.name \in Writes =>
       item \in Items /\ op.items = {item}
  /\ pc = "run" /\ op.name \in Bulk =>
       item \in Items /\ queue \in Seq(Items) /\ op.items \subseteq Items

\* Its transaction.
TxnInv ==
  /\ SessionTypeOK({current, committed})
  /\ pc \in {"idle", "begin", "down"} => txn = "none"
  /\ pc = "run" /\ op.name \in Bulk \cup Reads => txn = "none"
  /\ pc = "run" /\ op.name \in Writes /\ link = "up" => txn = "open"

ContentsInv == RowsOK(current) /\ RowsOK(committed)

\* An update is of rows that are there.
KeyInv ==
  link = "up" =>
    /\ pc \in {"begin", "run"} /\ op.name = "Update" => HasKey(committed, item)
    /\ pc = "run" /\ op.name \in {"Update", "UpdateAll"} => HasKey(current, item)
    /\ pc = "run" /\ op.name = "UpdateAll" =>
         \A i \in Range(queue) : HasKey(current, i)

\* A transaction changes its own rows only, and the statements done have had
\* their effect.
WriteInv ==
  /\ pc = "run" /\ op.name = "CreateTable" => SameRows(current, committed)
  /\ pc = "run" /\ op.name \in Writes => SameOthers(current, committed, item)
  /\ pc = "run" /\ link = "up" /\ op.name \in Writes =>
       /\ Progress
       /\ AtStart => current = committed
       /\ op.name = "Insert" /\ ~AtStart => ~HasKey(committed, item)
  /\ pc = "run" /\ link = "up" /\ op.name \in Bulk => Progress \/ todo = <<>>

\* What has returned has taken effect.
DoneInv ==
  last.result = "done" =>
    \A i \in last.op.items :
      CASE last.op.name \in {"Insert", "Update"} -> i \in Whole(committed)
        [] last.op.name = "Delete" -> \A r \in Rows(committed, i.table) : r.id # i.id
        [] OTHER -> TRUE

\* What RetrieveAll has read so far, and what it has still to read.
Listed(c) ==
  {[Blank("transfers") EXCEPT !.id = r.id] : r \in Rows(c, "transfers")}

ToRead(q) ==
  \/ \E i \in Range(queue) : i.id = q[2].id
  \/ todo = Script("Retrieve", item) /\ q[2].id = item.id
  \/ /\ todo = <<SignatureStatement("select", item)>>
     /\ q[1] = Signatures
     /\ q[2].id = item.id

ReadInv ==
  pc = "run" /\ op.name \in Reads =>
    /\ item.table \in Tables
    /\ \A i \in op.items : i \in Items /\ i.table = item.table
    /\ todo \in {<<>>, <<SignatureStatement("select", item)>>,
                 Script("Retrieve", item), Script(op.name, item)}
    /\ op.name = "Retrieve" => queue = <<>>
    /\ op.name = "RetrieveAll" =>
         \/ todo = Script(op.name, item) /\ found = {} /\ queue = <<>>
         \/ /\ item.table # "transfers"
            /\ todo = <<>>
            /\ queue = <<>>
            /\ found = StoredRows(item.table, current)
         \/ /\ item.table = "transfers"
            /\ todo # Script(op.name, item)
            /\ queue \in Seq(Listed(current))
            /\ found \subseteq StoredRows("transfers", current)
            /\ \A q \in StoredRows("transfers", current) : q \in found \/ ToRead(q)

ReadDoneInv ==
  last.op.name = "RetrieveAll" =>
    \A i \in last.op.items :
      last.rows = IF last.result = "done" THEN StoredRows(i.table, committed) ELSE {}

CreatingInv ==
  /\ \A m, n \in DOMAIN creating : creating[m] = creating[n] => m = n
  /\ failed \subseteq Range(CreatedTables) \ Range(creating)

RowsInv ==
  /\ CallInv
  /\ TxnInv
  /\ ContentsInv
  /\ KeyInv
  /\ WriteInv
  /\ DoneInv
  /\ ReadInv
  /\ ReadDoneInv
  /\ CreatingInv

\* Without the bulk forms every row belongs to a whole entity.
AllWhole(c) ==
  \A t \in DOMAIN c : \A r \in c[t] : \E i \in Whole(c) : Own(i, t, r)

\* If nothing fails but what the tables refuse, every table is created, and
\* InsertAll leaves the key of each of its entities in its table.
CreatedInv ==
  /\ link = "up"
  /\ pc # "down"
  /\ failed = {}
  /\ pc \in {"run", "rollback"} /\ op.name = "CreateTable" =>
       /\ pc = "run"
       /\ txn = "open" \/ (engine = "mysql" /\ txn = "none")
       /\ todo # <<>> => txn = "open"
  /\ pc \in {"begin", "run", "rollback"} /\ op.name # "CreateTable" =>
       creating = <<>>

InsertAllInv ==
  /\ pc = "run" /\ op.name = "InsertAll" =>
       \A i \in op.items :
         \/ HasKey(current, i)
         \/ i \in Range(queue)
         \/ i = item /\ todo = Script(op.name, item)
  /\ last.op.name = "InsertAll" => \A i \in last.op.items : HasKey(committed, i)

-----------------------------------------------------------------------------
(* Scripts.                                                                  *)

\* The table and the signatures of an entity.
LEMMA ItemFacts ==
  ASSUME NEW i \in Items
  PROVE  /\ i.table \in Tables
         /\ i.table # Signatures
         /\ i.signatures \in Seq(Range(i.signatures))
         /\ Len(i.signatures) \in Nat
         /\ DOMAIN i.signatures = 1..Len(i.signatures)
         /\ i.table # "transfers" => Len(i.signatures) = 0
<1>1. /\ i.table \in Tables
      /\ i.signatures \in Seq(Range(i.signatures))
      /\ i.table # "transfers" => i.signatures = <<>>
  BY ItemsAssumption DEF Tables
<1>2. i.table # Signatures
  BY <1>1 DEF Tables, Signatures
<1>3. Len(<<>>) = 0
  OBVIOUS
<1> QED
  BY <1>1, <1>2, <1>3, LenProperties

\* The first statement of a script, and the others.
LEMMA FirstOf ==
  ASSUME NEW S, NEW a, NEW s \in Seq(S)
  PROVE  /\ <<a>> \o s # <<>>
         /\ Head(<<a>> \o s) = a
         /\ Tail(<<a>> \o s) = s
<1> DEFINE T == S \cup {a}
<1>1. <<a>> \in Seq(T) /\ s \in Seq(T) /\ Len(<<a>>) = 1 /\ <<a>>[1] = a
  BY SeqMonotonic
<1> HIDE DEF T
<1>2. /\ <<a>> \o s \in Seq(T)
      /\ Len(<<a>> \o s) = 1 + Len(s)
      /\ \A n \in 1..(1 + Len(s)) :
           (<<a>> \o s)[n] = IF n <= 1 THEN <<a>>[n] ELSE s[n - 1]
  BY <1>1, ConcatProperties
<1>3. Len(s) \in Nat
  BY LenProperties
<1>4. <<a>> \o s # <<>> /\ Head(<<a>> \o s) = a
  BY <1>1, <1>2, <1>3
<1>5. /\ Tail(<<a>> \o s) \in Seq(T)
      /\ Len(Tail(<<a>> \o s)) = Len(s)
      /\ \A n \in 1..Len(s) : Tail(<<a>> \o s)[n] = (<<a>> \o s)[n + 1]
  BY <1>2, <1>3, <1>4, HeadTailProperties
<1>6. \A n \in 1..Len(s) : Tail(<<a>> \o s)[n] = s[n]
  BY <1>1, <1>2, <1>3, <1>5
<1>7. Tail(<<a>> \o s) = s
  BY <1>1, <1>5, <1>6, SeqEqual
<1> QED
  BY <1>4, <1>7

SignatureInsert(i, n) ==
  Statement("insert", Signatures, [id |-> i.id, signature |-> i.signatures[n]])

\* The insertions of the signatures, one by one.
LEMMA Insertions ==
  ASSUME NEW i \in Items
  PROVE  /\ SignatureInserts(i) = SignaturesFrom(i, 0)
         /\ SignaturesFrom(i, Len(i.signatures)) = <<>>
         /\ \A m \in 0..Len(i.signatures) :
              /\ SignaturesFrom(i, m) \in
                   Seq({SignatureInsert(i, n) : n \in 1..Len(i.signatures)})
              /\ m # Len(i.signatures) =>
                   /\ SignaturesFrom(i, m) # <<>>
                   /\ Head(SignaturesFrom(i, m)) = SignatureInsert(i, m + 1)
                   /\ Tail(SignaturesFrom(i, m)) = SignaturesFrom(i, m + 1)
<1> DEFINE S == {SignatureInsert(i, n) : n \in 1..Len(i.signatures)}
           F(m) == [n \in 1..(Len(i.signatures) - m) |-> SignatureInsert(i, n + m)]
<1>0. Len(i.signatures) \in Nat
  BY ItemFacts
<1>1. \A m : SignaturesFrom(i, m) = F(m)
  BY DEF SignaturesFrom, SignatureInsert
<1>2. SignatureInserts(i) = SignaturesFrom(i, 0)
  <2>1. SignaturesFrom(i, 0) = [n \in 1..Len(i.signatures) |-> SignatureInsert(i, n)]
    BY <1>0, <1>1
  <2> QED
    BY <2>1 DEF SignatureInserts, SignatureInsert, Signatures
<1> HIDE DEF S
<1>3. ASSUME NEW m \in 0..Len(i.signatures) PROVE F(m) \in Seq(S)
  <2>1. \A n \in 1..(Len(i.signatures) - m) : SignatureInsert(i, n + m) \in S
    BY <1>0 DEF S
  <2> QED
    BY <1>0, <2>1
<1>4. F(Len(i.signatures)) = <<>>
  BY <1>0
<1>5. ASSUME NEW m \in 0..Len(i.signatures), m # Len(i.signatures)
      PROVE  /\ F(m) # <<>>
             /\ Head(F(m)) = SignatureInsert(i, m + 1)
             /\ Tail(F(m)) = F(m + 1)
  <2>2. /\ Len(F(m)) = Len(i.signatures) - m
        /\ Len(F(m + 1)) = Len(i.signatures) - m - 1
        /\ \A n \in 1..(Len(i.signatures) - m) : F(m)[n] = SignatureInsert(i, n + m)
        /\ \A n \in 1..(Len(i.signatures) - m - 1) :
             F(m + 1)[n] = SignatureInsert(i, (n + 1) + m)
    <3>1. \A n \in 1..(Len(i.signatures) - m - 1) : n + (m + 1) = (n + 1) + m
      BY <1>0, <1>5
    <3> QED
      BY <1>0, <1>5, <3>1
  <2> HIDE DEF F
  <2>1. F(m) \in Seq(S) /\ F(m + 1) \in Seq(S)
    <3>1. m + 1 \in 0..Len(i.signatures)
      BY <1>0, <1>5
    <3> QED
      BY <1>3, <3>1
  <2>3. F(m) # <<>> /\ Head(F(m)) = SignatureInsert(i, m + 1)
    BY <1>0, <1>5, <2>1, <2>2
  <2>4. /\ Tail(F(m)) \in Seq(S)
        /\ Len(Tail(F(m))) = Len(i.signatures) - m - 1
        /\ \A n \in 1..(Len(i.signatures) - m - 1) : Tail(F(m))[n] = F(m)[n + 1]
    BY <1>0, <2>1, <2>2, <2>3, HeadTailProperties
  <2>5. \A n \in 1..(Len(i.signatures) - m - 1) : Tail(F(m))[n] = F(m + 1)[n]
    <3> SUFFICES ASSUME NEW n \in 1..(Len(i.signatures) - m - 1)
                 PROVE  Tail(F(m))[n] = F(m + 1)[n]
      OBVIOUS
    <3>1. n + 1 \in 1..(Len(i.signatures) - m)
      BY <1>0, <1>5
    <3> QED
      BY <2>2, <2>4, <3>1
  <2>6. Tail(F(m)) = F(m + 1)
    BY <1>0, <2>1, <2>2, <2>4, <2>5, SeqEqual
  <2> QED
    BY <2>3, <2>6
<1> QED
  BY <1>1, <1>2, <1>3, <1>4, <1>5 DEF S

\* The statements of an insert, an update and a delete, single or in bulk.
LEMMA InsertScript ==
  ASSUME NEW i \in Items, NEW name, Single(name) = "Insert"
  PROVE  /\ Script(name, i) # <<>>
         /\ Head(Script(name, i)) = OwnStatement("insert", i)
         /\ Tail(Script(name, i)) = SignaturesFrom(i, 0)
<1> DEFINE a == OwnStatement("insert", i)
<1>0. Kind["Insert"] = "insert"
  BY DEF Kind
<1>1. SignaturesFrom(i, 0) \in
        Seq({SignatureInsert(i, n) : n \in 1..Len(i.signatures)})
  BY ItemFacts, Insertions
<1>2. CASE i.table = "transfers"
  <2>1. Script(name, i) = <<a>> \o SignaturesFrom(i, 0)
    <3>1. Script(name, i) = TransferScript("Insert", i)
      BY <1>2 DEF Script
    <3> QED
      BY <1>2, <3>1, Insertions DEF TransferScript, OwnStatement
  <2> HIDE DEF a
  <2> QED
    BY <1>1, <2>1, FirstOf DEF a
<1>3. CASE i.table # "transfers"
  <2>1. Script(name, i) = <<a>>
    BY <1>0, <1>3, ItemFacts
    DEF Script, Tables, IdentityScript, WalletScript, WalletKeyScript, OwnStatement
  <2>2. SignaturesFrom(i, 0) = <<>>
    BY <1>3, ItemFacts, Insertions
  <2> HIDE DEF a
  <2> QED
    BY <2>1, <2>2 DEF a
<1> QED
  BY <1>2, <1>3

\* Only identities and transfers have an UPDATE the engine accepts.
LEMMA UpdateScript ==
  ASSUME NEW i \in Items, NEW name, Single(name) = "Update"
  PROVE  /\ Script(name, i) # <<>>
         /\ \/ Head(Script(name, i)).kind = "malformed"
            \/ /\ Head(Script(name, i)) = OwnStatement("update", i)
               /\ Tail(Script(name, i)) =
                    IF i.table = "transfers"
                    THEN <<SignatureStatement("delete", i)>> \o SignatureInserts(i)
                    ELSE SignaturesFrom(i, 0)
<1> DEFINE a == OwnStatement("update", i)
           b == SignatureStatement("delete", i)
<1>0. Kind["Update"] = "update"
  BY DEF Kind
<1>1. CASE i.table = "transfers"
  <2> DEFINE S == {SignatureInsert(i, n) : n \in 1..Len(i.signatures)} \cup {a, b}
  <2>1. Script(name, i) = (<<a>> \o <<b>>) \o SignatureInserts(i)
    <3>1. Script(name, i) = TransferScript("Update", i)
      BY <1>1 DEF Script
    <3> QED
      BY <1>1, <3>1 DEF TransferScript, OwnStatement, SignatureStatement, Signatures
  <2>2. SignatureInserts(i) \in Seq(S)
    <3>1. SignatureInserts(i) \in
            Seq({SignatureInsert(i, n) : n \in 1..Len(i.signatures)})
      BY ItemFacts, Insertions
    <3> QED
      BY <3>1, SeqMonotonic
  <2>3. <<a>> \in Seq(S) /\ <<b>> \in Seq(S)
    <3>1. a \in S /\ b \in S
      OBVIOUS
    <3> HIDE DEF S, a, b
    <3> QED
      BY <3>1
  <2> HIDE DEF a, b, S
  <2>4. Script(name, i) = <<a>> \o (<<b>> \o SignatureInserts(i))
    BY <2>1, <2>2, <2>3, ConcatAssociative
  <2>5. <<b>> \o SignatureInserts(i) \in Seq(S)
    BY <2>2, <2>3, ConcatProperties
  <2> QED
    BY <1>1, <2>4, <2>5, FirstOf DEF a, b
<1>2. CASE i.table = "identities"
  <2>1. Script(name, i) = <<a>>
    BY <1>0, <1>2 DEF Script, IdentityScript, OwnStatement
  <2>2. SignaturesFrom(i, 0) = <<>>
    BY <1>2, ItemFacts, Insertions
  <2> HIDE DEF a
  <2>3. Script(name, i) # <<>> /\ Head(Script(name, i)) = a /\ Tail(Script(name, i)) = <<>>
    BY <2>1
  <2> QED
    BY <1>2, <2>2, <2>3 DEF a
<1>3. CASE i.table \in {"wallets", "wallet_keys"}
  <2> DEFINE s == Statement("malformed", i.table, Row(i))
  <2>1. Script(name, i) = <<s>>
    BY <1>3 DEF Script, WalletScript, WalletKeyScript
  <2>2. s.kind = "malformed"
    BY DEF Statement
  <2> HIDE DEF s
  <2> QED
    BY <2>1, <2>2
<1> QED
  BY <1>1, <1>2, <1>3, ItemFacts DEF Tables

\* A transfer is deleted after its signatures.
LEMMA DeleteScript ==
  ASSUME NEW i \in Items, NEW name, Single(name) = "Delete"
  PROVE  /\ Script(name, i) # <<>>
         /\ IF i.table = "transfers"
            THEN /\ Head(Script(name, i)) = SignatureStatement("delete", i)
                 /\ Tail(Script(name, i)) = <<OwnStatement("delete", i)>>
            ELSE /\ Head(Script(name, i)) = OwnStatement("delete", i)
                 /\ Tail(Script(name, i)) = <<>>
<1> DEFINE a == OwnStatement("delete", i)
           b == SignatureStatement("delete", i)
<1>0. Kind["Delete"] = "delete"
  BY DEF Kind
<1>1. CASE i.table = "transfers"
  <2>1. Script(name, i) = <<b>> \o <<a>>
    <3>1. Script(name, i) = TransferScript("Delete", i)
      BY <1>1 DEF Script
    <3> QED
      BY <1>1, <3>1 DEF TransferScript, OwnStatement, SignatureStatement, Signatures
  <2>2. <<a>> \in Seq({a})
    <3> HIDE DEF a
    <3> QED
      OBVIOUS
  <2> HIDE DEF a, b
  <2> QED
    BY <1>1, <2>1, <2>2, FirstOf DEF a, b
<1>2. CASE i.table # "transfers"
  <2>1. Script(name, i) = <<a>>
    BY <1>0, <1>2, ItemFacts
    DEF Script, Tables, IdentityScript, WalletScript, WalletKeyScript, OwnStatement
  <2> HIDE DEF a
  <2> QED
    BY <1>2, <2>1 DEF a
<1> QED
  BY <1>1, <1>2

-----------------------------------------------------------------------------
(* What a statement makes of the contents: d is c after the statement.       *)

\* c and d differ in table t only.
OnlyTable(c, d, t) ==
  /\ DOMAIN d = DOMAIN c
  /\ \A u : u # t => Rows(d, u) = Rows(c, u)

\* No key of an entity disappears.
KeysKept(c, d) == \A i \in Items : HasKey(c, i) => HasKey(d, i)

\* The rows an INSERT, UPDATE or DELETE leaves in its table.
LEMMA WrittenRows ==
  ASSUME NEW s, s.table \in DOMAIN current
  PROVE  /\ OnlyTable(current, Written(s), s.table)
         /\ s.kind = "insert" =>
              Rows(Written(s), s.table) = Rows(current, s.table) \cup {s.row}
         /\ s.kind = "update" =>
              Rows(Written(s), s.table) =
                {IF r.id = s.row.id THEN s.row ELSE r : r \in Rows(current, s.table)}
         /\ s.kind = "delete" =>
              Rows(Written(s), s.table) =
                {r \in Rows(current, s.table) : r.id # s.row.id}
<1>1. DOMAIN Written(s) = DOMAIN current
  BY Zenon DEF Written
<1>2. \A t \in DOMAIN current : t # s.table => Written(s)[t] = current[t]
  BY DEF Written
<1>3. /\ s.kind = "insert" => Written(s)[s.table] = current[s.table] \cup {s.row}
      /\ s.kind = "update" =>
           Written(s)[s.table] =
             {IF r.id = s.row.id THEN s.row ELSE r : r \in current[s.table]}
      /\ s.kind = "delete" =>
           Written(s)[s.table] = {r \in current[s.table] : r.id # s.row.id}
  BY DEF Written
<1>4. OnlyTable(current, Written(s), s.table)
  BY <1>1, <1>2 DEF OnlyTable, Rows
<1>5. /\ Rows(Written(s), s.table) = Written(s)[s.table]
      /\ Rows(current, s.table) = current[s.table]
  BY <1>1 DEF Rows
<1> QED
  BY <1>3, <1>4, <1>5, Zenon

\* The columns of a row.
LEMMA RowFields == \A i : Row(i).id = i.id /\ Row(i).version = i.version
  BY DEF Row

\* The rows of a table are rows of entities, with a key each.
LEMMA RowsAre ==
  ASSUME NEW c, RowsOK(c), NEW t, t # Signatures
  PROVE  /\ \A r \in Rows(c, t) : \E j \in Items : j.table = t /\ r = Row(j)
         /\ \A q, r \in Rows(c, t) : q.id = r.id => q = r
  BY DEF RowsOK, KeysAndRows, Rows

\* A change of one table keeps the contents well-formed if that table and the
\* references to transfers are.
LEMMA RowsStayOK ==
  ASSUME NEW c, NEW d, NEW t, RowsOK(c), OnlyTable(c, d, t),
         t # Signatures =>
           /\ \A r \in Rows(d, t) : \E j \in Items : j.table = t /\ r = Row(j)
           /\ \A q, r \in Rows(d, t) : q.id = r.id => q = r,
         t = "transfers" => IsFiniteSet(Rows(d, t)),
         NoOrphans(d)
  PROVE  RowsOK(d)
<1>1. DOMAIN d \subseteq Provided \cup Range(CreatedTables)
  BY DEF RowsOK, OnlyTable
<1>2. IsFiniteSet(Rows(d, "transfers"))
  BY DEF RowsOK, OnlyTable
<1>3. KeysAndRows(d)
  <2> SUFFICES ASSUME NEW u \in DOMAIN d \ {Signatures}
               PROVE  /\ d[u] \subseteq {Row(i) : i \in {j \in Items : j.table = u}}
                      /\ \A q, r \in d[u] : q.id = r.id => q = r
    BY DEF KeysAndRows
  <2>1. Rows(d, u) = d[u]
    BY DEF Rows
  <2>2. /\ \A r \in Rows(d, u) : \E j \in Items : j.table = u /\ r = Row(j)
        /\ \A q, r \in Rows(d, u) : q.id = r.id => q = r
    <3>1. CASE u = t
      BY <3>1
    <3>2. CASE u # t
      BY <3>2, RowsAre DEF OnlyTable
    <3> QED
      BY <3>1, <3>2
  <2> QED
    BY <2>1, <2>2
<1> QED
  BY <1>1, <1>2, <1>3 DEF RowsOK

\* If the rows of other entities in table t stay, so do all.
LEMMA OthersStay ==
  ASSUME NEW c, NEW d, NEW i \in Items, NEW t, OnlyTable(c, d, t),
         \A r : ~Own(i, t, r) => (r \in Rows(c, t) <=> r \in Rows(d, t))
  PROVE  SameOthers(c, d, i)
<1> SUFFICES ASSUME NEW u PROVE Others(c, u, i) = Others(d, u, i)
  BY DEF SameOthers, OnlyTable
<1>1. CASE u = t
  BY <1>1 DEF Others
<1>2. CASE u # t
  BY <1>2 DEF Others, OnlyTable
<1> QED
  BY <1>1, <1>2

\* If table t keeps its keys, so do all.
LEMMA KeysStay ==
  ASSUME NEW c, NEW d, NEW t, OnlyTable(c, d, t),
         \A q \in Rows(c, t) : \E r \in Rows(d, t) : r.id = q.id
  PROVE  KeysKept(c, d)
  BY DEF KeysKept, HasKey, OnlyTable

\* The row of an entity whose key is not there is inserted.
LEMMA RowInserted ==
  ASSUME NEW c, NEW d, NEW i \in Items, RowsOK(c), ~HasKey(c, i),
         OnlyTable(c, d, i.table), Rows(d, i.table) = Rows(c, i.table) \cup {Row(i)}
  PROVE  /\ RowsOK(d)
         /\ SameOthers(c, d, i)
         /\ KeysKept(c, d)
         /\ HasRow(d, i)
         /\ i.table = "transfers" => SignaturesOf(i, d) = {}
<1>1. i.table # Signatures /\ Row(i).id = i.id
  BY ItemFacts, RowFields
<1>2. NoOrphans(d)
  <2> SUFFICES ASSUME NEW q \in Rows(d, Signatures)
               PROVE  \E r \in Rows(d, "transfers") : r.id = q.id
    BY DEF NoOrphans
  <2>1. PICK r \in Rows(c, "transfers") : r.id = q.id
    BY <1>1 DEF RowsOK, NoOrphans, OnlyTable
  <2>2. r \in Rows(d, "transfers")
    BY <2>1 DEF OnlyTable
  <2> QED
    BY <2>1, <2>2
<1>3. /\ \A r \in Rows(d, i.table) : \E j \in Items : j.table = i.table /\ r = Row(j)
      /\ \A q, r \in Rows(d, i.table) : q.id = r.id => q = r
  <2>1. /\ \A r \in Rows(c, i.table) : \E j \in Items : j.table = i.table /\ r = Row(j)
        /\ \A q, r \in Rows(c, i.table) : q.id = r.id => q = r
    BY <1>1, RowsAre
  <2>2. \A r \in Rows(c, i.table) : r.id # Row(i).id
    BY <1>1 DEF HasKey
  <2> QED
    BY <2>1, <2>2
<1>4. i.table = "transfers" => IsFiniteSet(Rows(d, i.table))
  BY FS_AddElement DEF RowsOK
<1>5. RowsOK(d)
  BY <1>2, <1>3, <1>4, RowsStayOK
<1>6. SameOthers(c, d, i)
  BY <1>1, OthersStay DEF Own
<1>7. KeysKept(c, d)
  BY KeysStay
<1>8. HasRow(d, i)
  BY DEF HasRow
<1>9. ASSUME i.table = "transfers" PROVE SignaturesOf(i, d) = {}
  <2>1. Rows(d, Signatures) = Rows(c, Signatures)
    BY <1>1 DEF OnlyTable
  <2>2. \A q \in Rows(d, Signatures) : q.id # i.id
    BY <1>9, <2>1 DEF RowsOK, NoOrphans, HasKey
  <2> QED
    BY <2>2 DEF SignaturesOf, Signatures
<1> QED
  BY <1>5, <1>6, <1>7, <1>8, <1>9

\* The row of an entity whose key is there is updated.
LEMMA RowReplaced ==
  ASSUME NEW c, NEW d, NEW i \in Items, RowsOK(c), HasKey(c, i),
         OnlyTable(c, d, i.table),
         Rows(d, i.table) =
           {IF r.id = Row(i).id THEN Row(i) ELSE r : r \in Rows(c, i.table)}
  PROVE  /\ RowsOK(d)
         /\ SameOthers(c, d, i)
         /\ KeysKept(c, d)
         /\ HasRow(d, i)
<1> DEFINE F(r) == IF r.id = Row(i).id THEN Row(i) ELSE r
<1>1. i.table # Signatures /\ Row(i).id = i.id
  BY ItemFacts, RowFields
<1>2. \A r : F(r).id = r.id
  OBVIOUS
<1>3. Rows(d, i.table) = {F(r) : r \in Rows(c, i.table)}
  OBVIOUS
<1>4. /\ \A r \in Rows(c, i.table) : \E j \in Items : j.table = i.table /\ r = Row(j)
      /\ \A q, r \in Rows(c, i.table) : q.id = r.id => q = r
  BY <1>1, RowsAre
<1>5. \A r : F(r) = r \/ F(r) = Row(i)
  OBVIOUS
<1>6. HasRow(d, i)
  <2>1. PICK r \in Rows(c, i.table) : r.id = i.id
    BY DEF HasKey
  <2>2. F(r) = Row(i)
    BY <1>1, <2>1
  <2> QED
    BY <1>3, <2>1, <2>2 DEF HasRow
<1>7. \A r : ~Own(i, i.table, r) => (r \in Rows(c, i.table) <=> r \in Rows(d, i.table))
  <2> SUFFICES ASSUME NEW r, r.id # i.id
               PROVE  r \in Rows(c, i.table) <=> r \in Rows(d, i.table)
    BY DEF Own
  <2>1. \A q : F(q) = r <=> q = r
    BY <1>1
  <2> HIDE DEF F
  <2> QED
    BY <1>3, <2>1
<1> HIDE DEF F
<1>8. KeysKept(c, d)
  <2>1. \A q \in Rows(c, i.table) : \E r \in Rows(d, i.table) : r.id = q.id
    BY <1>2, <1>3
  <2> QED
    BY <2>1, KeysStay
<1>9. SameOthers(c, d, i)
  BY <1>7, OthersStay
<1>10. NoOrphans(d)
  <2> SUFFICES ASSUME NEW q \in Rows(d, Signatures)
               PROVE  \E r \in Rows(d, "transfers") : r.id = q.id
    BY DEF NoOrphans
  <2>1. PICK r \in Rows(c, "transfers") : r.id = q.id
    BY <1>1 DEF RowsOK, NoOrphans, OnlyTable
  <2>2. CASE i.table = "transfers"
    BY <1>2, <1>3, <2>1, <2>2
  <2>3. CASE i.table # "transfers"
    BY <2>1, <2>3 DEF OnlyTable
  <2> QED
    BY <2>2, <2>3
<1>11. /\ \A r \in Rows(d, i.table) : \E j \in Items : j.table = i.table /\ r = Row(j)
       /\ \A q, r \in Rows(d, i.table) : q.id = r.id => q = r
  <2>1. \A q, r \in Rows(c, i.table) : F(q).id = F(r).id => F(q) = F(r)
    BY <1>2, <1>4
  <2> QED
    BY <1>3, <1>4, <1>5, <2>1
<1>12. i.table = "transfers" => IsFiniteSet(Rows(d, i.table))
  <2> SUFFICES ASSUME i.table = "transfers" PROVE IsFiniteSet(Rows(d, i.table))
    OBVIOUS
  <2> DEFINE f == [r \in Rows(c, i.table) |-> F(r)]
  <2>1. f \in Surjection(Rows(c, i.table), Rows(d, i.table))
    BY <1>3 DEF Surjection
  <2>2. IsFiniteSet(Rows(c, i.table))
    BY DEF RowsOK
  <2> QED
    BY <2>1, <2>2, FS_Surjection
<1>13. RowsOK(d)
  BY <1>10, <1>11, <1>12, RowsStayOK
<1> QED
  BY <1>6, <1>8, <1>9, <1>13

\* The row of an entity is deleted, the signatures of a transfer being gone.
LEMMA RowRemoved ==
  ASSUME NEW c, NEW d, NEW i \in Items, RowsOK(c), OnlyTable(c, d, i.table),
         i.table = "transfers" => SignaturesOf(i, c) = {},
         Rows(d, i.table) = {r \in Rows(c, i.table) : r.id # Row(i).id}
  PROVE  /\ RowsOK(d)
         /\ SameOthers(c, d, i)
         /\ ~HasKey(d, i)
<1>1. i.table # Signatures /\ Row(i).id = i.id
  BY ItemFacts, RowFields
<1>2. NoOrphans(d)
  <2> SUFFICES ASSUME NEW q \in Rows(d, Signatures)
               PROVE  \E r \in Rows(d, "transfers") : r.id = q.id
    BY DEF NoOrphans
  <2>0. q \in Rows(c, Signatures)
    BY <1>1 DEF OnlyTable
  <2>1. PICK r \in Rows(c, "transfers") : r.id = q.id
    BY <2>0 DEF RowsOK, NoOrphans
  <2>2. i.table = "transfers" => q.id # i.id
    BY <2>0 DEF SignaturesOf, Signatures
  <2>3. r \in Rows(d, "transfers")
    BY <1>1, <2>1, <2>2 DEF OnlyTable
  <2> QED
    BY <2>1, <2>3
<1>3. /\ \A r \in Rows(d, i.table) : \E j \in Items : j.table = i.table /\ r = Row(j)
      /\ \A q, r \in Rows(d, i.table) : q.id = r.id => q = r
  BY <1>1, RowsAre
<1>4. i.table = "transfers" => IsFiniteSet(Rows(d, i.table))
  BY FS_Subset DEF RowsOK
<1>5. RowsOK(d)
  BY <1>2, <1>3, <1>4, RowsStayOK
<1>6. SameOthers(c, d, i)
  BY <1>1, OthersStay DEF Own
<1>7. ~HasKey(d, i)
  BY <1>1 DEF HasKey
<1> QED
  BY <1>5, <1>6, <1>7

SignatureAdded(c, d, q) ==
  /\ OnlyTable(c, d, Signatures)
  /\ Rows(d, Signatures) = Rows(c, Signatures) \cup {q}

\* A signature of a transfer that is there is inserted.
LEMMA SignatureInserted ==
  ASSUME NEW c, NEW d, NEW i \in Items, NEW q, i.table = "transfers", RowsOK(c),
         HasRow(c, i), SignatureAdded(c, d, q), q.id = i.id
  PROVE  /\ RowsOK(d)
         /\ SameOthers(c, d, i)
         /\ KeysKept(c, d)
         /\ HasRow(d, i)
         /\ SignaturesOf(i, d) = SignaturesOf(i, c) \cup {q.signature}
<1>0. /\ OnlyTable(c, d, Signatures)
      /\ Rows(d, Signatures) = Rows(c, Signatures) \cup {q}
  BY DEF SignatureAdded
<1>1. /\ Rows(d, "transfers") = Rows(c, "transfers")
      /\ Row(i) \in Rows(c, "transfers")
      /\ Row(i).id = i.id
  BY <1>0, RowFields DEF OnlyTable, Signatures, HasRow
<1>2. NoOrphans(d)
  BY <1>0, <1>1 DEF RowsOK, NoOrphans
<1>3. RowsOK(d)
  BY <1>0, <1>2, RowsStayOK DEF Signatures
<1>4. SameOthers(c, d, i)
  BY <1>0, <1>1, OthersStay DEF Own
<1>5. KeysKept(c, d)
  BY <1>0, KeysStay
<1>6. HasRow(d, i)
  BY <1>1 DEF HasRow
<1>7. SignaturesOf(i, d) = SignaturesOf(i, c) \cup {q.signature}
  BY <1>0, <1>1 DEF SignaturesOf, Signatures
<1> QED
  BY <1>3, <1>4, <1>5, <1>6, <1>7

\* The signatures of a transfer are deleted.
LEMMA SignaturesRemoved ==
  ASSUME NEW c, NEW d, NEW i \in Items, i.table = "transfers", RowsOK(c),
         OnlyTable(c, d, Signatures),
         Rows(d, Signatures) = {r \in Rows(c, Signatures) : r.id # Row(i).id}
  PROVE  /\ RowsOK(d)
         /\ SameOthers(c, d, i)
         /\ KeysKept(c, d)
         /\ HasRow(c, i) => HasRow(d, i)
         /\ SignaturesOf(i, d) = {}
<1>1. /\ Rows(d, "transfers") = Rows(c, "transfers")
      /\ Row(i).id = i.id
  BY RowFields DEF OnlyTable, Signatures
<1>2. NoOrphans(d)
  BY <1>1 DEF RowsOK, NoOrphans
<1>3. RowsOK(d)
  BY <1>2, RowsStayOK DEF Signatures
<1>4. SameOthers(c, d, i)
  BY <1>1, OthersStay DEF Own
<1>5. KeysKept(c, d)
  <2>1. \A j \in Items : j.table # Signatures
    BY ItemFacts
  <2> QED
    BY <2>1 DEF KeysKept, HasKey, OnlyTable
<1>6. HasRow(c, i) => HasRow(d, i)
  BY <1>1 DEF HasRow
<1>7. SignaturesOf(i, d) = {}
  BY <1>1 DEF SignaturesOf, Signatures
<1> QED
  BY <1>3, <1>4, <1>5, <1>6, <1>7

-----------------------------------------------------------------------------
(* One statement of a write.                                                 *)

\* The fields of the statements.
LEMMA StatementFields ==
  /\ \A kind, table, row :
       LET s == Statement(kind, table, row)
       IN s.kind = kind /\ s.table = table /\ s.row = row
  /\ \A kind, i :
       LET s == OwnStatement(kind, i)
       IN s.kind = kind /\ s.table = i.table /\ s.row = Row(i)
  /\ \A kind, i :
       LET s == SignatureStatement(kind, i)
       IN s.kind = kind /\ s.table = Signatures /\ s.row = Row(i)
  /\ \A i, n :
       LET s == SignatureInsert(i, n)
       IN /\ s.kind = "insert" /\ s.table = Signatures
          /\ s.row = [id |-> i.id, signature |-> i.signatures[n]]
  BY DEF Statement, OwnStatement, SignatureStatement, SignatureInsert

\* A write that is accepted changes its own table only.
LEMMA PerformWrites ==
  ASSUME NEW s, s.kind \in {"insert", "update", "delete"}, ~Rejected(s), Perform(s)
  PROVE  /\ ~StatementThrows
         /\ todo' = Tail(todo)
         /\ committed' = IF txn = "none" THEN current' ELSE committed
         /\ UNCHANGED <<engine, link, txn, queue, found>>
         /\ OnlyTable(current, current', s.table)
         /\ s.kind = "insert" =>
              Rows(current', s.table) = Rows(current, s.table) \cup {s.row}
         /\ s.kind = "update" =>
              Rows(current', s.table) =
                {IF r.id = s.row.id THEN s.row ELSE r : r \in Rows(current, s.table)}
         /\ s.kind = "delete" =>
              Rows(current', s.table) =
                {r \in Rows(current, s.table) : r.id # s.row.id}
         /\ s.kind = "insert" /\ s.table # Signatures =>
              \A r \in Rows(current, s.table) : r.id # s.row.id
<1>0. s.kind \notin {"create", "select_keys", "select", "select_all"}
  OBVIOUS
<1>1. SessionWrite(Written(s)) /\ UNCHANGED <<queue, found>> /\ todo' = Tail(todo)
  <2>1. todo' = Tail(todo)
    BY DEF Perform
  <2>2. SessionWrite(Written(s)) /\ UNCHANGED <<queue, found>>
    BY <1>0, Zenon DEF Perform
  <2> QED
    BY <2>1, <2>2
<1>2. s.table \in DOMAIN current
  BY <1>0 DEF Rejected
<1>3. /\ current' = Written(s)
      /\ ~StatementThrows
      /\ committed' = IF txn = "none" THEN current' ELSE committed
      /\ UNCHANGED <<engine, link, txn>>
  BY <1>1 DEF SessionWrite
<1>4. s.kind = "insert" /\ s.table # Signatures =>
        \A r \in Rows(current, s.table) : r.id # s.row.id
  BY DEF Rejected, Signatures
<1> QED
  BY <1>1, <1>2, <1>3, <1>4, WrittenRows

\* The effect of a statement that is accepted, in the five places it may be in.
WriteEffect(i, name) ==
  /\ RowsOK(current')
  /\ SameOthers(current, current', i)
  /\ Single(name) # "Delete" => KeysKept(current, current')
  /\ Single(name) = "Insert" => HasKey(current', i)

\* A statement that is accepted takes a write from one of those places to the next.
LEMMA WriteStep ==
  ASSUME item \in Items, RowsOK(current), Progress, todo # <<>>,
         Single(op.name) \in Writes,
         Single(op.name) = "Update" => HasKey(current, item),
         ~Rejected(Head(todo)), Perform(Head(todo)), UNCHANGED <<op, item>>
  PROVE  /\ Head(todo).kind \in {"insert", "update", "delete"}
         /\ WriteEffect(item, op.name)
         /\ Progress'
         /\ ~AtStart'
         /\ AtStart /\ Single(op.name) = "Insert" => ~HasKey(current, item)
<1> DEFINE i == item
           s == Head(todo)
<1>s. (Script(op.name, item))' = Script(op.name, item)
  BY DEF Script, Single, IdentityScript, WalletScript, WalletKeyScript,
         TransferScript, SignatureInserts, Row
<1>i. /\ i.table # Signatures /\ Row(i).id = i.id /\ Len(i.signatures) \in Nat
      /\ i.table # "transfers" => Len(i.signatures) = 0
  BY ItemFacts, RowFields
<1>h. HasRow(current', i) => HasKey(current', i)
  BY <1>i DEF HasRow, HasKey
<1>0. s.kind # "malformed"
  BY DEF Rejected
<1>d. s.kind = "delete" =>
        /\ todo' = Tail(todo)
        /\ OnlyTable(current, current', s.table)
        /\ Rows(current', s.table) = {r \in Rows(current, s.table) : r.id # s.row.id}
  BY PerformWrites
<1>1. CASE AtStart /\ Single(op.name) = "Insert"
  <2>1. s = OwnStatement("insert", i) /\ Tail(todo) = SignaturesFrom(i, 0)
    BY <1>1, InsertScript DEF AtStart
  <2>2. s.kind = "insert" /\ s.table = i.table /\ s.row = Row(i)
    BY <2>1, StatementFields
  <2>3. /\ todo' = SignaturesFrom(i, 0)
        /\ OnlyTable(current, current', i.table)
        /\ Rows(current', i.table) = Rows(current, i.table) \cup {Row(i)}
        /\ \A r \in Rows(current, i.table) : r.id # i.id
    BY <1>i, <2>1, <2>2, PerformWrites
  <2>4. ~HasKey(current, i)
    BY <2>3 DEF HasKey
  <2>5. /\ RowsOK(current')
        /\ SameOthers(current, current', i)
        /\ KeysKept(current, current')
        /\ HasRow(current', i)
        /\ i.table = "transfers" => SignaturesOf(i, current') = {}
    BY <2>3, <2>4, RowInserted
  <2>6. WriteEffect(item, op.name)
    BY <1>h, <2>5 DEF WriteEffect
  <2>7. Inserting'
    <3>1. FirstSignatures(i, 0) = {} /\ 0 \in 0..Len(i.signatures)
      BY <1>i DEF FirstSignatures
    <3> QED
      BY <1>1, <2>3, <2>5, <3>1 DEF Inserting
  <2>8. ~AtStart'
    <3> SUFFICES ASSUME AtStart' PROVE FALSE
      OBVIOUS
    <3>1. todo' = Script(op.name, i) /\ todo' # <<>> /\ Head(todo').table = i.table
      BY <1>s, <1>1, <2>1, <2>2, InsertScript DEF AtStart
    <3>2. 0 # Len(i.signatures) /\ 0 \in 0..Len(i.signatures)
      BY <1>i, <2>3, <3>1, Insertions
    <3>3. Head(todo') = SignatureInsert(i, 0 + 1)
      BY <2>3, <3>2, Insertions
    <3> QED
      BY <1>i, <3>1, <3>3, StatementFields
  <2> QED
    BY <2>2, <2>4, <2>6, <2>7, <2>8 DEF Progress
<1>2. CASE AtStart /\ Single(op.name) = "Update"
  <2>1. /\ s = OwnStatement("update", i)
        /\ Tail(todo) = IF i.table = "transfers"
                        THEN <<SignatureStatement("delete", i)>> \o SignatureInserts(i)
                        ELSE SignaturesFrom(i, 0)
    BY <1>0, <1>2, UpdateScript DEF AtStart
  <2>2. s.kind = "update" /\ s.table = i.table /\ s.row = Row(i)
    BY <2>1, StatementFields
  <2>3. /\ todo' = Tail(todo)
        /\ OnlyTable(current, current', i.table)
        /\ Rows(current', i.table) =
             {IF r.id = Row(i).id THEN Row(i) ELSE r : r \in Rows(current, i.table)}
    <3>1. /\ todo' = Tail(todo)
          /\ OnlyTable(current, current', s.table)
          /\ Rows(current', s.table) =
               {IF r.id = s.row.id THEN s.row ELSE r : r \in Rows(current, s.table)}
      BY <2>2, PerformWrites
    <3> HIDE DEF s
    <3> QED
      BY <2>2, <3>1
  <2>4. /\ RowsOK(current')
        /\ SameOthers(current, current', i)
        /\ KeysKept(current, current')
        /\ HasRow(current', i)
    BY <1>2, <2>3, RowReplaced
  <2>5. WriteEffect(item, op.name)
    BY <1>2, <2>4 DEF WriteEffect
  <2>6. Progress'
    <3>1. CASE i.table = "transfers"
      BY <1>2, <2>1, <2>3, <2>4, <3>1 DEF Progress, RowUpdated
    <3>2. CASE i.table # "transfers"
      <4>1. 0 \in 0..Len(i.signatures)
        BY <1>i
      <4> QED
        BY <1>2, <2>1, <2>3, <2>4, <3>2, <4>1 DEF Progress, Inserting
    <3> QED
      BY <3>1, <3>2
  <2>7. ~AtStart'
    <3> SUFFICES ASSUME AtStart' PROVE FALSE
      OBVIOUS
    <3>1. todo' = Script(op.name, i) /\ todo' # <<>> /\ Head(todo').kind = "update"
      BY <1>s, <1>2, <2>1, <2>2, UpdateScript DEF AtStart
    <3>2. CASE i.table = "transfers"
      <4>1. Head(todo') = SignatureStatement("delete", i)
        <5> DEFINE b == SignatureStatement("delete", i)
        <5>1. SignatureInserts(i) \in
                Seq({SignatureInsert(i, n) : n \in 1..Len(i.signatures)})
          BY <1>i, Insertions
        <5>2. todo' = <<b>> \o SignatureInserts(i)
          BY <2>1, <2>3, <3>2
        <5> HIDE DEF b
        <5> QED
          BY <5>1, <5>2, FirstOf DEF b
      <4> QED
        BY <3>1, <4>1, StatementFields
    <3>3. CASE i.table # "transfers"
      BY <1>i, <2>1, <2>3, <3>1, <3>3, Insertions
    <3> QED
      BY <3>2, <3>3
  <2> QED
    BY <1>2, <2>2, <2>5, <2>6, <2>7
<1>3. CASE AtStart /\ Single(op.name) = "Delete" /\ i.table = "transfers"
  <2>1. s = SignatureStatement("delete", i) /\ Tail(todo) = <<OwnStatement("delete", i)>>
    BY <1>3, DeleteScript DEF AtStart
  <2>2. s.kind = "delete" /\ s.table = Signatures /\ s.row = Row(i)
    BY <2>1, StatementFields
  <2>3. /\ todo' = Tail(todo)
        /\ OnlyTable(current, current', Signatures)
        /\ Rows(current', Signatures) =
             {r \in Rows(current, Signatures) : r.id # Row(i).id}
    <3>1. /\ todo' = Tail(todo)
          /\ OnlyTable(current, current', s.table)
          /\ Rows(current', s.table) =
               {r \in Rows(current, s.table) : r.id # s.row.id}
      BY <1>d, <2>2
    <3> HIDE DEF s
    <3> QED
      BY <2>1, <2>2, <3>1
  <2>4. /\ RowsOK(current')
        /\ SameOthers(current, current', i)
        /\ SignaturesOf(i, current') = {}
    BY <1>3, <2>3, SignaturesRemoved
  <2>5. WriteEffect(item, op.name)
    BY <1>3, <2>4 DEF WriteEffect
  <2>6. Progress'
    BY <1>3, <2>1, <2>3, <2>4 DEF Progress, SignaturesDeleted
  <2>7. ~AtStart'
    <3> SUFFICES ASSUME AtStart' PROVE FALSE
      OBVIOUS
    <3>1. todo' = Script(op.name, i) /\ Head(todo').table = Signatures
      BY <1>s, <1>3, <2>1, <2>2, DeleteScript DEF AtStart
    <3> DEFINE a == OwnStatement("delete", i)
    <3>2. a.table = i.table
      BY StatementFields
    <3>3. todo' = <<a>>
      BY <2>1, <2>3
    <3> HIDE DEF a
    <3>4. Head(todo') = a
      BY <3>3
    <3> QED
      BY <1>i, <3>1, <3>2, <3>4
  <2> QED
    BY <1>3, <2>2, <2>5, <2>6, <2>7
<1>4. CASE \/ AtStart /\ Single(op.name) = "Delete" /\ i.table # "transfers"
           \/ SignaturesDeleted
  <2>1. s = OwnStatement("delete", i) /\ Tail(todo) = <<>> /\ Single(op.name) = "Delete"
    <3>1. CASE AtStart /\ Single(op.name) = "Delete" /\ i.table # "transfers"
      BY <3>1, DeleteScript DEF AtStart
    <3>2. CASE SignaturesDeleted
      <4> DEFINE a == OwnStatement("delete", i)
      <4>1. todo = <<a>> /\ Single(op.name) = "Delete"
        BY <3>2 DEF SignaturesDeleted
      <4> HIDE DEF a
      <4> QED
        BY <4>1 DEF a
    <3> QED
      BY <1>4, <3>1, <3>2
  <2>2. s.kind = "delete" /\ s.table = i.table /\ s.row = Row(i)
    BY <2>1, StatementFields
  <2>3. /\ todo' = <<>>
        /\ OnlyTable(current, current', i.table)
        /\ Rows(current', i.table) = {r \in Rows(current, i.table) : r.id # Row(i).id}
    <3>1. /\ todo' = Tail(todo)
          /\ OnlyTable(current, current', s.table)
          /\ Rows(current', s.table) =
               {r \in Rows(current, s.table) : r.id # s.row.id}
      BY <1>d, <2>2
    <3> HIDE DEF s
    <3> QED
      BY <2>1, <2>2, <3>1
  <2>4. i.table = "transfers" => SignaturesOf(i, current) = {}
    BY <1>4 DEF SignaturesDeleted
  <2>5. RowsOK(current') /\ SameOthers(current, current', i) /\ ~HasKey(current', i)
    BY <2>3, <2>4, RowRemoved
  <2>6. WriteEffect(item, op.name)
    BY <2>1, <2>5 DEF WriteEffect
  <2>7. Progress'
    BY <2>1, <2>3, <2>5 DEF Progress, RowDeleted
  <2>8. ~AtStart'
    BY <1>s, <2>1, <2>3, DeleteScript DEF AtStart
  <2> QED
    BY <2>1, <2>2, <2>6, <2>7, <2>8
<1>5. CASE RowUpdated
  <2> DEFINE b == SignatureStatement("delete", i)
  <2>0. /\ i.table = "transfers" /\ HasRow(current, i)
        /\ Single(op.name) = "Update"
        /\ todo = <<b>> \o SignatureInserts(i)
    BY <1>5 DEF RowUpdated
  <2>1. s = b /\ Tail(todo) = SignaturesFrom(i, 0)
    <3>1. SignaturesFrom(i, 0) \in
            Seq({SignatureInsert(i, n) : n \in 1..Len(i.signatures)})
      BY <1>i, Insertions
    <3> HIDE DEF b
    <3> QED
      BY <2>0, <3>1, FirstOf, Insertions
  <2>2. s.kind = "delete" /\ s.table = Signatures /\ s.row = Row(i)
    BY <2>1, StatementFields
  <2>3. /\ todo' = SignaturesFrom(i, 0)
        /\ OnlyTable(current, current', Signatures)
        /\ Rows(current', Signatures) =
             {r \in Rows(current, Signatures) : r.id # Row(i).id}
    <3>1. /\ todo' = Tail(todo)
          /\ OnlyTable(current, current', s.table)
          /\ Rows(current', s.table) =
               {r \in Rows(current, s.table) : r.id # s.row.id}
      BY <1>d, <2>2
    <3> HIDE DEF s
    <3> QED
      BY <2>1, <2>2, <3>1
  <2>4. /\ RowsOK(current')
        /\ SameOthers(current, current', i)
        /\ KeysKept(current, current')
        /\ HasRow(current', i)
        /\ SignaturesOf(i, current') = {}
    BY <2>0, <2>3, SignaturesRemoved
  <2>5. WriteEffect(item, op.name)
    BY <1>h, <2>4 DEF WriteEffect
  <2>6. Inserting'
    <3>1. FirstSignatures(i, 0) = {} /\ 0 \in 0..Len(i.signatures)
      BY <1>i DEF FirstSignatures
    <3> QED
      BY <2>0, <2>3, <2>4, <3>1 DEF Inserting
  <2>7. ~AtStart'
    <3> SUFFICES ASSUME AtStart' PROVE FALSE
      OBVIOUS
    <3>1. /\ todo' # <<>>
          /\ \/ Head(todo').kind = "malformed"
             \/ Head(todo') = OwnStatement("update", i)
      BY <1>s, <2>0, UpdateScript DEF AtStart
    <3>2. 0 # Len(i.signatures) /\ 0 \in 0..Len(i.signatures)
      BY <1>i, <2>3, <3>1, Insertions
    <3>3. Head(todo') = SignatureInsert(i, 0 + 1)
      BY <2>3, <3>2, Insertions
    <3> QED
      BY <3>1, <3>3, StatementFields
  <2> QED
    BY <2>0, <2>2, <2>5, <2>6, <2>7 DEF Progress
<1>6. CASE Inserting
  <2>1. PICK m \in 0..Len(i.signatures) :
          /\ todo = SignaturesFrom(i, m)
          /\ i.table = "transfers" => SignaturesOf(i, current) = FirstSignatures(i, m)
    BY <1>6 DEF Inserting
  <2>2. /\ m # Len(i.signatures)
        /\ s = SignatureInsert(i, m + 1)
        /\ Tail(todo) = SignaturesFrom(i, m + 1)
    BY <2>1, Insertions
  <2>3. i.table = "transfers" /\ m + 1 \in 0..Len(i.signatures)
    BY <1>i, <2>1, <2>2
  <2>4. /\ s.kind = "insert" /\ s.table = Signatures
        /\ s.row = [id |-> i.id, signature |-> i.signatures[m + 1]]
    BY <2>2, StatementFields
  <2>5. /\ todo' = SignaturesFrom(i, m + 1)
        /\ OnlyTable(current, current', Signatures)
        /\ Rows(current', Signatures) = Rows(current, Signatures)
             \cup {[id |-> i.id, signature |-> i.signatures[m + 1]]}
    BY <2>2, <2>4, PerformWrites
  <2>6. HasRow(current, i) /\ Single(op.name) \in {"Insert", "Update"}
    BY <1>6 DEF Inserting
  <2>7. /\ RowsOK(current')
        /\ SameOthers(current, current', i)
        /\ KeysKept(current, current')
        /\ HasRow(current', i)
        /\ SignaturesOf(i, current')
             = SignaturesOf(i, current) \cup {i.signatures[m + 1]}
    <3>1. s.row.id = i.id /\ s.row.signature = i.signatures[m + 1]
      BY <2>4
    <3>2. Rows(current', Signatures) = Rows(current, Signatures) \cup {s.row}
      BY <2>4, <2>5
    <3> DEFINE q == s.row
    <3> HIDE DEF q
    <3>3. /\ RowsOK(current')
          /\ SameOthers(current, current', i)
          /\ KeysKept(current, current')
          /\ HasRow(current', i)
          /\ SignaturesOf(i, current') = SignaturesOf(i, current) \cup {q.signature}
      <4>1. q.id = i.id /\ SignatureAdded(current, current', q)
        BY <2>5, <3>1, <3>2 DEF q, SignatureAdded
      <4> QED
        BY <2>3, <2>6, <4>1, SignatureInserted
    <3> QED
      BY <3>1, <3>3 DEF q
  <2>8. WriteEffect(item, op.name)
    BY <1>h, <2>7 DEF WriteEffect
  <2>9. Inserting'
    <3>1. FirstSignatures(i, m + 1) = FirstSignatures(i, m) \cup {i.signatures[m + 1]}
      <4>1. \A n : n \in 1..(m + 1) <=> n \in 1..m \/ n = m + 1
        BY <2>1, <1>i
      <4> QED
        BY <4>1 DEF FirstSignatures
    <3> QED
      BY <2>1, <2>3, <2>5, <2>6, <2>7, <3>1 DEF Inserting
  <2>10. ~AtStart'
    <3> SUFFICES ASSUME AtStart' PROVE FALSE
      OBVIOUS
    <3>1. /\ todo' # <<>>
          /\ \/ Head(todo').kind \in {"malformed", "update"}
             \/ Head(todo').table = i.table
      <4>1. todo' = Script(op.name, i)
        BY <1>s DEF AtStart
      <4>2. CASE Single(op.name) = "Insert"
        BY <4>1, <4>2, InsertScript, StatementFields
      <4>3. CASE Single(op.name) = "Update"
        <5>1. /\ todo' # <<>>
              /\ \/ Head(todo').kind = "malformed"
                 \/ Head(todo') = OwnStatement("update", i)
          BY <4>1, <4>3, UpdateScript
        <5> QED
          BY <5>1, StatementFields
      <4> QED
        BY <2>6, <4>2, <4>3
    <3>2. m + 1 # Len(i.signatures)
      BY <2>3, <2>5, <3>1, Insertions
    <3>3. Head(todo') = SignatureInsert(i, (m + 1) + 1)
      BY <2>3, <2>5, <3>2, Insertions
    <3> QED
      BY <1>i, <3>1, <3>3, StatementFields
  <2>11. AtStart /\ Single(op.name) = "Insert" => FALSE
    <3> SUFFICES ASSUME AtStart, Single(op.name) = "Insert" PROVE FALSE
      OBVIOUS
    <3>1. s.table = i.table
      BY InsertScript, StatementFields DEF AtStart
    <3> QED
      BY <1>i, <2>4, <3>1
  <2> QED
    BY <2>4, <2>8, <2>9, <2>10, <2>11 DEF Progress
<1>7. ~RowDeleted
  BY DEF RowDeleted
<1> QED
  BY <1>1, <1>2, <1>3, <1>4, <1>5, <1>6, <1>7 DEF Progress, Writes

-----------------------------------------------------------------------------
(* What every step shares.                                                   *)

\* The single forms, and those the bulk forms repeat.
LEMMA SingleForms ==
  /\ \A name \in Writes \cup Reads : Single(name) = name
  /\ Single("InsertAll") = "Insert"
  /\ Single("UpdateAll") = "Update"
  /\ Single("DeleteAll") = "Delete"
  BY DEF Single, Writes, Reads

\* An operation that is through with its entity has had its effect on it.
LEMMA Finished ==
  ASSUME item \in Items, Progress, todo = <<>>, Single(op.name) \in Writes
  PROVE  /\ Single(op.name) \in {"Insert", "Update"} => item \in Whole(current)
         /\ Single(op.name) = "Delete" => ~HasKey(current, item)
<1>1. ~AtStart
  BY InsertScript, UpdateScript, DeleteScript DEF AtStart, Writes
<1>2. ~RowUpdated
  <2> SUFFICES ASSUME RowUpdated PROVE FALSE
    OBVIOUS
  <2> DEFINE b == SignatureStatement("delete", item)
  <2>1. todo = <<b>> \o SignatureInserts(item)
    BY DEF RowUpdated
  <2>2. SignatureInserts(item) \in
          Seq({SignatureInsert(item, n) : n \in 1..Len(item.signatures)})
    BY ItemFacts, Insertions
  <2> HIDE DEF b
  <2> QED
    BY <2>1, <2>2, FirstOf
<1>3. ~SignaturesDeleted
  <2> SUFFICES ASSUME SignaturesDeleted PROVE FALSE
    OBVIOUS
  <2> DEFINE a == OwnStatement("delete", item)
  <2>1. todo = <<a>>
    BY DEF SignaturesDeleted
  <2> HIDE DEF a
  <2> QED
    BY <2>1
<1>4. CASE Inserting
  <2>1. PICK m \in 0..Len(item.signatures) :
          /\ todo = SignaturesFrom(item, m)
          /\ item.table = "transfers" =>
               SignaturesOf(item, current) = FirstSignatures(item, m)
    BY <1>4 DEF Inserting
  <2>2. m = Len(item.signatures)
    BY <2>1, Insertions
  <2>3. FirstSignatures(item, m) = Range(item.signatures)
    BY <2>2, ItemFacts DEF FirstSignatures, Range
  <2>4. item \in Whole(current)
    BY <1>4, <2>1, <2>3 DEF Inserting, HasRow, Whole
  <2> QED
    BY <1>4, <2>4 DEF Inserting
<1>5. CASE RowDeleted
  BY <1>5 DEF RowDeleted
<1> QED
  BY <1>1, <1>2, <1>3, <1>4, <1>5 DEF Progress

\* Contents that differ in tables without rows only.
LEMMA SameRowsFacts ==
  ASSUME NEW c, NEW d, SameRows(c, d)
  PROVE  /\ \A t : Rows(c, t) = Rows(d, t)
         /\ Whole(c) = Whole(d)
         /\ \A t : StoredRows(t, c) = StoredRows(t, d)
         /\ \A i : HasKey(c, i) <=> HasKey(d, i)
<1>1. \A t : Rows(c, t) = Rows(d, t)
  BY DEF SameRows, Rows
<1>2. \A i : SignaturesOf(i, c) = SignaturesOf(i, d)
  BY <1>1 DEF SignaturesOf
<1>3. Whole(c) = Whole(d)
  BY <1>1, <1>2 DEF Whole
<1>4. \A t : StoredRows(t, c) = StoredRows(t, d)
  BY <1>1 DEF StoredRows
<1> QED
  BY <1>1, <1>3, <1>4 DEF HasKey

\* Contents with the same rows in every table have the same rows.
LEMMA SameRowsIfAll ==
  ASSUME NEW c, NEW d, \A t : Rows(c, t) = Rows(d, t)
  PROVE  SameRows(c, d)
  BY DEF SameRows

\* The session stays in a state it may be in.
LEMMA SessionStays ==
  ASSUME SessionTypeOK({current, committed}), NEW contents,
         \/ SessionBegin \/ SessionCommit \/ SessionRollback
         \/ StatementRejected \/ StatementError \/ CommitError
         \/ Disconnect \/ CommitAnswerLost \/ SessionReopen
         \/ SessionWrite(contents) \/ SessionDefine(contents)
         \/ UNCHANGED session
  PROVE  SessionTypeOK({current, committed})'
<1> USE DEF SessionTypeOK, StatementThrows
<1>1. CASE SessionBegin \/ SessionCommit \/ SessionRollback
  BY <1>1 DEF SessionBegin, SessionCommit, SessionRollback, BeginThrows, EndThrows
<1>2. CASE StatementRejected \/ StatementError \/ CommitError
  BY <1>2 DEF StatementRejected, StatementError, CommitError, Abandon,
              KeepTransaction, session
<1>3. CASE Disconnect \/ CommitAnswerLost \/ SessionReopen
  BY <1>3 DEF Disconnect, CommitAnswerLost, SessionReopen
<1>4. CASE SessionWrite(contents) \/ SessionDefine(contents)
  BY <1>4 DEF SessionWrite, SessionDefine
<1>5. CASE UNCHANGED session
  BY <1>5 DEF session
<1> QED
  BY <1>1, <1>2, <1>3, <1>4, <1>5

\* What is not a write leaves contents that have been there.
LEMMA ContentsKept ==
  ASSUME ContentsInv,
         \/ SessionBegin \/ SessionCommit \/ SessionRollback
         \/ StatementRejected \/ StatementError \/ CommitError
         \/ Disconnect \/ CommitAnswerLost \/ SessionReopen
         \/ UNCHANGED session
  PROVE  ContentsInv'
<1>1. current' \in {current, committed} /\ committed' \in {current, committed}
  BY DEF SessionBegin, SessionCommit, SessionRollback, StatementRejected,
         StatementError, CommitError, Abandon, KeepTransaction, Disconnect,
         CommitAnswerLost, SessionReopen, session
<1> QED
  BY <1>1 DEF ContentsInv

\* The last operation's result stays what it was.
LEMMA LastKept ==
  ASSUME DoneInv, ReadDoneInv, SameRows(committed, committed'),
         last' \in {last, NothingYet}
  PROVE  DoneInv' /\ ReadDoneInv'
<1>1. CASE last' = NothingYet
  BY <1>1 DEF NothingYet, NoOp, DoneInv, ReadDoneInv
<1>2. CASE last' = last
  <2>1. /\ \A t : Rows(committed, t) = Rows(committed', t)
        /\ Whole(committed) = Whole(committed')
        /\ \A t : StoredRows(t, committed) = StoredRows(t, committed')
    BY SameRowsFacts
  <2>2. DoneInv'
    BY <1>2, <2>1 DEF DoneInv
  <2>3. ReadDoneInv'
    BY <1>2, <2>1 DEF ReadDoneInv
  <2> QED
    BY <2>2, <2>3
<1> QED
  BY <1>1, <1>2

\* A new operation has not promised anything yet.
LEMMA LastNothing ==
  ASSUME last' = NothingYet
  PROVE  DoneInv' /\ ReadDoneInv'
  BY DEF NothingYet, NoOp, DoneInv, ReadDoneInv

\* Between operations there is little to say.
LEMMA RowsInvIdle ==
  ASSUME pc' \in {"idle", "down"}, queue' = <<>>, found' = {}, txn' = "none",
         SessionTypeOK({current, committed})', ContentsInv', DoneInv', ReadDoneInv',
         CreatingInv'
  PROVE  RowsInv'
  BY DEF RowsInv, CallInv, TxnInv, KeyInv, WriteInv, ReadInv

\* CreateTable returns: the table is the first still to be created.
LEMMA CreatingReturns ==
  ASSUME SchemaInv, CreatingInv, creating # <<>>, item = Blank(Head(creating)),
         NEW result, ReturnToStartup(result)
  PROVE  CreatingInv'
<1>1. /\ creating \in Seq(Tables)
      /\ Tail(creating) \in Seq(Tables)
      /\ Range(creating) = {Head(creating)} \cup Range(Tail(creating))
      /\ Head(creating) \in Tables
  BY RangeOfTail DEF SchemaInv
<1>2. /\ creating' = Tail(creating)
      /\ failed' \in {failed, failed \cup {Head(creating)}}
  <2>1. item.table = Head(creating)
    BY DEF Blank
  <2> QED
    BY <2>1 DEF ReturnToStartup
<1>3. /\ DOMAIN creating = 1..Len(creating) /\ Len(creating) \in Nat \ {0}
      /\ DOMAIN Tail(creating) = 1..Len(Tail(creating))
      /\ Len(Tail(creating)) = Len(creating) - 1
      /\ \A n \in 1..Len(Tail(creating)) : Tail(creating)[n] = creating[n + 1]
      /\ Head(creating) = creating[1]
  BY <1>1
<1>4. \A m, n \in DOMAIN Tail(creating) :
        Tail(creating)[m] = Tail(creating)[n] => m = n
  <2> SUFFICES ASSUME NEW m \in DOMAIN Tail(creating), NEW n \in DOMAIN Tail(creating),
                      Tail(creating)[m] = Tail(creating)[n]
               PROVE  m = n
    OBVIOUS
  <2>1. /\ m + 1 \in DOMAIN creating /\ n + 1 \in DOMAIN creating
        /\ creating[m + 1] = creating[n + 1]
    BY <1>3
  <2>2. m + 1 = n + 1
    BY <2>1 DEF CreatingInv
  <2> QED
    BY <1>3, <2>2
<1>5. Head(creating) \notin Range(Tail(creating))
  <2> SUFFICES ASSUME NEW n \in DOMAIN Tail(creating), Tail(creating)[n] = Head(creating)
               PROVE  FALSE
    BY DEF Range
  <2>1. n + 1 \in DOMAIN creating /\ 1 \in DOMAIN creating /\ creating[n + 1] = creating[1]
    BY <1>3
  <2>2. n + 1 = 1
    BY <2>1 DEF CreatingInv
  <2> QED
    BY <1>3, <2>2
<1>6. Range(CreatedTables) = Tables
  BY CreatedTablesAre
<1> QED
  BY <1>1, <1>2, <1>4, <1>5, <1>6 DEF CreatingInv, CreatedTables

\* An operation returns that has changed what it says it has.
LEMMA ReturnRows ==
  ASSUME RowsInv, SchemaInv, pc \in {"begin", "run", "rollback"},
         op.name \in Writes \cup Bulk \cup {"CreateTable"},
         NEW result, Return(result), txn' = "none",
         SessionTypeOK({current, committed})', ContentsInv',
         op.name = "CreateTable" => SameRows(committed, committed'),
         result = "done" /\ op.name \in {"Insert", "Update"} =>
           item \in Whole(committed'),
         result = "done" /\ op.name = "Delete" => ~HasKey(committed', item)
  PROVE  RowsInv'
<1>1. CASE op.name = "CreateTable"
  <2>1. ReturnToStartup(result)
    BY <1>1 DEF Return
  <2>2. CreatingInv'
    BY <1>1, <2>1, CreatingReturns DEF RowsInv, SchemaInv
  <2>3. DoneInv' /\ ReadDoneInv'
    BY <1>1, <2>1, LastKept DEF RowsInv, ReturnToStartup
  <2>4. pc' \in {"idle", "down"} /\ queue' = <<>> /\ found' = {}
    BY <2>1 DEF ReturnToStartup, Reset
  <2> QED
    BY <2>2, <2>3, <2>4, RowsInvIdle
<1>2. CASE op.name # "CreateTable"
  <2>1. /\ pc' = "idle" /\ queue' = <<>> /\ found' = {}
        /\ last' = [op |-> op, result |-> result, rows |-> {}]
        /\ UNCHANGED startup
    BY <1>2 DEF Return, ReturnToCaller, Reset
  <2>2. CreatingInv'
    BY <2>1 DEF RowsInv, CreatingInv, startup, CreatedTables
  <2>3. last'.op = op /\ last'.result = result
    BY <2>1
  <2>4. ReadDoneInv'
    BY <1>2, <2>3 DEF ReadDoneInv, Writes, Bulk
  <2>5. DoneInv'
    <3>1. op.name \in Writes => op.items = {item}
      BY <1>2 DEF RowsInv, CallInv
    <3>2. op.name = "Delete" /\ result = "done" =>
            \A r \in Rows(committed', item.table) : r.id # item.id
      BY DEF HasKey
    <3> QED
      BY <2>3, <3>1, <3>2 DEF DoneInv, Writes
  <2> QED
    BY <2>1, <2>2, <2>4, <2>5, RowsInvIdle
<1> QED
  BY <1>1, <1>2

-----------------------------------------------------------------------------
(* The invariant is inductive: the actions before and after the statements.  *)

\* initializeDatabase turns to the next table.
LEMMA RowsCreateTable ==
  ASSUME RowsInv, CreateTable
  PROVE  RowsInv'
<1>1. /\ UNCHANGED session /\ UNCHANGED startup /\ UNCHANGED <<last, queue, found>>
      /\ pc = "idle" /\ pc' = "begin" /\ op'.name = "CreateTable"
  BY DEF CreateTable
<1>2. SessionTypeOK({current, committed})' /\ ContentsInv'
  BY <1>1, SessionStays, ContentsKept DEF RowsInv, TxnInv
<1>3. DoneInv' /\ ReadDoneInv'
  BY <1>1, LastKept DEF RowsInv, session, SameRows
<1>4. CreatingInv'
  BY <1>1 DEF RowsInv, CreatingInv, startup, CreatedTables
<1>5. CallInv' /\ TxnInv'
  BY <1>1, <1>2 DEF RowsInv, CallInv, TxnInv, session, Writes
<1>6. KeyInv' /\ WriteInv' /\ ReadInv'
  BY <1>1 DEF KeyInv, WriteInv, ReadInv
<1> QED
  BY <1>2, <1>3, <1>4, <1>5, <1>6 DEF RowsInv

\* A single form, or a read, is called.
LEMMA RowsCall ==
  ASSUME RowsInv, Call
  PROVE  RowsInv'
<1>1. PICK name \in Operations \ Bulk, i \in Items :
        /\ Permitted(name, i)
        /\ op' = [name |-> name, items |-> {i}]
        /\ item' = i
        /\ IF name \in Reads
           THEN pc' = "run" /\ todo' = Script(name, i)
           ELSE pc' = "begin" /\ UNCHANGED todo
  BY DEF Call
<1>2. /\ UNCHANGED session /\ UNCHANGED startup /\ UNCHANGED <<queue, found>>
      /\ pc = "idle" /\ last' = NothingYet
      /\ op'.name = name /\ op'.items = {i}
  BY <1>1 DEF Call
<1>3. UNCHANGED <<engine, link, txn, committed, current>>
  BY <1>2 DEF session
<1>4. name \in Writes \cup Reads
  BY OperationsAssumption DEF Writes, Reads, Bulk
<1>5. /\ queue = <<>> /\ found = {} /\ txn = "none" /\ current = committed
  BY <1>2 DEF RowsInv, CallInv, TxnInv, SessionTypeOK
<1>6. SessionTypeOK({current, committed})' /\ ContentsInv'
  BY <1>2, SessionStays, ContentsKept DEF RowsInv, TxnInv
<1>7. DoneInv' /\ ReadDoneInv'
  BY <1>2, LastNothing
<1>8. CreatingInv'
  BY <1>2 DEF RowsInv, CreatingInv, startup, CreatedTables
<1>9. CASE name \in Reads
  <2>1. name \notin Writes /\ name \notin Bulk /\ name # "CreateTable"
    BY <1>9 DEF Reads, Writes, Bulk
  <2>2. pc' = "run" /\ todo' = Script(name, i)
    BY <1>1, <1>9
  <2>3. CallInv' /\ TxnInv'
    BY <1>2, <1>3, <1>5, <1>6, <1>9, <2>1, <2>2 DEF CallInv, TxnInv
  <2>4. KeyInv' /\ WriteInv'
    BY <1>2, <1>9, <2>1 DEF KeyInv, WriteInv, Reads
  <2>5. ReadInv'
    <3>1. item'.table \in Tables
      BY <1>1, ItemFacts
    <3>2. (Script(op.name, item))' = Script(name, i)
      BY <1>1, <1>2
    <3>3. \A j \in op'.items : j \in Items /\ j.table = item'.table
      BY <1>1, <1>2
    <3> QED
      BY <1>2, <1>5, <2>2, <3>1, <3>2, <3>3 DEF ReadInv
  <2> QED
    BY <1>6, <1>7, <1>8, <2>3, <2>4, <2>5 DEF RowsInv
<1>10. CASE name \notin Reads
  <2>1. pc' = "begin" /\ name \in Writes
    BY <1>1, <1>4, <1>10
  <2>2. CallInv' /\ TxnInv'
    BY <1>1, <1>2, <1>3, <1>5, <1>6, <2>1 DEF CallInv, TxnInv
  <2>3. KeyInv'
    <3>1. name = "Update" => HasKey(committed', i)
      BY <1>1, <1>3, <1>5 DEF Permitted, HasKey
    <3> QED
      BY <1>1, <1>2, <2>1, <3>1 DEF KeyInv
  <2>4. WriteInv' /\ ReadInv'
    BY <2>1 DEF WriteInv, ReadInv
  <2> QED
    BY <1>6, <1>7, <1>8, <2>2, <2>3, <2>4 DEF RowsInv
<1> QED
  BY <1>9, <1>10

\* The transaction is begun, or BEGIN throws.
LEMMA RowsBegin ==
  ASSUME RowsInv, SchemaInv, Begin
  PROVE  RowsInv'
<1>0. /\ pc = "begin" /\ txn = "none" /\ current = committed
      /\ op.name \in Writes \cup {"CreateTable"}
  BY DEF RowsInv, CallInv, TxnInv, SessionTypeOK, Begin
<1>1. CASE Return("exception") /\ UNCHANGED session
  <2>1. SessionTypeOK({current, committed})' /\ ContentsInv'
    BY <1>1, SessionStays, ContentsKept DEF RowsInv, TxnInv
  <2>2. txn' = "none" /\ SameRows(committed, committed')
    BY <1>0, <1>1 DEF session, SameRows
  <2> QED
    BY <1>0, <1>1, <2>1, <2>2, ReturnRows
<1>2. CASE /\ SessionBegin
           /\ pc' = "run"
           /\ todo' = Script(op.name, item)
           /\ UNCHANGED <<startup, op, item, queue, found, last>>
  <2>1. SessionTypeOK({current, committed})' /\ ContentsInv'
    BY <1>2, SessionStays, ContentsKept DEF RowsInv, TxnInv
  <2>2. txn' = "open" /\ current' = current /\ committed' = committed /\ UNCHANGED link
    BY <1>0, <1>2 DEF SessionBegin
  <2>3. (Script(op.name, item))' = Script(op.name, item)
    BY <1>2 DEF Script, Single, IdentityScript, WalletScript, WalletKeyScript,
                TransferScript, SignatureInserts, Row
  <2>4. op.name \notin Bulk /\ op.name \notin Reads
    BY <1>0 DEF Writes, Bulk, Reads
  <2>5. DoneInv' /\ ReadDoneInv'
    BY <1>2, <2>2, LastKept DEF RowsInv, SameRows
  <2>6. CreatingInv'
    BY <1>2 DEF RowsInv, CreatingInv, startup, CreatedTables
  <2>7. CallInv' /\ TxnInv'
    BY <1>0, <1>2, <2>1, <2>2, <2>4 DEF RowsInv, CallInv, TxnInv
  <2>8. KeyInv'
    BY <1>0, <1>2, <2>2, <2>4 DEF RowsInv, KeyInv, Writes
  <2>9. WriteInv'
    <3>1. SameRows(current', committed') /\ SameOthers(current', committed', item')
      BY <1>0, <2>2 DEF SameRows, SameOthers
    <3>2. AtStart'
      BY <1>2, <2>3 DEF AtStart
    <3>3. Progress'
      BY <3>2 DEF Progress
    <3> QED
      BY <1>0, <1>2, <2>2, <2>4, <3>1, <3>2, <3>3 DEF WriteInv
  <2>10. ReadInv'
    BY <1>2, <2>4 DEF ReadInv
  <2> QED
    BY <2>1, <2>5, <2>6, <2>7, <2>8, <2>9, <2>10 DEF RowsInv
<1> QED
  BY <1>1, <1>2 DEF Begin

\* What a COMMIT makes durable: nothing new of a table created, the effect of a
\* write.
LEMMA ReadyToCommit ==
  ASSUME RowsInv, pc = "run", op.name \notin Bulk \cup Reads, todo = <<>>, link = "up"
  PROVE  /\ op.name \in Writes \cup {"CreateTable"}
         /\ op.name = "CreateTable" => SameRows(committed, current)
         /\ op.name \in {"Insert", "Update"} => item \in Whole(current)
         /\ op.name = "Delete" => ~HasKey(current, item)
<1>1. op.name \in Writes \cup {"CreateTable"}
  BY DEF RowsInv, CallInv
<1>2. op.name = "CreateTable" => SameRows(committed, current)
  BY DEF RowsInv, WriteInv, SameRows
<1>3. CASE op.name \in Writes
  <2>1. item \in Items /\ Progress /\ Single(op.name) = op.name
    BY <1>3, SingleForms DEF RowsInv, CallInv, WriteInv
  <2>2. "CreateTable" \notin Writes
    BY DEF Writes
  <2> QED
    BY <1>3, <2>1, <2>2, Finished
<1> QED
  BY <1>1, <1>2, <1>3 DEF Writes

\* The transaction is committed, or COMMIT fails, or its answer is lost.
LEMMA RowsCommit ==
  ASSUME RowsInv, SchemaInv, Commit
  PROVE  RowsInv'
<1>0. /\ pc = "run" /\ op.name \in Writes \cup {"CreateTable"}
      /\ op.name \notin Bulk \cup Reads /\ todo = <<>>
  BY DEF RowsInv, CallInv, Commit
<1>1. SessionTypeOK({current, committed})' /\ ContentsInv'
  <2>1. \/ SessionCommit \/ CommitError \/ CommitAnswerLost \/ UNCHANGED session
    BY DEF Commit
  <2> QED
    BY <2>1, SessionStays, ContentsKept DEF RowsInv, TxnInv
<1>2. CASE SessionCommit /\ Return("done")
  <2>1. link = "up" /\ committed' = current /\ txn' = "none"
    BY <1>2 DEF SessionCommit, EndThrows, RowsInv, TxnInv, SessionTypeOK
  <2>2. /\ op.name = "CreateTable" => SameRows(committed, current)
        /\ op.name \in {"Insert", "Update"} => item \in Whole(current)
        /\ op.name = "Delete" => ~HasKey(current, item)
    BY <1>0, <2>1, ReadyToCommit
  <2> QED
    BY <1>0, <1>1, <1>2, <2>1, <2>2, ReturnRows
<1>3. CASE /\ \/ UNCHANGED session \/ CommitError \/ CommitAnswerLost
           /\ pc' = "rollback"
           /\ UNCHANGED <<startup, call, last>>
  <2>1. committed' \in {committed, current}
    BY <1>3 DEF session, CommitError, CommitAnswerLost, Abandon, KeepTransaction
  <2>2. op.name = "CreateTable" => SameRows(committed, committed')
    BY <2>1 DEF RowsInv, WriteInv, SameRows, Commit
  <2>3. DoneInv' /\ ReadDoneInv'
    <3>1. CASE op.name = "CreateTable"
      BY <1>3, <2>2, <3>1, LastKept DEF RowsInv
    <3>2. CASE op.name # "CreateTable"
      BY <1>0, <1>3, <3>2, LastNothing DEF RowsInv, CallInv
    <3> QED
      BY <3>1, <3>2
  <2>4. CreatingInv'
    BY <1>3 DEF RowsInv, CreatingInv, startup, CreatedTables
  <2>5. CallInv' /\ TxnInv'
    BY <1>0, <1>1, <1>3 DEF RowsInv, CallInv, TxnInv, call
  <2>6. KeyInv' /\ WriteInv' /\ ReadInv'
    BY <1>3 DEF KeyInv, WriteInv, ReadInv
  <2> QED
    BY <1>1, <2>3, <2>4, <2>5, <2>6 DEF RowsInv
<1> QED
  BY <1>2, <1>3 DEF Commit

\* The catch block rolls back, or that throws too.
LEMMA RowsRollback ==
  ASSUME RowsInv, SchemaInv, Rollback
  PROVE  RowsInv'
<1>0. pc = "rollback" /\ op.name \in Writes \cup {"CreateTable"}
  BY DEF RowsInv, CallInv, Rollback
<1>1. PICK result \in {"failed", "exception"} : Return(result)
  BY DEF Rollback
<1>2. SessionRollback \/ (EndThrows /\ UNCHANGED session)
  BY DEF Rollback
<1>3. txn' = "none" /\ committed' = committed
  BY <1>2 DEF SessionRollback, EndThrows, session, RowsInv, TxnInv, SessionTypeOK
<1>4. SessionTypeOK({current, committed})' /\ ContentsInv'
  BY <1>2, SessionStays, ContentsKept DEF RowsInv, TxnInv
<1> QED
  BY <1>0, <1>1, <1>3, <1>4, ReturnRows DEF SameRows

\* The process is started again.
LEMMA RowsRestart ==
  ASSUME RowsInv, Restart
  PROVE  RowsInv'
<1>1. /\ SessionReopen /\ pc' = "idle" /\ queue' = <<>> /\ found' = {}
      /\ creating' = CreatedTables /\ failed' = {}
      /\ last' \in {last, NothingYet}
  BY DEF Restart, Reset
<1>2. SessionTypeOK({current, committed})' /\ ContentsInv'
  BY <1>1, SessionStays, ContentsKept DEF RowsInv, TxnInv
<1>3. txn' = "none" /\ committed' = committed
  BY <1>1 DEF SessionReopen
<1>4. DoneInv' /\ ReadDoneInv'
  BY <1>1, <1>3, LastKept DEF RowsInv, SameRows
<1>5. CreatingInv'
  BY <1>1 DEF CreatingInv, CreatedTables
<1> QED
  BY <1>1, <1>2, <1>3, <1>4, <1>5, RowsInvIdle

\* The connection is lost, and with it what it had open.
LEMMA RowsLoseConnection ==
  ASSUME RowsInv, LoseConnection
  PROVE  RowsInv'
<1>1. /\ Disconnect /\ UNCHANGED <<startup, pc, call, last>>
      /\ link' = "down" /\ txn' = "none" /\ committed' = committed
      /\ current' = committed
  BY DEF LoseConnection, Disconnect
<1>2. SessionTypeOK({current, committed})' /\ ContentsInv'
  BY <1>1, SessionStays, ContentsKept DEF RowsInv, TxnInv
<1>3. DoneInv' /\ ReadDoneInv'
  BY <1>1, LastKept DEF RowsInv, SameRows
<1>4. CreatingInv'
  BY <1>1 DEF RowsInv, CreatingInv, startup, CreatedTables
<1>5. CallInv' /\ TxnInv'
  BY <1>1, <1>2 DEF RowsInv, CallInv, TxnInv, call
<1>6. KeyInv' /\ WriteInv'
  BY <1>1 DEF KeyInv, WriteInv, SameRows, SameOthers
<1>7. ReadInv'
  <2> SUFFICES ASSUME pc = "run", op.name \in Reads PROVE ReadInv'
    BY <1>1 DEF ReadInv, call
  <2>1. current = committed
    BY DEF RowsInv, TxnInv, SessionTypeOK
  <2>2. UNCHANGED <<op, item, queue, todo, found, pc, current>>
    BY <1>1, <2>1 DEF call
  <2>3. \A q : ToRead(q)' <=> ToRead(q)
    BY <2>2 DEF ToRead
  <2> QED
    BY <2>2, <2>3 DEF RowsInv, ReadInv
<1> QED
  BY <1>2, <1>3, <1>4, <1>5, <1>6, <1>7 DEF RowsInv

-----------------------------------------------------------------------------
(* The bulk forms and the reads.                                             *)

\* A bulk form is called.
LEMMA RowsCallAll ==
  ASSUME RowsInv, CallAll
  PROVE  RowsInv'
<1>1. PICK name \in Operations \cap Bulk, i \in Items, j \in Items :
        /\ Permitted(name, i)
        /\ Permitted(name, j)
        /\ op' = [name |-> name, items |-> {i, j}]
        /\ item' = i
        /\ queue' = <<j>>
        /\ todo' = Script(name, i)
  BY DEF CallAll
<1>2. /\ UNCHANGED session /\ UNCHANGED startup
      /\ pc = "idle" /\ pc' = "run" /\ last' = NothingYet
      /\ op'.name = name /\ op'.items = {i, j}
  BY <1>1 DEF CallAll
<1>3. UNCHANGED <<engine, link, txn, committed, current>> /\ txn = "none"
  BY <1>2 DEF session, RowsInv, TxnInv
<1>4. name \in Bulk /\ name \notin Writes /\ name \notin Reads /\ name # "CreateTable"
  BY DEF Bulk, Writes, Reads
<1>5. SessionTypeOK({current, committed})' /\ ContentsInv'
  BY <1>2, SessionStays, ContentsKept DEF RowsInv, TxnInv
<1>6. DoneInv' /\ ReadDoneInv'
  BY <1>2, LastNothing
<1>7. CreatingInv'
  BY <1>2 DEF RowsInv, CreatingInv, startup, CreatedTables
<1>8. queue' \in Seq(Items) /\ Range(queue') = {j}
  BY <1>1 DEF Range
<1>9. CallInv' /\ TxnInv'
  BY <1>1, <1>2, <1>3, <1>4, <1>5, <1>8 DEF CallInv, TxnInv
<1>10. KeyInv'
  <2>1. name = "UpdateAll" => HasKey(current', i) /\ HasKey(current', j)
    BY <1>1, <1>3 DEF Permitted, HasKey
  <2>2. name # "Update"
    BY <1>4 DEF Writes
  <2> QED
    BY <1>1, <1>2, <1>8, <2>1, <2>2 DEF KeyInv
<1>11. WriteInv'
  <2>1. (Script(op.name, item))' = Script(name, i)
    BY <1>1, <1>2
  <2>2. Progress'
    BY <1>1, <2>1 DEF Progress, AtStart
  <2> QED
    BY <1>2, <1>4, <2>2 DEF WriteInv
<1>12. ReadInv'
  BY <1>2, <1>4 DEF ReadInv
<1> QED
  BY <1>5, <1>6, <1>7, <1>9, <1>10, <1>11, <1>12 DEF RowsInv

\* A bulk form comes to its next entity, or returns.
LEMMA RowsNextEntity ==
  ASSUME RowsInv, SchemaInv, NextEntity
  PROVE  RowsInv'
<1>0. /\ pc = "run" /\ op.name \in Bulk /\ op.name \notin Writes
      /\ op.name \notin Reads /\ op.name # "CreateTable" /\ UNCHANGED session
      /\ txn = "none"
  BY DEF NextEntity, Bulk, Writes, Reads, RowsInv, TxnInv
<1>1. UNCHANGED <<engine, link, txn, committed, current>>
  BY <1>0 DEF session
<1>2. SessionTypeOK({current, committed})' /\ ContentsInv'
  BY <1>0, SessionStays, ContentsKept DEF RowsInv, TxnInv
<1>3. CASE Return("done")
  <2>1. op.name \notin {"Insert", "Update", "Delete"}
    BY <1>0 DEF Writes
  <2> QED
    BY <1>0, <1>1, <1>2, <1>3, <2>1, ReturnRows
<1>4. CASE /\ queue # <<>>
           /\ item' = Head(queue)
           /\ queue' = Tail(queue)
           /\ todo' = Script(op.name, Head(queue))
           /\ UNCHANGED <<startup, pc, op, found, last>>
  <2>1. queue \in Seq(Items) /\ op.items \subseteq Items
    BY <1>0 DEF RowsInv, CallInv
  <2>2. /\ item' \in Items /\ queue' \in Seq(Items)
        /\ Range(queue) = {item'} \cup Range(queue')
    BY <1>4, <2>1, RangeOfTail
  <2>3. CallInv' /\ TxnInv'
    BY <1>0, <1>1, <1>2, <1>4, <2>1, <2>2 DEF RowsInv, CallInv, TxnInv
  <2>4. DoneInv' /\ ReadDoneInv'
    BY <1>1, <1>4, LastKept DEF RowsInv, SameRows
  <2>5. CreatingInv'
    BY <1>4 DEF RowsInv, CreatingInv, startup, CreatedTables
  <2>6. KeyInv'
    <3>1. op.name # "Update"
      BY <1>0 DEF Writes
    <3> QED
      BY <1>0, <1>1, <1>4, <2>2, <3>1 DEF RowsInv, KeyInv
  <2>7. WriteInv'
    <3>1. (Script(op.name, item))' = Script(op.name, Head(queue))
      BY <1>4 DEF Script, Single, IdentityScript, WalletScript, WalletKeyScript,
                  TransferScript, SignatureInserts, Row
    <3>2. Progress'
      BY <1>4, <3>1 DEF Progress, AtStart
    <3> QED
      BY <1>0, <1>4, <3>2 DEF WriteInv
  <2>8. ReadInv'
    BY <1>0, <1>4 DEF ReadInv
  <2> QED
    BY <1>2, <2>3, <2>4, <2>5, <2>6, <2>7, <2>8 DEF RowsInv
<1> QED
  BY <1>3, <1>4 DEF NextEntity

\* A script of one statement.
LEMMA OneStatement ==
  ASSUME NEW a
  PROVE  <<a>> # <<>> /\ Head(<<a>>) = a /\ Tail(<<a>>) = <<>>
  OBVIOUS

\* The statements of a read.
LEMMA ReadScripts ==
  ASSUME NEW i, i.table \in Tables
  PROVE  /\ Script("Retrieve", i) # <<>>
         /\ Head(Script("Retrieve", i)) = OwnStatement("select", i)
         /\ Tail(Script("Retrieve", i)) =
              IF i.table = "transfers" THEN <<SignatureStatement("select", i)>> ELSE <<>>
         /\ Script("RetrieveAll", i) # <<>>
         /\ Head(Script("RetrieveAll", i)) =
              IF i.table = "transfers" THEN OwnStatement("select_keys", i)
              ELSE OwnStatement("select_all", i)
         /\ Tail(Script("RetrieveAll", i)) = <<>>
<1> DEFINE a == OwnStatement("select", i)
           b == SignatureStatement("select", i)
           k == OwnStatement("select_keys", i)
           all == OwnStatement("select_all", i)
<1>0. /\ Kind["Retrieve"] = "select" /\ Kind["RetrieveAll"] = "select_all"
      /\ Single("Retrieve") = "Retrieve" /\ Single("RetrieveAll") = "RetrieveAll"
  BY SingleForms DEF Kind, Reads
<1>1. CASE i.table = "transfers"
  <2>1. Script("Retrieve", i) = <<a>> \o <<b>> /\ Script("RetrieveAll", i) = <<k>>
    <3>1. /\ Script("Retrieve", i) = TransferScript("Retrieve", i)
          /\ Script("RetrieveAll", i) = TransferScript("RetrieveAll", i)
      BY <1>0, <1>1 DEF Script
    <3> QED
      BY <1>1, <3>1 DEF TransferScript, OwnStatement, SignatureStatement, Signatures
  <2>2. <<b>> \in Seq({b})
    <3> HIDE DEF b
    <3> QED
      OBVIOUS
  <2> HIDE DEF a, b, k
  <2>3. /\ Script("Retrieve", i) # <<>> /\ Head(Script("Retrieve", i)) = a
        /\ Tail(Script("Retrieve", i)) = <<b>>
        /\ Script("RetrieveAll", i) # <<>> /\ Head(Script("RetrieveAll", i)) = k
        /\ Tail(Script("RetrieveAll", i)) = <<>>
    <3>1. /\ <<a>> \o <<b>> # <<>> /\ Head(<<a>> \o <<b>>) = a
          /\ Tail(<<a>> \o <<b>>) = <<b>>
      BY <2>2, FirstOf
    <3> QED
      BY <2>1, <3>1, OneStatement
  <2> QED
    BY <1>1, <2>3 DEF a, b, k
<1>2. CASE i.table # "transfers"
  <2>1. Script("Retrieve", i) = <<a>> /\ Script("RetrieveAll", i) = <<all>>
    BY <1>0, <1>2
    DEF Script, Tables, IdentityScript, WalletScript, WalletKeyScript, OwnStatement
  <2> HIDE DEF a, all
  <2>2. /\ Script("Retrieve", i) # <<>> /\ Head(Script("Retrieve", i)) = a
        /\ Tail(Script("Retrieve", i)) = <<>>
        /\ Script("RetrieveAll", i) # <<>> /\ Head(Script("RetrieveAll", i)) = all
        /\ Tail(Script("RetrieveAll", i)) = <<>>
    BY <2>1, OneStatement
  <2> QED
    BY <1>2, <2>2 DEF a, all
<1> QED
  BY <1>1, <1>2

\* The scripts of the two reads differ.
LEMMA ReadScriptsDiffer ==
  ASSUME NEW i, i.table \in Tables
  PROVE  /\ Script("Retrieve", i) # Script("RetrieveAll", i)
         /\ Script("Retrieve", i) # <<SignatureStatement("select", i)>>
         /\ Script("RetrieveAll", i) # <<SignatureStatement("select", i)>>
         /\ Script("Retrieve", i) # <<>> /\ Script("RetrieveAll", i) # <<>>
         /\ <<SignatureStatement("select", i)>> # <<>>
<1> DEFINE b == SignatureStatement("select", i)
<1>1. /\ Head(Script("Retrieve", i)).kind = "select"
      /\ Head(Script("RetrieveAll", i)).kind \in {"select_keys", "select_all"}
      /\ Head(Script("Retrieve", i)).table = i.table
      /\ i.table # Signatures
  BY ReadScripts, StatementFields DEF Tables, Signatures
<1>2. b.kind = "select" /\ b.table = Signatures
  BY StatementFields
<1> HIDE DEF b
<1>3. <<b>> # <<>> /\ Head(<<b>>) = b
  OBVIOUS
<1>4. Script("Retrieve", i) # <<>> /\ Script("RetrieveAll", i) # <<>>
  BY ReadScripts
<1> QED
  BY <1>1, <1>2, <1>3, <1>4 DEF b

\* The transfers that are there are the transfers RetrieveAll goes through.
LEMMA EachListed ==
  ASSUME RowsOK(current), "transfers" \in DOMAIN current
  PROVE  /\ RetrieveEach \in Seq(Listed(current))
         /\ \A r \in Rows(current, "transfers") :
              \E i \in Range(RetrieveEach) : i.id = r.id
<1> DEFINE S == current["transfers"]
           rows == SetToSeq(S)
           N == Cardinality(S)
           K(r) == [Blank("transfers") EXCEPT !.id = r.id]
<1>1. Rows(current, "transfers") = S
  BY DEF Rows
<1>2. IsFiniteSet(S) /\ N \in Nat /\ ExistsBijection(1..N, S)
  BY <1>1, FS_CardinalityType DEF RowsOK
<1>3. rows \in [1..N -> S] /\ IsInjective(rows)
  <2>1. \E f \in [1..N -> S] : IsInjective(f)
    BY <1>2 DEF ExistsBijection, Bijection, Injection
  <2> QED
    BY <2>1 DEF SetToSeq
<1>4. rows \in Surjection(1..N, S)
  <2>1. rows \in Injection(1..N, S)
    BY <1>3 DEF Injection
  <2>2. Cardinality(1..N) = N
    BY <1>2, FS_Interval
  <2> QED
    BY <1>2, <2>1, <2>2, FS_Injection
<1> HIDE DEF rows, N
<1>5. RetrieveEach = [n \in 1..N |-> K(rows[n])]
  BY <1>3 DEF RetrieveEach, rows
<1>6. \A r \in S : K(r) \in Listed(current)
  BY <1>1 DEF Listed
<1>7. \A r \in S : K(r).id = r.id
  BY DEF Blank
<1> HIDE DEF K, S
<1>8. \A n \in 1..N : rows[n] \in S
  BY <1>3
<1>9. RetrieveEach \in Seq(Listed(current))
  <2>1. \A n \in 1..N : K(rows[n]) \in Listed(current)
    BY <1>6, <1>8
  <2> QED
    BY <1>2, <1>5, <2>1
<1>10. ASSUME NEW r \in S PROVE \E i \in Range(RetrieveEach) : i.id = r.id
  <2>1. PICK n \in 1..N : rows[n] = r
    BY <1>4 DEF Surjection
  <2>2. RetrieveEach[n] \in Range(RetrieveEach)
    BY <1>5 DEF Range
  <2> QED
    BY <1>5, <1>7, <2>1, <2>2
<1> QED
  BY <1>1, <1>9, <1>10

\* RetrieveAll asks for transfers.
LEMMA ListedFields ==
  ASSUME NEW c, NEW i \in Listed(c)
  PROVE  i.table = "transfers"
  BY DEF Listed, Blank

\* A read returns what it has read.
LEMMA RowsFinishRead ==
  ASSUME RowsInv, FinishRead
  PROVE  RowsInv'
<1>1. /\ pc = "run" /\ op.name \in Reads /\ todo = <<>> /\ queue = <<>>
      /\ UNCHANGED session /\ pc' = "idle" /\ queue' = <<>> /\ found' = {}
      /\ last' = [op |-> op, result |-> "done", rows |-> found]
      /\ UNCHANGED startup
  BY DEF FinishRead, ReturnToCaller, Reset
<1>2. SessionTypeOK({current, committed})' /\ ContentsInv'
  BY <1>1, SessionStays, ContentsKept DEF RowsInv, TxnInv
<1>3. txn' = "none" /\ committed' = current /\ committed' = committed
  BY <1>1 DEF session, RowsInv, TxnInv, SessionTypeOK
<1>4. CreatingInv'
  BY <1>1 DEF RowsInv, CreatingInv, startup, CreatedTables
<1>5. last'.op = op /\ last'.result = "done" /\ last'.rows = found
  BY <1>1
<1>6. DoneInv'
  BY <1>1, <1>5 DEF DoneInv, Reads
<1>7. ReadDoneInv'
  <2> SUFFICES ASSUME op.name = "RetrieveAll", NEW i \in op.items
               PROVE  found = StoredRows(i.table, committed')
    BY <1>5 DEF ReadDoneInv
  <2>1. item.table \in Tables /\ i.table = item.table
    BY <1>1 DEF RowsInv, ReadInv
  <2>2. Script(op.name, item) # <<>>
    BY <2>1, ReadScripts
  <2>3. CASE item.table # "transfers"
    BY <1>1, <1>3, <2>1, <2>2, <2>3 DEF RowsInv, ReadInv
  <2>4. CASE item.table = "transfers"
    <3>1. /\ found \subseteq StoredRows("transfers", current)
          /\ \A q \in StoredRows("transfers", current) : q \in found \/ ToRead(q)
      BY <1>1, <2>1, <2>2, <2>4 DEF RowsInv, ReadInv
    <3>2. \A q : ~ToRead(q)
      <4>1. Range(queue) = {}
        BY <1>1 DEF Range
      <4>2. Script("Retrieve", item) # <<>> /\ <<SignatureStatement("select", item)>> # <<>>
        BY <2>1, ReadScriptsDiffer
      <4> QED
        BY <1>1, <4>1, <4>2 DEF ToRead
    <3> QED
      BY <1>3, <2>1, <2>4, <3>1, <3>2
  <2> QED
    BY <2>3, <2>4
<1> QED
  BY <1>1, <1>2, <1>3, <1>4, <1>6, <1>7, RowsInvIdle

\* A read that goes on: it has changed nothing.
LEMMA ReadGoesOn ==
  ASSUME RowsInv, pc = "run", op.name \in Reads, UNCHANGED session,
         UNCHANGED <<startup, pc, op, last>>, ReadInv'
  PROVE  RowsInv'
<1>1. op.name \notin Writes /\ op.name \notin Bulk /\ op.name # "CreateTable"
  BY DEF Reads, Writes, Bulk
<1>2. UNCHANGED <<engine, link, txn, committed, current>>
  BY DEF session
<1>3. SessionTypeOK({current, committed})' /\ ContentsInv'
  BY SessionStays, ContentsKept DEF RowsInv, TxnInv
<1>4. DoneInv' /\ ReadDoneInv'
  BY <1>2, LastKept DEF RowsInv, SameRows
<1>5. CreatingInv'
  BY DEF RowsInv, CreatingInv, startup, CreatedTables
<1>6. CallInv' /\ TxnInv'
  BY <1>1, <1>2, <1>3 DEF RowsInv, CallInv, TxnInv
<1>7. KeyInv' /\ WriteInv'
  BY <1>1 DEF KeyInv, WriteInv, Writes, Bulk
<1> QED
  BY <1>3, <1>4, <1>5, <1>6, <1>7 DEF RowsInv

\* RetrieveAll comes to the next transfer.
LEMMA RowsRetrieveNext ==
  ASSUME RowsInv, RetrieveNext
  PROVE  RowsInv'
<1>1. /\ pc = "run" /\ op.name = "RetrieveAll" /\ todo = <<>> /\ queue # <<>>
      /\ item' = Head(queue) /\ queue' = Tail(queue)
      /\ todo' = Script("Retrieve", Head(queue))
      /\ UNCHANGED session /\ UNCHANGED <<startup, pc, op, found, last>>
  BY DEF RetrieveNext
<1>2. op.name \in Reads
  BY <1>1 DEF Reads
<1>3. UNCHANGED current
  BY <1>1 DEF session
<1>4. /\ item.table = "transfers"
      /\ \A i \in op.items : i \in Items /\ i.table = item.table
      /\ queue \in Seq(Listed(current))
      /\ found \subseteq StoredRows("transfers", current)
      /\ \A q \in StoredRows("transfers", current) : q \in found \/ ToRead(q)
  <2>1. Script(op.name, item) # <<>>
    BY <1>1, <1>2, ReadScripts DEF RowsInv, ReadInv
  <2> QED
    BY <1>1, <1>2, <2>1 DEF RowsInv, ReadInv
<1>5. /\ Head(queue) \in Listed(current)
      /\ Tail(queue) \in Seq(Listed(current))
      /\ Range(queue) = {Head(queue)} \cup Range(Tail(queue))
  BY <1>1, <1>4, RangeOfTail
<1>6. item'.table = "transfers" /\ "transfers" \in Tables
  BY <1>1, <1>5, ListedFields DEF Tables
<1>7. /\ (Script("Retrieve", item))' = Script("Retrieve", Head(queue))
      /\ (Script(op.name, item))' = Script("RetrieveAll", Head(queue))
  BY <1>1
<1>8. todo' # (Script(op.name, item))'
  BY <1>1, <1>6, <1>7, ReadScriptsDiffer
<1>9. ASSUME NEW q \in StoredRows("transfers", current), q \notin found
      PROVE  ToRead(q)'
  <2>1. ToRead(q)
    BY <1>4, <1>9
  <2>2. Script("Retrieve", item) # <<>> /\ <<SignatureStatement("select", item)>> # <<>>
    BY <1>4, <1>6, ReadScriptsDiffer
  <2>3. PICK i \in Range(queue) : i.id = q[2].id
    BY <1>1, <2>1, <2>2 DEF ToRead
  <2>4. CASE i \in Range(Tail(queue))
    BY <1>1, <2>3, <2>4 DEF ToRead
  <2>5. CASE i = Head(queue)
    BY <1>1, <1>7, <2>3, <2>5 DEF ToRead
  <2> QED
    BY <1>5, <2>4, <2>5
<1>10. ReadInv'
  <2>1. todo' \in {(Script("Retrieve", item))'}
    BY <1>1, <1>7
  <2> QED
    BY <1>1, <1>3, <1>4, <1>5, <1>6, <1>8, <1>9, <2>1 DEF ReadInv
<1> QED
  BY <1>1, <1>2, <1>10, ReadGoesOn

-----------------------------------------------------------------------------
(* The statements.                                                           *)

\* A statement is refused or fails.
LEMMA RowsFail ==
  ASSUME RowsInv, pc = "run", Fail,
         StatementRejected \/ StatementError \/ UNCHANGED session
  PROVE  RowsInv'
<1>1. SessionTypeOK({current, committed})' /\ ContentsInv'
  BY SessionStays, ContentsKept DEF RowsInv, TxnInv
<1>2. committed' = committed
  BY DEF StatementRejected, StatementError, Abandon, KeepTransaction, session
<1>3. op.name \in Reads \cup Bulk => UNCHANGED session
  BY DEF RowsInv, TxnInv, StatementRejected, StatementError, Abandon, KeepTransaction
<1>4. CASE op.name \in Reads
  <2>1. PICK result \in {"undefined", "failed"} :
          /\ pc' = "idle" /\ queue' = <<>> /\ found' = {}
          /\ last' = [op |-> op, result |-> result, rows |-> {}]
          /\ UNCHANGED startup
    BY <1>4 DEF Fail, FailRead, ReturnToCaller, Reset
  <2>2. txn' = "none"
    BY <1>3, <1>4 DEF RowsInv, TxnInv, session
  <2>3. CreatingInv'
    BY <2>1 DEF RowsInv, CreatingInv, startup, CreatedTables
  <2>4. last'.op = op /\ last'.result = result /\ last'.rows = {} /\ result # "done"
    BY <2>1
  <2>5. DoneInv' /\ ReadDoneInv'
    BY <2>4 DEF DoneInv, ReadDoneInv
  <2> QED
    BY <1>1, <2>1, <2>2, <2>3, <2>5, RowsInvIdle
<1>5. CASE op.name \notin Reads
  <2>1. /\ pc' = IF op.name \in Bulk THEN "run" ELSE "rollback"
        /\ todo' = <<>>
        /\ UNCHANGED <<startup, op, item, queue, found, last>>
    BY <1>5 DEF Fail, FailWrite
  <2>2. CreatingInv'
    BY <2>1 DEF RowsInv, CreatingInv, startup, CreatedTables
  <2>3. DoneInv' /\ ReadDoneInv'
    BY <1>2, <2>1, LastKept DEF RowsInv, SameRows
  <2>4. ReadInv'
    BY <1>5, <2>1 DEF ReadInv
  <2>5. CASE op.name \in Bulk
    <3>1. UNCHANGED <<engine, link, txn, committed, current>>
      BY <1>3, <2>5 DEF session
    <3>2. op.name \notin Writes /\ op.name # "CreateTable"
      BY <2>5 DEF Bulk, Writes
    <3>3. CallInv' /\ TxnInv'
      BY <1>1, <2>1, <2>5, <3>1, <3>2 DEF RowsInv, CallInv, TxnInv
    <3>4. KeyInv'
      BY <2>1, <2>5, <3>1, <3>2 DEF RowsInv, KeyInv, Writes
    <3>5. WriteInv'
      BY <2>1, <2>5, <3>2 DEF WriteInv
    <3> QED
      BY <1>1, <2>2, <2>3, <2>4, <3>3, <3>4, <3>5 DEF RowsInv
  <2>6. CASE op.name \notin Bulk
    <3>1. CallInv' /\ TxnInv'
      BY <1>1, <1>5, <2>1, <2>6 DEF RowsInv, CallInv, TxnInv
    <3>2. KeyInv' /\ WriteInv'
      BY <2>1, <2>6 DEF KeyInv, WriteInv
    <3> QED
      BY <1>1, <2>2, <2>3, <2>4, <3>1, <3>2 DEF RowsInv
  <2> QED
    BY <2>5, <2>6
<1> QED
  BY <1>4, <1>5

\* CREATE TABLE changes no rows.
LEMMA RowsCreated ==
  ASSUME RowsInv, SchemaInv, pc = "run", op.name = "CreateTable", todo # <<>>,
         Perform(Head(todo)), UNCHANGED <<startup, pc, op, item, last>>
  PROVE  RowsInv' /\ SameRows(committed, committed')
<1>0. ~StatementThrows /\ op.name \notin Bulk /\ op.name \notin Reads /\ op.name \notin Writes
  <2>1. ~StatementThrows
    <3> DEFINE s == Head(todo)
    <3>1. CASE s.kind = "create"
      BY <3>1 DEF Perform, SessionDefine
    <3>2. CASE s.kind \in {"select_keys", "select", "select_all"}
      BY <3>2 DEF Perform
    <3>3. CASE s.kind \notin {"create", "select_keys", "select", "select_all"}
      <4>1. SessionWrite(Written(s))
        BY <3>3, Zenon DEF Perform
      <4> QED
        BY <4>1 DEF SessionWrite
    <3> QED
      BY <3>1, <3>2, <3>3
  <2> QED
    BY <2>1 DEF Bulk, Reads, Writes
<1>1. creating # <<>> /\ item = Blank(Head(creating)) /\ Head(creating) \in Tables
  BY RangeOfTail DEF SchemaInv
<1>2. todo = Script("CreateTable", item)
  BY <1>0 DEF SchemaInv, StatementThrows
<1> DEFINE statement == Statement("create", Head(creating), Row(item))
<1>3. todo = <<statement>>
  BY <1>1, <1>2, CreateScript
<1>4. statement.kind = "create" /\ statement.table = Head(creating)
  BY StatementFields
<1>5. /\ SessionDefine(Created(Head(creating)))
      /\ todo' = Tail(todo)
      /\ UNCHANGED <<queue, found>>
  <2> HIDE DEF statement
  <2>1. Head(todo) = statement
    BY <1>3, OneStatement
  <2> QED
    BY <1>4, <2>1 DEF Perform
<1>6. /\ current' = Created(Head(creating))
      /\ committed' \in {current', committed}
      /\ UNCHANGED link
  BY <1>5 DEF SessionDefine
<1>7. /\ DOMAIN current' = DOMAIN current \cup {Head(creating)}
      /\ \A t : Rows(current', t) = Rows(current, t)
  BY <1>6 DEF Created, Rows
<1>8. \A t : Rows(current, t) = Rows(committed, t)
  BY SameRowsFacts DEF RowsInv, WriteInv
<1>9. SessionTypeOK({current, committed})'
  BY <1>5, SessionStays DEF RowsInv, TxnInv
<1>10. RowsOK(current') /\ RowsOK(committed')
  <2>1. RowsOK(current')
    <3>1. DOMAIN current' \subseteq Provided \cup Range(CreatedTables)
      BY <1>1, <1>7, CreatedTablesAre DEF RowsInv, ContentsInv, RowsOK
    <3>2. KeysAndRows(current')
      <4> SUFFICES ASSUME NEW t \in DOMAIN current' \ {Signatures}
                   PROVE  /\ current'[t] \subseteq {Row(i) : i \in {j \in Items : j.table = t}}
                          /\ \A q, r \in current'[t] : q.id = r.id => q = r
        BY DEF KeysAndRows
      <4>1. current'[t] = Rows(current, t)
        <5>1. current'[t] = Rows(current', t)
          BY DEF Rows
        <5> QED
          BY <1>7, <5>1
      <4>2. /\ \A r \in Rows(current, t) : \E j \in Items : j.table = t /\ r = Row(j)
            /\ \A q, r \in Rows(current, t) : q.id = r.id => q = r
        BY RowsAre DEF RowsInv, ContentsInv
      <4> QED
        BY <4>1, <4>2
    <3>3. NoOrphans(current') /\ IsFiniteSet(Rows(current', "transfers"))
      BY <1>7 DEF RowsInv, ContentsInv, RowsOK, NoOrphans
    <3> QED
      BY <3>1, <3>2, <3>3 DEF RowsOK
  <2> QED
    BY <1>6, <2>1 DEF RowsInv, ContentsInv
<1>11. SameRows(current', committed') /\ SameRows(committed, committed')
  <2>1. \A t : Rows(current', t) = Rows(committed', t)
    BY <1>6, <1>7, <1>8
  <2>2. \A t : Rows(committed, t) = Rows(committed', t)
    BY <1>6, <1>7, <1>8
  <2> QED
    BY <2>1, <2>2, SameRowsIfAll
<1>12. DoneInv' /\ ReadDoneInv'
  BY <1>11, LastKept DEF RowsInv
<1>13. CreatingInv'
  BY DEF RowsInv, CreatingInv, startup, CreatedTables
<1>14. CallInv' /\ TxnInv'
  BY <1>0, <1>9 DEF RowsInv, CallInv, TxnInv
<1>15. KeyInv' /\ WriteInv' /\ ReadInv'
  BY <1>0, <1>11 DEF KeyInv, WriteInv, ReadInv
<1> QED
  BY <1>9, <1>10, <1>11, <1>12, <1>13, <1>14, <1>15 DEF RowsInv, ContentsInv

\* An INSERT, UPDATE or DELETE that is accepted.
LEMMA RowsWritten ==
  ASSUME RowsInv, pc = "run", op.name \in Writes \cup Bulk, todo # <<>>, link = "up",
         ~Rejected(Head(todo)), Perform(Head(todo)),
         UNCHANGED <<startup, pc, op, item, last>>
  PROVE  RowsInv' /\ (op.name \in Writes => committed' = committed)
<1>1. /\ op.name \notin Reads /\ op.name # "CreateTable"
      /\ Single(op.name) \in Writes
      /\ op.name \in Writes => Single(op.name) = op.name
      /\ Single(op.name) = "Update" => op.name \in {"Update", "UpdateAll"}
      /\ op.name \in {"Update", "UpdateAll"} => Single(op.name) = "Update"
  BY SingleForms DEF Writes, Reads, Bulk
<1>2. item \in Items /\ RowsOK(current) /\ Progress
  BY DEF RowsInv, CallInv, ContentsInv, WriteInv
<1>3. Single(op.name) = "Update" => HasKey(current, item)
  BY <1>1 DEF RowsInv, KeyInv
<1>4. /\ Head(todo).kind \in {"insert", "update", "delete"}
      /\ WriteEffect(item, op.name)
      /\ Progress'
      /\ ~AtStart'
      /\ AtStart /\ Single(op.name) = "Insert" => ~HasKey(current, item)
  BY <1>1, <1>2, <1>3, WriteStep
<1>5. /\ ~StatementThrows
      /\ committed' = IF txn = "none" THEN current' ELSE committed
      /\ UNCHANGED <<engine, link, txn, queue, found>>
  BY <1>4, PerformWrites
<1>6. /\ RowsOK(current')
      /\ SameOthers(current, current', item)
      /\ Single(op.name) # "Delete" => KeysKept(current, current')
  BY <1>4 DEF WriteEffect
<1>7. ContentsInv'
  BY <1>5, <1>6 DEF RowsInv, ContentsInv
<1>8. SessionTypeOK({current, committed})'
  BY <1>5 DEF RowsInv, TxnInv, SessionTypeOK, StatementThrows
<1>9. last' = NothingYet
  BY <1>1 DEF RowsInv, CallInv
<1>10. DoneInv' /\ ReadDoneInv'
  BY <1>9, LastNothing
<1>11. CreatingInv'
  BY DEF RowsInv, CreatingInv, startup, CreatedTables
<1>12. CallInv' /\ TxnInv'
  BY <1>1, <1>5, <1>8 DEF RowsInv, CallInv, TxnInv
<1>13. op.name \in Writes => txn = "open" /\ committed' = committed
  BY <1>5 DEF RowsInv, TxnInv
<1>14. KeyInv'
  <2>1. op.name = "Update" => HasKey(committed', item)
    BY <1>13 DEF RowsInv, KeyInv, Writes
  <2>2. op.name \in {"Update", "UpdateAll"} => HasKey(current', item)
    BY <1>1, <1>2, <1>3, <1>6 DEF KeysKept
  <2>3. op.name = "UpdateAll" => \A i \in Range(queue) : HasKey(current', i)
    <3> SUFFICES ASSUME op.name = "UpdateAll", NEW i \in Range(queue)
                 PROVE  HasKey(current', i)
      OBVIOUS
    <3>1. queue \in Seq(Items)
      BY DEF RowsInv, CallInv, Bulk
    <3>2. i \in Items
      BY <3>1, RangeOfSeq
    <3> QED
      BY <1>1, <1>6, <3>2 DEF RowsInv, KeyInv, KeysKept
  <2> QED
    BY <1>5, <2>1, <2>2, <2>3 DEF KeyInv
<1>15. WriteInv'
  <2>1. op.name \in Writes => SameOthers(current', committed', item)
    BY <1>6, <1>13 DEF RowsInv, WriteInv, SameOthers
  <2>2. op.name = "Insert" => ~HasKey(committed', item)
    <3> SUFFICES ASSUME op.name = "Insert" PROVE ~HasKey(committed', item)
      OBVIOUS
    <3>1. op.name \in Writes /\ Single(op.name) = "Insert"
      BY SingleForms DEF Writes
    <3>2. CASE AtStart
      BY <1>4, <1>13, <3>1, <3>2 DEF RowsInv, WriteInv
    <3>3. CASE ~AtStart
      BY <1>13, <3>1, <3>3 DEF RowsInv, WriteInv
    <3> QED
      BY <3>2, <3>3
  <2> QED
    BY <1>1, <1>4, <2>1, <2>2 DEF WriteInv
<1>16. ReadInv'
  BY <1>1 DEF ReadInv
<1> QED
  BY <1>7, <1>10, <1>11, <1>12, <1>13, <1>14, <1>15, <1>16 DEF RowsInv

\* The rows of a table, and the signatures of the transfers.
LEMMA StoredRowsAre ==
  ASSUME NEW c
  PROVE  /\ \A t : t # "transfers" => StoredRows(t, c) = {t} \X Rows(c, t)
         /\ StoredRows("transfers", c) =
              ({"transfers"} \X Rows(c, "transfers"))
                \cup ({Signatures} \X Rows(c, Signatures))
<1>1. ASSUME NEW t, t # "transfers" PROVE StoredRows(t, c) = {t} \X Rows(c, t)
  BY <1>1 DEF StoredRows
<1>2. StoredRows("transfers", c) =
        UNION {{t} \X Rows(c, t) : t \in {"transfers", Signatures}}
  BY DEF StoredRows, Signatures
<1> QED
  BY <1>1, <1>2

\* A SELECT that is accepted.
LEMMA PerformReads ==
  ASSUME NEW s, ~Rejected(s), Perform(s)
  PROVE  /\ s.kind \in {"select", "select_all"} =>
              /\ UNCHANGED session
              /\ todo' = Tail(todo)
              /\ queue' = queue
              /\ found' = found \cup ({s.table} \X
                   {r \in Rows(current, s.table) : s.kind = "select" => r.id = s.row.id})
         /\ s.kind = "select_keys" =>
              /\ UNCHANGED session
              /\ todo' = Tail(todo)
              /\ queue' = RetrieveEach
              /\ found' = found
              /\ s.table \in DOMAIN current
<1>1. s.kind \in {"select", "select_all", "select_keys"} =>
        s.table \in DOMAIN current /\ Rows(current, s.table) = current[s.table]
  BY DEF Rejected, Rows
<1>2. CASE s.kind \in {"select", "select_all"}
  BY <1>1, <1>2 DEF Perform, Selected
<1>3. CASE s.kind = "select_keys"
  BY <1>1, <1>3 DEF Perform
<1> QED
  BY <1>2, <1>3

\* A SELECT that is accepted brings a read closer to its answer.
LEMMA RowsRead ==
  ASSUME RowsInv, pc = "run", op.name \in Reads, todo # <<>>, ~Rejected(Head(todo)),
         Perform(Head(todo)), UNCHANGED <<startup, pc, op, item, last>>
  PROVE  RowsInv' /\ UNCHANGED session
<1> DEFINE s == Head(todo)
           b == SignatureStatement("select", item)
<1>s. /\ (Script(op.name, item))' = Script(op.name, item)
      /\ (Script("Retrieve", item))' = Script("Retrieve", item)
  BY DEF Script, Single, IdentityScript, WalletScript, WalletKeyScript,
         TransferScript, SignatureInserts, Row
<1>0. /\ item.table \in Tables
      /\ \A i \in op.items : i \in Items /\ i.table = item.table
      /\ todo \in {<<b>>, Script("Retrieve", item), Script(op.name, item)}
  BY DEF RowsInv, ReadInv
<1>b. b.kind = "select" /\ b.table = Signatures /\ b.row.id = item.id
  BY StatementFields, RowFields
<1>c. <<b>> # <<>> /\ Head(<<b>>) = b /\ Tail(<<b>>) = <<>>
  BY OneStatement
<1>d. ASSUME todo = Script("Retrieve", item)
      PROVE  /\ s.kind = "select" /\ s.table = item.table /\ s.row.id = item.id
             /\ Tail(todo) = IF item.table = "transfers" THEN <<b>> ELSE <<>>
  BY <1>0, <1>d, ReadScripts, StatementFields, RowFields
<1>1. CASE op.name = "Retrieve"
  <2>1. s.kind = "select" /\ Tail(todo) \in {<<>>, <<b>>}
    <3>1. CASE todo = Script("Retrieve", item)
      BY <1>d, <3>1
    <3>2. CASE todo = <<b>>
      BY <1>b, <1>c, <3>2
    <3> QED
      BY <1>0, <1>1, <3>1, <3>2
  <2>2. UNCHANGED session /\ todo' = Tail(todo) /\ queue' = queue
    BY <2>1, PerformReads
  <2>3. queue' = <<>>
    BY <1>1, <2>2 DEF RowsInv, ReadInv
  <2>4. ReadInv'
    BY <1>0, <1>1, <2>1, <2>2, <2>3 DEF ReadInv
  <2> QED
    BY <2>2, <2>4, ReadGoesOn
<1>2. CASE op.name = "RetrieveAll" /\ todo = Script(op.name, item)
  <2>1. found = {} /\ queue = <<>>
    BY <1>0, <1>2, ReadScriptsDiffer DEF RowsInv, ReadInv
  <2>2. Tail(todo) = <<>>
    BY <1>0, <1>2, ReadScripts
  <2>3. Script("RetrieveAll", item) # <<>>
    BY <1>0, ReadScripts
  <2>4. CASE item.table # "transfers"
    <3>1. s.kind = "select_all" /\ s.table = item.table
      BY <1>0, <1>2, <2>4, ReadScripts, StatementFields
    <3>2. /\ UNCHANGED session /\ todo' = <<>> /\ queue' = <<>>
          /\ found' = found \cup ({s.table} \X
               {r \in Rows(current, s.table) : s.kind = "select" => r.id = s.row.id})
      BY <2>1, <2>2, <3>1, PerformReads
    <3>3. {r \in Rows(current, s.table) : s.kind = "select" => r.id = s.row.id}
            = Rows(current, s.table)
      BY <3>1
    <3>4. found' = StoredRows(item.table, current)
      <4>1. StoredRows(item.table, current) = {item.table} \X Rows(current, item.table)
        BY <2>4, StoredRowsAre
      <4>2. found' = {item.table} \X Rows(current, item.table)
        <5>1. found' = {} \cup ({s.table} \X Rows(current, s.table))
          BY <2>1, <3>2, <3>3, Zenon
        <5> HIDE DEF s
        <5> QED
          BY <3>1, <5>1
      <4> QED
        BY <4>1, <4>2
    <3>5. current' = current
      BY <3>2 DEF session
    <3>6. ReadInv'
      BY <1>0, <1>2, <2>4, <3>2, <3>4, <3>5 DEF ReadInv
    <3> QED
      BY <3>2, <3>6, ReadGoesOn
  <2>5. CASE item.table = "transfers"
    <3>1. s.kind = "select_keys" /\ s.table = "transfers"
      BY <1>0, <1>2, <2>5, ReadScripts, StatementFields
    <3>2. /\ UNCHANGED session /\ todo' = <<>> /\ queue' = RetrieveEach /\ found' = {}
          /\ "transfers" \in DOMAIN current
      BY <2>1, <2>2, <3>1, PerformReads
    <3>3. current' = current
      BY <3>2 DEF session
    <3>4. RowsOK(current)
      BY DEF RowsInv, ContentsInv
    <3>5. /\ queue' \in Seq(Listed(current))
          /\ \A r \in Rows(current, "transfers") : \E i \in Range(queue') : i.id = r.id
      BY <3>2, <3>4, EachListed
    <3>6. ASSUME NEW q \in StoredRows("transfers", current) PROVE ToRead(q)'
      <4>1. \E r \in Rows(current, "transfers") : r.id = q[2].id
        BY <3>4, StoredRowsAre DEF RowsOK, NoOrphans
      <4> QED
        BY <3>5, <4>1 DEF ToRead
    <3>7. todo' # (Script(op.name, item))'
      BY <1>s, <1>2, <2>3, <3>2
    <3>8. ReadInv'
      BY <1>0, <1>2, <2>5, <3>2, <3>3, <3>5, <3>6, <3>7 DEF ReadInv
    <3> QED
      BY <3>2, <3>8, ReadGoesOn
  <2> QED
    BY <2>4, <2>5
<1>3. CASE op.name = "RetrieveAll" /\ todo # Script(op.name, item)
  <2>1. /\ item.table = "transfers"
        /\ queue \in Seq(Listed(current))
        /\ found \subseteq StoredRows("transfers", current)
        /\ \A q \in StoredRows("transfers", current) : q \in found \/ ToRead(q)
        /\ todo \in {<<b>>, Script("Retrieve", item)}
    BY <1>0, <1>3 DEF RowsInv, ReadInv
  <2>2. s.kind = "select" /\ s.row.id = item.id /\ s.table \in {"transfers", Signatures}
    BY <1>b, <1>c, <1>d, <2>1
  <2>3. /\ UNCHANGED session /\ todo' = Tail(todo) /\ queue' = queue
        /\ found' = found \cup ({s.table} \X
             {r \in Rows(current, s.table) : s.kind = "select" => r.id = s.row.id})
    BY <2>2, PerformReads
  <2>4. found' = found \cup
          ({s.table} \X {r \in Rows(current, s.table) : r.id = item.id})
    BY <2>2, <2>3
  <2>5. current' = current
    BY <2>3 DEF session
  <2>6. found' \subseteq StoredRows("transfers", current)
    BY <2>1, <2>2, <2>4, StoredRowsAre
  <2>7. /\ todo' \in {<<>>, <<b>>}
        /\ todo' # (Script(op.name, item))'
    <3>1. todo' \in {<<>>, <<b>>}
      BY <1>c, <1>d, <2>1, <2>3
    <3> QED
      BY <1>s, <1>0, <1>3, <3>1, ReadScriptsDiffer
  <2>8. ASSUME NEW q \in StoredRows("transfers", current) PROVE q \in found' \/ ToRead(q)'
    <3>1. CASE q \in found
      BY <2>4, <3>1
    <3>2. CASE \E i \in Range(queue) : i.id = q[2].id
      BY <2>3, <3>2 DEF ToRead
    <3>3. CASE q[2].id = item.id /\ q[1] = s.table
      <4>1. q[2] \in Rows(current, s.table) /\ q = <<s.table, q[2]>>
        BY <2>2, <3>3, StoredRowsAre DEF Signatures
      <4> QED
        BY <2>4, <3>3, <4>1
    <3>4. CASE /\ todo = Script("Retrieve", item)
               /\ q[2].id = item.id /\ q[1] = Signatures
      <4>1. todo' = <<b>>
        BY <1>d, <2>1, <2>3, <3>4
      <4> QED
        BY <3>4, <4>1 DEF ToRead
    <3>5. q[1] \in {"transfers", Signatures}
      BY StoredRowsAre
    <3>6. CASE todo = <<b>>
      <4>1. s.table = Signatures /\ <<b>> # Script("Retrieve", item)
        BY <1>0, <1>b, <1>c, <3>6, ReadScriptsDiffer
      <4> QED
        BY <2>1, <3>1, <3>2, <3>3, <3>6, <4>1 DEF ToRead
    <3>7. CASE todo = Script("Retrieve", item)
      <4>1. s.table = "transfers" /\ <<b>> # Script("Retrieve", item)
        BY <1>0, <1>d, <2>1, <3>7, ReadScriptsDiffer
      <4> QED
        BY <2>1, <3>1, <3>2, <3>3, <3>4, <3>5, <3>7, <4>1 DEF ToRead
    <3> QED
      BY <2>1, <3>6, <3>7
  <2>9. ReadInv'
    BY <1>0, <1>3, <2>1, <2>3, <2>5, <2>6, <2>7, <2>8 DEF ReadInv
  <2> QED
    BY <2>3, <2>9, ReadGoesOn
<1> QED
  BY <1>1, <1>2, <1>3 DEF Reads

\* One statement, whatever becomes of it.
LEMMA RowsExecute ==
  ASSUME RowsInv, SchemaInv, Execute
  PROVE  RowsInv'
<1>0. /\ pc = "run" /\ todo # <<>>
      /\ op.name \in Writes \cup Bulk \cup Reads \cup {"CreateTable"}
  BY DEF Execute, RowsInv, CallInv
<1>1. CASE Fail /\ (StatementRejected \/ StatementError \/ UNCHANGED session)
  BY <1>0, <1>1, RowsFail
<1>2. CASE /\ ~Rejected(Head(todo))
           /\ Perform(Head(todo))
           /\ UNCHANGED <<startup, pc, op, item, last>>
  <2>1. CASE op.name = "CreateTable"
    BY <1>0, <1>2, <2>1, RowsCreated
  <2>2. CASE op.name \in Writes \cup Bulk
    <3>1. link = "up"
      <4>1. link # "down"
        BY <1>2, PerformGrows DEF SchemaInv
      <4> QED
        BY <4>1 DEF RowsInv, TxnInv, SessionTypeOK
    <3> QED
      BY <1>0, <1>2, <2>2, <3>1, RowsWritten
  <2>3. CASE op.name \in Reads
    BY <1>0, <1>2, <2>3, RowsRead
  <2> QED
    BY <1>0, <2>1, <2>2, <2>3
<1> QED
  BY <1>1, <1>2 DEF Execute

\* Nothing happens.
LEMMA RowsStutter ==
  ASSUME RowsInv, UNCHANGED vars
  PROVE  RowsInv'
<1> USE DEF vars, session, startup, call
<1>1. SessionTypeOK({current, committed})' /\ ContentsInv'
  BY SessionStays, ContentsKept DEF RowsInv, TxnInv
<1>2. DoneInv' /\ ReadDoneInv'
  BY LastKept DEF RowsInv, SameRows
<1>3. CallInv' /\ TxnInv' /\ CreatingInv'
  BY <1>1 DEF RowsInv, CallInv, TxnInv, CreatingInv, CreatedTables
<1>4. KeyInv'
  BY DEF RowsInv, KeyInv
<1>5. WriteInv'
  <2>1. Progress' <=> Progress
    BY DEF Progress, AtStart, RowUpdated, Inserting, SignaturesDeleted, RowDeleted
  <2>2. AtStart' <=> AtStart
    BY DEF AtStart
  <2> QED
    BY <2>1, <2>2 DEF RowsInv, WriteInv
<1>6. ReadInv'
  <2>1. \A q : ToRead(q)' <=> ToRead(q)
    BY DEF ToRead
  <2> QED
    BY <2>1 DEF RowsInv, ReadInv
<1> QED
  BY <1>1, <1>2, <1>3, <1>4, <1>5, <1>6 DEF RowsInv

\* Every step keeps the invariant.
LEMMA RowsStep == RowsInv /\ SchemaInv /\ [Next]_vars => RowsInv'
  BY RowsCreateTable, RowsCall, RowsBegin, RowsCommit, RowsRollback, RowsFinishRead,
     RowsRetrieveNext, RowsCallAll, RowsNextEntity, RowsExecute, RowsLoseConnection,
     RowsRestart, RowsStutter
  DEF Next

\* It holds before the tables are created.
LEMMA RowsInit == Init => RowsInv
<1> SUFFICES ASSUME Init PROVE RowsInv
  OBVIOUS
<1>1. /\ pc = "idle" /\ queue = <<>> /\ found = {} /\ last = NothingYet
      /\ creating = CreatedTables /\ failed = {}
      /\ engine \in Engines /\ link = "up" /\ txn = "none"
      /\ committed = [t \in Provided |-> {}] /\ current = committed
  BY DEF Init, SessionInit
<1>2. CallInv /\ TxnInv
  BY <1>1 DEF CallInv, TxnInv, SessionTypeOK
<1>3. DoneInv /\ ReadDoneInv
  BY <1>1 DEF DoneInv, ReadDoneInv, NothingYet, NoOp
<1>4. CreatingInv
  BY <1>1 DEF CreatingInv, CreatedTables
<1>5. RowsOK(committed)
  <2>1. DOMAIN committed = Provided /\ \A t : Rows(committed, t) = {}
    BY <1>1 DEF Rows
  <2>2. KeysAndRows(committed) /\ NoOrphans(committed)
    BY <1>1, <2>1 DEF KeysAndRows, NoOrphans
  <2> QED
    BY <2>1, <2>2, FS_EmptySet DEF RowsOK
<1>6. KeyInv /\ WriteInv /\ ReadInv
  BY <1>1 DEF KeyInv, WriteInv, ReadInv
<1> QED
  BY <1>1, <1>2, <1>3, <1>4, <1>5, <1>6 DEF RowsInv, ContentsInv

\* What the tables hold, whatever is called and whatever fails.
LEMMA RowsInvariant == Spec => [](RowsInv /\ SchemaInv)
<1>1. Init => RowsInv /\ SchemaInv
  BY RowsInit, SchemaInit
<1>2. (RowsInv /\ SchemaInv) /\ [Next]_vars => (RowsInv /\ SchemaInv)'
  BY RowsStep, SchemaStep
<1> QED
  BY <1>1, <1>2, PTL DEF Spec

\* The tables hold rows of the entities the caller has, and one per key, whatever
\* statement, connection or process fails; a table CreateTable has failed for is
\* not tried again.
THEOREM EntityTypesCorrect == Spec => []TypeOK
<1>1. RowsInv => TypeOK
  <2> SUFFICES ASSUME RowsInv PROVE TypeOK
    OBVIOUS
  <2>1. SessionTypeOK({current, committed})
    BY DEF RowsInv, TxnInv
  <2>2. pc \in {"idle", "begin", "run", "rollback", "down"}
    BY DEF RowsInv, CallInv
  <2>3. failed \subseteq Range(CreatedTables) \ Range(creating)
    BY DEF RowsInv, CreatingInv
  <2>4. DOMAIN current \subseteq Provided \cup Range(CreatedTables)
        /\ KeysAndRows(current)
    BY DEF RowsInv, ContentsInv, RowsOK
  <2> QED
    BY <2>1, <2>2, <2>3, <2>4 DEF TypeOK, KeysAndRows, Signatures
<1> QED
  BY <1>1, RowsInvariant, PTL

\* Insert, Update and Delete that return after their COMMIT have taken effect on
\* the rows of both tables, and nothing that fails later takes it back.
THEOREM WritesTakeEffect == Spec => []DoneTakesEffect
<1>1. RowsInv => DoneTakesEffect
  BY DEF RowsInv, DoneInv, DoneTakesEffect
<1> QED
  BY <1>1, RowsInvariant, PTL

\* RetrieveAll answers every row of the table, with all the signatures of the
\* transfers, or none, though it reads transfers with two statements for each.
THEOREM ReadsAllOrNone == Spec => []RetrievesAllOrNone
<1>1. RowsInv => RetrievesAllOrNone
  BY DEF RowsInv, ReadDoneInv, RetrievesAllOrNone
<1> QED
  BY <1>1, RowsInvariant, PTL

\* No signature is ever in the database without its transfer, the bulk forms
\* included, which have no transaction: they insert the transfer first and delete it
\* last, and go no further with an entity one of whose statements has failed.
THEOREM SignaturesHaveTransfers == Spec => []NoOrphans(committed)
<1>1. RowsInv => NoOrphans(committed)
  BY DEF RowsInv, ContentsInv, RowsOK
<1> QED
  BY <1>1, RowsInvariant, PTL

-----------------------------------------------------------------------------
(* The single forms implement EntityStore.                                   *)

\* Entities that are whole and have the same key are the same.
LEMMA WholeUnique ==
  ASSUME NEW c, RowsOK(c), NEW i \in Whole(c), NEW j \in Whole(c),
         Store!SameKey(i, j)
  PROVE  i = j
<1>1. /\ i \in Items /\ j \in Items /\ i.table = j.table /\ i.id = j.id
      /\ Row(i) \in Rows(c, i.table) /\ Row(j) \in Rows(c, i.table)
  BY DEF Whole, Store!SameKey
<1>2. i.version = j.version
  <2>1. i.table # Signatures
    BY <1>1, ItemFacts
  <2>2. Row(i) = Row(j)
    BY <1>1, <2>1, RowsAre, RowFields
  <2>3. Row(i).version = i.version /\ Row(j).version = j.version
    BY RowFields
  <2> QED
    BY <2>2, <2>3
<1>3. Range(i.signatures) = Range(j.signatures)
  <2>1. CASE i.table = "transfers"
    <3>1. SignaturesOf(i, c) = SignaturesOf(j, c)
      BY <1>1 DEF SignaturesOf
    <3> QED
      BY <1>1, <2>1, <3>1 DEF Whole
  <2>2. CASE i.table # "transfers"
    BY <1>1, <2>2, ItemsAssumption
  <2> QED
    BY <2>1, <2>2
<1> QED
  BY <1>1, <1>2, <1>3, ItemsAssumption

\* Entities of other keys are as whole as they were.
LEMMA OthersWhole ==
  ASSUME NEW c, NEW d, NEW i \in Items, NEW j \in Items, SameOthers(d, c, i),
         ~Store!SameKey(i, j)
  PROVE  j \in Whole(c) <=> j \in Whole(d)
<1>1. \A t, r : ~Own(i, t, r) => (r \in Rows(c, t) <=> r \in Rows(d, t))
  BY DEF SameOthers, Others, Rows
<1>2. ~Own(i, j.table, Row(j))
  BY ItemFacts, RowFields DEF Own, Store!SameKey
<1>3. j.table = "transfers" => SignaturesOf(j, c) = SignaturesOf(j, d)
  <2> SUFFICES ASSUME j.table = "transfers" PROVE SignaturesOf(j, c) = SignaturesOf(j, d)
    OBVIOUS
  <2>1. \A q : q.id = j.id => ~Own(i, Signatures, q)
    BY ItemFacts DEF Own, Store!SameKey
  <2>2. \A q : q.id = j.id => (q \in Rows(c, Signatures) <=> q \in Rows(d, Signatures))
    BY <1>1, <2>1
  <2>3. {q \in Rows(c, Signatures) : q.id = j.id} = {q \in Rows(d, Signatures) : q.id = j.id}
    BY <2>2
  <2> QED
    BY <2>3 DEF SignaturesOf, Signatures
<1> QED
  BY <1>1, <1>2, <1>3 DEF Whole

\* The key of a whole entity is in its table, and if all rows are of whole
\* entities, a key there is that of one.
LEMMA KeyOfWhole ==
  ASSUME NEW c, NEW i \in Items
  PROVE  /\ \A j \in Whole(c) : Store!SameKey(i, j) => HasKey(c, i)
         /\ AllWhole(c) /\ HasKey(c, i) => \E j \in Whole(c) : Store!SameKey(i, j)
<1>1. ASSUME NEW j \in Whole(c), Store!SameKey(i, j) PROVE HasKey(c, i)
  BY <1>1, RowFields DEF Whole, HasKey, Store!SameKey
<1>2. ASSUME AllWhole(c), HasKey(c, i) PROVE \E j \in Whole(c) : Store!SameKey(i, j)
  <2>1. PICK r \in Rows(c, i.table) : r.id = i.id
    BY <1>2 DEF HasKey
  <2>2. i.table \in DOMAIN c /\ r \in c[i.table]
    BY <2>1 DEF Rows
  <2>3. PICK j \in Whole(c) : Own(j, i.table, r)
    BY <1>2, <2>2 DEF AllWhole
  <2> QED
    BY <2>1, <2>3, ItemFacts DEF Own, Store!SameKey
<1> QED
  BY <1>1, <1>2

\* A write that is through with its entity leaves whole entities only.
LEMMA AllWholeAfter ==
  ASSUME NEW c, NEW d, NEW i \in Items, RowsOK(d), AllWhole(c), SameOthers(d, c, i),
         i \in Whole(d) \/ ~HasKey(d, i)
  PROVE  AllWhole(d)
<1> SUFFICES ASSUME NEW t \in DOMAIN d, NEW r \in d[t]
             PROVE  \E j \in Whole(d) : Own(j, t, r)
  BY DEF AllWhole
<1>0. r \in Rows(d, t) /\ t \in DOMAIN c
  BY DEF Rows, SameOthers
<1>1. CASE Own(i, t, r)
  <2>1. HasKey(d, i)
    <3>1. CASE t = i.table
      BY <1>0, <1>1, <3>1 DEF Own, HasKey
    <3>2. CASE t = Signatures /\ i.table = "transfers"
      BY <1>0, <1>1, <3>2 DEF Own, HasKey, RowsOK, NoOrphans
    <3> QED
      BY <1>1, <3>1, <3>2 DEF Own
  <2> QED
    BY <1>1, <2>1
<1>2. CASE ~Own(i, t, r)
  <2>1. r \in c[t]
    BY <1>0, <1>2 DEF SameOthers, Others, Rows
  <2>2. PICK j \in Whole(c) : Own(j, t, r)
    BY <1>0, <2>1 DEF AllWhole
  <2>3. j \in Items /\ ~Store!SameKey(i, j)
    BY <1>2, <2>2 DEF Own, Store!SameKey, Whole
  <2> QED
    BY <2>2, <2>3, OthersWhole
<1> QED
  BY <1>1, <1>2

\* When every row is of a whole entity none is left over.
LEMMA NothingPartial ==
  ASSUME NEW c, AllWhole(c)
  PROVE  Partial(c) = {}
<1> SUFFICES ASSUME NEW q \in Partial(c) PROVE FALSE
  OBVIOUS
<1>1. PICK t \in DOMAIN c : q \in {t} \X c[t]
  BY DEF Partial
<1>2. q[1] = t /\ q[2] \in c[t]
  BY <1>1
<1>3. PICK i \in Whole(c) : Own(i, t, q[2])
  BY <1>2 DEF AllWhole
<1> QED
  BY <1>2, <1>3 DEF Partial, Own, Signatures

\* The database changes when a write is committed, and at no other time, if no
\* bulk form is under way.
LEMMA CommittedStep ==
  ASSUME RowsInv, SchemaInv, op.name \notin Bulk, [Next]_vars
  PROVE  \/ SameRows(committed, committed')
         \/ /\ committed' = current
            /\ pc = "run" /\ op.name \in Writes /\ todo = <<>> /\ link = "up"
<1>s. ASSUME committed' = committed PROVE SameRows(committed, committed')
  BY <1>s DEF SameRows
<1>1. CASE Begin
  <2>1. current = committed
    BY <1>1 DEF RowsInv, TxnInv, SessionTypeOK, Begin
  <2>2. committed' \in {committed, current}
    BY <1>1 DEF Begin, SessionBegin, session
  <2> QED
    BY <1>s, <2>1, <2>2
<1>2. CASE Commit
  <2>0. /\ pc = "run" /\ op.name \in Writes \cup {"CreateTable"} /\ todo = <<>>
        /\ link \in {"up", "down"}
    BY <1>2 DEF RowsInv, CallInv, TxnInv, SessionTypeOK, Commit
  <2>1. CASE SessionCommit \/ CommitAnswerLost
    <3>1. committed' = current /\ link = "up"
      BY <2>0, <2>1 DEF SessionCommit, CommitAnswerLost, EndThrows
    <3>2. op.name = "CreateTable" => SameRows(committed, committed')
      BY <2>0, <3>1 DEF RowsInv, WriteInv, SameRows
    <3> QED
      BY <2>0, <3>1, <3>2
  <2>2. CASE UNCHANGED session \/ CommitError
    BY <1>s, <2>2 DEF session, CommitError, Abandon, KeepTransaction
  <2> QED
    BY <1>2, <2>1, <2>2 DEF Commit
<1>3. CASE Execute
  <2>0. /\ pc = "run" /\ todo # <<>> /\ op.name \in Writes \cup Reads \cup {"CreateTable"}
    BY <1>3 DEF RowsInv, CallInv, Execute
  <2>1. CASE StatementRejected \/ StatementError \/ UNCHANGED session
    BY <1>s, <2>1
    DEF StatementRejected, StatementError, Abandon, KeepTransaction, session
  <2>2. CASE /\ ~Rejected(Head(todo))
             /\ Perform(Head(todo))
             /\ UNCHANGED <<startup, pc, op, item, last>>
    <3>1. CASE op.name = "CreateTable"
      BY <2>0, <2>2, <3>1, RowsCreated
    <3>2. CASE op.name \in Writes
      <4>1. link = "up"
        BY <2>2, PerformGrows DEF SchemaInv, RowsInv, TxnInv, SessionTypeOK
      <4> QED
        BY <1>s, <2>0, <2>2, <3>2, <4>1, RowsWritten
    <3>3. CASE op.name \in Reads
      BY <1>s, <2>0, <2>2, <3>3, RowsRead DEF session
    <3> QED
      BY <2>0, <3>1, <3>2, <3>3
  <2> QED
    BY <1>3, <2>1, <2>2 DEF Execute
<1>4. CASE Rollback \/ LoseConnection \/ Restart
  BY <1>s, <1>4
  DEF Rollback, SessionRollback, LoseConnection, Disconnect, Restart, SessionReopen,
      session
<1>5. CASE CreateTable \/ Call \/ CallAll \/ FinishRead \/ RetrieveNext \/ NextEntity
  BY <1>s, <1>5
  DEF CreateTable, Call, CallAll, FinishRead, RetrieveNext, NextEntity, session
<1>6. CASE UNCHANGED vars
  BY <1>s, <1>6 DEF vars, session
<1> QED
  BY <1>1, <1>2, <1>3, <1>4, <1>5, <1>6 DEF Next

\* A committed write inserts, updates or deletes one entity.
LEMMA CommittedWrite ==
  ASSUME RowsInv, AllWhole(committed), pc = "run", op.name \in Writes, todo = <<>>,
         link = "up"
  PROVE  /\ AllWhole(current)
         /\ \/ \E i \in Items :
                 /\ \A j \in Whole(committed) : ~Store!SameKey(i, j)
                 /\ Whole(current) = Whole(committed) \cup {i}
            \/ \E i \in Whole(committed), j \in Items :
                 /\ Store!SameKey(i, j)
                 /\ Whole(current) = (Whole(committed) \ {i}) \cup {j}
            \/ \E i \in Whole(committed) : Whole(current) = Whole(committed) \ {i}
            \/ Whole(current) = Whole(committed)
<1> DEFINE k == item
<1>1. /\ k \in Items /\ RowsOK(current) /\ RowsOK(committed)
      /\ SameOthers(current, committed, k) /\ Progress
  BY DEF RowsInv, CallInv, ContentsInv, WriteInv
<1>2. Single(op.name) = op.name
  BY SingleForms
<1>3. /\ op.name \in {"Insert", "Update"} => k \in Whole(current)
      /\ op.name = "Delete" => ~HasKey(current, k)
  BY <1>1, <1>2, Finished
<1>4. AllWhole(current)
  BY <1>1, <1>3, AllWholeAfter DEF Writes
<1>5. \A j \in Items : ~Store!SameKey(k, j) => (j \in Whole(committed) <=> j \in Whole(current))
  BY <1>1, OthersWhole
<1>6. \A c : \A j \in Whole(c) : j \in Items
  BY DEF Whole
<1>7. Store!SameKey(k, k)
  BY DEF Store!SameKey
<1>8. \A i, j \in Items : Store!SameKey(k, i) /\ Store!SameKey(k, j) => Store!SameKey(i, j)
  BY DEF Store!SameKey
<1>9. CASE op.name = "Insert"
  <2>1. ~HasKey(committed, k)
    <3>1. ~AtStart
      BY <1>1, <1>2, <1>9, InsertScript DEF AtStart
    <3> QED
      BY <1>9, <3>1 DEF RowsInv, WriteInv
  <2>2. \A j \in Whole(committed) : ~Store!SameKey(k, j)
    BY <1>1, <2>1, KeyOfWhole
  <2>3. k \in Whole(current)
    BY <1>3, <1>9
  <2>4. \A j \in Whole(current) : Store!SameKey(k, j) => j = k
    BY <1>1, <2>3, WholeUnique
  <2>5. \A j : j \in Whole(current) <=> j \in Whole(committed) \/ j = k
    BY <1>5, <1>6, <2>2, <2>3, <2>4
  <2>6. Whole(current) = Whole(committed) \cup {k}
    BY <2>5
  <2> QED
    BY <1>1, <1>4, <2>2, <2>6
<1>10. CASE op.name = "Update"
  <2>1. HasKey(committed, k)
    BY <1>10 DEF RowsInv, KeyInv
  <2>2. PICK i \in Whole(committed) : Store!SameKey(k, i)
    BY <1>1, <2>1, KeyOfWhole
  <2>3. k \in Whole(current)
    BY <1>3, <1>10
  <2>4. \A j \in Whole(current) : Store!SameKey(k, j) => j = k
    BY <1>1, <2>3, WholeUnique
  <2>5. \A j \in Whole(committed) : Store!SameKey(k, j) => j = i
    BY <1>1, <1>6, <1>8, <2>2, WholeUnique
  <2>6. \A j : j \in Whole(current) <=> (j \in Whole(committed) /\ j # i) \/ j = k
    BY <1>5, <1>6, <2>2, <2>3, <2>4, <2>5
  <2>7. Whole(current) = (Whole(committed) \ {i}) \cup {k}
    BY <2>6
  <2>8. Store!SameKey(i, k)
    BY <1>1, <1>6, <1>7, <1>8, <2>2
  <2> QED
    BY <1>1, <1>4, <2>7, <2>8
<1>11. CASE op.name = "Delete"
  <2>1. \A j \in Whole(current) : ~Store!SameKey(k, j)
    BY <1>1, <1>3, <1>11, KeyOfWhole
  <2>2. CASE HasKey(committed, k)
    <3>1. PICK i \in Whole(committed) : Store!SameKey(k, i)
      BY <1>1, <2>2, KeyOfWhole
    <3>2. \A j \in Whole(committed) : Store!SameKey(k, j) => j = i
      BY <1>1, <1>6, <1>8, <3>1, WholeUnique
    <3>3. \A j : j \in Whole(current) <=> j \in Whole(committed) /\ j # i
      BY <1>5, <1>6, <2>1, <3>1, <3>2
    <3>4. Whole(current) = Whole(committed) \ {i}
      BY <3>3
    <3> QED
      BY <1>4, <3>4
  <2>3. CASE ~HasKey(committed, k)
    <3>1. \A j \in Whole(committed) : ~Store!SameKey(k, j)
      BY <1>1, <2>3, KeyOfWhole
    <3>2. \A j : j \in Whole(current) <=> j \in Whole(committed)
      BY <1>5, <1>6, <2>1, <3>1
    <3>3. Whole(current) = Whole(committed)
      BY <3>2
    <3> QED
      BY <1>4, <3>3
  <2> QED
    BY <2>2, <2>3
<1> QED
  BY <1>9, <1>10, <1>11 DEF Writes

\* The caller uses no bulk form.
NoBulkForms == Operations \cap Bulk = {}

SingleInv == op.name \notin Bulk /\ AllWhole(committed)

\* No bulk form is ever under way.
LEMMA NoBulkStep ==
  ASSUME NoBulkForms, op.name \notin Bulk, [Next]_vars
  PROVE  op'.name \notin Bulk
<1>n. NoOp.name \notin Bulk
  BY DEF NoOp, Bulk
<1>r. ASSUME NEW result, Return(result) PROVE op' = NoOp
  BY <1>r DEF Return, ReturnToStartup, ReturnToCaller, Reset
<1>1. CASE CreateTable
  BY <1>1 DEF CreateTable, Bulk
<1>2. CASE Call
  <2>1. PICK name \in Operations \ Bulk, i \in Items : op' = [name |-> name, items |-> {i}]
    BY <1>2 DEF Call
  <2> QED
    BY <2>1
<1>3. CASE CallAll
  BY <1>3 DEF CallAll, NoBulkForms
<1>4. CASE Begin \/ Commit \/ Rollback \/ NextEntity
  <2>1. op' \in {op, NoOp}
    BY <1>4, <1>r DEF Begin, Commit, Rollback, NextEntity, call
  <2> QED
    BY <1>n, <2>1
<1>5. CASE Execute
  <2>1. op' \in {op, NoOp}
    BY <1>5 DEF Execute, Fail, FailRead, FailWrite, ReturnToCaller, Reset
  <2> QED
    BY <1>n, <2>1
<1>6. CASE FinishRead \/ RetrieveNext \/ LoseConnection \/ Restart \/ UNCHANGED vars
  <2>1. op' \in {op, NoOp}
    BY <1>6 DEF FinishRead, RetrieveNext, LoseConnection, Restart, ReturnToCaller, Reset,
                vars, call
  <2> QED
    BY <1>n, <2>1
<1> QED
  BY <1>1, <1>2, <1>3, <1>4, <1>5, <1>6 DEF Next

\* Every step is a step of EntityStore or leaves its variables alone.
LEMMA SingleStep ==
  ASSUME NoBulkForms
  PROVE  RowsInv /\ SchemaInv /\ SingleInv /\ [Next]_vars =>
           SingleInv' /\ [Store!Next]_Store!evars
<1> SUFFICES ASSUME RowsInv, SchemaInv, SingleInv, [Next]_vars
             PROVE  SingleInv' /\ [Store!Next]_Store!evars
  OBVIOUS
<1>0. op'.name \notin Bulk /\ AllWhole(committed) /\ op.name \notin Bulk
  BY NoBulkStep DEF SingleInv
<1>1. CASE SameRows(committed, committed')
  <2>1. /\ Whole(committed') = Whole(committed)
        /\ \A t : Rows(committed, t) = Rows(committed', t)
    BY <1>1, SameRowsFacts
  <2>2. AllWhole(committed')
    <3> SUFFICES ASSUME NEW t \in DOMAIN committed', NEW r \in committed'[t]
                 PROVE  \E i \in Whole(committed) : Own(i, t, r)
      BY <2>1 DEF AllWhole
    <3>1. r \in Rows(committed, t)
      BY <2>1 DEF Rows
    <3> QED
      BY <1>0, <3>1 DEF AllWhole, Rows
  <2>3. Partial(committed) = {} /\ Partial(committed') = {}
    BY <1>0, <2>2, NothingPartial
  <2> QED
    BY <1>0, <2>1, <2>2, <2>3 DEF SingleInv, Store!evars
<1>2. CASE /\ committed' = current
           /\ pc = "run" /\ op.name \in Writes /\ todo = <<>> /\ link = "up"
  <2>1. AllWhole(committed') /\ Partial(committed) = {} /\ Partial(committed') = {}
    BY <1>0, <1>2, CommittedWrite, NothingPartial
  <2>2. SingleInv'
    BY <1>0, <2>1 DEF SingleInv
  <2>3. [Store!Next]_Store!evars
    BY <1>0, <1>2, <2>1, CommittedWrite
    DEF Store!Next, Store!Insert, Store!Update, Store!Delete, Store!evars
  <2> QED
    BY <2>2, <2>3
<1> QED
  BY <1>0, <1>1, <1>2, CommittedStep

\* The single forms change the database by one whole entity at a time, whatever
\* fails between their statements and whenever the process is restarted: never a
\* transfer without its signatures, nor signatures without their transfer.
THEOREM TablesImplementStore ==
  ASSUME NoBulkForms
  PROVE  Spec => StoreSpec
<1>1. Init => SingleInv /\ Store!Init
  <2> SUFFICES ASSUME Init PROVE SingleInv /\ Store!Init
    OBVIOUS
  <2>1. committed = [t \in Provided |-> {}] /\ op = NoOp
    BY DEF Init, SessionInit
  <2>2. AllWhole(committed)
    BY <2>1 DEF AllWhole
  <2>3. Whole(committed) = {}
    BY <2>1 DEF Whole, Rows
  <2>4. NoOp.name \notin Bulk
    BY DEF NoOp, Bulk
  <2> QED
    BY <2>1, <2>2, <2>3, <2>4, NothingPartial DEF SingleInv, Store!Init
<1>2. RowsInv /\ SchemaInv /\ SingleInv /\ [Next]_vars =>
        SingleInv' /\ [Store!Next]_Store!evars
  BY SingleStep
<1> QED
  BY <1>1, <1>2, RowsInvariant, PTL DEF Spec, StoreSpec, Store!Spec

-----------------------------------------------------------------------------
(* InsertAll stores every entity it can.                                     *)

\* No statement, connection or process fails, but for what the tables refuse.
NothingFails == Faults = {}

\* What moves on within an operation on entities, or returns from it.
LEMMA CreatedKept ==
  ASSUME CreatedInv, UNCHANGED <<startup, link>>, pc' # "down",
         \/ pc' = "idle"
         \/ pc' = "begin" /\ op'.name = "CreateTable"
         \/ op'.name # "CreateTable" /\ creating = <<>>
  PROVE  CreatedInv'
  BY DEF CreatedInv, startup

\* Creating the tables succeeds.
LEMMA TableCreated ==
  ASSUME NothingFails, RowsInv, SchemaInv, CreatedInv, op.name = "CreateTable",
         Begin \/ Commit \/ Execute
  PROVE  CreatedInv'
<1>0. /\ link = "up" /\ failed = {} /\ op.name \notin Reads /\ op.name \notin Bulk
      /\ Faults = {}
  BY DEF CreatedInv, Reads, Bulk, NothingFails
<1>1. CASE Begin
  <2>1. ~BeginThrows
    BY <1>0, <1>1 DEF Begin, BeginThrows, StatementThrows, RowsInv, TxnInv
  <2>2. /\ SessionBegin /\ pc' = "run" /\ UNCHANGED <<startup, op>>
    BY <1>0, <1>1, <2>1 DEF Begin
  <2> QED
    BY <1>0, <2>2 DEF SessionBegin, CreatedInv, startup
<1>2. CASE Commit
  <2>1. ~EndThrows
    BY <1>0, <1>2 DEF Commit, EndThrows, CreatedInv
  <2>2. SessionCommit /\ ReturnToStartup("done")
    BY <1>0, <1>2, <2>1 DEF Commit, Return
  <2>3. pc' = "idle" /\ failed' = failed /\ link' = link
    BY <2>2 DEF ReturnToStartup, SessionCommit
  <2> QED
    BY <1>0, <2>3 DEF CreatedInv
<1>3. CASE Execute
  <2>0. pc = "run" /\ todo # <<>> /\ txn = "open"
    BY <1>3 DEF Execute, CreatedInv
  <2>1. ~StatementThrows
    BY <1>0, <2>0 DEF StatementThrows
  <2>2. creating # <<>> /\ item = Blank(Head(creating)) /\ Head(creating) \in Tables
    BY <2>0, RangeOfTail DEF SchemaInv
  <2>3. todo = Script("CreateTable", item)
    BY <1>0, <2>0 DEF SchemaInv
  <2> DEFINE statement == Statement("create", Head(creating), Row(item))
  <2>4. todo = <<statement>>
    BY <2>2, <2>3, CreateScript
  <2>5. statement.kind = "create" /\ statement.table = Head(creating)
    BY StatementFields
  <2> HIDE DEF statement
  <2>6. Head(todo) = statement /\ Tail(todo) = <<>>
    BY <2>4, OneStatement
  <2>7. ~Rejected(Head(todo))
    BY <2>5, <2>6 DEF Rejected
  <2>8. Perform(Head(todo)) /\ UNCHANGED <<startup, pc, op>>
    BY <1>0, <1>3, <2>1, <2>7 DEF Execute
  <2>9. todo' = <<>> /\ SessionDefine(Created(Head(creating)))
    BY <2>5, <2>6, <2>8 DEF Perform
  <2> QED
    BY <1>0, <2>0, <2>8, <2>9 DEF SessionDefine, CreatedInv, startup
<1> QED
  BY <1>1, <1>2, <1>3

\* Every step keeps the tables and the connection.
LEMMA CreatedStep ==
  ASSUME NothingFails, RowsInv, SchemaInv, CreatedInv, [Next]_vars
  PROVE  CreatedInv'
<1>0. Faults = {} /\ pc # "down" /\ link = "up"
  BY DEF NothingFails, CreatedInv
<1>c. pc \in {"begin", "run", "rollback"} /\ op.name # "CreateTable" => creating = <<>>
  BY DEF CreatedInv
<1>r. ASSUME NEW result, Return(result), op.name # "CreateTable"
      PROVE  pc' = "idle" /\ UNCHANGED startup
  BY <1>r DEF Return, ReturnToCaller
<1>1. CASE CreateTable
  BY <1>1, CreatedKept DEF CreateTable, session
<1>2. CASE Call
  <2>1. PICK name \in Operations \ Bulk, i \in Items :
          op' = [name |-> name, items |-> {i}] /\ pc' \in {"run", "begin"}
    BY <1>2 DEF Call
  <2>2. op'.name # "CreateTable"
    BY <2>1, OperationsAssumption
  <2> QED
    BY <1>2, <2>1, <2>2, CreatedKept DEF Call, session
<1>3. CASE CallAll
  <2>1. op'.name # "CreateTable"
    BY <1>3 DEF CallAll, Bulk
  <2> QED
    BY <1>3, <2>1, CreatedKept DEF CallAll, session
<1>4. CASE op.name = "CreateTable" /\ (Begin \/ Commit \/ Execute)
  BY <1>4, TableCreated
<1>5. CASE op.name # "CreateTable" /\ Begin
  <2>1. pc = "begin" /\ link' = link
    BY <1>5 DEF Begin, SessionBegin, session
  <2>2. \/ pc' = "run" /\ UNCHANGED <<startup, op>>
        \/ pc' = "idle" /\ UNCHANGED startup
    BY <1>5, <1>r DEF Begin
  <2> QED
    BY <1>5, <1>c, <2>1, <2>2, CreatedKept
<1>6. CASE op.name # "CreateTable" /\ Commit
  <2>1. pc = "run" /\ link' = link
    BY <1>0, <1>6
    DEF Commit, SessionCommit, CommitError, Abandon, KeepTransaction, session
  <2>2. \/ pc' = "rollback" /\ UNCHANGED <<startup, op>>
        \/ pc' = "idle" /\ UNCHANGED startup
    BY <1>6, <1>r DEF Commit, call
  <2> QED
    BY <1>6, <1>c, <2>1, <2>2, CreatedKept
<1>7. CASE Rollback
  <2>1. op.name # "CreateTable" /\ link' = link
    BY <1>7 DEF Rollback, SessionRollback, CreatedInv, session
  <2>2. pc' = "idle" /\ UNCHANGED startup
    BY <1>7, <1>r, <2>1 DEF Rollback
  <2> QED
    BY <2>1, <2>2, CreatedKept
<1>8. CASE NextEntity
  <2>1. pc = "run" /\ op.name # "CreateTable" /\ link' = link
    BY <1>8 DEF NextEntity, Bulk, session
  <2>2. \/ pc' = "run" /\ UNCHANGED <<startup, op>>
        \/ pc' = "idle" /\ UNCHANGED startup
    BY <1>8, <1>r, <2>1 DEF NextEntity
  <2> QED
    BY <1>c, <2>1, <2>2, CreatedKept
<1>9. CASE FinishRead
  BY <1>9, CreatedKept DEF FinishRead, ReturnToCaller, session
<1>10. CASE RetrieveNext
  <2>1. pc = "run" /\ op.name # "CreateTable"
    BY <1>10 DEF RetrieveNext
  <2> QED
    BY <1>c, <1>10, <2>1, CreatedKept DEF RetrieveNext, session
<1>11. CASE op.name # "CreateTable" /\ Execute
  <2>0. pc = "run"
    BY <1>11 DEF Execute
  <2>1. CASE Fail /\ (StatementRejected \/ StatementError \/ UNCHANGED session)
    <3>1. link' = link
      BY <2>1 DEF StatementRejected, StatementError, Abandon, KeepTransaction, session
    <3>2. \/ pc' \in {"run", "rollback"} /\ UNCHANGED <<startup, op>>
          \/ pc' = "idle" /\ UNCHANGED startup
      BY <2>1 DEF Fail, FailRead, FailWrite, ReturnToCaller
    <3> QED
      BY <1>11, <1>c, <2>0, <3>1, <3>2, CreatedKept
  <2>2. CASE Perform(Head(todo)) /\ UNCHANGED <<startup, pc, op>>
    <3> DEFINE s == Head(todo)
    <3>1. link' = link
      <4>1. CASE s.kind = "create"
        BY <2>2, <4>1 DEF Perform, SessionDefine
      <4>2. CASE s.kind \in {"select_keys", "select", "select_all"}
        BY <2>2, <4>2 DEF Perform, session
      <4>3. CASE s.kind \notin {"create", "select_keys", "select", "select_all"}
        <5>1. SessionWrite(Written(s))
          BY <2>2, <4>3, Zenon DEF Perform
        <5> QED
          BY <5>1 DEF SessionWrite
      <4> QED
        BY <4>1, <4>2, <4>3
    <3> QED
      BY <1>11, <1>c, <2>0, <2>2, <3>1, CreatedKept
  <2> QED
    BY <1>11, <2>1, <2>2 DEF Execute
<1>12. CASE LoseConnection \/ Restart
  BY <1>0, <1>12 DEF LoseConnection, Restart
<1>13. CASE UNCHANGED vars
  BY <1>13 DEF vars, startup, session, call, CreatedInv
<1> QED
  BY <1>1, <1>2, <1>3, <1>4, <1>5, <1>6, <1>7, <1>8, <1>9, <1>10, <1>11, <1>12, <1>13
  DEF Next

\* A step of any other operation.
LEMMA InsertAllKept ==
  ASSUME InsertAllInv, SameRows(committed, committed') \/ last = NothingYet,
         last' = last \/ last'.op.name # "InsertAll",
         pc' # "run" \/ op'.name # "InsertAll"
  PROVE  InsertAllInv'
<1>1. NothingYet.op.name # "InsertAll"
  BY DEF NothingYet, NoOp
<1>2. ASSUME last'.op.name = "InsertAll", NEW i \in last'.op.items
      PROVE  HasKey(committed', i)
  BY <1>1, <1>2, SameRowsFacts DEF InsertAllInv
<1> QED
  BY <1>2 DEF InsertAllInv

\* A row InsertAll inserts is refused only if its key is there.
LEMMA InsertRefused ==
  ASSUME SchemaInv, CreatedInv, pc = "run", op.name = "InsertAll", item \in Items,
         AtStart, Rejected(Head(todo))
  PROVE  HasKey(current, item)
<1> DEFINE s == OwnStatement("insert", item)
<1>1. Head(todo) = s
  <2>1. Single(op.name) = "Insert"
    BY DEF Single
  <2> QED
    BY <2>1, InsertScript DEF AtStart
<1>2. s.kind = "insert" /\ s.table = item.table /\ s.row.id = item.id
  BY StatementFields, RowFields
<1>3. item.table \in DOMAIN current
  <2>1. item.table \in Range(CreatedTables)
    BY CreatedTablesAre, ItemFacts
  <2>2. failed = {} /\ creating = <<>>
    BY DEF CreatedInv
  <2>3. Range(creating) = {}
    BY <2>2 DEF Range
  <2> QED
    BY <2>1, <2>2, <2>3 DEF SchemaInv, CreatedTablesStay, Durable, Visible
<1> HIDE DEF s
<1> QED
  BY <1>1, <1>2, <1>3 DEF Rejected, HasKey

\* A statement of InsertAll.
LEMMA InsertAllExecute ==
  ASSUME NothingFails, RowsInv, SchemaInv, CreatedInv, InsertAllInv, Execute,
         op.name = "InsertAll"
  PROVE  InsertAllInv'
<1>0. /\ pc = "run" /\ todo # <<>> /\ Faults = {}
      /\ op.name \in Bulk /\ op.name \notin Reads /\ Single(op.name) = "Insert"
  BY SingleForms DEF Execute, NothingFails, Bulk, Reads
<1>1. /\ item \in Items /\ op.items \subseteq Items /\ last = NothingYet
      /\ link = "up" /\ txn = "none" /\ RowsOK(current) /\ Progress
  BY <1>0
  DEF RowsInv, CallInv, TxnInv, ContentsInv, WriteInv, CreatedInv
<1>2. ~StatementThrows
  BY <1>1 DEF StatementThrows
<1>3. \A i \in op.items :
        HasKey(current, i) \/ i \in Range(queue) \/ (i = item /\ AtStart)
  BY <1>0 DEF InsertAllInv, AtStart
<1>4. NothingYet.op.name # "InsertAll"
  BY DEF NothingYet, NoOp
<1>5. CASE Rejected(Head(todo)) /\ StatementRejected /\ Fail
  <2>1. UNCHANGED <<op, item, queue, last>> /\ todo' = <<>>
    BY <1>0, <1>5 DEF Fail, FailWrite
  <2>2. current' = current
    BY <1>1, <1>5 DEF StatementRejected, KeepTransaction, Abandon, session
  <2>3. \A i \in op.items : HasKey(current', i) \/ i \in Range(queue)
    BY <1>0, <1>1, <1>3, <1>5, <2>2, InsertRefused
  <2> QED
    BY <1>1, <1>4, <2>1, <2>3 DEF InsertAllInv
<1>6. CASE /\ ~Rejected(Head(todo))
           /\ Perform(Head(todo))
           /\ UNCHANGED <<startup, pc, op, item, last>>
  <2>1. /\ Head(todo).kind \in {"insert", "update", "delete"}
        /\ WriteEffect(item, op.name)
    BY <1>0, <1>1, <1>6, WriteStep DEF Writes
  <2>2. queue' = queue
    BY <1>6, <2>1, PerformWrites
  <2>3. KeysKept(current, current') /\ HasKey(current', item)
    BY <1>0, <2>1 DEF WriteEffect
  <2>4. \A i \in op.items : HasKey(current', i) \/ i \in Range(queue)
    BY <1>1, <1>3, <2>3 DEF KeysKept
  <2> QED
    BY <1>1, <1>4, <1>6, <2>2, <2>4 DEF InsertAllInv
<1> QED
  BY <1>0, <1>2, <1>5, <1>6 DEF Execute

\* InsertAll comes to its next entity, or returns.
LEMMA InsertAllNext ==
  ASSUME RowsInv, InsertAllInv, NextEntity, op.name = "InsertAll"
  PROVE  InsertAllInv'
<1>0. /\ pc = "run" /\ todo = <<>> /\ UNCHANGED session
      /\ op.name \in Bulk /\ Single(op.name) = "Insert"
  BY SingleForms DEF NextEntity, Bulk
<1>1. /\ item \in Items /\ queue \in Seq(Items) /\ last = NothingYet
      /\ current = committed /\ current' = current /\ committed' = committed
  BY <1>0 DEF RowsInv, CallInv, TxnInv, SessionTypeOK, session
<1>2. \A i \in op.items : HasKey(current, i) \/ i \in Range(queue)
  <2>1. Script(op.name, item) # <<>>
    BY <1>0, <1>1, InsertScript
  <2> QED
    BY <1>0, <2>1 DEF InsertAllInv
<1>3. NothingYet.op.name # "InsertAll"
  BY DEF NothingYet, NoOp
<1>4. CASE queue = <<>> /\ Return("done")
  <2>1. pc' = "idle" /\ last'.op = op
    BY <1>4 DEF Return, ReturnToCaller
  <2>2. Range(queue) = {}
    BY <1>4 DEF Range
  <2> QED
    BY <1>1, <1>2, <2>1, <2>2 DEF InsertAllInv
<1>5. CASE /\ queue # <<>>
           /\ item' = Head(queue)
           /\ queue' = Tail(queue)
           /\ todo' = Script(op.name, Head(queue))
           /\ UNCHANGED <<startup, pc, op, found, last>>
  <2>1. Range(queue) = {item'} \cup Range(queue')
    BY <1>1, <1>5, RangeOfTail
  <2>2. (Script(op.name, item))' = Script(op.name, Head(queue))
    BY <1>5 DEF Script, Single, IdentityScript, WalletScript, WalletKeyScript,
                TransferScript, SignatureInserts, Row
  <2> QED
    BY <1>1, <1>2, <1>3, <1>5, <2>1, <2>2 DEF InsertAllInv
<1> QED
  BY <1>4, <1>5 DEF NextEntity

\* Every step leaves what InsertAll is through with in its table.
LEMMA InsertAllStep ==
  ASSUME NothingFails, RowsInv, SchemaInv, CreatedInv, InsertAllInv, [Next]_vars
  PROVE  InsertAllInv'
<1>0. Faults = {} /\ pc # "down" /\ NothingYet.op.name # "InsertAll"
      /\ NoOp.name # "InsertAll"
  BY DEF NothingFails, CreatedInv, NothingYet, NoOp
<1>s. UNCHANGED session => SameRows(committed, committed')
  BY DEF session, SameRows
<1>r. ASSUME NEW result, Return(result), op.name # "InsertAll"
      PROVE  pc' # "run" /\ (last' = last \/ last'.op.name # "InsertAll")
  BY <1>r DEF Return, ReturnToCaller, ReturnToStartup
<1>1. CASE CreateTable
  BY <1>1, <1>s, InsertAllKept DEF CreateTable
<1>2. CASE Call
  <2>1. op'.name # "InsertAll"
    <3>1. PICK name \in Operations \ Bulk, i \in Items :
            op' = [name |-> name, items |-> {i}]
      BY <1>2 DEF Call
    <3> QED
      BY <3>1 DEF Bulk
  <2> QED
    BY <1>0, <1>2, <1>s, <2>1, InsertAllKept DEF Call
<1>3. CASE CallAll
  <2>1. PICK name \in Operations \cap Bulk, i \in Items, j \in Items :
          /\ op' = [name |-> name, items |-> {i, j}]
          /\ item' = i
          /\ queue' = <<j>>
          /\ todo' = Script(name, i)
    BY <1>3 DEF CallAll
  <2>2. /\ last' = NothingYet /\ op'.name = name /\ op'.items = {i, j}
        /\ (Script(op.name, item))' = Script(name, i)
    BY <1>3, <2>1 DEF CallAll
  <2>3. Range(queue') = {j}
    BY <2>1 DEF Range
  <2> QED
    BY <1>0, <2>1, <2>2, <2>3 DEF InsertAllInv
<1>4. CASE op.name \notin Bulk /\ (Begin \/ Commit \/ Rollback \/ Execute)
  <2>0. op.name # "InsertAll" /\ pc \in {"begin", "run", "rollback"}
    BY <1>4 DEF Bulk, Begin, Commit, Rollback, Execute
  <2>1. SameRows(committed, committed') \/ last = NothingYet
    <3>1. \/ SameRows(committed, committed')
          \/ pc = "run" /\ op.name \in Writes
      BY <1>4, CommittedStep
    <3>2. op.name \in Writes => op.name # "CreateTable"
      BY DEF Writes
    <3> QED
      BY <3>1, <3>2 DEF RowsInv, CallInv
  <2>2. /\ last' = last \/ last'.op.name # "InsertAll"
        /\ pc' # "run" \/ op' = op
    <3>1. CASE Begin \/ Commit \/ Rollback
      BY <1>r, <2>0, <3>1 DEF Begin, Commit, Rollback
    <3>2. CASE Execute
      BY <2>0, <3>2 DEF Execute, Fail, FailRead, FailWrite, ReturnToCaller
    <3> QED
      BY <1>4, <3>1, <3>2
  <2> QED
    BY <2>0, <2>1, <2>2, InsertAllKept
<1>5. op.name \in Bulk => ~Begin /\ ~Commit /\ ~Rollback
  BY DEF Begin, Commit, Rollback, RowsInv, CallInv, Bulk, Writes
<1>6. CASE op.name \in Bulk \ {"InsertAll"} /\ (NextEntity \/ Execute)
  <2>1. pc = "run" /\ last = NothingYet
    BY <1>6 DEF NextEntity, Execute, RowsInv, CallInv, Bulk
  <2>2. /\ last' = last \/ last'.op.name # "InsertAll"
        /\ pc' # "run" \/ op' = op
    BY <1>6, <1>r
    DEF NextEntity, Execute, Fail, FailRead, FailWrite, ReturnToCaller
  <2> QED
    BY <1>6, <2>1, <2>2, InsertAllKept
<1>7. CASE op.name = "InsertAll" /\ (NextEntity \/ Execute)
  BY <1>7, InsertAllNext, InsertAllExecute
<1>8. CASE FinishRead
  <2>1. op.name # "InsertAll" /\ pc' = "idle" /\ last'.op = op
    BY <1>8 DEF FinishRead, ReturnToCaller, Reads
  <2> QED
    BY <1>8, <1>s, <2>1, InsertAllKept DEF FinishRead
<1>9. CASE RetrieveNext
  BY <1>9, <1>s, InsertAllKept DEF RetrieveNext
<1>10. CASE LoseConnection \/ Restart
  BY <1>0, <1>10 DEF LoseConnection, Restart
<1>11. CASE UNCHANGED vars
  BY <1>11 DEF vars, session, call, InsertAllInv
<1>12. NextEntity => op.name \in Bulk
  BY DEF NextEntity
<1> QED
  BY <1>1, <1>2, <1>3, <1>4, <1>5, <1>6, <1>7, <1>8, <1>9, <1>10, <1>11, <1>12
  DEF Next

\* InsertAll, which goes on after an entity that cannot be stored, leaves the key
\* of every one of its entities in its table, if nothing fails but what the tables
\* refuse.
THEOREM BulkInserts ==
  ASSUME NothingFails
  PROVE  Spec => []BulkInsertsTheRest
<1>1. Init => CreatedInv /\ InsertAllInv
  BY DEF Init, SessionInit, CreatedInv, InsertAllInv, NothingYet, NoOp
<1>2. RowsInv /\ SchemaInv /\ CreatedInv /\ InsertAllInv /\ [Next]_vars =>
        CreatedInv' /\ InsertAllInv'
  BY CreatedStep, InsertAllStep
<1>3. InsertAllInv => BulkInsertsTheRest
  BY DEF InsertAllInv, BulkInsertsTheRest, HasKey
<1> QED
  BY <1>1, <1>2, <1>3, RowsInvariant, PTL DEF Spec

=============================================================================
