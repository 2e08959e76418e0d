----------------------------- MODULE EntityTables -----------------------------
(***************************************************************************)
(* EntityManager over the traits of the identity, wallet, wallet key and    *)
(* transfer tables: initializeDatabase creates the tables, and then one     *)
(* caller uses Insert, Update, Delete, their bulk forms, Retrieve and       *)
(* RetrieveAll, one SQL statement at a time.  The single forms that write   *)
(* run in a transaction; the bulk forms run every statement on its own and  *)
(* go on after a failure; the reads have none.                              *)
(*                                                                          *)
(* The database is a function from the tables that exist to their rows.  A  *)
(* row is its primary key and a version that stands for its other columns;  *)
(* a signature row is the key of its transfer and the signature.            *)
(***************************************************************************)
EXTENDS SociSession, Naturals, SequencesExt

CONSTANTS
  Items,        \* the entities the caller has
  Provided,     \* the tables somebody made before the first start
  Operations,   \* the operations the caller uses
  Faults        \* subset of {"statement", "connection", "crash"}

\* Only transfers have signatures, and entities that differ, differ in their rows.
ASSUME ItemsAssumption ==
  /\ \A i \in Items :
       /\ i.table \in {"identities", "wallets", "wallet_keys", "transfers"}
       /\ i.signatures \in Seq(Range(i.signatures))
       /\ i.table # "transfers" => i.signatures = <<>>
  /\ \A i, j \in Items :
       /\ i.table = j.table
       /\ i.id = j.id
       /\ i.version = j.version
       /\ Range(i.signatures) = Range(j.signatures)
       => i = j
ASSUME OperationsAssumption ==
  Operations \subseteq {"Insert", "Update", "Delete", "InsertAll", "UpdateAll",
                       "DeleteAll", "Retrieve", "RetrieveAll"}

VARIABLES
  creating,     \* the tables initializeDatabase has still to create
  failed,       \* those CreateTable returned false for
  pc,           \* where the operation is
  op,           \* the operation: its name, and the entities it is called with
  item,         \* the entity it is at
  queue,        \* those a bulk operation, or RetrieveAll, has still to come to
  todo,         \* the statements left for the entity
  found,        \* the rows a read has got so far
  last          \* the caller's last operation, until it calls another

startup == <<creating, failed>>
call == <<op, item, queue, todo, found>>
vars == <<session, startup, pc, call, last>>

\* BlockchainNode::initializeDatabase; nothing creates transfer_signatures.
CreatedTables == <<"identities", "wallets", "wallet_keys", "transfers">>

Reads == {"Retrieve", "RetrieveAll"}
Bulk == {"InsertAll", "UpdateAll", "DeleteAll"}

-----------------------------------------------------------------------------
(* The statements of the table traits.                                      *)

\* CreateTable and RetrieveAll are called with a table only.
Blank(table) == [table |-> table, id |-> "", version |-> 0, signatures |-> <<>>]

Row(i) == [id |-> i.id, version |-> i.version]

Statement(kind, table, row) == [kind |-> kind, table |-> table, row |-> row]

Kind == [CreateTable |-> "create", Insert |-> "insert", Update |-> "update",
         Delete |-> "delete", Retrieve |-> "select", RetrieveAll |-> "select_all"]

IdentityScript(name, i) == <<Statement(Kind[name], "identities", Row(i))>>

\* Update ends its SET list in a comma and a comment.
WalletScript(name, i) ==
  <<Statement(IF name = "Update" THEN "malformed" ELSE Kind[name], "wallets", Row(i))>>

\* Update binds five values to four placeholders.
WalletKeyScript(name, i) ==
  <<Statement(IF name = "Update" THEN "malformed" ELSE Kind[name], "wallet_keys",
              Row(i))>>

SignatureInserts(i) ==
  [n \in 1..Len(i.signatures) |->
    Statement("insert", "transfer_signatures",
              [id |-> i.id, signature |-> i.signatures[n]])]

\* The rows of transfer_signatures are found by the key of the transfer.
TransferScript(name, i) ==
  LET own(kind) == <<Statement(kind, "transfers", Row(i))>>
      signatures(kind) == <<Statement(kind, "transfer_signatures", Row(i))>>
  IN CASE name = "CreateTable" -> own("create")
       [] name = "Insert" -> own("insert") \o SignatureInserts(i)
       [] name = "Update" -> own("update") \o signatures("delete")
                               \o SignatureInserts(i)
       [] name = "Delete" -> signatures("delete") \o own("delete")
       [] name = "Retrieve" -> own("select") \o signatures("select")
       [] name = "RetrieveAll" -> own("select_keys")

\* A bulk form does with each entity what its single form does.
Single(name) ==
  CASE name = "InsertAll" -> "Insert"
    [] name = "UpdateAll" -> "Update"
    [] name = "DeleteAll" -> "Delete"
    [] OTHER -> name

\* What the operation does with one entity.
Script(name, i) ==
  CASE i.table = "identities" -> IdentityScript(Single(name), i)
    [] i.table = "wallets" -> WalletScript(Single(name), i)
    [] i.table = "wallet_keys" -> WalletKeyScript(Single(name), i)
    [] i.table = "transfers" -> TransferScript(Single(name), i)

-----------------------------------------------------------------------------
(* What the engine makes of a statement.                                    *)

Rows(c, table) == IF table \in DOMAIN c THEN c[table] ELSE {}

\* Mutant: the tables are created without their PRIMARY KEY.
RejectedWithoutKeys(s) ==
  \/ s.kind # "create" /\ s.table \notin DOMAIN current
  \/ s.kind = "malformed"

\* Primary keys are unique; transfer_signatures has none.
Rejected(s) ==
  \/ s.kind # "create" /\ s.table \notin DOMAIN current
  \/ s.kind = "malformed"
  \/ /\ s.kind = "insert"
     /\ s.table # "transfer_signatures"
     /\ \E r \in Rows(current, s.table) : r.id = s.row.id

Created(table) ==
  [t \in DOMAIN current \cup {table} |-> Rows(current, t)]

Written(s) ==
  [current EXCEPT ![s.table] =
    CASE s.kind = "insert" -> @ \cup {s.row}
      [] s.kind = "update" -> {IF r.id = s.row.id THEN s.row ELSE r : r \in @}
      [] s.kind = "delete" -> {r \in @ : r.id # s.row.id}]

\* The rows a SELECT answers, with their table.
Selected(s) ==
  {s.table} \X {r \in current[s.table] : s.kind = "select" => r.id = s.row.id}

\* TableTraits<Transfer>::RetrieveAll retrieves the transfers one by one.
RetrieveEach ==
  LET rows == SetToSeq(current["transfers"])
  IN [n \in DOMAIN rows |-> [Blank("transfers") EXCEPT !.id = rows[n].id]]

-----------------------------------------------------------------------------
NoOp == [name |-> "none", items |-> {}]

NothingYet == [op |-> NoOp, result |-> "none", rows |-> {}]

Init ==
  /\ SessionInit([t \in Provided |-> {}])
  /\ creating = CreatedTables
  /\ failed = {}
  /\ pc = "idle"
  /\ op = NoOp
  /\ item = <<>>
  /\ queue = <<>>
  /\ todo = <<>>
  /\ found = {}
  /\ last = NothingYet

Reset ==
  /\ op' = NoOp
  /\ item' = <<>>
  /\ queue' = <<>>
  /\ todo' = <<>>
  /\ found' = {}

\* The operation returns to its caller.
ReturnToCaller(result, rows) ==
  /\ Reset
  /\ pc' = "idle"
  /\ last' = [op |-> op, result |-> result, rows |-> rows]
  /\ UNCHANGED startup

\* CreateTable returns to initializeDatabase, which ignores the answer; nothing
\* catches an exception there.
ReturnToStartup(result) ==
  /\ Reset
  /\ pc' = IF result = "exception" THEN "down" ELSE "idle"
  /\ creating' = Tail(creating)
  /\ failed' = IF result = "done" THEN failed ELSE failed \cup {item.table}
  /\ UNCHANGED last

Return(result) ==
  IF op.name = "CreateTable" THEN ReturnToStartup(result)
  ELSE ReturnToCaller(result, {})

\* A caller updates entities it has retrieved.
Permitted(name, i) ==
  name \in {"Update", "UpdateAll"} =>
    \E r \in Rows(current, i.table) : r.id = i.id

-----------------------------------------------------------------------------
(* The single forms.                                                        *)

CreateTable ==
  /\ pc = "idle"
  /\ creating # <<>>
  /\ pc' = "begin"
  /\ op' = [name |-> "CreateTable", items |-> {}]
  /\ item' = Blank(Head(creating))
  /\ UNCHANGED <<session, startup, queue, todo, found, last>>

Call ==
  /\ pc = "idle"
  /\ creating = <<>>
  /\ \E name \in Operations \ Bulk, i \in Items :
       /\ Permitted(name, i)
       /\ op' = [name |-> name, items |-> {i}]
       /\ item' = i
       /\ IF name \in Reads
          THEN pc' = "run" /\ todo' = Script(name, i)
          ELSE pc' = "begin" /\ UNCHANGED todo
  /\ last' = NothingYet
  /\ UNCHANGED <<session, startup, queue, found>>

\* Mutant: the single forms open no transaction, as the bulk forms do not.
BeginWithoutTransaction ==
  /\ pc = "begin"
  /\ pc' = "run"
  /\ todo' = Script(op.name, item)
  /\ UNCHANGED <<session, startup, op, item, queue, found, last>>

\* soci::transaction tx(m_sql), outside the try block.
Begin ==
  /\ pc = "begin"
  /\ \/ /\ SessionBegin
        /\ pc' = "run"
        /\ todo' = Script(op.name, item)
        /\ UNCHANGED <<startup, op, item, queue, found, last>>
     \/ /\ BeginThrows \/ "statement" \in Faults
        /\ Return("exception")
        /\ UNCHANGED session

\* Mutant: the transaction is left to its destructor, which rolls it back.
CommitForgotten ==
  /\ pc = "run"
  /\ op.name \notin Bulk \cup Reads
  /\ todo = <<>>
  /\ SessionRollback
  /\ Return("done")

Commit ==
  /\ pc = "run"
  /\ op.name \notin Bulk \cup Reads
  /\ todo = <<>>
  /\ \/ SessionCommit /\ Return("done")
     \/ /\ \/ EndThrows /\ UNCHANGED session
           \/ "statement" \in Faults /\ CommitError
           \/ "connection" \in Faults /\ CommitAnswerLost
        /\ pc' = "rollback"
        /\ UNCHANGED <<startup, call, last>>

\* tx.rollback() in the catch block.  If it throws, ~transaction tries again, in
\* vain as nobody else uses the session here.
Rollback ==
  /\ pc = "rollback"
  /\ \/ SessionRollback /\ Return("failed")
     \/ EndThrows /\ Return("exception") /\ UNCHANGED session

\* Retrieve and RetrieveAll return what they have read.
FinishRead ==
  /\ pc = "run"
  /\ op.name \in Reads
  /\ todo = <<>>
  /\ queue = <<>>
  /\ ReturnToCaller("done", found)
  /\ UNCHANGED session

\* The next transfer of TableTraits<Transfer>::RetrieveAll.
RetrieveNext ==
  /\ pc = "run"
  /\ op.name = "RetrieveAll"
  /\ todo = <<>>
  /\ queue # <<>>
  /\ item' = Head(queue)
  /\ queue' = Tail(queue)
  /\ todo' = Script("Retrieve", Head(queue))
  /\ UNCHANGED <<session, startup, pc, op, found, last>>

-----------------------------------------------------------------------------
(* The bulk forms: two entities stand for any number.                       *)

CallAll ==
  /\ pc = "idle"
  /\ creating = <<>>
  /\ \E name \in Operations \cap Bulk, i, j \in Items :
       /\ Permitted(name, i)
       /\ Permitted(name, j)
       /\ op' = [name |-> name, items |-> {i, j}]
       /\ item' = i
       /\ queue' = <<j>>
       /\ todo' = Script(name, i)
  /\ pc' = "run"
  /\ last' = NothingYet
  /\ UNCHANGED <<session, startup, found>>

NextEntity ==
  /\ pc = "run"
  /\ op.name \in Bulk
  /\ todo = <<>>
  /\ \/ /\ queue # <<>>
        /\ item' = Head(queue)
        /\ queue' = Tail(queue)
        /\ todo' = Script(op.name, Head(queue))
        /\ UNCHANGED <<startup, pc, op, found, last>>
     \/ queue = <<>> /\ Return("done")
  /\ UNCHANGED session

-----------------------------------------------------------------------------
(* One statement of the entity at hand.                                     *)

\* The catch block: a single form rolls back, a bulk form logs the error and
\* goes on with the next entity.
FailWrite ==
  /\ pc' = IF op.name \in Bulk THEN "run" ELSE "rollback"
  /\ todo' = <<>>
  /\ UNCHANGED <<startup, op, item, queue, found, last>>

\* RetrieveAll returns an empty vector; Retrieve flows off its end, and what its
\* caller gets is undefined.
FailRead ==
  ReturnToCaller(IF op.name = "Retrieve" THEN "undefined" ELSE "failed", {})

\* Mutant: a bulk form gives up at the first entity that fails.
FailAll ==
  IF op.name \in Reads THEN FailRead
  ELSE /\ pc' = IF op.name \in Bulk THEN "run" ELSE "rollback"
       /\ todo' = <<>>
       /\ queue' = <<>>
       /\ UNCHANGED <<startup, op, item, found, last>>

\* Mutant: RetrieveAll returns what it has read up to the failure.
FailKeepingRows ==
  IF op.name \in Reads THEN ReturnToCaller("failed", found) ELSE FailWrite

\* Mutant: the error is logged, and the transaction committed all the same.
FailIgnored ==
  IF op.name \in Reads THEN FailRead
  ELSE /\ todo' = <<>>
       /\ UNCHANGED <<startup, pc, op, item, queue, found, last>>

Fail == IF op.name \in Reads THEN FailRead ELSE FailWrite

\* The statement succeeds.
Perform(s) ==
  /\ todo' = Tail(todo)
  /\ CASE s.kind = "create" ->
            SessionDefine(Created(s.table)) /\ UNCHANGED <<queue, found>>
       [] s.kind = "select_keys" ->
            /\ ~StatementThrows
            /\ queue' = RetrieveEach
            /\ UNCHANGED <<session, found>>
       [] s.kind \in {"select", "select_all"} ->
            /\ ~StatementThrows
            /\ found' = found \cup Selected(s)
            /\ UNCHANGED <<session, queue>>
       [] OTHER -> SessionWrite(Written(s)) /\ UNCHANGED <<queue, found>>

Execute ==
  /\ pc = "run"
  /\ todo # <<>>
  /\ LET s == Head(todo)
     IN \/ /\ ~Rejected(s)
           /\ Perform(s)
           /\ UNCHANGED <<startup, pc, op, item, last>>
        \/ ~StatementThrows /\ Rejected(s) /\ StatementRejected /\ Fail
        \/ StatementThrows /\ UNCHANGED session /\ Fail
        \/ "statement" \in Faults /\ StatementError /\ Fail

-----------------------------------------------------------------------------
LoseConnection ==
  /\ "connection" \in Faults
  /\ Disconnect
  /\ UNCHANGED <<startup, pc, call, last>>

\* The process has died of an exception, or dies now; it is started again.  Of
\* its last operation only a finished write is still of interest.
Restart ==
  /\ pc = "down" \/ "crash" \in Faults
  /\ SessionReopen
  /\ creating' = CreatedTables
  /\ failed' = {}
  /\ pc' = "idle"
  /\ Reset
  /\ last' = IF last.result = "done" /\ last.op.name \notin Reads THEN last
             ELSE NothingYet

Next ==
  \/ CreateTable
  \/ Call
  \/ Begin
  \/ Commit
  \/ Rollback
  \/ FinishRead
  \/ RetrieveNext
  \/ CallAll
  \/ NextEntity
  \/ Execute
  \/ LoseConnection
  \/ Restart

Spec == Init /\ [][Next]_vars

-----------------------------------------------------------------------------
\* The rows of a table with, for transfers, their signatures.
StoredRows(table, c) ==
  UNION {{t} \X Rows(c, t) :
           t \in {table} \cup (IF table = "transfers" THEN {"transfer_signatures"}
                              ELSE {})}

SignaturesOf(i, c) ==
  {r.signature : r \in {q \in Rows(c, "transfer_signatures") : q.id = i.id}}

\* The entities whose rows, and signatures, are all in the database.
Whole(c) ==
  {i \in Items :
    /\ Row(i) \in Rows(c, i.table)
    /\ i.table = "transfers" => SignaturesOf(i, c) = Range(i.signatures)}

\* The rows that belong to none of them.
Partial(c) ==
  LET own(t, r) == \E i \in Whole(c) :
        /\ r.id = i.id
        /\ t = i.table \/ (t = "transfer_signatures" /\ i.table = "transfers")
  IN {q \in UNION {{t} \X c[t] : t \in DOMAIN c} : ~own(q[1], q[2])}

\* The tables hold rows of the entities the caller has, and one per key.
TypeOK ==
  /\ SessionTypeOK({current, committed})
  /\ pc \in {"idle", "begin", "run", "rollback", "down"}
  /\ failed \subseteq Range(CreatedTables) \ Range(creating)
  /\ DOMAIN current \subseteq Provided \cup Range(CreatedTables)
  /\ \A t \in DOMAIN current \ {"transfer_signatures"} :
       /\ current[t] \subseteq {Row(i) : i \in {j \in Items : j.table = t}}
       /\ \A q, r \in current[t] : q.id = r.id => q = r

\* The single forms change the database by one whole entity at a time: never a
\* transfer without its signatures, nor signatures without their transfer,
\* whatever fails between their statements; creating the tables at the next start
\* changes no entity.
Store == INSTANCE EntityStore
  WITH stored <- Whole(committed), partial <- Partial(committed)
StoreSpec == Store!Spec

\* A table CreateTable returned true for is there as long as the node runs,
\* though a later CreateTable may fail, abort its transaction and roll it back.
CreatedTablesStay ==
  pc # "down" =>
    Range(CreatedTables) \ (Range(creating) \cup failed) \subseteq DOMAIN committed

\* A single form that returns after its COMMIT has taken effect, on the rows of
\* both tables, and a later failure does not take it back.
DoneTakesEffect ==
  pc = "idle" /\ last.result = "done" =>
    \A i \in last.op.items :
      CASE last.op.name \in {"Insert", "Update"} -> i \in Whole(committed)
        [] last.op.name = "Delete" -> \A r \in Rows(committed, i.table) : r.id # i.id
        [] OTHER -> TRUE

\* "Retrieves every entity in the table": every one, with all its signatures, or
\* none when a statement fails, though transfers are read with two statements for
\* each.
RetrievesAllOrNone ==
  pc = "idle" /\ last.op.name = "RetrieveAll" =>
    \A i \in last.op.items :
      last.rows = IF last.result = "done" THEN StoredRows(i.table, committed) ELSE {}

\* A bulk insert stores every entity it can, not those before the first that
\* cannot be stored.
BulkInsertsTheRest ==
  pc = "idle" /\ last.op.name = "InsertAll" =>
    \A i \in last.op.items : \E r \in Rows(committed, i.table) : r.id = i.id

\* "Updates an entity": after Update, which returns nothing, the row of an entity
\* its caller has retrieved has the new values.
UpdateTakesEffect ==
  pc = "idle" /\ last.op.name = "Update" =>
    \A i \in last.op.items : Row(i) \in Rows(committed, i.table)

=============================================================================
