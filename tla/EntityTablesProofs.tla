--------------------------- MODULE EntityTablesProofs ---------------------------
(* Theorems about EntityTables, for any entities, operations, engines and faults. *)
EXTENDS EntityTables, TLAPS

Tables == {"identities", "wallets", "wallet_keys", "transfers"}

\* The tables of the database, durable and as seen over the connection.
Durable == DOMAIN committed
Visible == DOMAIN current

-----------------------------------------------------------------------------
(* Sequences and scripts.                                                    *)

\* A sequence holds its first element and those of the rest.
LEMMA RangeOfTail ==
  ASSUME NEW S, NEW s \in Seq(S), s # <<>>
  PROVE  /\ Head(s) \in S
         /\ Tail(s) \in Seq(S)
         /\ Range(s) = {Head(s)} \cup Range(Tail(s))
<1>1. /\ Head(s) \in S
      /\ Tail(s) \in Seq(S)
      /\ Head(s) = s[1]
      /\ Len(s) \in Nat \ {0}
      /\ Len(Tail(s)) = Len(s) - 1
      /\ \A i \in 1..Len(Tail(s)) : Tail(s)[i] = s[i + 1]
  OBVIOUS
<1>2. DOMAIN s = 1..Len(s) /\ DOMAIN Tail(s) = 1..Len(Tail(s))
  BY <1>1
<1>3. \A i \in 1..Len(s) : s[i] \in {Head(s)} \cup Range(Tail(s))
  <2> SUFFICES ASSUME NEW i \in 1..Len(s), i # 1 PROVE s[i] \in Range(Tail(s))
    BY <1>1
  <2>1. i - 1 \in 1..Len(Tail(s)) /\ Tail(s)[i - 1] = s[i]
    BY <1>1
  <2> QED
    BY <1>2, <2>1 DEF Range
<1>4. \A i \in 1..Len(Tail(s)) : Tail(s)[i] \in Range(s)
  BY <1>1, <1>2 DEF Range
<1>5. Head(s) \in Range(s)
  BY <1>1, <1>2 DEF Range
<1> QED
  BY <1>1, <1>2, <1>3, <1>4, <1>5 DEF Range

\* The tables initializeDatabase creates.
LEMMA CreatedTablesAre ==
  /\ CreatedTables \in Seq(Tables)
  /\ Range(CreatedTables) = Tables
<1>1. /\ DOMAIN CreatedTables = 1..4
      /\ CreatedTables[1] = "identities" /\ CreatedTables[2] = "wallets"
      /\ CreatedTables[3] = "wallet_keys" /\ CreatedTables[4] = "transfers"
      /\ CreatedTables \in Seq(Tables)
  BY DEF CreatedTables, Tables
<1>2. \A x : x \in Range(CreatedTables) <=> x \in Tables
  BY <1>1 DEF Range, Tables
<1> QED
  BY <1>1, <1>2

\* CreateTable of every trait is one statement.
LEMMA CreateScript ==
  ASSUME NEW table \in Tables
  PROVE  Script("CreateTable", Blank(table))
           = <<Statement("create", table, Row(Blank(table)))>>
<1>1. Blank(table).table = table
  BY DEF Blank
<1>2. Kind["CreateTable"] = "create"
  BY DEF Kind
<1>3. CASE table = "identities"
  BY <1>1, <1>2, <1>3 DEF Script, Single, IdentityScript
<1>4. CASE table = "wallets"
  BY <1>1, <1>2, <1>4 DEF Script, Single, WalletScript
<1>5. CASE table = "wallet_keys"
  BY <1>1, <1>2, <1>5 DEF Script, Single, WalletKeyScript
<1>6. CASE table = "transfers"
  BY <1>1, <1>2, <1>6 DEF Script, Single, TransferScript
<1> QED
  BY <1>3, <1>4, <1>5, <1>6 DEF Tables

-----------------------------------------------------------------------------
(* No statement drops a table.                                               *)

\* Of the statements that are not writes, those that fail included.
LEMMA SchemaGrows ==
  ASSUME Durable \subseteq Visible,
         \/ SessionBegin \/ SessionCommit \/ SessionRollback
         \/ StatementRejected \/ StatementError \/ CommitError
         \/ Disconnect \/ CommitAnswerLost \/ SessionReopen
         \/ UNCHANGED session
  PROVE  Durable \subseteq Durable' /\ Durable' \subseteq Visible'
  BY DEF Durable, Visible, session, SessionBegin, SessionCommit, SessionRollback,
         StatementRejected, StatementError, CommitError, Abandon,
         KeepTransaction, Disconnect, CommitAnswerLost, SessionReopen

\* Of the others: CREATE TABLE adds one, and a write changes rows only.
LEMMA PerformGrows ==
  ASSUME NEW s, Durable \subseteq Visible, Perform(s)
  PROVE  /\ Durable \subseteq Durable'
         /\ Durable' \subseteq Visible'
         /\ link # "down"
         /\ s.kind = "create" => s.table \in Visible' /\ todo' = Tail(todo)
<1>1. CASE s.kind = "create"
  <2>1. SessionDefine(Created(s.table)) /\ todo' = Tail(todo)
    BY <1>1 DEF Perform
  <2>2. DOMAIN Created(s.table) = Visible \cup {s.table}
    BY DEF Created, Visible
  <2> QED
    BY <2>1, <2>2 DEF SessionDefine, StatementThrows, Durable, Visible
<1>2. CASE s.kind \in {"select_keys", "select", "select_all"}
  <2>1. UNCHANGED session /\ link # "down"
    BY <1>2 DEF Perform, StatementThrows
  <2> QED
    BY <1>2, <2>1 DEF session, Durable, Visible
<1>3. CASE s.kind \notin {"create", "select_keys", "select", "select_all"}
  <2>1. SessionWrite(Written(s))
    BY <1>3, Zenon DEF Perform
  <2>2. DOMAIN Written(s) = Visible
    BY Zenon DEF Written, Visible
  <2> QED
    BY <1>3, <2>1, <2>2 DEF SessionWrite, StatementThrows, Durable, Visible
<1> QED
  BY <1>1, <1>2, <1>3
-----------------------------------------------------------------------------
\* While a table is being created it is the first of those still to be created,
\* and once its statement has been accepted it is there to be committed, unless
\* the connection, and with it the COMMIT, has been lost.
SchemaInv ==
  /\ Durable \subseteq Visible
  /\ creating \in Seq(Tables)
  /\ CreatedTablesStay
  /\ pc \in {"begin", "run", "rollback"} /\ op.name = "CreateTable" =>
       creating # <<>> /\ item = Blank(Head(creating))
  /\ pc = "run" /\ op.name = "CreateTable" =>
       \/ link = "down"
       \/ todo = Script("CreateTable", item)
       \/ todo = <<>> /\ item.table \in Visible

\* A step that only moves on within an operation keeps the tables there are.
LEMMA SchemaKept ==
  ASSUME SchemaInv, pc # "down", UNCHANGED startup, Durable \subseteq Durable'
  PROVE  creating' \in Seq(Tables) /\ CreatedTablesStay'
  BY DEF SchemaInv, CreatedTablesStay, startup, Durable

\* An operation that returns keeps the tables there are, and adds the one it has
\* created if it says so.
LEMMA ReturnKeeps ==
  ASSUME SchemaInv, pc \in {"begin", "run", "rollback"}, NEW result, Return(result),
         Durable \subseteq Durable', Durable' \subseteq Visible',
         op.name = "CreateTable" /\ result = "done" => item.table \in Durable'
  PROVE  SchemaInv'
<1>1. CASE op.name # "CreateTable"
  <2>1. pc' = "idle" /\ UNCHANGED startup
    BY <1>1 DEF Return, ReturnToCaller
  <2> QED
    BY <2>1, SchemaKept DEF SchemaInv
<1>2. CASE op.name = "CreateTable"
  <2>1. creating # <<>> /\ item.table = Head(creating)
    <3>1. creating # <<>> /\ item = Blank(Head(creating))
      BY <1>2 DEF SchemaInv
    <3>2. Blank(Head(creating)).table = Head(creating)
      BY DEF Blank
    <3> QED
      BY <3>1, <3>2
  <2>2. /\ creating' = Tail(creating)
        /\ failed' = IF result = "done" THEN failed ELSE failed \cup {item.table}
        /\ pc' \in {"idle", "down"}
    BY <1>2 DEF Return, ReturnToStartup
  <2>3. /\ creating' \in Seq(Tables)
        /\ Range(creating) = {item.table} \cup Range(creating')
    BY <2>1, <2>2, RangeOfTail DEF SchemaInv
  <2>4. Range(CreatedTables) \ (Range(creating) \cup failed) \subseteq Durable
    BY DEF SchemaInv, CreatedTablesStay, Durable
  <2>5. Range(CreatedTables) \ (Range(creating') \cup failed') \subseteq Durable'
    BY <1>2, <2>2, <2>3, <2>4
  <2>6. CreatedTablesStay'
    BY <2>5 DEF CreatedTablesStay, Durable, CreatedTables
  <2> QED
    BY <2>2, <2>3, <2>6 DEF SchemaInv
<1> QED
  BY <1>1, <1>2

\* So does one whose statement failed.
LEMMA FailKeeps ==
  ASSUME SchemaInv, pc = "run", Fail,
         Durable \subseteq Durable', Durable' \subseteq Visible'
  PROVE  SchemaInv'
<1>1. CASE op.name \in Reads
  <2>1. pc' = "idle" /\ UNCHANGED startup
    BY <1>1 DEF Fail, FailRead, ReturnToCaller
  <2> QED
    BY <2>1, SchemaKept DEF SchemaInv
<1>2. CASE op.name \notin Reads
  <2>1. /\ pc' = IF op.name \in Bulk THEN "run" ELSE "rollback"
        /\ UNCHANGED <<startup, op, item>>
    BY <1>2 DEF Fail, FailWrite
  <2>2. op.name \in Bulk => op.name # "CreateTable"
    BY DEF Bulk
  <2> QED
    BY <2>1, <2>2, SchemaKept DEF SchemaInv, startup
<1> QED
  BY <1>1, <1>2

\* No step takes back a table that CreateTable has answered true for.
LEMMA SchemaStep == SchemaInv /\ [Next]_vars => SchemaInv'
<1> SUFFICES ASSUME SchemaInv, [Next]_vars PROVE SchemaInv'
  OBVIOUS
<1>0. Durable \subseteq Visible
  BY DEF SchemaInv
<1>u. ASSUME UNCHANGED session
      PROVE  Durable \subseteq Durable' /\ Durable' \subseteq Visible'
  BY <1>0, <1>u, SchemaGrows
<1>1. CASE CreateTable
  <2>1. Durable \subseteq Durable' /\ Durable' \subseteq Visible'
    BY <1>1, <1>u DEF CreateTable
  <2> QED
    BY <1>1, <2>1, SchemaKept DEF CreateTable, SchemaInv, startup
<1>2. CASE Call
  <2>1. Durable \subseteq Durable' /\ Durable' \subseteq Visible'
    BY <1>2, <1>u DEF Call
  <2>2. op'.name # "CreateTable"
    BY <1>2, OperationsAssumption DEF Call
  <2> QED
    BY <1>2, <2>1, <2>2, SchemaKept DEF Call, SchemaInv, startup
<1>3. CASE Begin
  <2>1. Durable \subseteq Durable' /\ Durable' \subseteq Visible'
    BY <1>0, <1>3, SchemaGrows DEF Begin
  <2>2. CASE Return("exception")
    BY <1>3, <2>1, <2>2, ReturnKeeps DEF Begin
  <2>3. CASE /\ pc' = "run"
             /\ todo' = Script(op.name, item)
             /\ UNCHANGED <<startup, op, item>>
    <3>1. pc = "begin"
      BY <1>3 DEF Begin
    <3>2. op'.name = "CreateTable" => todo' = Script("CreateTable", item')
      <4>1. Script(op.name, item)' = Script(op.name, item)
        BY <2>3 DEF Script, Single, IdentityScript, WalletScript, WalletKeyScript,
                    TransferScript, SignatureInserts, Row
      <4> QED
        BY <2>3
    <3> QED
      BY <2>1, <2>3, <3>1, <3>2, SchemaKept DEF SchemaInv, startup
  <2> QED
    BY <1>3, <2>2, <2>3 DEF Begin
<1>4. CASE Commit
  <2>1. Durable \subseteq Durable' /\ Durable' \subseteq Visible'
    BY <1>0, <1>4, SchemaGrows DEF Commit
  <2>2. CASE SessionCommit /\ Return("done")
    <3>1. link # "down" /\ Durable' = Visible
      BY <2>2 DEF SessionCommit, EndThrows, Durable, Visible
    <3>2. op.name = "CreateTable" => item.table \in Visible
      <4> SUFFICES ASSUME op.name = "CreateTable", todo = Script("CreateTable", item)
                   PROVE  FALSE
        BY <1>4, <3>1 DEF Commit, SchemaInv
      <4>1. item = Blank(Head(creating)) /\ Head(creating) \in Tables
        BY <1>4, RangeOfTail DEF Commit, SchemaInv
      <4>2. Len(todo) = 1
        BY <4>1, CreateScript
      <4> QED
        BY <1>4, <4>2 DEF Commit
    <3> QED
      BY <1>4, <2>1, <2>2, <3>1, <3>2, ReturnKeeps DEF Commit
  <2>3. CASE pc' = "rollback" /\ UNCHANGED <<startup, call>>
    BY <1>4, <2>1, <2>3, SchemaKept DEF Commit, SchemaInv, startup, call
  <2> QED
    BY <1>4, <2>2, <2>3 DEF Commit
<1>5. CASE Rollback
  <2>1. Durable \subseteq Durable' /\ Durable' \subseteq Visible'
    BY <1>0, <1>5, SchemaGrows DEF Rollback
  <2>2. PICK result \in {"failed", "exception"} : Return(result)
    BY <1>5 DEF Rollback
  <2> QED
    BY <1>5, <2>1, <2>2, ReturnKeeps DEF Rollback
<1>6. CASE FinishRead
  <2>1. Durable \subseteq Durable' /\ Durable' \subseteq Visible'
    BY <1>6, <1>u DEF FinishRead
  <2> QED
    BY <1>6, <2>1, SchemaKept DEF FinishRead, ReturnToCaller, SchemaInv, startup
<1>r. CASE RetrieveNext
  <2>1. Durable \subseteq Durable' /\ Durable' \subseteq Visible'
    BY <1>r, <1>u DEF RetrieveNext
  <2> QED
    BY <1>r, <2>1, SchemaKept DEF RetrieveNext, SchemaInv, startup
<1>7. CASE CallAll
  <2>1. Durable \subseteq Durable' /\ Durable' \subseteq Visible'
    BY <1>7, <1>u DEF CallAll
  <2>2. op'.name # "CreateTable"
    BY <1>7 DEF CallAll, Bulk
  <2> QED
    BY <1>7, <2>1, <2>2, SchemaKept DEF CallAll, SchemaInv, startup
<1>8. CASE NextEntity
  <2>1. Durable \subseteq Durable' /\ Durable' \subseteq Visible'
    BY <1>8, <1>u DEF NextEntity
  <2>2. op.name # "CreateTable"
    BY <1>8 DEF NextEntity, Bulk
  <2>3. CASE Return("done")
    BY <1>8, <2>1, <2>2, <2>3, ReturnKeeps DEF NextEntity
  <2>4. CASE UNCHANGED <<startup, pc, op>>
    BY <1>8, <2>1, <2>2, <2>4, SchemaKept DEF NextEntity, SchemaInv, startup
  <2> QED
    BY <1>8, <2>3, <2>4 DEF NextEntity
<1>9. CASE Execute
  <2> DEFINE s == Head(todo)
  <2>0. pc = "run" /\ todo # <<>>
    BY <1>9 DEF Execute
  <2>1. CASE Perform(s) /\ UNCHANGED <<startup, pc, op, item>>
    <3>1. /\ Durable \subseteq Durable'
          /\ Durable' \subseteq Visible'
          /\ link # "down"
          /\ s.kind = "create" => s.table \in Visible' /\ todo' = Tail(todo)
      BY <1>0, <2>1, PerformGrows
    <3>2. op.name = "CreateTable" => todo' = <<>> /\ item.table \in Visible'
      <4> SUFFICES ASSUME op.name = "CreateTable"
                   PROVE  todo' = <<>> /\ item.table \in Visible'
        OBVIOUS
      <4>1. item = Blank(Head(creating)) /\ Head(creating) \in Tables
        BY <2>0, RangeOfTail DEF SchemaInv
      <4>2. todo = Script("CreateTable", item)
        BY <2>0, <3>1 DEF SchemaInv
      <4>3. /\ s.kind = "create"
            /\ s.table = item.table
            /\ Tail(todo) = <<>>
        <5>1. item.table = Head(creating)
          BY <4>1 DEF Blank
        <5> DEFINE statement == Statement("create", Head(creating), Row(item))
        <5>2. todo = <<statement>>
          BY <4>1, <4>2, CreateScript
        <5>3. statement.kind = "create" /\ statement.table = Head(creating)
          BY DEF Statement
        <5> HIDE DEF statement
        <5>4. Head(todo) = statement /\ Tail(todo) = <<>>
          BY <5>2
        <5> QED
          BY <5>1, <5>3, <5>4
      <4> QED
        BY <3>1, <4>3
    <3> QED
      BY <2>0, <2>1, <3>1, <3>2, SchemaKept DEF SchemaInv, startup
  <2>2. CASE Fail /\ (StatementRejected \/ StatementError \/ UNCHANGED session)
    BY <1>0, <2>0, <2>2, SchemaGrows, FailKeeps
  <2> QED
    BY <1>9, <2>1, <2>2 DEF Execute
<1>10. CASE LoseConnection
  <2>1. Durable \subseteq Durable' /\ Durable' \subseteq Visible'
    BY <1>0, <1>10, SchemaGrows DEF LoseConnection
  <2>2. /\ UNCHANGED <<startup, pc, call>>
        /\ link' = "down"
    BY <1>10 DEF LoseConnection, Disconnect
  <2>3. CASE pc = "down"
    BY <2>1, <2>2, <2>3 DEF SchemaInv, startup, CreatedTablesStay
  <2>4. CASE pc # "down"
    BY <2>1, <2>2, <2>4, SchemaKept DEF SchemaInv, startup, call
  <2> QED
    BY <2>3, <2>4
<1>11. CASE Restart
  <2>1. Durable' \subseteq Visible'
    BY <1>0, <1>11, SchemaGrows DEF Restart
  <2>2. creating' = CreatedTables /\ pc' = "idle"
    BY <1>11 DEF Restart
  <2>3. CreatedTablesStay'
    BY <2>2 DEF CreatedTablesStay, CreatedTables
  <2> QED
    BY <2>1, <2>2, <2>3, CreatedTablesAre DEF SchemaInv
<1>12. CASE UNCHANGED vars
  <2>1. Durable \subseteq Durable' /\ Durable' \subseteq Visible'
    BY <1>12, <1>u DEF vars
  <2>2. UNCHANGED <<pc, op, item, todo, link, creating, failed>>
    BY <1>12 DEF vars, session, startup, call
  <2>3. Script("CreateTable", item)' = Script("CreateTable", item)
    BY <2>2
  <2> QED
    BY <1>12, <2>1, <2>2, <2>3
    DEF vars, session, SchemaInv, CreatedTablesStay, Visible
<1> QED
  BY <1>1, <1>2, <1>3, <1>4, <1>5, <1>6, <1>r, <1>7, <1>8, <1>9, <1>10, <1>11, <1>12
  DEF Next

\* The invariant holds before any table is created.
LEMMA SchemaInit == Init => SchemaInv
<1> SUFFICES ASSUME Init PROVE SchemaInv
  OBVIOUS
<1>1. Durable = Visible
  BY DEF Init, SessionInit, Durable, Visible
<1>2. CreatedTablesStay
  BY DEF Init, CreatedTablesStay
<1> QED
  BY <1>1, <1>2, CreatedTablesAre DEF Init, SchemaInv

\* A table CreateTable has answered true for is in the database as long as the
\* node runs, whatever engine, statement, connection or process fails, and
\* whatever its callers do.
THEOREM TablesStay == Spec => []CreatedTablesStay
<1>1. SchemaInv => CreatedTablesStay
  BY DEF SchemaInv
<1> QED
  BY <1>1, SchemaInit, SchemaStep, PTL DEF Spec
=============================================================================
