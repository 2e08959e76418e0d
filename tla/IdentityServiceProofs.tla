------------------------ MODULE IdentityServiceProofs ------------------------
(* Theorems about IdentityService, for any workers, ids, keys and types.     *)
EXTENDS IdentityService, TLAPS

-----------------------------------------------------------------------------
(* What a statement sent over the session may do to it, whoever sends it.    *)

\* The statements that do not write: everything but SessionWrite.
OtherStatement ==
  \/ SessionBegin
  \/ SessionCommit
  \/ SessionRollback
  \/ StatementError
  \/ CommitError
  \/ Disconnect
  \/ CommitAnswerLost
  \/ SessionReopen
  \/ UNCHANGED session

\* A statement other than a write keeps the session well formed, and takes the
\* table and the connection's view of it from what they were.
LEMMA StatementTypes ==
  ASSUME NEW C, SessionTypeOK(C), OtherStatement
  PROVE  /\ SessionTypeOK(C)'
         /\ committed' \in {committed, current}
         /\ current' \in {committed, current}
  BY SMTT(30)
  DEF SessionTypeOK, OtherStatement, session, SessionBegin, SessionCommit,
      SessionRollback, StatementError, CommitError, Disconnect,
      CommitAnswerLost, SessionReopen, Abandon, KeepTransaction,
      BeginThrows, EndThrows, StatementThrows

\* The same of a write.
LEMMA WriteTypes ==
  ASSUME NEW C, NEW contents \in C, SessionTypeOK(C), SessionWrite(contents)
  PROVE  /\ SessionTypeOK(C)'
         /\ current' = contents
         /\ committed' \in {committed, contents}
  BY DEF SessionTypeOK, SessionWrite, StatementThrows

-----------------------------------------------------------------------------
\* A listing of identities consists of identities, one for each, which keeps
\* its id and its key, and its type if that is a known one.
LEMMA ListShows ==
  ASSUME NEW S \in SUBSET Identity, List(S)
  PROVE  /\ listing' \in SUBSET Identity
         /\ \A r \in S : \E l \in listing' : Registry!Shows(r, l)
         /\ \A l \in listing' : \E r \in S : Registry!Shows(r, l)
         /\ S = {} => listing' = {}
<1> DEFINE unknown == {r \in S : ~Known(r)}
<1>1. PICK type \in [unknown -> Types] :
        listing' = {r \in S : Known(r)}
                     \cup {[r EXCEPT !.identity_type = type[r]] : r \in DOMAIN type}
  BY DEF List
<1> DEFINE Listed(r) == IF Known(r) THEN r
                        ELSE [r EXCEPT !.identity_type = type[r]]
<1>2. \A r \in S : Listed(r) \in Identity /\ Registry!Shows(r, Listed(r))
  BY DEF Identity, Registry!Shows, Known
<1>3. \A l \in listing' : \E r \in S : l = Listed(r)
  BY <1>1
<1>4. \A r \in S : Listed(r) \in listing'
  BY <1>1
<1> HIDE DEF Listed
<1> QED
  BY <1>2, <1>3, <1>4

\* Identities of different ids are listed under different ids.
LEMMA ListedOnce ==
  ASSUME NEW S \in SUBSET Identity, List(S),
         \A r, s \in S : r.identity_id = s.identity_id => r = s
  PROVE  \A k, l \in listing' : k.identity_id = l.identity_id => k = l
<1> DEFINE unknown == {r \in S : ~Known(r)}
<1>1. PICK type \in [unknown -> Types] :
        listing' = {r \in S : Known(r)}
                     \cup {[r EXCEPT !.identity_type = type[r]] : r \in DOMAIN type}
  BY DEF List
<1> DEFINE Listed(r) == IF Known(r) THEN r
                        ELSE [r EXCEPT !.identity_type = type[r]]
<1>2. \A r \in S : Listed(r).identity_id = r.identity_id
  BY DEF Identity
<1>3. \A l \in listing' : \E r \in S : l = Listed(r)
  BY <1>1
<1> HIDE DEF Listed
<1> QED
  BY <1>2, <1>3

-----------------------------------------------------------------------------
\* No step takes a variable out of its type.
LEMMA TypeStep == TypeOK /\ [Next]_vars => TypeOK'
<1> SUFFICES ASSUME TypeOK, [Next]_vars PROVE TypeOK'
  OBVIOUS
<1> USE DEF TypeOK
<1>1. ASSUME NEW w \in Workers, Receive(w) PROVE TypeOK'
  <2>1. PICK id \in Ids, key \in Keys, type \in Types :
          /\ ValidKey(key)
          /\ item' = [item EXCEPT ![w] = [identity_id |-> id,
                                          public_key |-> key,
                                          identity_type |-> type]]
          /\ outcome' = [outcome EXCEPT ![id] = "pending"]
    BY <1>1 DEF Receive
  <2>2. [identity_id |-> id, public_key |-> key, identity_type |-> type]
          \in Identity
    BY <2>1 DEF Identity
  <2>3. SessionTypeOK(SUBSET Identity)'
    BY <1>1, StatementTypes DEF Receive, OtherStatement
  <2> QED
    BY <1>1, <2>1, <2>2, <2>3, NoItemAssumption DEF Receive, Goto, Outcomes
<1>2. ASSUME NEW w \in Workers, OpenTransaction(w) PROVE TypeOK'
  <2>1. SessionTypeOK(SUBSET Identity)'
    BY <1>2, StatementTypes DEF OpenTransaction, OtherStatement
  <2> QED
    BY <1>2, <2>1 DEF OpenTransaction, Goto, Return, Outcomes, Identity
<1>3. ASSUME NEW w \in Workers, InsertRow(w) PROVE TypeOK'
  <2>1. current \cup {item[w]} \in SUBSET Identity
    BY <1>3 DEF InsertRow, SessionTypeOK
  <2>2. SessionTypeOK(SUBSET Identity)'
    BY <1>3, <2>1, StatementTypes, WriteTypes DEF InsertRow, OtherStatement
  <2> QED
    BY <1>3, <2>2 DEF InsertRow, Goto
<1>4. ASSUME NEW w \in Workers, CommitTransaction(w) PROVE TypeOK'
  <2>1. SessionTypeOK(SUBSET Identity)'
    BY <1>4, StatementTypes DEF CommitTransaction, OtherStatement
  <2> QED
    BY <1>4, <2>1 DEF CommitTransaction, Goto
<1>5. ASSUME NEW w \in Workers, RollbackTransaction(w) PROVE TypeOK'
  <2>1. SessionTypeOK(SUBSET Identity)'
    BY <1>5, StatementTypes DEF RollbackTransaction, OtherStatement
  <2> QED
    BY <1>5, <2>1 DEF RollbackTransaction, Goto, Return, Outcomes, Identity
<1>6. ASSUME NEW w \in Workers, Unwind(w) PROVE TypeOK'
  <2>1. SessionTypeOK(SUBSET Identity)'
    BY <1>6, StatementTypes DEF Unwind, OtherStatement
  <2> QED
    BY <1>6, <2>1 DEF Unwind, Goto, Return, Outcomes, Identity
<1>7. ASSUME NEW w \in Workers, Respond(w) PROVE TypeOK'
  <2>1. SessionTypeOK(SUBSET Identity)'
    BY <1>7, StatementTypes DEF Respond, OtherStatement
  <2> QED
    BY <1>7, <2>1, KnownTypesAssumption
    DEF Respond, Goto, Return, Outcomes, Identity
<1>8. ASSUME NEW w \in Workers, ListIdentities(w) PROVE TypeOK'
  <2>1. SessionTypeOK(SUBSET Identity)'
    BY <1>8, StatementTypes DEF ListIdentities, RetrieveAll, OtherStatement
  <2>2. PICK S \in SUBSET Identity : List(S)
    BY <1>8 DEF ListIdentities, RetrieveAll, SessionTypeOK
  <2> QED
    BY <1>8, <2>1, <2>2, ListShows DEF ListIdentities
<1>9. CASE LoseConnection
  <2>1. SessionTypeOK(SUBSET Identity)'
    BY <1>9, StatementTypes DEF LoseConnection, OtherStatement
  <2> QED
    BY <1>9, <2>1 DEF LoseConnection, calls
<1>10. CASE Restart
  <2>1. SessionTypeOK(SUBSET Identity)'
    BY <1>10, StatementTypes DEF Restart, OtherStatement
  <2> QED
    BY <1>10, <2>1 DEF Restart, Outcomes
<1>11. CASE UNCHANGED vars
  BY <1>11 DEF vars, calls, session, SessionTypeOK
<1> QED
  BY <1>1, <1>2, <1>3, <1>4, <1>5, <1>6, <1>7, <1>8, <1>9, <1>10,
     <1>11
  DEF Next, Step

\* A node that has just started, on an empty database, is well formed.
LEMMA InitTypes == Init => TypeOK
  BY NoTypeAssumption
  DEF Init, TypeOK, SessionInit, SessionTypeOK, Outcomes

\* Every variable keeps its type, a handler inside a call has the identity of
\* that call, and the session is in a state SOCI can be in.
THEOREM TypeCorrect == Spec => []TypeOK
  BY InitTypes, TypeStep, PTL DEF Spec

-----------------------------------------------------------------------------
(* AckedStored holds under either of two assumptions: the handlers take      *)
(* turns, or no statement fails while the connection is up.  Without both it *)
(* does not (run identity_lost_ack).                                         *)

Serial == \A v, w \in Workers : v = w

NoStatementFails == Faults \cap {"statement", "race"} = {}

\* Overlapping handlers lose nothing because none of them ever rolls back on a
\* usable connection.  In sqlite3, where COMMIT fails outside a transaction,
\* that rests on BEGIN keeping all but one handler out.
OverlapInv ==
  /\ TypeOK
  /\ AckedStored
  /\ committed \subseteq current
  /\ txn # "aborted"
  /\ \A w \in Workers :
       /\ pc[w] \in {"rollback", "unwind"} => link = "down"
       /\ pc[w] = "commit" /\ link = "up" => item[w] \in current
       /\ pc[w] = "answer" => item[w] \in committed
       /\ engine = "sqlite3" /\ link = "up" /\ pc[w] \in {"insert", "commit"} =>
            /\ txn = "open"
            /\ \A v \in Workers : pc[v] \in {"insert", "commit"} => v = w

\* A handler that has the session to itself finds its row where it left it:
\* not in the table before its COMMIT, in it after, and never in it when a
\* ROLLBACK it can still send has succeeded.
SerialInv ==
  /\ TypeOK
  /\ AckedStored
  /\ committed \subseteq current
  /\ \A r, s \in current : r.identity_id = s.identity_id => r = s
  /\ \A r \in current : outcome[r.identity_id] \notin {"unused", "failed"}
  /\ \A w \in Workers :
       /\ pc[w] # "idle" => outcome[item[w].identity_id] = "pending"
       /\ pc[w] \in {"idle", "begin", "unwind", "answer"} => txn = "none"
       /\ pc[w] \in {"begin", "insert"} =>
            item[w].identity_id \notin IdsOf(current)
       /\ pc[w] = "insert" /\ link = "up" => txn = "open"
       /\ pc[w] = "commit" /\ link = "up" => item[w] \in current
       /\ pc[w] \in {"commit", "rollback"} /\ link = "up" =>
            item[w].identity_id \notin IdsOf(committed)
       /\ pc[w] = "answer" => item[w] \in committed

\* Without failing statements, no handler makes another lose its row.
LEMMA OverlapStep ==
  ASSUME NoStatementFails, OverlapInv, [Next]_vars
  PROVE  OverlapInv'
<1> USE DEF OverlapInv
<1>0. TypeOK'
  BY TypeStep
<1>f. \A w \in Workers : ~StatementMayFail(w)
  BY DEF NoStatementFails, StatementMayFail
<1>1. ASSUME NEW w \in Workers, Receive(w) PROVE OverlapInv'
  <2>1. AckedStored'
    BY <1>1 DEF Receive, AckedStored, Stored, IdsOf, session, TypeOK, Outcomes
  <2> QED
    BY <1>0, <1>1, <2>1 DEF Receive, Goto, session, TypeOK
<1>2. ASSUME NEW w \in Workers, OpenTransaction(w) PROVE OverlapInv'
  <2>1. AckedStored'
    BY <1>f, <1>2 DEF OpenTransaction, Return, AckedStored, Stored, IdsOf,
                session, TypeOK, SessionTypeOK, Outcomes, SessionBegin
  <2> QED
    BY <1>0, <1>f, <1>2, <2>1
    DEF OpenTransaction, Goto, Return, session, TypeOK, SessionTypeOK,
        SessionBegin, BeginThrows, StatementThrows
<1>3. ASSUME NEW w \in Workers, InsertRow(w) PROVE OverlapInv'
  <2>1. AckedStored'
    BY <1>f, <1>3 DEF InsertRow, AckedStored, Stored, IdsOf,
                session, TypeOK, SessionTypeOK, Outcomes, SessionWrite
  <2> QED
    BY <1>0, <1>f, <1>3, <2>1
    DEF InsertRow, Goto, session, TypeOK, SessionTypeOK, SessionWrite,
        StatementThrows
<1>4. ASSUME NEW w \in Workers, CommitTransaction(w) PROVE OverlapInv'
  <2>1. AckedStored'
    BY <1>f, <1>4 DEF CommitTransaction, AckedStored, Stored, IdsOf, session,
                TypeOK, SessionTypeOK, SessionCommit, CommitAnswerLost
  <2> QED
    BY <1>0, <1>f, <1>4, <2>1
    DEF CommitTransaction, Goto, session, TypeOK, SessionTypeOK,
        SessionCommit, CommitAnswerLost, EndThrows
<1>5. ASSUME NEW w \in Workers, RollbackTransaction(w) PROVE OverlapInv'
  <2>1. AckedStored'
    BY <1>5 DEF RollbackTransaction, Return, AckedStored, Stored, IdsOf,
                session, TypeOK, Outcomes, SessionRollback
  <2> QED
    BY <1>0, <1>5, <2>1
    DEF RollbackTransaction, Goto, Return, session, TypeOK, SessionTypeOK,
        SessionRollback, EndThrows
<1>6. ASSUME NEW w \in Workers, Unwind(w) PROVE OverlapInv'
  <2>1. UNCHANGED session
    BY <1>6 DEF Unwind, SessionRollback, EndThrows
  <2>2. AckedStored'
    BY <1>6, <2>1 DEF Unwind, Return, AckedStored, Stored, IdsOf, session,
                TypeOK, Outcomes
  <2> QED
    BY <1>0, <1>6, <2>1, <2>2 DEF Unwind, Goto, Return, session, TypeOK
<1>7. ASSUME NEW w \in Workers, Respond(w) PROVE OverlapInv'
  <2>1. AckedStored'
    BY <1>7 DEF Respond, Return, AckedStored, Stored, IdsOf, session, TypeOK,
                Outcomes
  <2> QED
    BY <1>0, <1>7, <2>1 DEF Respond, Goto, Return, session, TypeOK
<1>8. ASSUME NEW w \in Workers, ListIdentities(w) PROVE OverlapInv'
  BY <1>0, <1>f, <1>8
  DEF ListIdentities, RetrieveAll, session, TypeOK, AckedStored, Stored
<1>9. CASE LoseConnection
  BY <1>0, <1>9
  DEF LoseConnection, Disconnect, calls, TypeOK, AckedStored, Stored
<1>10. CASE Restart
  <2>1. AckedStored'
    BY <1>10 DEF Restart, SessionReopen, AckedStored, Stored, TypeOK
  <2> QED
    BY <1>0, <1>10, <2>1 DEF Restart, SessionReopen, TypeOK
<1>11. CASE UNCHANGED vars
  BY <1>0, <1>11 DEF vars, calls, session, AckedStored, Stored
<1> QED
  BY <1>1, <1>2, <1>3, <1>4, <1>5, <1>6, <1>7, <1>8, <1>9, <1>10,
     <1>11
  DEF Next, Step

\* Whatever is answered "Created new identity" is in the database and stays
\* there, for any number of overlapping handlers and any engine, if statements
\* fail only when the connection does.
THEOREM AckedStoredIfNoStatementFails ==
  ASSUME NoStatementFails
  PROVE  Spec => []AckedStored
<1>1. Init => OverlapInv
  BY InitTypes DEF Init, OverlapInv, SessionInit, AckedStored
<1>2. OverlapInv /\ [Next]_vars => OverlapInv'
  BY OverlapStep
<1>3. OverlapInv => AckedStored
  BY DEF OverlapInv
<1> QED
  BY <1>1, <1>2, <1>3, PTL DEF Spec

-----------------------------------------------------------------------------
\* What a handler that has the session to itself does, for any fault.
LEMMA SerialStep ==
  ASSUME Serial, SerialInv, [Next]_vars
  PROVE  SerialInv'
<1> USE DEF SerialInv
<1>0. TypeOK'
  BY TypeStep
<1>1. ASSUME NEW w \in Workers, Receive(w) PROVE SerialInv'
  <2>1. PICK id \in Ids, key \in Keys, type \in Types :
          /\ outcome[id] = "unused"
          /\ item' = [item EXCEPT ![w] = [identity_id |-> id,
                                          public_key |-> key,
                                          identity_type |-> type]]
          /\ outcome' = [outcome EXCEPT ![id] = "pending"]
    BY <1>1 DEF Receive
  <2>2. item'[w].identity_id = id /\ outcome'[id] = "pending"
    BY <2>1 DEF TypeOK
  <2>3. id \notin IdsOf(current)
    BY <2>1 DEF IdsOf
  <2>4. AckedStored'
    BY <1>1, <2>1 DEF Receive, AckedStored, Stored, IdsOf, session, TypeOK
  <2>5. \A r \in current : outcome'[r.identity_id] \notin {"unused", "failed"}
    BY <2>1, <2>3 DEF IdsOf, TypeOK, SessionTypeOK, Identity
  <2> QED
    BY <1>0, <1>1, <2>2, <2>3, <2>4, <2>5
    DEF Serial, Receive, Goto, session, TypeOK, IdsOf
<1>2. ASSUME NEW w \in Workers, OpenTransaction(w) PROVE SerialInv'
  <2>1. AckedStored'
    BY <1>2 DEF OpenTransaction, Return, AckedStored, Stored, IdsOf,
                session, TypeOK, SessionTypeOK, Outcomes, SessionBegin
  <2> QED
    BY <1>0, <1>2, <2>1
    DEF Serial, OpenTransaction, Goto, Return, session, TypeOK, SessionTypeOK,
        SessionBegin, BeginThrows, StatementThrows, IdsOf, Identity
<1>3. ASSUME NEW w \in Workers, InsertRow(w) PROVE SerialInv'
  <2>1. CASE SessionWrite(current \cup {item[w]}) /\ Goto(w, "commit")
    <3>1. AckedStored'
      BY <1>3, <2>1 DEF InsertRow, AckedStored, Stored, IdsOf,
                session, TypeOK, SessionTypeOK, Outcomes, SessionWrite
    <3> QED
      BY <1>0, <1>3, <2>1, <3>1
      DEF Serial, InsertRow, Goto, TypeOK, SessionTypeOK, SessionWrite,
          StatementThrows, IdsOf
  <2>2. CASE StatementThrows /\ Goto(w, "rollback") /\ UNCHANGED session
    BY <1>0, <1>3, <2>2
    DEF Serial, InsertRow, Goto, session, TypeOK, SessionTypeOK,
        StatementThrows, IdsOf, AckedStored, Stored
  <2>3. CASE StatementError /\ Goto(w, "rollback")
    BY <1>0, <1>3, <2>3
    DEF Serial, InsertRow, Goto, session, TypeOK, SessionTypeOK,
        StatementError, KeepTransaction, Abandon, IdsOf, AckedStored, Stored
  <2> QED
    BY <1>3, <2>1, <2>2, <2>3 DEF InsertRow
<1>4. ASSUME NEW w \in Workers, CommitTransaction(w) PROVE SerialInv'
  <2>1. CASE SessionCommit /\ Goto(w, "answer")
    BY <1>0, <1>4, <2>1
    DEF Serial, CommitTransaction, Goto, TypeOK, SessionTypeOK,
        SessionCommit, EndThrows, IdsOf, AckedStored, Stored
  <2>2. CASE EndThrows /\ Goto(w, "rollback") /\ UNCHANGED session
    BY <1>0, <1>4, <2>2
    DEF Serial, CommitTransaction, Goto, session, TypeOK, SessionTypeOK,
        IdsOf, AckedStored, Stored
  <2>3. CASE CommitError /\ Goto(w, "rollback")
    BY <1>0, <1>4, <2>3
    DEF Serial, CommitTransaction, Goto, session, TypeOK, SessionTypeOK,
        CommitError, KeepTransaction, Abandon, IdsOf, AckedStored, Stored
  <2>4. CASE CommitAnswerLost /\ Goto(w, "rollback")
    BY <1>0, <1>4, <2>4
    DEF Serial, CommitTransaction, Goto, TypeOK, SessionTypeOK,
        CommitAnswerLost, IdsOf, AckedStored, Stored
  <2> QED
    BY <1>4, <2>1, <2>2, <2>3, <2>4 DEF CommitTransaction
<1>5. ASSUME NEW w \in Workers, RollbackTransaction(w) PROVE SerialInv'
  <2>1. AckedStored'
    BY <1>5 DEF RollbackTransaction, Return, AckedStored, Stored, IdsOf,
                session, TypeOK, Outcomes, SessionRollback
  <2>2. CASE SessionRollback /\ Return(w, "failed")
    BY <1>0, <1>5, <2>1, <2>2
    DEF Serial, RollbackTransaction, Goto, Return, TypeOK, SessionTypeOK,
        SessionRollback, EndThrows, IdsOf, Identity
  <2>3. CASE /\ EndThrows
             /\ Goto(w, "unwind")
             /\ UNCHANGED <<session, item, outcome>>
    BY <1>0, <1>5, <2>1, <2>3
    DEF Serial, RollbackTransaction, Goto, session, TypeOK,
        SessionTypeOK, EndThrows, IdsOf, Identity
  <2> QED
    BY <1>5, <2>2, <2>3 DEF RollbackTransaction
<1>6. ASSUME NEW w \in Workers, Unwind(w) PROVE SerialInv'
  <2>1. UNCHANGED session
    BY <1>6
    DEF Unwind, SessionRollback, session, TypeOK, SessionTypeOK
  <2>2. AckedStored'
    BY <1>6, <2>1 DEF Unwind, Return, AckedStored, Stored, IdsOf, session,
                TypeOK, Outcomes
  <2> QED
    BY <1>0, <1>6, <2>1, <2>2
    DEF Serial, Unwind, Goto, Return, session, TypeOK, SessionTypeOK, IdsOf,
        Identity
<1>7. ASSUME NEW w \in Workers, Respond(w) PROVE SerialInv'
  <2>1. AckedStored'
    BY <1>7 DEF Respond, Return, AckedStored, Stored, IdsOf, session, TypeOK,
                Outcomes
  <2> QED
    BY <1>0, <1>7, <2>1
    DEF Serial, Respond, Goto, Return, session, TypeOK, SessionTypeOK,
        IdsOf, Identity
<1>8. ASSUME NEW w \in Workers, ListIdentities(w) PROVE SerialInv'
  <2>1. UNCHANGED session
    BY <1>8 DEF Serial, ListIdentities, RetrieveAll, StatementError, KeepTransaction,
                Abandon, session
  <2> QED
    BY <1>0, <1>8, <2>1
    DEF ListIdentities, RetrieveAll, session, TypeOK, AckedStored, Stored, IdsOf
<1>9. CASE LoseConnection
  BY <1>0, <1>9
  DEF LoseConnection, Disconnect, calls, TypeOK, AckedStored, Stored, IdsOf
<1>10. CASE Restart
  <2>1. AckedStored'
    BY <1>10 DEF Restart, SessionReopen, AckedStored, Stored, TypeOK
  <2>2. \A r \in current : outcome'[r.identity_id] \notin {"unused", "failed"}
    BY <1>10 DEF Restart, TypeOK, SessionTypeOK, Identity
  <2> QED
    BY <1>0, <1>10, <2>1, <2>2 DEF Restart, SessionReopen, TypeOK
<1>11. CASE UNCHANGED vars
  BY <1>0, <1>11 DEF vars, calls, session, AckedStored, Stored, IdsOf
<1> QED
  BY <1>1, <1>2, <1>3, <1>4, <1>5, <1>6, <1>7, <1>8, <1>9, <1>10,
     <1>11
  DEF Next, Step

\* So every state of a node whose handlers take turns satisfies SerialInv.
LEMMA SerialInvariant ==
  ASSUME Serial
  PROVE  Spec => []SerialInv
<1>1. Init => SerialInv
  BY InitTypes DEF Init, SerialInv, SessionInit, AckedStored
<1>2. SerialInv /\ [Next]_vars => SerialInv'
  BY SerialStep
<1> QED
  BY <1>1, <1>2, PTL DEF Spec

\* Handlers that take turns never answer "Created new identity" for a row the
\* database does not have or later loses, whatever fails.
THEOREM AckedStoredIfSerial ==
  ASSUME Serial
  PROVE  Spec => []AckedStored
<1>1. SerialInv => AckedStored
  BY DEF SerialInv
<1> QED
  BY <1>1, SerialInvariant, PTL

\* Handlers that take turns answer "Identity registration request failed" only
\* for a row that is not in the database and never gets there.
THEOREM FailedAbsentIfSerial ==
  ASSUME Serial
  PROVE  Spec => []FailedAbsent
<1>1. SerialInv => FailedAbsent
  BY DEF SerialInv, FailedAbsent, Stored, IdsOf
<1> QED
  BY <1>1, SerialInvariant, PTL

-----------------------------------------------------------------------------
\* Handlers that take turns implement the abstract registry: a COMMIT registers,
\* an answer is given for a registered identity only, a listing is the registry
\* or empty, and nothing else is visible to a client.
THEOREM SerialImplementsRegistry ==
  ASSUME Serial
  PROVE  Spec => RegistrySpec
<1> DEFINE answered == {id \in Ids : outcome[id] = "created"}
<1>1. Init => Registry!Init
  BY DEF Init, SessionInit, Registry!Init
<1>2. SerialInv /\ SerialInv' /\ [Next]_vars => [Registry!Next]_Registry!rvars
  <2> SUFFICES ASSUME SerialInv, SerialInv', [Next]_vars
               PROVE  [Registry!Next]_Registry!rvars
    OBVIOUS
  <2> USE DEF SerialInv
  <2>s. ASSUME committed \subseteq committed', UNCHANGED <<answered, listing>>
        PROVE  [Registry!Next]_Registry!rvars
    <3>1. CASE committed' = committed
      BY <2>s, <3>1 DEF Registry!rvars
    <3>2. CASE committed' # committed
      <4>1. committed' \in SUBSET Identity
        BY DEF TypeOK, SessionTypeOK
      <4> QED
        BY <2>s, <3>2, <4>1 DEF Registry!Next, Registry!Register
    <3> QED
      BY <3>1, <3>2
  <2>1. ASSUME NEW w \in Workers, Receive(w)
        PROVE  [Registry!Next]_Registry!rvars
    <3>1. UNCHANGED answered
      BY <2>1 DEF Receive, TypeOK
    <3> QED
      BY <2>s, <2>1, <3>1 DEF Receive, session
  <2>2. ASSUME NEW w \in Workers, OpenTransaction(w)
        PROVE  [Registry!Next]_Registry!rvars
    <3>1. UNCHANGED answered
      BY <2>2 DEF OpenTransaction, Return, TypeOK
    <3> QED
      BY <2>s, <2>2, <3>1 DEF OpenTransaction, session, SessionBegin
  <2>3. ASSUME NEW w \in Workers, InsertRow(w)
        PROVE  [Registry!Next]_Registry!rvars
    BY <2>s, <2>3
    DEF InsertRow, session, SessionWrite, StatementError, Abandon,
        KeepTransaction
  <2>4. ASSUME NEW w \in Workers, CommitTransaction(w)
        PROVE  [Registry!Next]_Registry!rvars
    BY <2>s, <2>4
    DEF CommitTransaction, session, SessionCommit, CommitError, Abandon,
        KeepTransaction, CommitAnswerLost
  <2>5. ASSUME NEW w \in Workers, RollbackTransaction(w)
        PROVE  [Registry!Next]_Registry!rvars
    <3>1. UNCHANGED answered
      BY <2>5 DEF RollbackTransaction, Return, TypeOK
    <3> QED
      BY <2>s, <2>5, <3>1 DEF RollbackTransaction, session, SessionRollback
  <2>6. ASSUME NEW w \in Workers, Unwind(w)
        PROVE  [Registry!Next]_Registry!rvars
    <3>1. UNCHANGED answered
      BY <2>6 DEF Unwind, Return, TypeOK
    <3> QED
      BY <2>s, <2>6, <3>1 DEF Unwind, session, SessionRollback
  <2>7. ASSUME NEW w \in Workers, Respond(w)
        PROVE  [Registry!Next]_Registry!rvars
    <3> DEFINE id == item[w].identity_id
    <3>1. id \in Ids /\ id \notin answered
      BY <2>7 DEF Respond, TypeOK, Identity
    <3>2. id \in Registry!IdsOf(committed)
      BY <2>7 DEF Respond, Registry!IdsOf
    <3>3. answered' = answered \cup {id}
      BY <2>7, <3>1 DEF Respond, Return, TypeOK
    <3> QED
      BY <2>7, <3>1, <3>2, <3>3
      DEF Respond, session, Registry!Next, Registry!Answer
  <2>8. ASSUME NEW w \in Workers, ListIdentities(w)
        PROVE  [Registry!Next]_Registry!rvars
    <3>1. txn = "none" /\ current = committed
      BY <2>8 DEF ListIdentities, RetrieveAll, TypeOK, SessionTypeOK
    <3>2. UNCHANGED <<committed, answered>>
      BY <2>8, <3>1
      DEF ListIdentities, RetrieveAll, session, StatementError, Abandon,
          KeepTransaction
    <3>3. committed \in SUBSET Identity /\ {} \in SUBSET Identity
      BY DEF TypeOK, SessionTypeOK
    <3>4. CASE List(committed)
      <4>1. \A k, l \in listing' : k.identity_id = l.identity_id => k = l
        BY <3>1, <3>4, <3>3, ListedOnce
      <4> QED
        BY <3>2, <3>3, <3>4, <4>1, ListShows
        DEF Registry!Next, Registry!List, Registry!Listing
    <3>5. CASE List({})
      BY <3>2, <3>3, <3>5, ListShows DEF Registry!Next, Registry!List
    <3> QED
      BY <2>8, <3>1, <3>4, <3>5 DEF ListIdentities, RetrieveAll
  <2>9. CASE LoseConnection
    BY <2>s, <2>9 DEF LoseConnection, Disconnect, calls
  <2>10. CASE Restart
    <3>1. UNCHANGED answered
      BY <2>10 DEF Restart, TypeOK
    <3> QED
      BY <2>s, <2>10, <3>1 DEF Restart, SessionReopen
  <2>11. CASE UNCHANGED vars
    BY <2>s, <2>11 DEF vars, calls, session
  <2> QED
    BY <2>1, <2>2, <2>3, <2>4, <2>5, <2>6, <2>7, <2>8, <2>9, <2>10,
       <2>11
    DEF Next, Step
<1> QED
  BY <1>1, <1>2, SerialInvariant, PTL DEF Spec, RegistrySpec, Registry!Spec
=============================================================================
