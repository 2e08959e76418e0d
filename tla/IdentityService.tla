--------------------------- MODULE IdentityService ---------------------------
(***************************************************************************)
(* IdentityService::RegisterIdentity and ListIdentities, run by the handler *)
(* threads of the gRPC server over the node's single SQL session, with      *)
(* EntityManager<Identity>::Insert step by step: every SOCI call is one     *)
(* action, so the calls of different handlers interleave between them as    *)
(* nothing in the code prevents.  soci::session is not thread-safe; when    *)
(* two handlers are inside it at once the model lets a statement fail (the  *)
(* fault "race"), which is one of the milder outcomes.                      *)
(*                                                                          *)
(* A request whose key does not validate is answered with an error and      *)
(* changes no state: that answer is a stuttering step.  Fresh ids stand for *)
(* generate_uuid; a collision is not modelled.                              *)
(***************************************************************************)
EXTENDS SociSession, FiniteSets

CONSTANTS
  Workers,        \* handler threads that can be inside a call at once
  Ids,            \* ids generate_uuid may return; bounds the registrations
  Keys, NoKey,    \* public keys of requests, and the empty one
  EdKeys, EccKeys,\* the keys each of the two key parsers accepts
  Types,          \* the types a request may carry, which any integer is
  KnownTypes,     \* the values of enum IdentityType among them
  NoType,
  NoItem,         \* no db::Identity is in scope
  Faults          \* subset of {"statement", "race", "connection", "crash"}

ASSUME FaultsAssumption ==
  Faults \subseteq {"statement", "race", "connection", "crash"}
ASSUME NoTypeAssumption == NoType \notin Types
ASSUME KnownTypesAssumption == KnownTypes \subseteq Types

VARIABLES
  pc,             \* where each handler is
  item,           \* the db::Identity of the call each handler is in
  outcome,        \* what became of the registration of each id
  answerType,     \* the type carried by the answer to each registration
  listing         \* the identities in the last answer to ListIdentities

calls == <<pc, item, outcome, answerType, listing>>
vars == <<session, calls>>

ValidKey(key) == key # NoKey /\ key \in EdKeys /\ key \in EccKeys

Identity == [identity_id : Ids,
             public_key : {key \in Keys : ValidKey(key)},
             identity_type : Types]

ASSUME NoItemAssumption == NoItem \notin Identity

IdsOf(S) == {r.identity_id : r \in S}

Stored(id) == id \in IdsOf(committed)

Outcomes == {"unused", "pending", "created", "failed", "exception", "lost"}

Init ==
  /\ SessionInit({})
  /\ pc = [w \in Workers |-> "idle"]
  /\ item = [w \in Workers |-> NoItem]
  /\ outcome = [id \in Ids |-> "unused"]
  /\ answerType = [id \in Ids |-> NoType]
  /\ listing = {}

Goto(w, label) == pc' = [pc EXCEPT ![w] = label]

\* The call returns; what it answered is recorded under the id it generated.
Return(w, result) ==
  /\ Goto(w, "idle")
  /\ item' = [item EXCEPT ![w] = NoItem]
  /\ outcome' = [outcome EXCEPT ![item[w].identity_id] = result]

-----------------------------------------------------------------------------
(* When a statement of handler w may fail though the session is usable.     *)

InSession(w) == pc[w] \in {"begin", "insert", "commit", "rollback", "unwind"}

StatementMayFail(w) ==
  \/ "statement" \in Faults
  \/ "race" \in Faults /\ \E v \in Workers \ {w} : InSession(v)

-----------------------------------------------------------------------------
(* RegisterIdentity: validation, then the identity is built.                *)

\* Mutant: the answer of the validation is not looked at.
ReceiveUnvalidated(w) ==
  /\ pc[w] = "idle"
  /\ \E id \in Ids, key \in Keys, type \in Types :
       /\ outcome[id] = "unused"
       /\ item' = [item EXCEPT ![w] = [identity_id |-> id,
                                       public_key |-> key,
                                       identity_type |-> type]]
       /\ outcome' = [outcome EXCEPT ![id] = "pending"]
  /\ Goto(w, "begin")
  /\ UNCHANGED <<session, answerType, listing>>

Receive(w) ==
  /\ pc[w] = "idle"
  /\ \E id \in Ids, key \in Keys, type \in Types :
       /\ outcome[id] = "unused"
       /\ ValidKey(key)
       /\ item' = [item EXCEPT ![w] = [identity_id |-> id,
                                       public_key |-> key,
                                       identity_type |-> type]]
       /\ outcome' = [outcome EXCEPT ![id] = "pending"]
  /\ Goto(w, "begin")
  /\ UNCHANGED <<session, answerType, listing>>

\* soci::transaction tx(m_sql), outside the try block: a failing BEGIN leaves
\* Insert and is answered by the exception handler of RegisterIdentity.
OpenTransaction(w) ==
  /\ pc[w] = "begin"
  /\ \/ /\ SessionBegin
        /\ Goto(w, "insert")
        /\ UNCHANGED <<item, outcome>>
     \/ /\ BeginThrows \/ StatementMayFail(w)
        /\ Return(w, "exception")
        /\ UNCHANGED session
  /\ UNCHANGED <<answerType, listing>>

\* Mutant: the failure of the INSERT is logged but not acted upon.
InsertRowIgnoringErrors(w) ==
  /\ pc[w] = "insert"
  /\ \/ SessionWrite(current \cup {item[w]})
     \/ StatementThrows /\ UNCHANGED session
     \/ StatementMayFail(w) /\ StatementError
  /\ Goto(w, "commit")
  /\ UNCHANGED <<item, outcome, answerType, listing>>

\* Mutant: Insert returns true without committing the transaction.
InsertRowWithoutCommit(w) ==
  /\ pc[w] = "insert"
  /\ \/ SessionWrite(current \cup {item[w]}) /\ Goto(w, "answer")
     \/ StatementThrows /\ Goto(w, "rollback") /\ UNCHANGED session
     \/ StatementMayFail(w) /\ StatementError /\ Goto(w, "rollback")
  /\ UNCHANGED <<item, outcome, answerType, listing>>

\* TableTraits<Identity>::Insert
InsertRow(w) ==
  /\ pc[w] = "insert"
  /\ \/ SessionWrite(current \cup {item[w]}) /\ Goto(w, "commit")
     \/ StatementThrows /\ Goto(w, "rollback") /\ UNCHANGED session
     \/ StatementMayFail(w) /\ StatementError /\ Goto(w, "rollback")
  /\ UNCHANGED <<item, outcome, answerType, listing>>

\* tx.commit()
CommitTransaction(w) ==
  /\ pc[w] = "commit"
  /\ \/ SessionCommit /\ Goto(w, "answer")
     \/ EndThrows /\ Goto(w, "rollback") /\ UNCHANGED session
     \/ StatementMayFail(w) /\ CommitError /\ Goto(w, "rollback")
     \/ "connection" \in Faults /\ CommitAnswerLost /\ Goto(w, "rollback")
  /\ UNCHANGED <<item, outcome, answerType, listing>>

\* Mutant: the catch block returns false without rolling back.
RollbackForgotten(w) ==
  /\ pc[w] = "rollback"
  /\ Return(w, "failed")
  /\ UNCHANGED <<session, answerType, listing>>

\* Mutant: the catch block expects its own ROLLBACK never to throw.
RollbackNeverThrows(w) ==
  /\ pc[w] = "rollback"
  /\ SessionRollback
  /\ Return(w, "failed")
  /\ UNCHANGED <<answerType, listing>>

\* tx.rollback() in the catch block.
RollbackTransaction(w) ==
  /\ pc[w] = "rollback"
  /\ \/ SessionRollback /\ Return(w, "failed")
     \/ EndThrows /\ Goto(w, "unwind") /\ UNCHANGED <<session, item, outcome>>
  /\ UNCHANGED <<answerType, listing>>

\* It threw: ~transaction sends a second ROLLBACK, whose error it swallows but
\* which may end a transaction another handler has begun, and the exception
\* leaves Insert.
Unwind(w) ==
  /\ pc[w] = "unwind"
  /\ SessionRollback \/ (EndThrows /\ UNCHANGED session)
  /\ Return(w, "exception")
  /\ UNCHANGED <<answerType, listing>>

\* prepare_identity_register_response switches on a local that is never
\* assigned, so the answer may carry any type (PERSON if no case matches).
Respond(w) ==
  /\ pc[w] = "answer"
  /\ Return(w, "created")
  /\ \E type \in KnownTypes :
       answerType' = [answerType EXCEPT ![item[w].identity_id] = type]
  /\ UNCHANGED <<session, listing>>

-----------------------------------------------------------------------------
(* ListIdentities: one SELECT; a failure is logged and an empty list sent.  *)

Known(r) == r.identity_type \in KnownTypes

\* prepare_identities_list_response: type_converter assigns nothing for a type
\* it does not know, and the identity is listed with whatever the stack holds.
List(identities) ==
  \E type \in [{r \in identities : ~Known(r)} -> Types] :
    listing' = {r \in identities : Known(r)}
                 \cup {[r EXCEPT !.identity_type = type[r]] : r \in DOMAIN type}

RetrieveAll(w) ==
  \/ ~StatementThrows /\ List(current) /\ UNCHANGED session
  \/ StatementThrows /\ List({}) /\ UNCHANGED session
  \/ StatementMayFail(w) /\ StatementError /\ List({})

ListIdentities(w) ==
  /\ pc[w] = "idle"
  /\ RetrieveAll(w)
  /\ UNCHANGED <<pc, item, outcome, answerType>>

-----------------------------------------------------------------------------
(* The environment: the connection drops, or the process dies and starts    *)
(* again on the same database.                                              *)

LoseConnection ==
  /\ "connection" \in Faults
  /\ Disconnect
  /\ UNCHANGED calls

Restart ==
  /\ "crash" \in Faults
  /\ SessionReopen
  /\ pc' = [w \in Workers |-> "idle"]
  /\ item' = [w \in Workers |-> NoItem]
  /\ outcome' = [id \in Ids |-> IF outcome[id] = "pending" THEN "lost"
                                ELSE outcome[id]]
  /\ UNCHANGED <<answerType, listing>>

-----------------------------------------------------------------------------

Step(w) ==
  \/ OpenTransaction(w)
  \/ InsertRow(w)
  \/ CommitTransaction(w)
  \/ RollbackTransaction(w)
  \/ Unwind(w)
  \/ Respond(w)

Next ==
  \/ \E w \in Workers : Receive(w) \/ Step(w) \/ ListIdentities(w)
  \/ LoseConnection
  \/ Restart

Spec == Init /\ [][Next]_vars

\* A handler that is inside a call is a running thread and goes on; requests,
\* faults and restarts need not happen.
FairSpec == Spec /\ \A w \in Workers : WF_vars(Step(w))

-----------------------------------------------------------------------------
TypeOK ==
  /\ SessionTypeOK(SUBSET Identity)
  /\ pc \in [Workers ->
              {"idle", "begin", "insert", "commit", "rollback", "unwind",
               "answer"}]
  /\ item \in [Workers -> Identity \cup {NoItem}]
  /\ \A w \in Workers : pc[w] # "idle" => item[w] # NoItem
  /\ outcome \in [Ids -> Outcomes]
  /\ answerType \in [Ids -> Types \cup {NoType}]
  /\ listing \in SUBSET Identity

\* A registration that was answered "Created new identity" is in the
\* database, and stays there through later failures and restarts.
AckedStored == \A id \in Ids : outcome[id] = "created" => Stored(id)

\* "Identity registration request failed" is a definite answer: the identity
\* is not in the database and no later commit brings it in.  (The answer
\* "Exception when handling request" promises nothing either way.)
FailedAbsent == \A id \in Ids : outcome[id] = "failed" => ~Stored(id)

\* The answer to RegisterIdentity describes the identity that was stored.
AnswerDescribesIdentity ==
  \A r \in committed :
    outcome[r.identity_id] = "created" =>
      answerType[r.identity_id] = r.identity_type

\* The answer to ListIdentities is the identities of the table, as
\* "Retrieves every entity in the table" says of RetrieveAll.
ListsEveryIdentity == [][listing' # listing => listing' = committed]_vars

\* Every registration is answered, or cut off by a crash.
EveryCallAnswered ==
  \A id \in Ids : outcome[id] = "pending" ~> outcome[id] # "pending"

\* The service implements the registry, when its calls do not overlap.
Registry == INSTANCE IdentityRegistry
  WITH registered <- committed,
       answered <- {id \in Ids : outcome[id] = "created"}
RegistrySpec == Registry!Spec
=============================================================================
