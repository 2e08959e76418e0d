---------------------------- MODULE LogosNodeProofs ----------------------------
(* Theorems about LogosNode: the composition implements each of its parts, so  *)
(* what is proved of NodeLifecycle and of IdentityService holds of the node,   *)
(* for any number of handler threads, SIGINTs, registrations and engines.      *)
EXTENDS LogosNode, NodeLifecycleProofs

ServiceFacts == INSTANCE IdentityServiceProofs WITH Workers <- Pool

-----------------------------------------------------------------------------
(* The threads of the composition are those of NodeLifecycle.                *)

\* Every step of the composition is a step of the threads or none of theirs.
LEMMA NodeStepIsLifecycleStep == [NodeNext]_nodeVars => [Next]_vars
<1> SUFFICES ASSUME [NodeNext]_nodeVars PROVE [Next]_vars
  OBVIOUS
<1>1. CASE Running /\ MainThread
  BY <1>1 DEF MainThread, Next
<1>2. CASE Running /\ ServerThread
  BY <1>2 DEF ServerThread, Next
<1>3. ASSUME Running, NEW p \in Pool,
             BeginRegistration(p) \/ BeginOtherCall(p) \/ CallStep(p)
      PROVE  [Next]_vars
  BY <1>3 DEF BeginRegistration, BeginOtherCall, CallStep, Serve, EndOtherCall,
              Next
<1>4. CASE Running /\ (Interrupt \/ DeliverSignal)
  BY <1>4 DEF DeliverSignal, Next
<1>5. ASSUME Running, NEW t \in Threads, SignalHandler(t)
      PROVE  [Next]_vars
  BY <1>5 DEF SignalHandler, Next
<1>6. CASE LoseConnection
  BY <1>6 DEF LoseConnection
<1>7. CASE Terminated \/ Stuck
  BY <1>7 DEF Terminated, Stuck
<1>8. CASE UNCHANGED nodeVars
  BY <1>8 DEF nodeVars
<1> QED
  BY <1>1, <1>2, <1>3, <1>4, <1>5, <1>6, <1>7, <1>8 DEF NodeNext

\* The node with its service has the behaviours of NodeLifecycle.
THEOREM NodeImplementsLifecycle == NodeSpec => Spec
<1>1. NodeInit => Init
  BY DEF NodeInit
<1> QED
  BY <1>1, NodeStepIsLifecycleStep, PTL DEF NodeSpec, Spec

\* So the node with its service serves and stops gracefully.
THEOREM NodeServesGracefully == NodeSpec => GracefulSpec
  BY NodeImplementsLifecycle, NodeImplementsGracefulService, PTL

-----------------------------------------------------------------------------
(* The handlers of the composition are those of IdentityService.             *)

ConnectionMayDrop == "connection" \in Faults

\* Every step of the composition is a step of the service or none of its.
LEMMA NodeStepIsServiceStep ==
  ASSUME ConnectionMayDrop, [NodeNext]_nodeVars
  PROVE  [Service!Next]_serviceVars
<1>1. CASE MainThread
  <2>1. CASE /\ Service!Disconnect
             /\ UNCHANGED <<pc, item, outcome, answerType, listing>>
    BY <2>1
    DEF ConnectionMayDrop, Service!Next, Service!LoseConnection, Service!calls
  <2>2. CASE UNCHANGED serviceVars
    BY <2>2
  <2> QED
    BY <1>1, <2>1, <2>2 DEF MainThread, CloseSession
<1>2. CASE ServerThread
  BY <1>2 DEF ServerThread
<1>3. ASSUME NEW p \in Pool, BeginRegistration(p) \/ BeginOtherCall(p)
      PROVE  [Service!Next]_serviceVars
  BY <1>3 DEF BeginRegistration, BeginOtherCall, Service!Next
<1>4. ASSUME NEW p \in Pool, CallStep(p)
      PROVE  [Service!Next]_serviceVars
  BY <1>4 DEF CallStep, Serve, EndOtherCall, Service!Next
<1>5. CASE (Interrupt /\ UNCHANGED serviceVars) \/ DeliverSignal
  BY <1>5 DEF DeliverSignal
<1>6. ASSUME NEW t \in Threads, SignalHandler(t)
      PROVE  [Service!Next]_serviceVars
  BY <1>6 DEF SignalHandler
<1>7. CASE LoseConnection
  BY <1>7 DEF LoseConnection, Service!Next
<1>8. CASE (Terminated \/ Stuck) /\ UNCHANGED serviceVars
  BY <1>8
<1>9. CASE UNCHANGED nodeVars
  BY <1>9 DEF nodeVars
<1> QED
  BY <1>1, <1>2, <1>3, <1>4, <1>5, <1>6, <1>7, <1>8, <1>9 DEF NodeNext

\* The node has the behaviours of IdentityService: nothing the process around
\* it does, its shutdown included, interferes with a registration.
THEOREM NodeImplementsService ==
  ASSUME ConnectionMayDrop
  PROVE  NodeSpec => Service!Spec
<1>1. NodeInit => Service!Init
  BY DEF NodeInit
<1>2. [NodeNext]_nodeVars => [Service!Next]_Service!vars
  BY NodeStepIsServiceStep
  DEF serviceVars, Service!vars, Service!session, Service!calls
<1> QED
  BY <1>1, <1>2, PTL DEF NodeSpec, Service!Spec

\* Service and ServiceFacts are two instances of one module: what is proved of
\* the second holds of the first.
LEMMA SameService ==
  /\ Service!Init <=> ServiceFacts!Init
  /\ [Service!Next]_Service!vars <=> [ServiceFacts!Next]_ServiceFacts!vars
  /\ Service!TypeOK <=> ServiceFacts!TypeOK
  /\ Service!AckedStored <=> ServiceFacts!AckedStored
<1>1. Service!Init <=> ServiceFacts!Init
  BY DEF Service!Init, Service!SessionInit,
         ServiceFacts!Init, ServiceFacts!SessionInit
<1>2. [Service!Next]_Service!vars <=> [ServiceFacts!Next]_ServiceFacts!vars
  BY Zenon
  DEF
      Service!Receive, Service!OpenTransaction, Service!InsertRow,
      Service!CommitTransaction, Service!RollbackTransaction,
      Service!Unwind, Service!Respond, Service!ListIdentities,
      Service!RetrieveAll, Service!List, Service!Known,
      Service!LoseConnection, Service!Restart, Service!Step,
      Service!Next, Service!vars, Service!session, Service!calls,
      Service!Goto, Service!Return, Service!StatementMayFail,
      Service!InSession, Service!ValidKey, Service!Identity,
      Service!StatementThrows, Service!BeginThrows, Service!EndThrows,
      Service!SessionBegin, Service!SessionWrite, Service!SessionCommit,
      Service!SessionRollback, Service!Abandon, Service!KeepTransaction,
      Service!StatementError, Service!CommitError, Service!Disconnect,
      Service!CommitAnswerLost, Service!SessionReopen,
      ServiceFacts!Receive, ServiceFacts!OpenTransaction,
      ServiceFacts!InsertRow, ServiceFacts!CommitTransaction,
      ServiceFacts!RollbackTransaction, ServiceFacts!Unwind,
      ServiceFacts!Respond, ServiceFacts!ListIdentities,
      ServiceFacts!RetrieveAll, ServiceFacts!List, ServiceFacts!Known,
      ServiceFacts!LoseConnection, ServiceFacts!Restart,
      ServiceFacts!Step, ServiceFacts!Next, ServiceFacts!vars,
      ServiceFacts!session, ServiceFacts!calls, ServiceFacts!Goto,
      ServiceFacts!Return, ServiceFacts!StatementMayFail,
      ServiceFacts!InSession, ServiceFacts!ValidKey,
      ServiceFacts!Identity, ServiceFacts!StatementThrows,
      ServiceFacts!BeginThrows, ServiceFacts!EndThrows,
      ServiceFacts!SessionBegin, ServiceFacts!SessionWrite,
      ServiceFacts!SessionCommit, ServiceFacts!SessionRollback,
      ServiceFacts!Abandon, ServiceFacts!KeepTransaction,
      ServiceFacts!StatementError, ServiceFacts!CommitError,
      ServiceFacts!Disconnect, ServiceFacts!CommitAnswerLost,
      ServiceFacts!SessionReopen
<1>3. Service!TypeOK <=> ServiceFacts!TypeOK
  BY DEF
      Service!TypeOK, Service!SessionTypeOK, Service!Identity,
      Service!ValidKey, Service!Outcomes, ServiceFacts!TypeOK,
      ServiceFacts!SessionTypeOK, ServiceFacts!Identity,
      ServiceFacts!ValidKey, ServiceFacts!Outcomes
<1>4. Service!AckedStored <=> ServiceFacts!AckedStored
  BY DEF Service!AckedStored, Service!Stored, Service!IdsOf,
         ServiceFacts!AckedStored, ServiceFacts!Stored, ServiceFacts!IdsOf
<1> QED
  BY <1>1, <1>2, <1>3, <1>4

\* What IdentityServiceProofs assumes of the constants.
LEMMA ServiceFactsAssumptions ==
  /\ ServiceFacts!FaultsAssumption
  /\ ServiceFacts!NoTypeAssumption
  /\ ServiceFacts!KnownTypesAssumption
  /\ ServiceFacts!NoItemAssumption
<1>1. ServiceFacts!Identity = Service!Identity
  BY DEF ServiceFacts!Identity, Service!Identity,
         ServiceFacts!ValidKey, Service!ValidKey
<1> QED
  BY <1>1, ServiceAssumptions

\* The handlers and the session of a node keep their types.
LEMMA NodeServiceTypes ==
  ASSUME ConnectionMayDrop
  PROVE  NodeSpec => []Service!TypeOK
<1>1. ServiceFacts!Spec => []ServiceFacts!TypeOK
  BY ServiceFactsAssumptions, ServiceFacts!TypeCorrect
<1> QED
  BY <1>1, SameService, NodeImplementsService, PTL
  DEF Service!Spec, ServiceFacts!Spec

\* A registration the node has answered as created stays in the database,
\* whatever SIGINTs arrive, if statements fail only with the connection.
THEOREM NodeKeepsAcked ==
  ASSUME ConnectionMayDrop, ServiceFacts!NoStatementFails
  PROVE  NodeSpec => []Service!AckedStored
<1>1. ServiceFacts!Spec => []ServiceFacts!AckedStored
  BY ServiceFactsAssumptions, ServiceFacts!AckedStoredIfNoStatementFails
<1> QED
  BY <1>1, SameService, NodeImplementsService, PTL
  DEF Service!Spec, ServiceFacts!Spec

-----------------------------------------------------------------------------
(* What relates the handlers to the threads that run them.                   *)

\* A handler is inside the service only during a call of its thread, and a
\* registration that is pending is the one of some handler.
HandlersInCalls ==
  /\ \A p \in Pool : pc[p] # "idle" => call[p] = "busy"
  /\ \A id \in Ids : outcome[id] = "pending" =>
       \E p \in Pool : pc[p] # "idle" /\ item[p].identity_id = id

\* A step of a handler's call keeps its thread in the call until it returns, and
\* answers no registration but its own.
LEMMA ServeKeepsHandlers ==
  ASSUME Service!TypeOK, HandlersInCalls, NEW p \in Pool, Serve(p)
  PROVE  HandlersInCalls'
<1> DEFINE own == item[p].identity_id
<1> USE DEF Service!TypeOK, HandlersInCalls
<1>1. pc[p] # "idle" /\ call[p] = "busy"
  BY DEF Serve, Service!Step, Service!OpenTransaction, Service!InsertRow,
         Service!CommitTransaction, Service!RollbackTransaction,
         Service!Unwind, Service!Respond
<1>2. CASE /\ UNCHANGED <<item, outcome>>
           /\ \E l \in {"insert", "commit", "rollback", "unwind", "answer"} :
                pc' = [pc EXCEPT ![p] = l]
  <2>1. UNCHANGED vars
    BY <1>2 DEF Serve
  <2> QED
    BY <1>1, <1>2, <2>1 DEF vars
<1>3. CASE \E result \in {"created", "failed", "exception"} :
             Service!Return(p, result)
  <2>1. EndCall(p)
    BY <1>3 DEF Serve, Service!Return, Service!Goto
  <2>2. \A q \in Pool \ {p} : /\ pc'[q] = pc[q]
                             /\ item'[q] = item[q]
                             /\ call'[q] = call[q]
    BY <1>3, <2>1 DEF Service!Return, Service!Goto, EndCall
  <2>3. pc'[p] = "idle"
    BY <1>3 DEF Service!Return, Service!Goto
  <2>4. \A id \in Ids : outcome'[id] = "pending" =>
          outcome[id] = "pending" /\ id # own
    BY <1>3 DEF Service!Return
  <2> QED
    BY <2>2, <2>3, <2>4
<1> QED
  BY <1>2, <1>3
  DEF Serve, Service!Step, Service!OpenTransaction, Service!InsertRow,
      Service!CommitTransaction, Service!RollbackTransaction,
      Service!Unwind, Service!Respond, Service!Goto

\* No step of the node separates the handlers from their calls.
LEMMA HandlersStep ==
  ASSUME TypeOK, Service!TypeOK, HandlersInCalls, [NodeNext]_nodeVars
  PROVE  HandlersInCalls'
<1> USE DEF Service!TypeOK, HandlersInCalls
<1>1. ASSUME NEW p \in Pool, BeginRegistration(p) PROVE HandlersInCalls'
  <2>1. PICK id \in Ids :
          /\ item'[p].identity_id = id
          /\ \A q \in Pool \ {p} : item'[q] = item[q]
          /\ \A other \in Ids \ {id} : outcome'[other] = outcome[other]
    BY <1>1 DEF BeginRegistration, Service!Receive
  <2>2. /\ pc[p] = "idle"
        /\ pc'[p] = "begin"
        /\ \A q \in Pool \ {p} : pc'[q] = pc[q]
    BY <1>1 DEF BeginRegistration, Service!Receive, Service!Goto
  <2>3. /\ call' = [call EXCEPT ![p] = "busy"]
        /\ call \in [Pool -> {"idle", "busy"}]
    BY <1>1 DEF BeginRegistration, BeginCall, TypeOK
  <2>4. ASSUME NEW q \in Pool, pc'[q] # "idle" PROVE call'[q] = "busy"
    <3>1. CASE q = p
      BY <3>1, <2>3
    <3>2. CASE q # p
      BY <3>2, <2>2, <2>3, <2>4
    <3> QED
      BY <3>1, <3>2
  <2> QED
    BY <2>1, <2>2, <2>4
<1>2. ASSUME NEW p \in Pool, BeginOtherCall(p) PROVE HandlersInCalls'
  BY <1>2 DEF BeginOtherCall, BeginCall, serviceVars
<1>3. ASSUME NEW p \in Pool, Serve(p) PROVE HandlersInCalls'
  BY <1>3, ServeKeepsHandlers
<1>4. ASSUME NEW p \in Pool, EndOtherCall(p) PROVE HandlersInCalls'
  BY <1>4 DEF EndOtherCall, EndCall, Service!ListIdentities, serviceVars
<1>5. ASSUME UNCHANGED <<call, pc, item, outcome>> PROVE HandlersInCalls'
  BY <1>5
<1>6. CASE MainThread
  <2>1. UNCHANGED call
    BY <1>6 DEF MainThread, MainStep, Parse, Initialize, Run, Join, ClearServices,
                StopServer, ResetSession
  <2> QED
    BY <1>5, <1>6, <2>1 DEF MainThread, CloseSession, serviceVars
<1>7. CASE ServerThread
  BY <1>5, <1>7 DEF ServerThread, ServerStep, serviceVars
<1>8. CASE (Interrupt /\ UNCHANGED serviceVars) \/ DeliverSignal
  BY <1>5, <1>8 DEF Interrupt, DeliverSignal, Deliver, serviceVars
<1>9. ASSUME NEW t \in Threads, SignalHandler(t) PROVE HandlersInCalls'
  BY <1>5, <1>9 DEF SignalHandler, HandlerStep, serviceVars
<1>10. CASE LoseConnection
  BY <1>5, <1>10 DEF LoseConnection, Service!LoseConnection, Service!calls, vars
<1>11. CASE (Terminated \/ Stuck) /\ UNCHANGED serviceVars
  BY <1>5, <1>11 DEF Terminated, Stuck, vars, serviceVars
<1>12. CASE UNCHANGED nodeVars
  BY <1>5, <1>12 DEF nodeVars, vars, serviceVars
<1> QED
  BY <1>1, <1>2, <1>3, <1>4, <1>6, <1>7, <1>8, <1>9, <1>10, <1>11, <1>12
  DEF NodeNext, CallStep

\* So handlers and their calls belong together in every state of the node.
LEMMA HandlersInvariant ==
  ASSUME ConnectionMayDrop
  PROVE  NodeSpec => []HandlersInCalls
<1>1. NodeInit => HandlersInCalls
  BY DEF NodeInit, Service!Init, HandlersInCalls
<1>2. TypeOK /\ Service!TypeOK /\ HandlersInCalls /\ [NodeNext]_nodeVars
        => HandlersInCalls'
  BY HandlersStep
<1> QED
  BY <1>1, <1>2, NodeServiceTypes, NodeImplementsLifecycle,
     LifecycleTypeCorrect, PTL
  DEF NodeSpec

\* The node never resets the session while a handler is inside it, for any
\* number of handlers and of SIGINTs.
THEOREM SessionIsThereForHandlers ==
  ASSUME ConnectionMayDrop
  PROVE  NodeSpec => []SessionOutlivesHandlers
<1>1. HandlersInCalls /\ NoCallWithoutNode => SessionOutlivesHandlers
  BY DEF HandlersInCalls, NoCallWithoutNode, SessionOutlivesHandlers, Parts
<1> QED
  BY <1>1, HandlersInvariant, NodeImplementsLifecycle, CallsHaveTheirNode, PTL

\* A node that ends normally has answered every registration it has begun, and
\* those it has answered as created are in the database.
THEOREM NodeAnswersBeforeExit ==
  ASSUME ConnectionMayDrop, ServiceFacts!NoStatementFails
  PROVE  NodeSpec => []ExitAnswersAll
<1>1. LifecycleInv /\ HandlersInCalls /\ Service!AckedStored => ExitAnswersAll
  BY DEF LifecycleInv, HandlersInCalls, Service!AckedStored, ExitAnswersAll
<1> QED
  BY <1>1, HandlersInvariant, NodeKeepsAcked, NodeImplementsLifecycle,
     LifecycleInvariant, PTL
=============================================================================
