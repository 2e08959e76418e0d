------------------------------ MODULE LogosNode ------------------------------
(***************************************************************************)
(* The node with its identity service: the threads, signals and shutdown of *)
(* NodeLifecycle around the handlers of IdentityService.  A call of the     *)
(* server is a registration, which takes the steps of the service on the    *)
(* thread of the call, or a call that takes at most one (ListIdentities, or *)
(* Up and refused registrations, which do not touch the session).  A thread *)
(* does not go on with its call while it runs sig_handler.                  *)
(*                                                                          *)
(* NodeLifecycle assumes that a call that was begun ends; here it ends      *)
(* because the service answers it.  One run of the process: the fault       *)
(* "crash" of IdentityService has no place here.                            *)
(***************************************************************************)
EXTENDS NodeLifecycle

CONSTANTS Engines, Ids, Keys, NoKey, EdKeys, EccKeys, Types, KnownTypes,
          NoType, NoItem, Faults

VARIABLES engine, link, txn, committed, current,
          pc, item, outcome, answerType, listing

Service == INSTANCE IdentityService WITH Workers <- Pool

ASSUME ServiceAssumptions ==
  /\ Service!FaultsAssumption
  /\ Service!NoTypeAssumption
  /\ Service!KnownTypesAssumption
  /\ Service!NoItemAssumption

serviceVars == <<engine, link, txn, committed, current,
                 pc, item, outcome, answerType, listing>>
nodeVars == <<vars, serviceVars>>

NodeInit == Init /\ Service!Init

-----------------------------------------------------------------------------
(* Calls.                                                                    *)

BeginRegistration(p) == BeginCall(p) /\ Service!Receive(p)

BeginOtherCall(p) == BeginCall(p) /\ UNCHANGED serviceVars

\* The call returns with the step that makes its handler idle.
Serve(p) ==
  /\ handler[p] = "none"
  /\ Service!Step(p)
  /\ IF pc'[p] = "idle" THEN EndCall(p) ELSE UNCHANGED vars

EndOtherCall(p) ==
  /\ pc[p] = "idle"
  /\ EndCall(p)
  /\ Service!ListIdentities(p) \/ UNCHANGED serviceVars

CallStep(p) == Serve(p) \/ EndOtherCall(p)

-----------------------------------------------------------------------------
(* The process around them.                                                  *)

\* _db_manager.SQLSession().reset() closes the connection, and with it whatever
\* transaction is open on it.
CloseSession ==
  \/ Service!Disconnect /\ UNCHANGED <<pc, item, outcome, answerType, listing>>
  \/ link = "down" /\ UNCHANGED serviceVars

MainThread ==
  /\ MainStep
  /\ IF main = "reset_session" THEN CloseSession ELSE UNCHANGED serviceVars

ServerThread == ServerStep /\ UNCHANGED serviceVars

DeliverSignal == (\E t \in Threads : Deliver(t)) /\ UNCHANGED serviceVars

SignalHandler(t) == HandlerStep(t) /\ UNCHANGED serviceVars

LoseConnection ==
  /\ "session" \in alive
  /\ Service!LoseConnection
  /\ UNCHANGED vars

NodeNext ==
  \/ /\ Running
     /\ \/ MainThread
        \/ ServerThread
        \/ \E p \in Pool : \/ BeginRegistration(p)
                           \/ BeginOtherCall(p)
                           \/ CallStep(p)
        \/ Interrupt /\ UNCHANGED serviceVars
        \/ DeliverSignal
        \/ \E t \in Threads : SignalHandler(t)
        \/ LoseConnection
  \/ (Terminated \/ Stuck) /\ UNCHANGED serviceVars

\* As in NodeLifecycle, but that a call goes on, not that it ends.
NodeSpec ==
  /\ NodeInit
  /\ [][NodeNext]_nodeVars
  /\ WF_nodeVars(Running /\ MainThread)
  /\ WF_nodeVars(Running /\ ServerThread)
  /\ WF_nodeVars(Running /\ DeliverSignal)
  /\ \A t \in Threads : WF_nodeVars(Running /\ SignalHandler(t))
  /\ \A p \in Pool : WF_nodeVars(Running /\ CallStep(p))

-----------------------------------------------------------------------------
\* The node with its service is a NodeLifecycle, the fairness included: every
\* call ends as long as sig_handler does not hold its thread, although its
\* statements, its COMMIT and its ROLLBACK may throw.
LifecycleSpec == FairSpec

\* A handler is inside the shared session only during a call and while the
\* session exists: Shutdown resets it without a look at the handlers that use it.
SessionOutlivesHandlers ==
  \A p \in Pool : pc[p] # "idle" => call[p] = "busy" /\ "session" \in alive

\* A node that ends normally has answered every registration it has begun, and
\* what it answered as created is in the database after its session is closed.
ExitAnswersAll ==
  main = "exited" =>
    \A id \in Ids : /\ outcome[id] # "pending"
                    /\ outcome[id] = "created" => Service!Stored(id)

\* A registration in flight when SIGINTs arrive is answered, unless sig_handler
\* takes its own thread: a handler stuck on another thread does not stop it.
RegistrationAnswered ==
  \A id \in Ids :
    outcome[id] = "pending" ~>
      \/ outcome[id] # "pending"
      \/ \E p \in Pool : /\ handler[p] # "none"
                         /\ pc[p] # "idle"
                         /\ item[p].identity_id = id
=============================================================================
