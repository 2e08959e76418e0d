------------------------- MODULE NodeLifecycleProofs -------------------------
(* Theorems about NodeLifecycle, for any number of handler threads and of    *)
(* SIGINTs.                                                                  *)
EXTENDS NodeLifecycle, TLAPS

\* The server thread outlives the server, and Run the server thread: that is
\* what makes it safe that Shutdown clears the node before it stops the server.
LifecycleInv ==
  /\ TypeOK
  /\ server = "none" <=> serverThread \in {"none", "build"}
  /\ serverThread = "done" => server = "stopped"
  /\ main \in {"parse", "initialize", "run"} => serverThread = "none"
  /\ main \in {"run", "join"} => alive = Parts
  /\ main \in {"clear_services", "stop_server", "reset_session", "exited"} =>
       serverThread \in {"none", "done"}
  /\ main = "crashed" => server = "none"
  /\ server \in {"none", "stopped"} => \A p \in Pool : call[p] = "idle"

\* The process at its start, before main has parsed its arguments.
LEMMA InitLifecycle == Init => LifecycleInv
<1> SUFFICES ASSUME Init PROVE LifecycleInv
  OBVIOUS
<1> USE DEF Init
<1>1. handler \in [Threads -> {"none", "entered", "shutdown"}]
  OBVIOUS
<1>2. call \in [Pool -> {"idle", "busy"}]
  OBVIOUS
<1>3. /\ published \in BOOLEAN /\ pending \in BOOLEAN
      /\ published <=> serverThread \in {"wait", "done"}
  OBVIOUS
<1>4. sent \in 0..MaxSignals
  BY MaxSignalsAssumption
<1>5. TypeOK
  BY <1>1, <1>2, <1>3, <1>4 DEF TypeOK
<1> QED
  BY <1>5 DEF LifecycleInv

\* No step of a thread, and no SIGINT, breaks LifecycleInv.
LEMMA LifecycleStep == LifecycleInv /\ [Next]_vars => LifecycleInv'
<1> SUFFICES ASSUME LifecycleInv, [Next]_vars PROVE LifecycleInv'
  OBVIOUS
<1> USE PoolAssumption, MaxSignalsAssumption DEF LifecycleInv, TypeOK
<1>1. CASE MainStep
  <2>1. CASE Parse
    BY <1>1, <2>1 DEF MainStep, Parse
  <2>2. CASE Initialize
    BY <1>1, <2>2 DEF MainStep, Initialize, Parts
  <2>3. CASE Run
    BY <1>1, <2>3 DEF MainStep, Run
  <2>4. CASE Join
    BY <1>1, <2>4 DEF MainStep, Join
  <2>5. CASE ClearServices
    BY <1>1, <2>5 DEF MainStep, ClearServices
  <2>6. CASE StopServer
    BY <1>1, <2>6 DEF MainStep, StopServer
  <2>7. CASE ResetSession
    BY <1>1, <2>7 DEF MainStep, ResetSession
  <2> QED
    BY <1>1, <2>1, <2>2, <2>3, <2>4, <2>5, <2>6, <2>7 DEF MainStep
<1>2. CASE Running /\ ServerStep
  <2>1. CASE BuildAndStart
    BY <1>2, <2>1 DEF ServerStep, BuildAndStart, Running
  <2>2. CASE Publish
    BY <1>2, <2>2 DEF ServerStep, Publish
  <2>3. CASE Wait
    BY <1>2, <2>3 DEF ServerStep, Wait
  <2> QED
    BY <1>2, <2>1, <2>2, <2>3 DEF ServerStep
<1>3. ASSUME NEW p \in Pool, BeginCall(p) PROVE LifecycleInv'
  BY <1>3 DEF BeginCall
<1>4. ASSUME NEW p \in Pool, EndCall(p) PROVE LifecycleInv'
  BY <1>4 DEF EndCall
<1>5. CASE Interrupt
  BY <1>5 DEF Interrupt
<1>6. ASSUME NEW t \in Threads, Deliver(t) PROVE LifecycleInv'
  BY <1>6 DEF Deliver
<1>7. ASSUME NEW t \in Threads, HandlerStep(t) PROVE LifecycleInv'
  <2>1. CASE EnterHandler(t)
    BY <1>7, <2>1 DEF HandlerStep, EnterHandler
  <2>2. CASE StartShutdown(t)
    BY <1>7, <2>2 DEF HandlerStep, StartShutdown, Threads
  <2>3. CASE FinishShutdown(t)
    BY <1>7, <2>3 DEF HandlerStep, FinishShutdown, Threads
  <2> QED
    BY <1>7, <2>1, <2>2, <2>3 DEF HandlerStep
<1>8. CASE UNCHANGED vars
  BY <1>8 DEF vars
<1> QED
  BY <1>1, <1>2, <1>3, <1>4, <1>5, <1>6, <1>7, <1>8 DEF Next, Terminated, Stuck

\* So every state of the process satisfies LifecycleInv.
THEOREM LifecycleInvariant == Spec => []LifecycleInv
  BY InitLifecycle, LifecycleStep, PTL DEF Spec

\* The threads of the node and the server they share fit together.
THEOREM LifecycleTypeCorrect == Spec => []TypeOK
<1>1. LifecycleInv => TypeOK
  BY DEF LifecycleInv
<1> QED
  BY <1>1, LifecycleInvariant, PTL

\* No call ever runs on a node whose services, session or loggers are gone,
\* however many SIGINTs arrive and on whatever threads.
THEOREM CallsHaveTheirNode == Spec => []NoCallWithoutNode
<1>1. LifecycleInv => NoCallWithoutNode
  BY DEF LifecycleInv, TypeOK, NoCallWithoutNode
<1> QED
  BY <1>1, LifecycleInvariant, PTL

\* The node serves and stops gracefully: it takes calls only while it serves,
\* and comes to its end only when no call is inside it.
THEOREM NodeImplementsGracefulService == Spec => GracefulSpec
<1> DEFINE active == {p \in Pool : call[p] = "busy"}
<1> DEFINE ended == main \in {"stop_server", "reset_session", "exited", "crashed"}
<1>1. Init => Graceful!Init
  BY DEF Init, Graceful!Init
<1>2. LifecycleInv /\ LifecycleInv' /\ [Next]_vars
        => [Graceful!Next]_Graceful!gvars
  <2> SUFFICES ASSUME LifecycleInv, LifecycleInv', [Next]_vars
               PROVE  [Graceful!Next]_Graceful!gvars
    OBVIOUS
  <2> USE PoolAssumption DEF LifecycleInv, TypeOK
  <2>1. CASE MainStep
    <3>1. UNCHANGED active
      BY <2>1 DEF MainStep, Parse, Initialize, Run, Join, ClearServices,
                  StopServer, ResetSession
    <3>2. CASE Parse \/ Initialize
      BY <2>1, <3>1, <3>2
      DEF Parse, Initialize, Graceful!Next, Graceful!End, Graceful!gvars
    <3>3. CASE Run \/ Join
      BY <2>1, <3>1, <3>3 DEF Run, Join, Graceful!gvars
    <3>4. CASE ClearServices
      BY <2>1, <3>1, <3>4
      DEF ClearServices, Graceful!Next, Graceful!End, Graceful!gvars
    <3>5. CASE StopServer \/ ResetSession
      BY <2>1, <3>1, <3>5 DEF StopServer, ResetSession, Graceful!gvars
    <3> QED
      BY <2>1, <3>2, <3>3, <3>4, <3>5 DEF MainStep
  <2>2. CASE Running /\ ServerStep
    <3>1. UNCHANGED active
      BY <2>2 DEF ServerStep
    <3>2. CASE BuildAndStart
      BY <2>2, <3>1, <3>2
      DEF Running, BuildAndStart, Graceful!Next, Graceful!Open, Graceful!End
    <3>3. CASE Publish \/ Wait
      BY <2>2, <3>1, <3>3 DEF Publish, Wait, Graceful!gvars
    <3> QED
      BY <2>2, <3>2, <3>3 DEF ServerStep
  <2>3. ASSUME NEW p \in Pool, BeginCall(p)
        PROVE  [Graceful!Next]_Graceful!gvars
    <3>1. p \notin active /\ active' = active \cup {p}
      BY <2>3 DEF BeginCall
    <3> QED
      BY <2>3, <3>1 DEF BeginCall, Graceful!Next, Graceful!Begin
  <2>4. ASSUME NEW p \in Pool, EndCall(p), Running
        PROVE  [Graceful!Next]_Graceful!gvars
    <3>1. p \in active /\ active' = active \ {p}
      BY <2>4 DEF EndCall
    <3>2. server \in {"serving", "draining"} /\ main = "join"
      BY <2>4 DEF EndCall, Running
    <3> QED
      BY <2>4, <3>1, <3>2 DEF EndCall, Graceful!Next, Graceful!Finish
  <2>5. CASE Interrupt
    BY <2>5 DEF Interrupt, Graceful!gvars
  <2>6. ASSUME NEW t \in Threads, Deliver(t)
        PROVE  [Graceful!Next]_Graceful!gvars
    BY <2>6 DEF Deliver, Graceful!gvars
  <2>7. ASSUME NEW t \in Threads, HandlerStep(t)
        PROVE  [Graceful!Next]_Graceful!gvars
    <3>1. UNCHANGED active
      BY <2>7 DEF HandlerStep
    <3>2. CASE EnterHandler(t)
      BY <2>7, <3>1, <3>2 DEF HandlerStep, EnterHandler, Graceful!gvars
    <3>3. CASE StartShutdown(t)
      BY <2>7, <3>1, <3>3
      DEF HandlerStep, StartShutdown, Graceful!gvars, Graceful!Next,
          Graceful!Stop
    <3>4. CASE FinishShutdown(t)
      BY <2>7, <3>1, <3>4
      DEF HandlerStep, FinishShutdown, Graceful!gvars, Threads
    <3> QED
      BY <2>7, <3>2, <3>3, <3>4 DEF HandlerStep
  <2>8. CASE UNCHANGED vars
    BY <2>8 DEF vars, Graceful!gvars
  <2> QED
    BY <2>1, <2>2, <2>3, <2>4, <2>5, <2>6, <2>7, <2>8 DEF Next, Terminated, Stuck
<1> QED
  BY <1>1, <1>2, LifecycleInvariant, PTL DEF Spec, GracefulSpec, Graceful!Spec
=============================================================================
