---------------------------- MODULE NodeLifecycle ----------------------------
(***************************************************************************)
(* One run of the node process: main() and BlockchainNode::Initialize, Run  *)
(* and Shutdown on the main thread, the server thread Run starts and joins, *)
(* the handler threads of the gRPC server, and sig_handler, which runs on   *)
(* whatever thread the kernel interrupts with SIGINT.                       *)
(*                                                                          *)
(* External: grpc::Server::Shutdown holds the server's mutex from its first *)
(* to its last step, takes no further call, and returns when every handler  *)
(* thread has left; a second Shutdown waits for the mutex and returns.  The *)
(* kernel gives a SIGINT to the main thread, or, while sig_handler runs     *)
(* there (SIGINT is masked then), to any other thread that is not itself in *)
(* sig_handler; SIGINTs that find no thread coalesce into one.              *)
(***************************************************************************)
EXTENDS Naturals

CONSTANTS Pool,         \* the handler threads of the gRPC server
          NoThread,
          MaxSignals    \* bound: the SIGINTs sent to the process

ASSUME PoolAssumption ==
  /\ "main" \notin Pool
  /\ "server" \notin Pool
  /\ NoThread \notin Pool \cup {"main", "server"}
ASSUME MaxSignalsAssumption == MaxSignals \in Nat

VARIABLES
  main,           \* where the main thread is
  serverThread,   \* where _grpcServerThread is
  server,         \* the grpc::Server: "none", "serving", "draining", "stopped"
  published,      \* whether _serverInstance points at it
  drainer,        \* the thread inside Server::Shutdown, with the mutex
  alive,          \* the parts of the node that exist
  call,           \* what each handler thread is doing
  handler,        \* where sig_handler is on each thread
  pending,        \* a SIGINT no thread has taken yet
  sent            \* how many SIGINTs were sent

vars == <<main, serverThread, server, published, drainer, alive, call,
          handler, pending, sent>>

Threads == Pool \cup {"main", "server"}

Parts == {"loggers", "session", "services"}

Running == main \notin {"exited", "crashed"}

Init ==
  /\ main = "parse"
  /\ serverThread = "none"
  /\ server = "none"
  /\ published = FALSE
  /\ drainer = NoThread
  /\ alive = {}
  /\ call = [p \in Pool |-> "idle"]
  /\ handler = [t \in Threads |-> "none"]
  /\ pending = FALSE
  /\ sent = 0

-----------------------------------------------------------------------------
(* The main thread.  It is not in sig_handler when it takes a step.         *)

\* cmdArgParser.parse: help, version or a bad configuration end the process, and
\* so does an exception of the conversion.
Parse ==
  /\ main = "parse"
  /\ main' \in {"initialize", "exited", "crashed"}
  /\ UNCHANGED <<serverThread, server, published, drainer, alive, call>>

\* BlockchainNode::Initialize: everything is set up, or the database cannot be
\* connected (loggers exist), or TLS cannot be loaded (everything exists), or
\* an exception nobody catches ends the process.
Initialize ==
  /\ main = "initialize"
  /\ \/ main' = "run" /\ alive' = Parts
     \/ main' = "clear_services" /\ alive' \in {{"loggers"}, Parts}
     \/ main' = "crashed" /\ UNCHANGED alive
  /\ UNCHANGED <<serverThread, server, published, drainer, call>>

\* BlockchainNode::Run up to the start of the server thread.
Run ==
  /\ main = "run"
  /\ main' = "join"
  /\ serverThread' = "build"
  /\ UNCHANGED <<server, published, drainer, alive, call>>

\* Mutant: Run returns without joining the server thread.
JoinWithoutWaiting ==
  /\ main = "join"
  /\ main' = "clear_services"
  /\ UNCHANGED <<serverThread, server, published, drainer, alive, call>>

\* _grpcServerThread.join(), after which main returns and the destructor of
\* blockchainNode calls Shutdown.
Join ==
  /\ main = "join"
  /\ serverThread = "done"
  /\ main' = "clear_services"
  /\ UNCHANGED <<serverThread, server, published, drainer, alive, call>>

ClearServices ==
  /\ main = "clear_services"
  /\ main' = "stop_server"
  /\ alive' = alive \ {"services"}
  /\ UNCHANGED <<serverThread, server, published, drainer, call>>

\* _serverInstance->Shutdown(): Run has joined, so it returns at once.
StopServer ==
  /\ main = "stop_server"
  /\ published => server = "stopped" /\ drainer = NoThread
  /\ main' = "reset_session"
  /\ UNCHANGED <<serverThread, server, published, drainer, alive, call>>

ResetSession ==
  /\ main = "reset_session"
  /\ main' = "exited"
  /\ alive' = {}
  /\ UNCHANGED <<serverThread, server, published, drainer, call>>

MainStep ==
  /\ handler["main"] = "none"
  /\ \/ Parse
     \/ Initialize
     \/ Run
     \/ Join
     \/ ClearServices
     \/ StopServer
     \/ ResetSession
  /\ UNCHANGED <<handler, pending, sent>>

-----------------------------------------------------------------------------
(* The server thread: _serverInstance = builder.BuildAndStart(), which       *)
(* starts the server before the assignment, then _serverInstance->Wait().    *)

\* BuildAndStart answers a null pointer when the port cannot be bound, and
\* Wait is called on it all the same.
BuildAndStart ==
  /\ serverThread = "build"
  /\ \/ server' = "serving" /\ serverThread' = "publish" /\ UNCHANGED main
     \/ main' = "crashed" /\ UNCHANGED <<server, serverThread>>
  /\ UNCHANGED published

\* Mutant: the server is kept in a local of the thread, not in the member.
PublishForgotten ==
  /\ serverThread = "publish"
  /\ serverThread' = "wait"
  /\ UNCHANGED <<main, server, published>>

Publish ==
  /\ serverThread = "publish"
  /\ serverThread' = "wait"
  /\ published' = TRUE
  /\ UNCHANGED <<main, server>>

Wait ==
  /\ serverThread = "wait"
  /\ server = "stopped"
  /\ serverThread' = "done"
  /\ UNCHANGED <<main, server, published>>

ServerStep ==
  /\ handler["server"] = "none"
  /\ BuildAndStart \/ Publish \/ Wait
  /\ UNCHANGED <<drainer, alive, call, handler, pending, sent>>

-----------------------------------------------------------------------------
(* Calls of the services, on the handler threads.                            *)

BeginCall(p) ==
  /\ server = "serving"
  /\ call[p] = "idle"
  /\ handler[p] = "none"
  /\ call' = [call EXCEPT ![p] = "busy"]
  /\ UNCHANGED <<main, serverThread, server, published, drainer, alive,
                 handler, pending, sent>>

EndCall(p) ==
  /\ call[p] = "busy"
  /\ handler[p] = "none"
  /\ call' = [call EXCEPT ![p] = "idle"]
  /\ UNCHANGED <<main, serverThread, server, published, drainer, alive,
                 handler, pending, sent>>

-----------------------------------------------------------------------------
(* SIGINT.                                                                   *)

Interrupt ==
  /\ sent < MaxSignals
  /\ sent' = sent + 1
  /\ pending' = TRUE
  /\ UNCHANGED <<main, serverThread, server, published, drainer, alive, call,
                 handler>>

Exists(t) ==
  \/ t = "main"
  \/ t = "server" /\ serverThread \notin {"none", "done"}
  \/ t \in Pool /\ server \in {"serving", "draining"}

Deliver(t) ==
  /\ pending
  /\ Exists(t)
  /\ handler[t] = "none"
  /\ t # "main" => handler["main"] # "none"
  /\ pending' = FALSE
  /\ handler' = [handler EXCEPT ![t] = "entered"]
  /\ UNCHANGED <<main, serverThread, server, published, drainer, alive, call,
                 sent>>

\* Mutant: sig_handler leaves the server alone while it is in a call.
EnterHandlerIfQuiet(t) ==
  /\ handler[t] = "entered"
  /\ handler' = [handler EXCEPT ![t] =
       IF published /\ \A p \in Pool : call[p] = "idle" THEN "shutdown"
       ELSE "none"]
  /\ UNCHANGED <<server, drainer>>

\* if(blockchainNode && blockchainNode->GRPCServer())
EnterHandler(t) ==
  /\ handler[t] = "entered"
  /\ handler' = [handler EXCEPT ![t] = IF published THEN "shutdown" ELSE "none"]
  /\ UNCHANGED <<server, drainer>>

\* Server::Shutdown: the mutex is free; the server drains unless it has already.
StartShutdown(t) ==
  /\ handler[t] = "shutdown"
  /\ drainer = NoThread
  /\ \/ /\ server = "serving"
        /\ server' = "draining"
        /\ drainer' = t
        /\ UNCHANGED handler
     \/ /\ server = "stopped"
        /\ handler' = [handler EXCEPT ![t] = "none"]
        /\ UNCHANGED <<server, drainer>>

\* Every handler thread has left; the server's Wait is released.
FinishShutdown(t) ==
  /\ drainer = t
  /\ \A p \in Pool : call[p] = "idle" /\ handler[p] = "none"
  /\ server' = "stopped"
  /\ drainer' = NoThread
  /\ handler' = [handler EXCEPT ![t] = "none"]

HandlerStep(t) ==
  /\ EnterHandler(t) \/ StartShutdown(t) \/ FinishShutdown(t)
  /\ UNCHANGED <<main, serverThread, published, alive, call, pending, sent>>

-----------------------------------------------------------------------------
Terminated == ~Running /\ UNCHANGED vars

\* A handler thread that sig_handler interrupted waits in Server::Shutdown for
\* itself to leave: the process is stuck.
Stuck ==
  /\ server = "draining"
  /\ \E p \in Pool : handler[p] = "shutdown"
  /\ UNCHANGED vars

Next ==
  \/ /\ Running
     /\ \/ MainStep
        \/ ServerStep
        \/ \E p \in Pool : BeginCall(p) \/ EndCall(p)
        \/ Interrupt
        \/ \E t \in Threads : Deliver(t) \/ HandlerStep(t)
  \/ Terminated
  \/ Stuck

Spec == Init /\ [][Next]_vars

\* Threads that can go on do, a call that was begun ends, and a SIGINT a thread
\* can take is taken; clients and users need not do anything.
FairSpec ==
  /\ Spec
  /\ WF_vars(Running /\ MainStep)
  /\ WF_vars(Running /\ ServerStep)
  /\ WF_vars(Running /\ \E t \in Threads : Deliver(t))
  /\ \A t \in Threads : WF_vars(Running /\ HandlerStep(t))
  /\ \A p \in Pool : WF_vars(Running /\ EndCall(p))

-----------------------------------------------------------------------------
\* The state of the threads, and of the server they share, fit together.
TypeOK ==
  /\ main \in {"parse", "initialize", "run", "join", "clear_services",
               "stop_server", "reset_session", "exited", "crashed"}
  /\ serverThread \in {"none", "build", "publish", "wait", "done"}
  /\ server \in {"none", "serving", "draining", "stopped"}
  /\ published \in BOOLEAN
  /\ published <=> serverThread \in {"wait", "done"}
  /\ drainer \in Threads \cup {NoThread}
  /\ drainer # NoThread <=> server = "draining"
  /\ alive \subseteq Parts
  /\ call \in [Pool -> {"idle", "busy"}]
  /\ handler \in [Threads -> {"none", "entered", "shutdown"}]
  /\ pending \in BOOLEAN
  /\ sent \in 0..MaxSignals

\* A call never runs on a node whose services, session or loggers are gone:
\* Shutdown clears them without asking whether the server still serves.
NoCallWithoutNode == (\E p \in Pool : call[p] = "busy") => alive = Parts

\* The threads, seen from a client, serve and stop gracefully.
Graceful == INSTANCE GracefulService WITH
  phase <- IF main \in {"stop_server", "reset_session", "exited", "crashed"}
             THEN "ended"
           ELSE IF server = "none" THEN "starting"
           ELSE IF server = "serving" THEN "serving"
           ELSE "stopping",
  active <- {p \in Pool : call[p] = "busy"}
GracefulSpec == Graceful!Spec

\* A SIGINT that comes once the server is published ends the process, unless a
\* further SIGINT interrupts a handler thread: that thread then waits in
\* Server::Shutdown for itself to finish.
InterruptStops ==
  (published /\ pending) ~> (~Running \/ \E p \in Pool : handler[p] # "none")
=============================================================================
