---------------------------- MODULE StatusService ----------------------------
(***************************************************************************)
(* StatusService::Up on top of KeyStore: a node answers with its public key *)
(* file, with the time it was constructed and with the time of day, each as *)
(* a protobuf time stamp of seconds and nanoseconds.                        *)
(*                                                                          *)
(* Up takes the nanoseconds of a time point modulo its seconds, and not     *)
(* modulo 10^9.  As s * 10^9 + f is f modulo s when f < s, this is right    *)
(* once a clock shows 10^9 seconds (September 2001), which is the           *)
(* assumption on the clock made here, and wrong before.  The clock may be   *)
(* set back, even to before the start of the node.                          *)
(*                                                                          *)
(* When the name of the host does not resolve Up uses a null pointer: the   *)
(* process dies, a Stop of KeyStore.                                        *)
(***************************************************************************)
EXTENDS KeyStore, Integers

CONSTANTS
  Second,           \* the nanoseconds of a second
  Earliest, Latest  \* the clock shows times in this range, in nanoseconds

ASSUME SecondAssumption == Second \in Nat \ {0}
ASSUME ClockAssumption ==
  /\ Earliest \in Nat
  /\ Latest \in Nat
  /\ Earliest >= Second * Second

VARIABLES
  started,          \* _start_time of the node that runs, or 0
  status            \* its last answer to Up, or <<>>

statusVars == <<vars, started, status>>

Clock == Earliest..Latest

StatusInit == Init /\ started = 0 /\ status = <<>>

-----------------------------------------------------------------------------
Nanos(t, seconds) == IF seconds # 0 THEN t % seconds ELSE 0

Stamp(t) == [seconds |-> t \div Second, nanos |-> Nanos(t, t \div Second)]

UpTime == Stamp(started)

\* Mutant: the lines of the start time are copied with one variable left over.
NodeTimeCopied(now) ==
  [seconds |-> now \div Second, nanos |-> Nanos(now, started \div Second)]

NodeTime(now) == Stamp(now)

\* The moment "at" of the answer is not part of it.
Answer ==
  /\ Up
  /\ \E now \in Clock :
       status' = [up_time |-> UpTime, node_time |-> NodeTime(now), at |-> now]
  /\ UNCHANGED started

\* main constructs the node when the settings have been validated.
Start ==
  /\ started' \in Clock
  /\ UNCHANGED status

Ended == started' = 0 /\ status' = <<>>

OtherStep ==
  /\ Validate \/ ExportPrivate \/ ExportPublic \/ Stop \/ LoseFile
  /\ CASE pc # "running" /\ pc' = "running" -> Start
       [] pc' # "running" -> Ended
       [] OTHER -> UNCHANGED <<started, status>>

StatusNext == Answer \/ OtherStep

StatusSpec == StatusInit /\ [][StatusNext]_statusVars

-----------------------------------------------------------------------------
Names(stamp, t) ==
  /\ stamp.seconds * Second + stamp.nanos = t
  /\ stamp.nanos \in 0..(Second - 1)

\* Both time stamps of an answer are well-formed and name the time points they are
\* made from, the start of this very node and the moment of the answer, although
\* their nanoseconds are taken modulo the seconds.
StampsRight ==
  status # <<>> =>
    /\ started \in Clock
    /\ Names(status.up_time, started)
    /\ Names(status.node_time, status.at)
=============================================================================
