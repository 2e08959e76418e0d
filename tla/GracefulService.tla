--------------------------- MODULE GracefulService ---------------------------
(***************************************************************************)
(* What a node promises about its life, without threads or signals: it     *)
(* takes calls only while it serves, and ends only when no call is inside   *)
(* it any more.                                                             *)
(***************************************************************************)
CONSTANT Pool            \* the threads that run calls

VARIABLES phase,         \* "starting" | "serving" | "stopping" | "ended"
          active         \* the threads inside a call

gvars == <<phase, active>>

Init == phase = "starting" /\ active = {}

Open == phase = "starting" /\ phase' = "serving" /\ UNCHANGED active

Begin ==
  /\ phase = "serving"
  /\ \E t \in Pool \ active : active' = active \cup {t}
  /\ UNCHANGED phase

Finish ==
  /\ phase \in {"serving", "stopping"}
  /\ \E t \in active : active' = active \ {t}
  /\ UNCHANGED phase

Stop == phase = "serving" /\ phase' = "stopping" /\ UNCHANGED active

End ==
  /\ phase \in {"starting", "stopping"}
  /\ active = {}
  /\ phase' = "ended"
  /\ UNCHANGED active

Next == Open \/ Begin \/ Finish \/ Stop \/ End

Spec == Init /\ [][Next]_gvars
=============================================================================
