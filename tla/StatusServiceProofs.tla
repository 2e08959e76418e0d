-------------------------- MODULE StatusServiceProofs --------------------------
(* Theorems about StatusService, for any length of a second and any clock that *)
(* has passed as many seconds as a second has nanoseconds.                    *)
EXTENDS StatusService, TLAPS

\* A multiple of a natural number that is smaller than it is no positive multiple.
LEMMA SmallMultiple ==
  ASSUME NEW s \in Nat \ {0}, NEW k \in Nat, s * k < s
  PROVE  k = 0
<1> SUFFICES ASSUME k >= 1 PROVE FALSE
  OBVIOUS
<1>1. PICK j \in Nat : k = j + 1
  <2>1. k - 1 \in Nat /\ k = (k - 1) + 1
    OBVIOUS
  <2> QED
    BY <2>1
<1>2. s * k = s * j + s
  BY <1>1
<1>3. s * j \in Nat
  OBVIOUS
<1> QED
  BY <1>2, <1>3

\* The remainder modulo the seconds is the remainder modulo the second, when
\* there are at least as many seconds as a second has nanoseconds.
LEMMA Remainder ==
  ASSUME NEW s \in Nat \ {0}, NEW n \in Nat, NEW f \in Nat, f < s
  PROVE  (s * n + f) % s = f
<1> DEFINE t == s * n + f
           q == t \div s
           r == t % s
<1>1. t \in Nat
  OBVIOUS
<1>2. q \in Nat /\ r \in 0..(s - 1) /\ t = s * q + r
  BY <1>1
<1> HIDE DEF q, r
<1>3. s * n + f = s * q + r
  BY <1>2
<1>4. CASE n >= q
  <2>1. n - q \in Nat
    BY <1>2, <1>4
  <2>2. s * (n - q) = s * n - s * q
    BY <1>2
  <2>3. s * n \in Nat /\ s * q \in Nat
    BY <1>2
  <2>4. s * (n - q) < s
    BY <1>2, <1>3, <2>2, <2>3
  <2>5. n - q = 0
    BY <2>1, <2>4, SmallMultiple
  <2>6. n = q
    BY <1>2, <2>5
  <2>7. r = f
    BY <1>2, <1>3, <2>3, <2>6
  <2> QED
    BY <2>7 DEF r
<1>5. CASE n < q
  <2>1. q - n \in Nat
    BY <1>2, <1>5
  <2>2. s * (q - n) = s * q - s * n
    BY <1>2
  <2>3. s * n \in Nat /\ s * q \in Nat
    BY <1>2
  <2>4. s * (q - n) < s
    BY <1>2, <1>3, <2>2, <2>3
  <2>5. q - n = 0
    BY <2>1, <2>4, SmallMultiple
  <2> QED
    BY <1>2, <1>5, <2>5
<1> QED
  BY <1>2, <1>4, <1>5

\* The time stamp of a time point names it, once the clock has passed as many
\* seconds as a second has nanoseconds.
LEMMA StampNames ==
  ASSUME NEW t \in Clock
  PROVE  Names(Stamp(t), t)
<1> DEFINE s == t \div Second
           f == t % Second
<1>1. Second \in Nat \ {0} /\ t \in Nat /\ t >= Second * Second
  BY SecondAssumption, ClockAssumption DEF Clock
<1>2. s \in Nat /\ f \in 0..(Second - 1) /\ t = Second * s + f
  BY <1>1
<1>3. Stamp(t) = [seconds |-> s, nanos |-> IF s # 0 THEN t % s ELSE 0]
  BY DEF Stamp, Nanos
<1> HIDE DEF s, f
<1>4. s >= Second
  <2> SUFFICES ASSUME s < Second PROVE FALSE
    BY <1>1, <1>2
  <2>1. PICK d \in Nat : Second = s + 1 + d
    <3>1. Second - s - 1 \in Nat /\ Second = s + 1 + (Second - s - 1)
      BY <1>1, <1>2
    <3> QED
      BY <3>1
  <2>2. Second * Second = Second * s + Second + Second * d
    BY <1>1, <1>2, <2>1
  <2>3. Second * d \in Nat /\ Second * s \in Nat
    BY <1>1, <1>2
  <2> QED
    BY <1>1, <1>2, <2>2, <2>3
<1>5. s \in Nat \ {0} /\ f < s /\ f \in Nat
  BY <1>1, <1>2, <1>4
<1>6. (s * Second + f) % s = f
  BY <1>1, <1>5, Remainder
<1>7. Second * s = s * Second
  BY <1>1, <1>2
<1>8. t % s = f
  BY <1>2, <1>6, <1>7
<1>9. Stamp(t) = [seconds |-> s, nanos |-> f]
  BY <1>3, <1>5, <1>8
<1> QED
  BY <1>2, <1>7, <1>9 DEF Names

-----------------------------------------------------------------------------
\* A node that runs has been constructed at some time of the clock, and an answer
\* is of the node that runs.
StatusInv ==
  /\ pc = "running" => started \in Clock
  /\ status # <<>> =>
       /\ pc = "running"
       /\ status.at \in Clock
       /\ status.up_time = Stamp(started)
       /\ status.node_time = Stamp(status.at)

\* Both time stamps of every answer are well-formed and name the start of the node
\* that answers and the moment of the answer, for any range of the clock.
THEOREM StampsNameTheirTimes == StatusSpec => []StampsRight
<1>1. StatusInit => StatusInv
  BY DEF StatusInit, Init, StatusInv
<1>2. StatusInv /\ [StatusNext]_statusVars => StatusInv'
  <2> SUFFICES ASSUME StatusInv, [StatusNext]_statusVars
               PROVE  StatusInv'
    OBVIOUS
  <2>1. CASE Answer
    <3>1. PICK now \in Clock :
            status' = [up_time |-> UpTime, node_time |-> NodeTime(now), at |-> now]
      BY <2>1 DEF Answer
    <3>2. /\ pc = "running"
          /\ pc' = pc
          /\ started' = started
      BY <2>1 DEF Answer, Up
    <3>3. Stamp(started)' = Stamp(started)
      BY <3>2 DEF Stamp, Nanos
    <3>4. /\ status'.at = now
          /\ status'.up_time = Stamp(started)
          /\ status'.node_time = Stamp(now)
      BY <3>1 DEF UpTime, NodeTime
    <3>5. Stamp(status.at)' = Stamp(now)
      BY <3>4 DEF Stamp, Nanos
    <3> QED
      BY <3>2, <3>3, <3>4, <3>5 DEF StatusInv, Clock
  <2>2. CASE OtherStep
    <3>1. CASE pc # "running" /\ pc' = "running"
      <4>1. started' \in Clock /\ status' = status
        BY <2>2, <3>1 DEF OtherStep, Start
      <4> QED
        BY <3>1, <4>1 DEF StatusInv, Clock
    <3>2. CASE pc' # "running"
      <4>1. status' = <<>>
        BY <2>2, <3>2 DEF OtherStep, Ended
      <4> QED
        BY <3>2, <4>1 DEF StatusInv
    <3>3. CASE pc = "running" /\ pc' = "running"
      <4>1. started' = started /\ status' = status
        BY <2>2, <3>3 DEF OtherStep
      <4> QED
        BY <3>3, <4>1 DEF StatusInv, Clock, Stamp, Nanos
    <3> QED
      BY <3>1, <3>2, <3>3
  <2>3. CASE UNCHANGED statusVars
    BY <2>3 DEF StatusInv, statusVars, vars, Clock, Stamp, Nanos
  <2> QED
    BY <2>1, <2>2, <2>3 DEF StatusNext
<1>3. StatusInv => StampsRight
  BY StampNames DEF StatusInv, StampsRight
<1> QED
  BY <1>1, <1>2, <1>3, PTL DEF StatusSpec
=============================================================================
