---------------------------- MODULE KeyStoreProofs ----------------------------
(* Theorems about KeyStore, for any supply of keypairs.                      *)
EXTENDS KeyStore, TLAPS

\* A pair is generated only while a file is missing; as long as that is not the
\* private key file, a public key file stands next to the private key of its pair.
KeyInv ==
  /\ TypeOK
  /\ KeysMatch
  /\ pc = "running" => publicFile # "torn"
  /\ "private" \notin lost =>
       /\ publicFile # "absent" => privateFile \in Pairs
       /\ pc \in {"export_private", "export_public"} => publicFile = "absent"
       /\ pc = "export_public" => privateFile = key

\* No step, crash, failing write or lost file breaks KeyInv.
LEMMA KeyStep ==
  ASSUME KeyInv, [Next]_vars
  PROVE  KeyInv'
<1> USE PairsAssumption DEF KeyInv, TypeOK, KeysMatch, File
<1>1. CASE Validate
  BY <1>1 DEF Validate, Generate, Exist, vars
<1>2. CASE ExportPrivate
  BY <1>2 DEF ExportPrivate, End
<1>3. CASE ExportPublic
  BY <1>3 DEF ExportPublic, End
<1>4. CASE Up
  BY <1>4 DEF Up
<1>5. CASE Stop
  BY <1>5 DEF Stop, End
<1>6. CASE LoseFile
  BY <1>6 DEF LoseFile
<1>7. CASE UNCHANGED vars
  BY <1>7 DEF vars
<1> QED
  BY <1>1, <1>2, <1>3, <1>4, <1>5, <1>6, <1>7 DEF Next

\* A node without key files satisfies KeyInv.
LEMMA InitKeys == Init => KeyInv
  BY PairsAssumption DEF Init, KeyInv, TypeOK, KeysMatch, File

\* So every state of the files and the process satisfies KeyInv.
THEOREM KeyInvariant == Spec => []KeyInv
<1>1. KeyInv /\ [Next]_vars => KeyInv'
  BY KeyStep
<1> QED
  BY <1>1, InitKeys, PTL DEF Spec

\* A keypair is in memory only while it is exported, and no client is ever given
\* a torn key.
THEOREM KeyTypesCorrect == Spec => []TypeOK
<1>1. KeyInv => TypeOK
  BY DEF KeyInv
<1> QED
  BY <1>1, KeyInvariant, PTL

\* The two files never hold keys of different pairs, whatever write or process
\* fails, unless the private key file was lost.
THEOREM FilesHoldOnePair == Spec => []KeysMatch
<1>1. KeyInv => KeysMatch
  BY DEF KeyInv
<1> QED
  BY <1>1, KeyInvariant, PTL

\* What a client was given is what both files hold.
AnsweredInv ==
  /\ KeyInv
  /\ lost = {} => /\ answered \subseteq {privateFile}
                  /\ answered \subseteq {publicFile}

\* Whatever write or process fails, a node keeps the identity a client has seen,
\* unless a file was lost.
THEOREM NodeKeepsIdentity == Spec => []IdentityKept
<1>1. Init => AnsweredInv
  BY InitKeys DEF Init, AnsweredInv
<1>2. AnsweredInv /\ [Next]_vars => AnsweredInv'
  <2> SUFFICES ASSUME AnsweredInv, [Next]_vars PROVE AnsweredInv'
    OBVIOUS
  <2>0. KeyInv'
    BY KeyStep DEF AnsweredInv
  <2> USE PairsAssumption DEF AnsweredInv
  <2>1. lost = {} /\ publicFile = "absent" => answered = {}
    BY DEF KeyInv, TypeOK
  <2>2. CASE Validate
    BY <2>0, <2>2 DEF Validate, Generate, vars
  <2>3. CASE ExportPrivate
    BY <2>0, <2>1, <2>3 DEF ExportPrivate, KeyInv
  <2>4. CASE ExportPublic
    BY <2>0, <2>1, <2>4 DEF ExportPublic, KeyInv
  <2>5. CASE Up
    <3>1. lost = {} => {publicFile} \ {"absent"} \subseteq {privateFile}
      BY <2>5 DEF Up, KeyInv, TypeOK, KeysMatch, File
    <3> QED
      BY <2>0, <2>5, <3>1 DEF Up
  <2>6. CASE Stop
    BY <2>0, <2>6 DEF Stop
  <2>7. CASE LoseFile
    BY <2>0, <2>7 DEF LoseFile
  <2>8. CASE UNCHANGED vars
    BY <2>0, <2>8 DEF vars
  <2> QED
    BY <2>2, <2>3, <2>4, <2>5, <2>6, <2>7, <2>8 DEF Next
<1>3. AnsweredInv => IdentityKept
  BY DEF AnsweredInv, IdentityKept
<1> QED
  BY <1>1, <1>2, <1>3, PTL DEF Spec
=============================================================================
