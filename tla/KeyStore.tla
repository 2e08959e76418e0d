------------------------------- MODULE KeyStore -------------------------------
(***************************************************************************)
(* The identity keypair of a node, kept in two files: while it validates    *)
(* its settings a node loads the pair if both files exist, and otherwise    *)
(* generates a pair and exports the private key, then the public key.       *)
(* validateECCIdentityKey, validateEDIdentityKey and validateRSAIdentityKey *)
(* are three copies of this, over three key classes.                        *)
(*                                                                          *)
(* The key classes and the file system are external: an export may fail or  *)
(* be cut off by a crash, which leaves the file as it was or torn; a torn   *)
(* file exists, and does not load.  Nothing compares the two loaded keys.   *)
(***************************************************************************)
CONSTANT Pairs        \* the keypairs generate_keypair may return; a bound

ASSUME PairsAssumption == {"absent", "torn", "none"} \cap Pairs = {}

VARIABLES
  privateFile,  \* what private_key_path holds: the pair a key is of, or
  publicFile,   \* "absent" or "torn"
  pc,           \* "down", "export_private", "export_public" or "running"
  key,          \* the pair the validator has generated, or "none"
  answered,     \* the contents of the public key file a client was given
  lost          \* the files that were ever lost

vars == <<privateFile, publicFile, pc, key, answered, lost>>

File == Pairs \cup {"absent", "torn"}

Init ==
  /\ privateFile = "absent"
  /\ publicFile = "absent"
  /\ pc = "down"
  /\ key = "none"
  /\ answered = {}
  /\ lost = {}

Exist == privateFile # "absent" /\ publicFile # "absent"

\* Mutant: the process that ends takes its keypair to the next.
EndKeepingKey == pc' = "down" /\ UNCHANGED key

\* The process ends, by an error or a crash, or because it is stopped.
End == pc' = "down" /\ key' = "none"

\* generate_keypair: a pair unlike any that matters still.
Generate ==
  /\ key' \in Pairs \ (answered \cup {privateFile, publicFile})
  /\ pc' = "export_private"
  /\ UNCHANGED <<privateFile, publicFile, answered, lost>>

\* Mutant: a keypair is generated at every start.
ValidateGenerates == pc = "down" /\ Generate

\* A file that does not load is a validation error: the node does not start.
Validate ==
  /\ pc = "down"
  /\ \/ /\ Exist
        /\ "torn" \notin {privateFile, publicFile}
        /\ pc' = "running"
        /\ UNCHANGED <<privateFile, publicFile, key, answered, lost>>
     \/ /\ Exist
        /\ "torn" \in {privateFile, publicFile}
        /\ UNCHANGED vars
     \/ ~Exist /\ Generate

\* Mutant: a private key that exists already is not overwritten.
ExportPrivateIfAbsent ==
  /\ pc = "export_private"
  /\ privateFile' = IF privateFile = "absent" THEN key ELSE privateFile
  /\ pc' = "export_public"
  /\ UNCHANGED <<publicFile, key, answered, lost>>

ExportPrivate ==
  /\ pc = "export_private"
  /\ \/ privateFile' = key /\ pc' = "export_public" /\ UNCHANGED key
     \/ privateFile' \in {privateFile, "torn"} /\ End
  /\ UNCHANGED <<publicFile, answered, lost>>

\* The validator, and the keypair in it, do not outlive the validation.
ExportPublic ==
  /\ pc = "export_public"
  /\ \/ publicFile' = key /\ pc' = "running" /\ key' = "none"
     \/ publicFile' \in {publicFile, "torn"} /\ End
  /\ UNCHANGED <<privateFile, answered, lost>>

\* StatusService::Up answers with the public key file, if it can be read.
Up ==
  /\ pc = "running"
  /\ answered' = answered \cup ({publicFile} \ {"absent"})
  /\ UNCHANGED <<privateFile, publicFile, pc, key, lost>>

\* A node ends, or is killed between two steps.
Stop ==
  /\ pc # "down"
  /\ End
  /\ UNCHANGED <<privateFile, publicFile, answered, lost>>

\* An operator or a volume loses one of the files.
LoseFile ==
  /\ \/ /\ privateFile' = "absent"
        /\ lost' = lost \cup {"private"}
        /\ UNCHANGED publicFile
     \/ /\ publicFile' = "absent"
        /\ lost' = lost \cup {"public"}
        /\ UNCHANGED privateFile
  /\ UNCHANGED <<pc, key, answered>>

Next == Validate \/ ExportPrivate \/ ExportPublic \/ Up \/ Stop \/ LoseFile

Spec == Init /\ [][Next]_vars

-----------------------------------------------------------------------------
\* A keypair is in memory exactly while it is being exported, and no client is
\* ever given a torn key.
TypeOK ==
  /\ privateFile \in File
  /\ publicFile \in File
  /\ pc \in {"down", "export_private", "export_public", "running"}
  /\ key \in Pairs \cup {"none"}
  /\ key # "none" <=> pc \in {"export_private", "export_public"}
  /\ answered \subseteq Pairs
  /\ lost \subseteq {"private", "public"}

\* The two files never hold keys of different pairs, although they are written
\* one after the other and never compared when they are loaded; unless the
\* private key file was lost.
KeysMatch ==
  "private" \notin lost /\ {privateFile, publicFile} \subseteq Pairs =>
    privateFile = publicFile

\* A node keeps the identity it was first seen with: whatever fails at whichever
\* start, every client is given the same public key, unless a file was lost.
IdentityKept == lost = {} => \A p, q \in answered : p = q
=============================================================================
