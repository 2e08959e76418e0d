--------------------------- MODULE IdentityRegistry ---------------------------
(***************************************************************************)
(* What the identity service promises its clients, without sessions,        *)
(* transactions or threads: an append-only registry of identities.  An      *)
(* identity is answered as created only once it is registered, is never     *)
(* lost afterwards, and a listing is the registry, but for the types that   *)
(* are none of the known ones, or empty when it could not be read.          *)
(***************************************************************************)
CONSTANTS
  Identity,      \* records of an identity_id, a public_key and an identity_type
  KnownTypes

VARIABLES registered,      \* the identities in the registry
          answered,        \* the ids a client was told were created
          listing          \* the last answer to ListIdentities

rvars == <<registered, answered, listing>>

IdsOf(S) == {r.identity_id : r \in S}

Init ==
  /\ registered = {}
  /\ answered = {}
  /\ listing = {}

Register ==
  /\ registered' \in SUBSET Identity
  /\ registered \subseteq registered'
  /\ registered' # registered
  /\ \A r, s \in registered' : r.identity_id = s.identity_id => r = s
  /\ UNCHANGED <<answered, listing>>

Answer ==
  /\ \E id \in IdsOf(registered) \ answered : answered' = answered \cup {id}
  /\ UNCHANGED <<registered, listing>>

Shows(r, l) ==
  /\ l.identity_id = r.identity_id
  /\ l.public_key = r.public_key
  /\ r.identity_type \in KnownTypes => l = r

\* A list shows every registered identity once, and nothing else.
Listing(list) ==
  /\ \A r \in registered : \E l \in list : Shows(r, l)
  /\ \A l \in list : \E r \in registered : Shows(r, l)
  /\ \A k, l \in list : k.identity_id = l.identity_id => k = l

List ==
  /\ Listing(listing') \/ listing' = {}
  /\ UNCHANGED <<registered, answered>>

Next == Register \/ Answer \/ List

Spec == Init /\ [][Next]_rvars
=============================================================================
