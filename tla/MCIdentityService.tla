-------------------------- MODULE MCIdentityService --------------------------
(* Small instances of IdentityService.  k1 is accepted by both key parsers,  *)
(* k2 by one only; NoKey is the empty key of a request.                      *)
EXTENDS IdentityService

CONSTANTS k1, k2

MCKeys == {k1, k2, NoKey}
MCEdKeys == {k1}
MCEccKeys == {k1, k2}
AllEngines == {"mysql", "postgresql", "sqlite3"}
AllFaults == {"statement", "race", "connection", "crash"}
InterleavingFaults == {"connection", "crash"}
FailingStatements == {"statement"}
NoFaults == {}
=============================================================================
