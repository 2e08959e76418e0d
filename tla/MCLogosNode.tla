----------------------------- MODULE MCLogosNode -----------------------------
(* A small instance of LogosNode: one valid key, one type of identity.       *)
EXTENDS LogosNode

CONSTANTS k1

OneKey == {k1}
LostConnection == {"connection"}
AllEngines == {"mysql", "postgresql", "sqlite3"}
=============================================================================
