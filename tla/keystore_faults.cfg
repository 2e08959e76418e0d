\* Writes fail, the process dies and files are lost at any moment; a second of
\* three nanoseconds, and a clock from the third second on.
SPECIFICATION StatusSpec
CONSTANTS
  Pairs = {k1, k2, k3, k4, k5}
  Second = 3
  Earliest = 9
  Latest = 14
INVARIANTS TypeOK KeysMatch IdentityKept StampsRight
