----------------------------- MODULE SociSession -----------------------------
(***************************************************************************)
(* The one database connection of a node: the soci::session that            *)
(* DatabaseManager keeps and every EntityManager borrows by reference.      *)
(* SOCI and the three database engines are external code; this module says  *)
(* what a statement sent over that connection may do, as node.cpp opens it  *)
(* and entity_manager.h uses it.  What tells the engines apart, and matters *)
(* once two calls share the connection, is what BEGIN does inside an open   *)
(* transaction, what COMMIT and ROLLBACK do outside one, and what a failed  *)
(* statement leaves of the transaction around it.                           *)
(***************************************************************************)

CONSTANT Engines      \* the engines a configuration may select

VARIABLES
  engine,             \* the engine of the configuration in force
  link,               \* "up" | "down": nothing in the code reconnects
  txn,                \* "none" | "open" | "aborted" (postgresql only)
  committed,          \* the durable contents of the database
  current             \* the contents as seen over this connection

session == <<engine, link, txn, committed, current>>

SessionInit(contents) ==
  /\ engine \in Engines
  /\ link = "up"
  /\ txn = "none"
  /\ committed = contents
  /\ current = contents

SessionTypeOK(Contents) ==
  /\ engine \in Engines
  /\ link \in {"up", "down"}
  /\ txn \in {"none", "open", "aborted"}
  /\ committed \in Contents
  /\ current \in Contents
  /\ txn # "open" => current = committed
  /\ link = "down" => txn = "none"
  /\ txn = "aborted" => engine = "postgresql"

-----------------------------------------------------------------------------
(* When the SOCI call throws whatever the contents are.                     *)

StatementThrows == link = "down" \/ txn = "aborted"

BeginThrows == StatementThrows \/ (engine = "sqlite3" /\ txn = "open")

\* COMMIT and ROLLBACK outside a transaction: a warning, or an error in sqlite3.
EndThrows == link = "down" \/ (engine = "sqlite3" /\ txn = "none")

-----------------------------------------------------------------------------
(* Statements that succeed.                                                 *)

\* BEGIN: mysql commits a transaction that is already open, postgresql only
\* warns and stays in it.
SessionBegin ==
  /\ ~BeginThrows
  /\ txn' = "open"
  /\ committed' = IF engine = "mysql" THEN current ELSE committed
  /\ UNCHANGED <<engine, link, current>>

\* INSERT, UPDATE or DELETE: autocommitted when no transaction is open.
SessionWrite(contents) ==
  /\ ~StatementThrows
  /\ current' = contents
  /\ committed' = IF txn = "none" THEN contents ELSE committed
  /\ UNCHANGED <<engine, link, txn>>

\* CREATE TABLE: mysql commits the open transaction, and the table with it.
SessionDefine(contents) ==
  /\ ~StatementThrows
  /\ current' = contents
  /\ committed' = IF txn = "none" \/ engine = "mysql" THEN contents ELSE committed
  /\ txn' = IF engine = "mysql" THEN "none" ELSE txn
  /\ UNCHANGED <<engine, link>>

\* COMMIT: postgresql answers a COMMIT of an aborted transaction without an
\* error, having rolled it back (current = committed then).
SessionCommit ==
  /\ ~EndThrows
  /\ txn' = "none"
  /\ committed' = current
  /\ UNCHANGED <<engine, link, current>>

SessionRollback ==
  /\ ~EndThrows
  /\ txn' = "none"
  /\ current' = committed
  /\ UNCHANGED <<engine, link, committed>>

-----------------------------------------------------------------------------
(* Statements that fail, and the loss of the connection.                    *)

\* A statement fails and takes the transaction around it along: postgresql
\* refuses everything up to ROLLBACK, mysql (deadlock victim) and sqlite3
\* (full disk, I/O error) may roll back on their own.
Abandon(outcome) ==
  /\ txn # "none"
  /\ txn' = outcome
  /\ current' = committed
  /\ UNCHANGED <<engine, link, committed>>

KeepTransaction ==
  /\ engine = "postgresql" => txn = "none"
  /\ UNCHANGED session

\* The engine refuses a statement for what it says: a duplicate key, a table
\* that does not exist, a wrong number of parameters.
StatementRejected ==
  \/ KeepTransaction
  \/ engine = "postgresql" /\ Abandon("aborted")

\* The engine or the connection fails for a reason of its own.
StatementError ==
  /\ link = "up"
  /\ \/ KeepTransaction
     \/ Abandon(IF engine = "postgresql" THEN "aborted" ELSE "none")

CommitError ==
  /\ link = "up"
  /\ KeepTransaction \/ Abandon("none")

\* The server rolls back what the lost connection had open.
Disconnect ==
  /\ link = "up"
  /\ link' = "down"
  /\ txn' = "none"
  /\ current' = committed
  /\ UNCHANGED <<engine, committed>>

\* COMMIT takes effect on the server but the connection dies before the answer.
CommitAnswerLost ==
  /\ link = "up"
  /\ link' = "down"
  /\ txn' = "none"
  /\ committed' = current
  /\ UNCHANGED <<engine, current>>

\* A restarted process opens a new connection to the same database.
SessionReopen ==
  /\ link' = "up"
  /\ txn' = "none"
  /\ current' = committed
  /\ UNCHANGED <<engine, committed>>
=============================================================================
