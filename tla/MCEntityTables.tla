---------------------------- MODULE MCEntityTables ----------------------------
(* Small instances of EntityTables.                                          *)
EXTENDS EntityTables

Item(table, id, version, signatures) ==
  [table |-> table, id |-> id, version |-> version, signatures |-> signatures]

\* A transfer in two versions, with one and two signatures, and another transfer.
TransferItems == {Item("transfers", "t1", 1, <<"s1">>),
                  Item("transfers", "t2", 1, <<"s1">>),
                  Item("transfers", "t1", 2, <<"s1", "s2">>)}

\* Two wallets of the same key, a wallet key, an identity, and a transfer.
MixedItems == {Item("wallets", "w1", 1, <<>>),
               Item("wallets", "w1", 2, <<>>),
               Item("wallet_keys", "k1", 1, <<>>),
               Item("identities", "i1", 1, <<>>),
               Item("transfers", "t1", 1, <<"s1">>)}

Signatures == {"transfer_signatures"}
AllEngines == {"mysql", "postgresql", "sqlite3"}
=============================================================================
