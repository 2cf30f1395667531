---------------------------- MODULE MCDataLoader ----------------------------
(* Small instances of DataLoader for TLC.                                  *)
EXTENDS DataLoader

CONSTANTS customers, orders, full, again, part

(* A full snapshot, a later one in which one table has no rows, and the    *)
(* snapshot of one table, whose foreign key references the other.          *)
MCPlan == [r \in Run |-> IF r = part THEN {orders} ELSE {customers, orders}]
MCContent == [r \in Run |-> IF r = again THEN {customers} ELSE MCPlan[r]]
MCRefs == {<<orders, customers>>}
MCRank == [t \in Table |-> IF t = customers THEN 1 ELSE 2]
=============================================================================
