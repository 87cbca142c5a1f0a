-------------------------------- MODULE MCSsi --------------------------------
(* Workloads for module Ssi. *)
EXTENDS Ssi, TLC

CONSTANTS t1, t2, t3, x, y, z

\* t1 and t2 write an item each, any other transaction only reads.
OwnItem == [t \in Txn |-> CASE t = t1 -> {x} [] t = t2 -> {y, z} \cap Item [] OTHER -> {}]
Everything == [t \in Txn |-> Item]

\* Every write statement under table scans; under index scans those that keep a key
\* or add one, those that take it to another range and those that leave none.
Scanned == {[ops |-> {"insert", "update", "delete"}, path |-> "table"]}
Indexed(ops) == [ops |-> ops, path |-> "index"]
InPlace == {Indexed({"update"})}
Moving == {Indexed({"move"})}
Every == Scanned \cup Moving \cup {Indexed({"update", "insert"}), Indexed({"delete"})}
=============================================================================
