------------------------------ MODULE MCOutbox ------------------------------
(* A few offline writes for TLC.                                           *)
EXTENDS OfflineOutbox, TLC

CONSTANTS c1, c2, p1, p2

Want(op, amount) == [op |-> op, account |-> 1, amount |-> amount, wide |-> FALSE]
Mixed == {<<Want("create", 0), Want("redeem", 2)>>, <<Want("enroll", 0), Want("create", 0)>>}
JustCreate == {<<Want("create", 0)>>}
MCOrders == {Want("create", 0), Want("enroll", 0), Want("redeem", 2)}

(* At most two lost connections, refusals and failures of the server.      *)
FewMishaps == snags + faults <= 2

Symmetry == Permutations({c1, c2}) \cup Permutations({p1, p2})
=============================================================================
