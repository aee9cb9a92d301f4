----------------------------- MODULE MCCaseDesk -----------------------------
(* One case for TLC: an enquiry with its clocks, or a complaint without.   *)
EXTENDS CaseDesk, TLC

CONSTANTS u1, u2, q1, q2, d1, d2

OneOfEach == {[kind |-> "ENQUIRY", policy |-> TRUE], [kind |-> "COMPLAINT", policy |-> FALSE]}
Targets == [m \in Metrics |-> 1]
Symmetry == Permutations({u1, u2}) \cup Permutations({q1, q2}) \cup Permutations({d1, d2})
=============================================================================
