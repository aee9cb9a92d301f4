------------------------------- MODULE AbSplit ------------------------------
(***************************************************************************)
(* How an A/B test divides its audience (dispatch.job.ts) and which        *)
(* variant wins (ab-test-resolve.job.ts, campaigns.controller.ts).  Both   *)
(* are pure; a contact list is its length, since the first contacts are    *)
(* the sample and follow the order of the variants.                        *)
(***************************************************************************)
EXTENDS Naturals, Sequences, FiniteSets, Folds

Total(seq) == MapThenFoldSet(+, 0, LAMBDA i : seq[i], LAMBDA S : CHOOSE i \in S : TRUE,
                             DOMAIN seq)

(* Fault: what the floors leave over is not handed out.                    *)
FloorsOnly(n, split) == [i \in DOMAIN split |-> (n * split[i]) \div Total(split)]

(* Largest remainder: the floor of each quota, then one more for those     *)
(* with the largest fractions, in the variants' order among equals.        *)
AllocateVariantCounts(n, split) ==
  LET floor(i) == (n * split[i]) \div Total(split)
      frac(i) == (n * split[i]) % Total(split)
      remainder == n - Total([i \in DOMAIN split |-> floor(i)])
      before(i) == {j \in DOMAIN split : frac(j) > frac(i) \/ (frac(j) = frac(i) /\ j < i)}
  IN [i \in DOMAIN split |->
        floor(i) + IF Cardinality(before(i)) < remainder THEN 1 ELSE 0]

SampleSize(n, percent) == (2 * n * percent + 100) \div 200

(* The variant of the p-th of n contacts; 0 is held back.                  *)
SplitContact(n, p, split, percent) ==
  LET counts == AllocateVariantCounts(SampleSize(n, percent), split)
      upTo(i) == Total([j \in 1 .. i |-> counts[j]])
      takes == {i \in DOMAIN split : upTo(i - 1) < p /\ p <= upTo(i)}
  IN IF takes = {} THEN 0 ELSE CHOOSE i \in takes : TRUE

Rate(hits, of) == IF of = 0 THEN 0 ELSE (20000 * hits + of) \div (2 * of)

(* The first variant of the highest rate; 0 if nothing was sent yet.       *)
Winner(sent, hits) ==
  LET best == {i \in DOMAIN sent : \A j \in DOMAIN sent :
                 Rate(hits[j], sent[j]) <= Rate(hits[i], sent[i])}
  IN IF \A i \in DOMAIN sent : sent[i] = 0 THEN 0
     ELSE CHOOSE i \in best : \A j \in best : i <= j

=============================================================================
