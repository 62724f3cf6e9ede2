------------------------------- MODULE Timing -------------------------------
(***************************************************************************)
(* What the scorers make of their latency samples: harness.core's          *)
(* score_buckets and mhc_score's summarize_samples.  A sample is a         *)
(* positive integer (a multiple of some tick); the thresholds 1.05 and     *)
(* 0.05 of the frozen specs are exact ratios, and what floating point does *)
(* exactly on a threshold is not modelled.                                 *)
(***************************************************************************)
EXTENDS Naturals, Sequences, FiniteSets, Functions

\* The samples of one side, at least one.
Latencies == Seq(Nat \ {0}) \ {<<>>}

\* sorted(): which sample comes at which place, and the samples in that order.
Order(s) ==
  CHOOSE p \in Bijection(DOMAIN s, DOMAIN s) : \A i, j \in DOMAIN s : i < j => s[p[i]] <= s[p[j]]
Ordered(s) == LET p == Order(s) IN [i \in DOMAIN s |-> s[p[i]]]

\* statistics.median, doubled: the mean of the two middle samples of an even number.
Median2(s) ==
  LET t == Ordered(s)  n == Len(s)
  IN  t[(n + 1) \div 2] + t[n \div 2 + 1]

Distance(a, b) == IF a < b THEN b - a ELSE a - b

\* The median absolute deviation, four times.
Mad4(s) == LET m == Median2(s) IN Median2([i \in DOMAIN s |-> Distance(2 * s[i], m)])

\* mad / median <= 0.05
Calm(s) == 10 * Mad4(s) <= Median2(s)

\* candidate median / AITER median <= 1.05
Quick(aiter, candidate) == 20 * Median2(candidate) <= 21 * Median2(aiter)

\* Faulty variant: only the baseline's noise disqualifies a bucket.
BucketHalfQualified(aiter, candidate) == Calm(aiter) /\ Quick(aiter, candidate)

\* score_buckets: one bucket.
Bucket(aiter, candidate) == Calm(aiter) /\ Calm(candidate) /\ Quick(aiter, candidate)

\* summarize_samples of graph replays: the candidate's noise is reported and not judged.
Parity(aiter, candidate) == Calm(aiter) /\ Quick(aiter, candidate)

-----------------------------------------------------------------------------
(* The same by counting, without sorting. *)

Count(s, Good(_)) == Cardinality({i \in DOMAIN s : Good(s[i])})

\* Not more than half of the candidate's samples exceed by more than 5% a bound that more than
\* half of the baseline's samples keep.
NotSlower(aiter, candidate) ==
  \A b \in {aiter[i] : i \in DOMAIN aiter} :
    2 * Count(aiter, LAMBDA v : v <= b) > Len(aiter) =>
      2 * Count(candidate, LAMBDA v : 20 * v > 21 * b) <= Len(candidate)

\* Some centre has half of the samples on either side and half of them within 5% of it: half of
\* the doubled median is looked for among the means of two samples.
Gathered(s) ==
  \E i, j \in DOMAIN s :
    LET c == s[i] + s[j]
    IN  /\ 2 * Count(s, LAMBDA v : 2 * v <= c) >= Len(s)
        /\ 2 * Count(s, LAMBDA v : 2 * v >= c) >= Len(s)
        /\ 2 * Count(s, LAMBDA v : 20 * Distance(2 * v, c) <= c) >= Len(s)

=============================================================================
