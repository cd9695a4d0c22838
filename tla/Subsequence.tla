---------------------------- MODULE Subsequence ----------------------------
(* What a loop leaves of a queue when it takes some entries out.  Defined  *)
(* by ranks, not recursively, so that it can be reasoned about.            *)
EXTENDS Integers, Sequences, FiniteSets

(* How many of the positions K there are up to i. *)
Rank(K, i) == Cardinality({h \in K : h <= i})

(* The entries of s at the positions K, in their order. *)
Keep(s, K) ==
  [j \in 1..Cardinality(K) |-> s[CHOOSE i \in K : Rank(K, i) = j]]
=============================================================================
