---------------------------- MODULE Subsequences ----------------------------
(***************************************************************************)
(* What a loop over a sequence keeps that copies the elements it wants one  *)
(* behind the other.                                                        *)
(***************************************************************************)
EXTENDS Naturals, FiniteSets

\* The elements of s at the indices in kept, in their order: the k-th of them
\* is the one up to which there are k.
Those(s, kept) ==
  LET kth(k) == CHOOSE i \in kept : Cardinality({j \in kept : j <= i}) = k
  IN  [k \in 1 .. Cardinality(kept) |-> s[kth(k)]]
=============================================================================
