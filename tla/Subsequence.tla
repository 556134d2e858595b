------------------------------ MODULE Subsequence ------------------------------
(* Subsequences by their positions.  SelectSeq is recursive, and nothing can be *)
(* proved of it; this says of each place of a subsequence what stands there.    *)
EXTENDS Integers, FiniteSets

(* The place of position i among the positions of S.                            *)
Rank(i, S) == Cardinality({j \in S : j <= i})

(* The subsequence of s at the positions of S.                                  *)
Picked(s, S) == [k \in 1..Cardinality(S) |-> s[CHOOSE i \in S : Rank(i, S) = k]]
===============================================================================
