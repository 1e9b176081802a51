---------------------------- MODULE Subsequences ----------------------------
(***************************************************************************)
(* The subsequence of a sequence at a set of positions.  The detectors trim  *)
(* their deques with std::erase_if, and the analyst's side of Surveillance   *)
(* lists positions of the history: both keep the order.  By position, and    *)
(* not by SelectSeq, of which nothing can be proved.                         *)
(***************************************************************************)
EXTENDS Integers, FiniteSets

\* The numbers of S, the smallest first.
Ascending(S) == [k \in 1 .. Cardinality(S) |-> CHOOSE i \in S : Cardinality({j \in S : j < i}) = k - 1]

Subsequence(s, positions) == [k \in 1 .. Cardinality(positions) |-> s[Ascending(positions)[k]]]
=============================================================================
