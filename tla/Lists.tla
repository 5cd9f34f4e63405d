------------------------------- MODULE Lists -------------------------------
(* Lists that the profile derives from a topology, without recursion.       *)
EXTENDS Naturals, Sequences, FiniteSets

(* A set of numbers, lowest first. *)
Ascending(S) ==
  [n \in 1..Cardinality(S) |-> CHOOSE x \in S : Cardinality({y \in S : y <= x}) = n]

(* The elements of s at the positions in I, in the order of s. *)
Pick(s, I) ==
  LET order == Ascending(I) IN [k \in DOMAIN order |-> s[order[k]]]

(* slices.Chunk: s in pieces of n, the last one perhaps shorter. *)
Chunk(s, n) ==
  [k \in 1..((Len(s) + n - 1) \div n) |->
     SubSeq(s, (k - 1) * n + 1, IF k * n < Len(s) THEN k * n ELSE Len(s))]
=============================================================================
