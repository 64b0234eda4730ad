-------------------------- MODULE MCTrackedAllocator --------------------------
(* TrackedAllocator on a heap of a few bytes.                                *)
EXTENDS TrackedAllocator, TLC

\* Neighbouring pointers collide in a table of two buckets, not in one of four.
MCHash(p) == p \div 2

Symmetry == Permutations(Record)
====
