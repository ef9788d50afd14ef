---------------------------- MODULE MCIndexListing ----------------------------
(* Instances of IndexListing for TLC: the stores are interchangeable.      *)
EXTENDS IndexListing, TLC

Symmetry == Permutations(Stores)
=============================================================================
