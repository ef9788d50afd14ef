------------------------------ MODULE MCIndexGate ------------------------------
(* Instances of IndexGate for TLC.                                         *)
EXTENDS IndexGate, TLC

(* Addresses are interchangeable, and so are requests: sound for the runs  *)
(* without liveness properties.                                            *)
Symmetry == Permutations(Addrs) \cup Permutations(Requests)
=============================================================================
