----------------------------- MODULE MCIndexPool -----------------------------
(* Instances of IndexPool for TLC: pool.cfg and pool_stuck.cfg give the    *)
(* clients and the callers, no symmetry since both check liveness.         *)
EXTENDS IndexPool, TLC
=============================================================================
