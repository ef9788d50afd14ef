----------------------------- MODULE MCGateFanout -----------------------------
(* Instances of GateFanout for TLC: fanout.cfg and fanout_room.cfg give    *)
(* the backends and the workers, all model values, no symmetry since both  *)
(* check liveness.                                                         *)
EXTENDS GateFanout, TLC
=============================================================================
