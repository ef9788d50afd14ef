---------------------------- MODULE MCBlobStoreFs ----------------------------
(* Instances of BlobStoreFs for TLC.                                       *)
EXTENDS BlobStoreFs, TLC

(* The PUTs are interchangeable.  The identifiers are not: Init picks one. *)
Symmetry == Permutations(Puts)
=============================================================================
