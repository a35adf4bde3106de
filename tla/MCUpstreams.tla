---------------------------- MODULE MCUpstreams ----------------------------
(* Instances of Upstreams for TLC.                                         *)
EXTENDS Upstreams, TLC

Symmetry == Permutations(Providers)
=============================================================================
