------------------------------ MODULE MCMuxer ------------------------------
(* Muxer for TLC; the versions a behaviour goes through are bounded.       *)
EXTENDS Muxer

CONSTANT MaxGenerated

(* Generations that were never written out are not counted any further.    *)
BoundGenerated == generated <= MaxGenerated
=============================================================================
