---------------------------- MODULE MCLossyLink ----------------------------
(* A wrapping counter of three values and enough packets to wrap it twice. *)
EXTENDS LossyLink
=============================================================================
