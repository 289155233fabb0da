------------------------------ MODULE MCCloset ------------------------------
(* One piece and one load: a second load begins only while none is under way. *)
EXTENDS Closet
=============================================================================
