------------------------------ MODULE MCRatchet ------------------------------
(* RatchetBreakIn for TLC: a conversation of two under loss, with repeats  *)
(* or with one break-in.                                                   *)
EXTENDS RatchetBreakIn
=============================================================================
