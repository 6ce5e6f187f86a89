----------------------------- MODULE MCPrekeys -----------------------------
(* Prekeys for TLC: two peers more than the stock serves.                  *)
EXTENDS Prekeys
============================================================================
