------------------------------ MODULE MCAnchor ------------------------------
(* Anchor for TLC: which messages have the same text.                      *)
EXTENDS Anchor, TLC

CONSTANTS m1, m2, m3, d1, d2

TwoAlike == (m1 :> d1) @@ (m2 :> d1) @@ (m3 :> d2)
Different == (m1 :> d1) @@ (m2 :> d2)
Anyone == {"server", "other"}
OnlyServer == {"server"}
=============================================================================
