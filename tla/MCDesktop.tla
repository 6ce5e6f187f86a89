----------------------------- MODULE MCDesktop -----------------------------
(* Desktop for TLC: two accounts on one computer, one of which registers   *)
(* again and writes.                                                       *)
EXTENDS Desktop, TLC

CONSTANTS Ann, Ben

OneEach == Ann :> 1 @@ Ben :> 1
OneFromAnn == Ann :> 1 @@ Ben :> 0
TwiceAnn == Ann :> 2 @@ Ben :> 1
============================================================================
