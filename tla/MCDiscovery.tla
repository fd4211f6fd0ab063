----------------------------- MODULE MCDiscovery -----------------------------
(* Ranges with a carry between bytes, up to the last address there is, and  *)
(* the wrong way round.                                                     *)
EXTENDS Discovery, TLC

CONSTANTS top, junk, d1, d2

MCDefaultStart == <<10, 0, 0, 254>>
MCDefaultStop == <<10, 0, 1, 1>>

MCText == {top, junk}
MCInetAddr == (top :> <<255, 255, 255, 254>>) @@ (junk :> <<255, 255, 255, 255>>)

MCSources == Permutations({d1, d2})
=============================================================================
