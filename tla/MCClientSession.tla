--------------------------- MODULE MCClientSession ---------------------------
(* A small phone: two computers, the second one also typed with a port      *)
(* behind its address, and the empty field.                                 *)
EXTENDS ClientSession, TLC

CONSTANTS empty, invalid, h1, h2, h2Port, s1, s2

MCText == {empty, h1, h2, h2Port}
MCValidIp == (empty :> invalid) @@ (h1 :> h1) @@ (h2 :> h2) @@ (h2Port :> h2)
=============================================================================
