---------------------------- MODULE MCDiscoveryEnds ---------------------------
(* The two ends of discovery: the sweep of a phone, over short ranges; and   *)
(* apart from it a server, to which two phones send every kind of message,   *)
(* of the buttons and keys a few.                                            *)
EXTENDS MCDiscovery, ServerService

CONSTANTS low, high, letter, capital, secret, none

VARIABLE end    \* "phone" or "server"

LiveText == {low, high}
LiveInetAddr == (low :> MCDefaultStart) @@ (high :> MCDefaultStop)

Shift == 4

MCPassword == {none, secret}
MCChar == {letter, capital}
MCStrokes == [c \in MCChar |-> IF c = capital THEN {Shift} ELSE {}]

MCTraffic ==
    {m \in Message :
        /\ m.type = "mouse" => m.what \in {0, 1, 2, 3, 4, 5, 10, 11, 16, 17, 18}
        /\ m.type = "function" => m.what \in {8, 9}}

MCInit == Init /\ ServerInit /\ end \in {"phone", "server"}

MCNext ==
    \/ end = "phone" /\ Next /\ UNCHANGED <<serverVars, end>>
    \/ end = "server" /\ ServerNext /\ UNCHANGED <<vars, end>>

MCSpec == MCInit /\ [][MCNext]_<<vars, serverVars, end>> /\ Fairness /\ WF_serverVars(OnSend)
=============================================================================
