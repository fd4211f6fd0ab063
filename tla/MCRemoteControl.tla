--------------------------- MODULE MCRemoteControl ---------------------------
(* The Shift key, with a capital that strokes Shift; and apart from it a     *)
(* mouse button, with two passwords.                                         *)
EXTENDS RemoteControl

CONSTANTS phone, capital, secret, none

VARIABLE part   \* "key" or "button"

Shift == 4

MCPassword == {none, secret}
NoRequests == {m \in Message : FALSE}
MCStrokes == [c \in {capital} |-> {Shift}]

MCPart ==
    \/ part = "key" /\ fingers' \subseteq Controls("keyboard") /\ session'.pwd = none
    \/ part = "button" /\ view' # "keyboard" /\ Len(Pipeline') < MaxInFlight

MCInit == Init /\ part \in {"key", "button"}

MCNext == Next /\ MCPart /\ UNCHANGED part

MCSpec == MCInit /\ [][MCNext]_<<remoteVars, part>> /\ Fairness
=============================================================================
