--------------------------- MODULE MCServerDialog ---------------------------
(* An address inet_addr does not read, no port, and one beyond a signed      *)
(* 32-bit number: it is shown as "-1" by the next launch, which AR_wtou64    *)
(* refuses when that is saved.  No password, and passwords that the config   *)
(* file does and does not give back; the longest has a line of MaxLine       *)
(* characters.                                                               *)
EXTENDS ServerDialog, TLC

MCTypedPort == {"", "4294967295"}
MCPortText == MCTypedPort \cup {"28412", "-1"}
MCNumber == ("" :> 0) @@ ("28412" :> 28412)
                @@ ("4294967295" :> 2147483647) @@ ("-1" :> -1)
MCPortShown == ("28412" :> "28412")
                   @@ ("4294967295" :> "-1") @@ ("-1" :> "28412")
MCPassword == {<<>>, <<"x">>, <<"x", " ", "y">>, <<"x", "#", "x", "x">>}

\* The shortcut is set and never read: states that differ in it alone are one.
MCView == <<process, quitting, windowVars, serverVars, cfg, file, edits>>
=============================================================================
