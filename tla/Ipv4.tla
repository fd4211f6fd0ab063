-------------------------------- MODULE Ipv4 --------------------------------
(***************************************************************************)
(* The address arithmetic of the discovery sweep: AR_ipv4cmp and           *)
(* AR_ipv4add of ArsenalWrapper.m, on the four bytes of an address in       *)
(* network order, and what they are meant to compute: the order and the     *)
(* successor of the address read as one number.                             *)
(***************************************************************************)
EXTENDS Integers

Byte == 0..255
Address == Byte \X Byte \X Byte \X Byte

\* The reference: the address as a 32-bit number, counted from 128.0.0.0 on so
\* that TLC's integers can hold it.
Number(p, q, s, t) == 256 * (256 * (256 * (p - 128) + q) + s) + t
Value(a) == Number(a[1], a[2], a[3], a[4])

Last == <<255, 255, 255, 255>>

\* The first difference, from the network byte on.
AR_ipv4cmp(l, r) ==
    IF l[1] # r[1] THEN l[1] - r[1]
    ELSE IF l[2] # r[2] THEN l[2] - r[2]
    ELSE IF l[3] # r[3] THEN l[3] - r[3]
    ELSE l[4] - r[4]

\* The carry runs from the last byte up; past the last address it fails and
\* leaves 0.0.0.0.
AR_ipv4add(a) ==
    IF a[4] < 255 THEN [ok |-> TRUE, addr |-> <<a[1], a[2], a[3], a[4] + 1>>]
    ELSE IF a[3] < 255 THEN [ok |-> TRUE, addr |-> <<a[1], a[2], a[3] + 1, 0>>]
    ELSE IF a[2] < 255 THEN [ok |-> TRUE, addr |-> <<a[1], a[2] + 1, 0, 0>>]
    ELSE IF a[1] < 255 THEN [ok |-> TRUE, addr |-> <<a[1] + 1, 0, 0, 0>>]
    ELSE [ok |-> FALSE, addr |-> <<0, 0, 0, 0>>]
=============================================================================
