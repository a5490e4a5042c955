----------------------------- MODULE MCGateway -----------------------------
(***************************************************************************)
(* Gateway for TLC: one client that comes directly, and one behind a        *)
(* trusted proxy whose header names the same address.                       *)
(***************************************************************************)
EXTENDS Gateway

CONSTANTS c1, c2, home, proxy

MCOrigin ==
    [c \in Clients |->
        IF c = c1 THEN [peer |-> home, forwardedFor |-> proxy, realIP |-> NoHeader]
        ELSE [peer |-> proxy, forwardedFor |-> home, realIP |-> proxy]]
=============================================================================
