------------------------------ MODULE DenyList ------------------------------
(***************************************************************************)
(* What logging out promises, whatever keeps the list: a denied token is    *)
(* not admitted before it expires, a token leaves the list only when it has *)
(* expired, and only a list that is not durable may be lost.                *)
(***************************************************************************)
EXTENDS Naturals

CONSTANTS Tokens, Requests, NoToken

VARIABLES
    denied,      \* the tokens on the list
    expiry,      \* when each token expires
    now,         \* the time
    admittedBy,  \* the token each request was admitted with, or NoToken
    durable      \* whether the list survives the process

vars == <<denied, expiry, now, admittedBy, durable>>

Expired(t) == expiry[t] <= now

Init ==
    /\ denied = {}
    /\ admittedBy = [q \in Requests |-> NoToken]
    /\ durable \in BOOLEAN

Deny(t) ==
    /\ denied' = denied \cup {t}
    /\ UNCHANGED <<expiry, now, admittedBy, durable>>

Forget(S) ==
    /\ \A t \in S : Expired(t)
    /\ denied' = denied \ S
    /\ UNCHANGED <<expiry, now, admittedBy, durable>>

Lose ==
    /\ ~durable
    /\ denied' = {}
    /\ UNCHANGED <<expiry, now, admittedBy, durable>>

Admit(q, t) ==
    /\ t \notin denied \/ Expired(t)
    /\ admittedBy' = [admittedBy EXCEPT ![q] = t]
    /\ UNCHANGED <<denied, expiry, now, durable>>

(* Time passes, tokens are issued; those on the list keep their expiry.     *)
Proceed ==
    /\ now <= now'
    /\ \A t \in denied : expiry'[t] = expiry[t]
    /\ UNCHANGED <<denied, admittedBy, durable>>

Next ==
    \/ \E t \in Tokens : Deny(t)
    \/ \E S \in SUBSET Tokens : Forget(S)
    \/ Lose
    \/ \E q \in Requests, t \in Tokens : Admit(q, t)
    \/ Proceed

Spec == Init /\ [][Next]_vars
=============================================================================
