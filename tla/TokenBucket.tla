---------------------------- MODULE TokenBucket ----------------------------
(***************************************************************************)
(* What the rate limit per address promises: every address has one bucket   *)
(* of Burst tokens that gains Rate a tick, and a request takes one.  The    *)
(* bucket of an address may be filled up at once, but only when no request  *)
(* has come from there for more than Quiet ticks.                           *)
(***************************************************************************)
EXTENDS Naturals

CONSTANTS
    IPs, Rate, Burst, MaxWindow,
    Quiet,      \* the time after which an address may be forgotten
    Patience    \* a request takes its token this soon after it came

VARIABLES
    level,      \* per address: the tokens in its bucket
    quiet,      \* per address: ticks since the last request came, up to Quiet + 1
    passed,     \* per address: requests admitted in the window observed now
    elapsed     \* ticks since that window began

vars == <<level, quiet, passed, elapsed>>

Refill(n) == IF n + Rate > Burst THEN Burst ELSE n + Rate

Init ==
    /\ level = [ip \in IPs |-> Burst] /\ quiet = [ip \in IPs |-> Quiet + 1]
    /\ passed = [ip \in IPs |-> 0] /\ elapsed = 0

Arrive(ip) ==
    /\ quiet' = [quiet EXCEPT ![ip] = 0]
    /\ UNCHANGED <<level, passed, elapsed>>

Take(ip) ==
    /\ level[ip] > 0 /\ quiet[ip] <= Patience
    /\ level' = [level EXCEPT ![ip] = @ - 1]
    /\ passed' = [passed EXCEPT ![ip] = @ + 1]
    /\ UNCHANGED <<quiet, elapsed>>

(* Addresses that were quiet are forgotten, all or some of them. *)
Renew ==
    /\ \E ips \in SUBSET {ip \in IPs : quiet[ip] > Quiet} :
         level' = [ip \in IPs |-> IF ip \in ips THEN Burst ELSE level[ip]]
    /\ UNCHANGED <<quiet, passed, elapsed>>

(* Any tick may begin the window that is observed. *)
Tick ==
    /\ level' = [ip \in IPs |-> Refill(level[ip])]
    /\ quiet' = [ip \in IPs |-> IF quiet[ip] > Quiet THEN quiet[ip] ELSE quiet[ip] + 1]
    /\ \/ elapsed < MaxWindow /\ elapsed' = elapsed + 1 /\ UNCHANGED passed
       \/ elapsed' = 0 /\ passed' = [ip \in IPs |-> 0]

Next == Tick \/ Renew \/ \E ip \in IPs : Arrive(ip) \/ Take(ip)

Spec == Init /\ [][Next]_vars
=============================================================================
