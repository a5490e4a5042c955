----------------------------- MODULE RateLimit -----------------------------
(***************************************************************************)
(* The rate limiter in front of every protected route                       *)
(* (internal/api/ratelimit.go): a map from address to token bucket, which a *)
(* clean-up goroutine empties of the entries nobody used for a while.  A    *)
(* request gets its bucket from the map under the lock and takes a token    *)
(* from it after, without the lock.  Time passes in ticks; a bucket gains   *)
(* Rate tokens a tick (golang.org/x/time/rate, external).  When the         *)
(* limiter is disabled the middleware does nothing: that is left out.       *)
(***************************************************************************)
EXTENDS Integers

CONSTANTS
    Clients,          \* each has one request under way at most
    IPs,              \* addresses
    Origin,           \* per client: [peer, forwardedFor, realIP]
    TrustedProxies,   \* peers whose forwarding headers count
    NoHeader,         \* a header the request does not carry
    Buckets,          \* the heap: rate.Limiter values
    NoBucket,
    Rate, Burst,
    CleanupInterval,  \* also the age at which an entry is stale
    MaxStall,         \* longest time between getLimiter and Allow
    MaxWindow         \* bound on the window in which admissions are counted

ASSUME OriginAssumption ==
    /\ Origin \in [Clients -> [peer : IPs, forwardedFor : IPs \cup {NoHeader},
                               realIP : IPs \cup {NoHeader}]]
    /\ NoHeader \notin IPs /\ NoBucket \notin Buckets
ASSUME RateAssumption ==
    /\ Rate \in Nat \ {0} /\ Burst \in Nat \ {0} /\ CleanupInterval \in Nat
    /\ MaxStall \in Nat /\ MaxWindow \in Nat \ {0}
(* A request does not take longer from one statement of the middleware to   *)
(* the next than an entry is kept: 10 minutes, which main.go leaves as is.  *)
ASSUME StallAssumption == MaxStall <= CleanupInterval

VARIABLES
    limiters,   \* the map: address to bucket
    idle,       \* per address: ticks since its entry's lastAccess
    tokens,     \* per bucket: the tokens in it
    held,       \* per client: the bucket its request has got
    stall,      \* per client: ticks since it got it
    passed,     \* history, per address: requests admitted in the window
    elapsed     \* history: ticks since the window began

limitVars == <<limiters, idle, tokens, held, stall, passed, elapsed>>

Stale == CleanupInterval + 1   \* ages are not told apart beyond it

LimitInit ==
    /\ limiters = [ip \in IPs |-> NoBucket] /\ idle = [ip \in IPs |-> 0]
    /\ tokens = [b \in Buckets |-> Burst]
    /\ held = [c \in Clients |-> NoBucket] /\ stall = [c \in Clients |-> 0]
    /\ passed = [ip \in IPs |-> 0] /\ elapsed = 0

peerIsTrusted(peer) == peer \in TrustedProxies

(* The headers of a trusted proxy name the client; nobody else's count. *)
getClientIP(c) ==
    LET o == Origin[c] IN
    IF ~peerIsTrusted(o.peer) THEN o.peer
    ELSE IF o.forwardedFor # NoHeader THEN o.forwardedFor
    ELSE IF o.realIP # NoHeader THEN o.realIP
    ELSE o.peer

----------------------------------------------------------------------------
Free == {b \in Buckets : /\ \A ip \in IPs : limiters[ip] # b
                         /\ \A c \in Clients : held[c] # b}

(* A wrong NeedsEntry: every request makes a new entry. *)
NeedsEntryAlways(ip) == ip \in IPs

NeedsEntry(ip) == limiters[ip] = NoBucket

(* A wrong Accessed: lastAccess is the time the entry was made. *)
AccessedAtCreation(ip) == IF NeedsEntry(ip) THEN 0 ELSE idle[ip]

Accessed(ip) == 0

(* getLimiter, under the lock *)
getLimiter(c) ==
    LET ip == getClientIP(c)
        b == IF NeedsEntry(ip) THEN CHOOSE f \in Free : TRUE ELSE limiters[ip]
    IN  /\ held[c] = NoBucket /\ (NeedsEntry(ip) => Free # {})
        /\ limiters' = [limiters EXCEPT ![ip] = b]
        /\ tokens' = IF NeedsEntry(ip) THEN [tokens EXCEPT ![b] = Burst] ELSE tokens
        /\ idle' = [idle EXCEPT ![ip] = Accessed(ip)]
        /\ held' = [held EXCEPT ![c] = b] /\ stall' = [stall EXCEPT ![c] = 0]
        /\ UNCHANGED <<passed, elapsed>>

(* l.Allow(): the request goes on, *)
Allow(c) ==
    /\ held[c] # NoBucket /\ tokens[held[c]] > 0
    /\ tokens' = [tokens EXCEPT ![held[c]] = @ - 1]
    /\ passed' = [passed EXCEPT ![getClientIP(c)] = @ + 1]
    /\ held' = [held EXCEPT ![c] = NoBucket] /\ stall' = [stall EXCEPT ![c] = 0]
    /\ UNCHANGED <<limiters, idle, elapsed>>

(* or is answered with 429. *)
TooManyRequests(c) ==
    /\ held[c] # NoBucket /\ tokens[held[c]] = 0
    /\ held' = [held EXCEPT ![c] = NoBucket] /\ stall' = [stall EXCEPT ![c] = 0]
    /\ UNCHANGED <<limiters, idle, tokens, passed, elapsed>>

(* cleanupStaleEntries, one round under the lock *)
cleanupStaleEntries ==
    LET stale == {ip \in IPs : limiters[ip] # NoBucket /\ idle[ip] > CleanupInterval}
    IN  /\ stale # {}
        /\ limiters' = [ip \in IPs |-> IF ip \in stale THEN NoBucket ELSE limiters[ip]]
        /\ idle' = [ip \in IPs |-> IF ip \in stale THEN 0 ELSE idle[ip]]
        /\ UNCHANGED <<tokens, held, stall, passed, elapsed>>

----------------------------------------------------------------------------
Refilled(n) == IF n + Rate > Burst THEN Burst ELSE n + Rate

Older(n) == IF n < Stale THEN n + 1 ELSE n

(* Time passes.  No request waits longer than MaxStall between two          *)
(* consecutive statements of the middleware.  Any tick may begin the window *)
(* in which admissions are counted.                                         *)
Tick ==
    /\ \A c \in Clients : held[c] # NoBucket => stall[c] < MaxStall
    /\ tokens' = [b \in Buckets |-> Refilled(tokens[b])]
    /\ idle' = [ip \in IPs |-> IF limiters[ip] = NoBucket THEN 0 ELSE Older(idle[ip])]
    /\ stall' = [c \in Clients |-> IF held[c] = NoBucket THEN 0 ELSE stall[c] + 1]
    /\ \/ elapsed < MaxWindow /\ elapsed' = elapsed + 1 /\ UNCHANGED passed
       \/ elapsed' = 0 /\ passed' = [ip \in IPs |-> 0]
    /\ UNCHANGED <<limiters, held>>

----------------------------------------------------------------------------
(* At least this long nobody took tokens from a bucket that is dropped, *)
Respite == Stale - MaxStall

(* and this much, at most, the bucket that replaces it is fuller.  Nothing  *)
(* relates the burst to the rate, so it need not be full when it is dropped. *)
Forgiven == IF Rate * Respite >= Burst THEN 0 ELSE Burst - Rate * Respite

LimitOK ==
    /\ limiters \in [IPs -> Buckets \cup {NoBucket}]
    /\ idle \in [IPs -> 0 .. Stale]
    /\ tokens \in [Buckets -> 0 .. Burst]
    /\ held \in [Clients -> Buckets \cup {NoBucket}]
    /\ stall \in [Clients -> 0 .. MaxStall]
    /\ passed \in [IPs -> Nat] /\ elapsed \in 0 .. MaxWindow
=============================================================================
