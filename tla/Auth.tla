-------------------------------- MODULE Auth --------------------------------
(***************************************************************************)
(* Token authentication (internal/auth, internal/api/auth.go): the tokens,  *)
(* the middleware in front of every authenticated route, logout, and the    *)
(* two blacklists, in memory and in a bolt file, through shutdown, crash    *)
(* and restart (cmd/stromboli/main.go).  A member of Tokens is a pair of    *)
(* access and refresh token from one answer of the server; the jti is the   *)
(* pair itself.  Signatures are abstracted to "issued by this server".      *)
(* Legacy tokens and disabled authentication bypass all of this.            *)
(***************************************************************************)
EXTENDS Naturals

CONSTANTS
    Tokens,         \* pairs of tokens that may be issued
    Requests,       \* requests through auth.Middleware
    Logouts,        \* POST /auth/logout calls
    NoToken,
    AccessExpiry,   \* JWTConfig.AccessExpiry, in clock ticks
    RefreshExpiry,  \* JWTConfig.RefreshExpiry
    MaxTime         \* bound of the clock

ASSUME TokenAssumption == NoToken \notin Tokens
ASSUME TimeAssumption ==
    AccessExpiry \in Nat /\ RefreshExpiry \in Nat /\ MaxTime \in Nat \ {0}

VARIABLES
    now,
    issuedAt,       \* per pair: when it was issued, 0 if it was not
    backend,        \* auth.blacklist.backend
    store,          \* the jtis in the map or in the bolt bucket
    up,             \* "running", "closing" (Close was called) or "down"
    cleanPc,        \* the clean-up goroutine
    collected,      \* the keys that bolt's cleanup will delete
    reqPc, reqTok,  \* per request
    logPc, logTok,  \* per logout
    revoked         \* tokens whose logout was answered with 200

envVars == <<now, issuedAt, backend>>
cleanVars == <<cleanPc, collected>>
reqVars == <<reqPc, reqTok>>
logVars == <<logPc, logTok, revoked>>
vars == <<envVars, store, up, cleanVars, reqVars, logVars>>

(* A wrong StartCleanup: the goroutine is not started. *)
NoCleanup == "off"

StartCleanup == "idle"

Init ==
    /\ now = 1 /\ issuedAt = [t \in Tokens |-> 0]
    /\ backend \in {"memory", "bolt"} /\ store = {}
    /\ up = "running" /\ cleanPc = StartCleanup /\ collected = {}
    /\ reqPc = [q \in Requests |-> "new"]
    /\ reqTok = [q \in Requests |-> NoToken]
    /\ logPc = [l \in Logouts |-> "new"]
    /\ logTok = [l \in Logouts |-> NoToken]
    /\ revoked = {}

----------------------------------------------------------------------------
(* Tokens *)

issued(t) == issuedAt[t] # 0
expiresAt(t) == issuedAt[t] + AccessExpiry

ValidateToken(t) == issued(t) /\ now < expiresAt(t)

ValidateRefreshToken(t) == issued(t) /\ now < issuedAt[t] + RefreshExpiry

Issue(t) ==
    /\ up # "down" /\ ~issued(t)
    /\ issuedAt' = [issuedAt EXCEPT ![t] = now]
    /\ UNCHANGED <<now, backend, store, up, cleanVars, reqVars, logVars>>

(* POST /auth/token: its caller is admitted by the middleware, if only by a *)
(* legacy token.                                                            *)
generateToken(t) == Issue(t)

(* POST /auth/refresh: the blacklist is not asked. *)
refreshToken(t, old) ==
    /\ ValidateRefreshToken(old)
    /\ Issue(t)

----------------------------------------------------------------------------
(* The blacklist: bolt's operations fail once its file is closed *)

isOpen == IF backend = "bolt" THEN up = "running" ELSE up # "down"

(* Add, by either backend *)
Add(t) == store' = store \cup {t}

(* bolt ignores entries that have expired, the map does not. *)
IsBlacklisted(t) == t \in store /\ (backend = "bolt" => now < expiresAt(t))

expired == {t \in store : expiresAt(t) < now}

(* One pass of MemoryBlacklist.cleanup, under its lock. *)
memoryCleanup ==
    /\ backend = "memory" /\ cleanPc = "idle"
    /\ store' = store \ expired
    /\ UNCHANGED <<envVars, up, cleanVars, reqVars, logVars>>

(* BoltBlacklist.cleanup collects in one transaction ... *)
boltCollect ==
    /\ backend = "bolt" /\ cleanPc = "idle" /\ isOpen /\ expired # {}
    /\ cleanPc' = "collected" /\ collected' = expired
    /\ UNCHANGED <<envVars, store, up, reqVars, logVars>>

(* ... and deletes in another, without looking at the entries again. *)
boltDelete ==
    /\ cleanPc = "collected" /\ isOpen
    /\ cleanPc' = "idle" /\ collected' = {}
    /\ store' = store \ collected
    /\ UNCHANGED <<envVars, up, reqVars, logVars>>

(* The disk fails, or the file has been closed; the next tick tries again. *)
boltCleanupFails ==
    /\ cleanPc = "collected"
    /\ cleanPc' = "idle" /\ collected' = {}
    /\ UNCHANGED <<envVars, store, up, reqVars, logVars>>

cleanupLoopEnds ==
    /\ up = "closing" /\ cleanPc = "idle"
    /\ cleanPc' = "off"
    /\ UNCHANGED <<envVars, store, up, collected, reqVars, logVars>>

----------------------------------------------------------------------------
(* The middleware: a request presents t, is validated, then looked up *)

ReqGoto(q, label) ==
    /\ up # "down"
    /\ reqPc' = [reqPc EXCEPT ![q] = label]
    /\ UNCHANGED <<envVars, store, up, cleanVars, logVars>>

MiddlewareValidate(q, t) ==
    /\ reqPc[q] = "new"
    /\ ReqGoto(q, IF ValidateToken(t) THEN "validated" ELSE "invalid")
    /\ reqTok' = [reqTok EXCEPT ![q] = t]

MiddlewareLookup(q) ==
    /\ reqPc[q] = "validated" /\ isOpen
    /\ ReqGoto(q, IF IsBlacklisted(reqTok[q]) THEN "denied" ELSE "admitted")
    /\ UNCHANGED reqTok

(* A wrong AfterLookupError: the middleware fails open. *)
FailOpen == "admitted"

AfterLookupError == "unavailable"

MiddlewareLookupFails(q) ==
    /\ reqPc[q] = "validated" /\ backend = "bolt"
    /\ ReqGoto(q, AfterLookupError)
    /\ UNCHANGED reqTok

----------------------------------------------------------------------------
(* POST /auth/logout *)

LogGoto(l, label) ==
    /\ up # "down"
    /\ logPc' = [logPc EXCEPT ![l] = label]
    /\ UNCHANGED <<envVars, up, cleanVars, reqVars>>

LogoutValidate(l, t) ==
    /\ logPc[l] = "new"
    /\ LogGoto(l, IF ValidateToken(t) THEN "validated" ELSE "invalid")
    /\ logTok' = [logTok EXCEPT ![l] = t]
    /\ UNCHANGED <<store, revoked>>

LogoutAdd(l) ==
    /\ logPc[l] = "validated" /\ isOpen
    /\ LogGoto(l, "added")
    /\ Add(logTok[l])
    /\ UNCHANGED <<logTok, revoked>>

(* bolt returns an error: 503.  An error of the last fsync may come after   *)
(* the page was written.                                                    *)
LogoutAddFails(l) ==
    /\ logPc[l] = "validated" /\ backend = "bolt"
    /\ LogGoto(l, "unavailable")
    /\ UNCHANGED store \/ (isOpen /\ Add(logTok[l]))
    /\ UNCHANGED <<logTok, revoked>>

LogoutAnswer(l) ==
    /\ logPc[l] = "added"
    /\ LogGoto(l, "answered")
    /\ revoked' = revoked \cup {logTok[l]}
    /\ UNCHANGED <<store, logTok>>

----------------------------------------------------------------------------
(* The process *)

(* Shutdown closes the blacklist before the HTTP server stops. *)
Close ==
    /\ up = "running" /\ up' = "closing"
    /\ UNCHANGED <<envVars, store, cleanVars, reqVars, logVars>>

(* The process ends, by shutdown or by a crash: calls are cut off, and what *)
(* is only in memory is forgotten, the promise of its logouts with it.      *)
Exit ==
    /\ up # "down" /\ up' = "down"
    /\ cleanPc' = "off" /\ collected' = {}
    /\ reqPc' = [q \in Requests |->
                   IF reqPc[q] = "validated" THEN "aborted" ELSE reqPc[q]]
    /\ logPc' = [l \in Logouts |->
                   IF logPc[l] \in {"validated", "added"} THEN "aborted"
                                                          ELSE logPc[l]]
    /\ IF backend = "memory" THEN store' = {} /\ revoked' = {}
                             ELSE UNCHANGED <<store, revoked>>
    /\ UNCHANGED <<envVars, reqTok, logTok>>

(* A wrong Recovered: the file is created anew. *)
RecoveredEmpty == {}

Recovered == store

(* buildBlacklist; NewBoltBlacklist reaps the file, or fails to and goes on. *)
Restart ==
    /\ up = "down" /\ up' = "running"
    /\ cleanPc' = StartCleanup
    /\ \/ store' = Recovered
       \/ backend = "bolt" /\ store' = Recovered \ expired
    /\ UNCHANGED <<envVars, collected, reqVars, logVars>>

Tick ==
    /\ now < MaxTime /\ now' = now + 1
    /\ UNCHANGED <<issuedAt, backend, store, up, cleanVars, reqVars, logVars>>

----------------------------------------------------------------------------
CleanStep ==
    \/ memoryCleanup \/ boltCollect \/ boltDelete \/ boltCleanupFails
    \/ cleanupLoopEnds

ReqStep(q) ==
    \/ \E t \in Tokens : MiddlewareValidate(q, t)
    \/ MiddlewareLookup(q) \/ MiddlewareLookupFails(q)

LogStep(l) ==
    \/ \E t \in Tokens : LogoutValidate(l, t)
    \/ LogoutAdd(l) \/ LogoutAddFails(l) \/ LogoutAnswer(l)

IssueStep ==
    \E t \in Tokens :
        generateToken(t) \/ \E old \in Tokens : refreshToken(t, old)

Next ==
    \/ IssueStep \/ CleanStep
    \/ \E q \in Requests : ReqStep(q)
    \/ \E l \in Logouts : LogStep(l)
    \/ Close \/ Exit \/ Restart \/ Tick

Spec == Init /\ [][Next]_vars

(* The ticker fires, and disk errors are transient: a delete that is tried  *)
(* again and again succeeds.                                                *)
FairSpec ==
    /\ Spec
    /\ WF_vars(memoryCleanup) /\ WF_vars(boltCollect) /\ SF_vars(boltDelete)
    /\ WF_vars(Tick)

----------------------------------------------------------------------------
(* Properties *)

(* The types of the variables; only tokens that were issued are stored.     *)
TypeOK ==
    /\ now \in 1 .. MaxTime /\ issuedAt \in [Tokens -> 0 .. now]
    /\ backend \in {"memory", "bolt"}
    /\ store \subseteq {t \in Tokens : issued(t)}
    /\ up \in {"running", "closing", "down"}
    /\ cleanPc \in {"idle", "collected", "off"} /\ collected \subseteq Tokens
    /\ reqPc \in [Requests -> {"new", "validated", "invalid", "denied",
                               "admitted", "unavailable", "aborted"}]
    /\ reqTok \in [Requests -> Tokens \cup {NoToken}]
    /\ logPc \in [Logouts -> {"new", "validated", "invalid", "added",
                              "answered", "unavailable", "aborted"}]
    /\ logTok \in [Logouts -> Tokens \cup {NoToken}]
    /\ revoked \subseteq Tokens

(* Once a logout is answered with 200 no request is admitted with the token *)
(* before it expires: not by bolt's two-transaction clean-up, not while the *)
(* server drains with its blacklist closed, not after a crash with bolt.  A *)
(* request that was validated just before the token expired may be looked   *)
(* up after, and is admitted.                                               *)
RevokedDenied ==
    [][\A q \in Requests :
         /\ reqPc[q] = "validated" /\ reqPc'[q] = "admitted"
         /\ reqTok[q] \in revoked
         => expiresAt(reqTok[q]) <= now]_vars

(* An expired entry does not stay in a running server's blacklist.          *)
EntriesReaped ==
    \A t \in Tokens :
        t \in expired ~> t \notin store \/ up # "running"

----------------------------------------------------------------------------
(* What is promised of the list: see DenyList.                              *)
List == INSTANCE DenyList WITH
    denied <- store,
    expiry <- [t \in Tokens |-> expiresAt(t)],
    admittedBy <- [q \in Requests |->
                     IF reqPc[q] = "admitted" THEN reqTok[q] ELSE NoToken],
    durable <- backend = "bolt"

(* Both backends, with their clean-ups, the middleware and the restarts,    *)
(* implement DenyList: nothing unexpired is dropped from a durable list,    *)
(* and no request passes a token that is listed and has not expired.        *)
Implements == List!Spec
=============================================================================
