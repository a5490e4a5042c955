----------------------------- MODULE AuthProofs -----------------------------
(***************************************************************************)
(* Theorems about Auth, for any number of tokens, requests and logouts and  *)
(* for both backends: an answered logout holds until the token expires, and *)
(* Auth implements DenyList.                                                *)
(***************************************************************************)
EXTENDS Auth, TLAPS

USE DEF envVars, cleanVars, reqVars, logVars

Times == now \in 1 .. MaxTime /\ issuedAt \in [Tokens -> 0 .. now]

Lists ==
    /\ backend \in {"memory", "bolt"}
    /\ store \subseteq {t \in Tokens : issued(t)}
    /\ up \in {"running", "closing", "down"}
    /\ cleanPc \in {"idle", "collected", "off"} /\ collected \subseteq Tokens
    /\ revoked \subseteq Tokens

Calls ==
    /\ reqPc \in [Requests -> {"new", "validated", "invalid", "denied",
                               "admitted", "unavailable", "aborted"}]
    /\ reqTok \in [Requests -> Tokens \cup {NoToken}]
    /\ logPc \in [Logouts -> {"new", "validated", "invalid", "added",
                              "answered", "unavailable", "aborted"}]
    /\ logTok \in [Logouts -> Tokens \cup {NoToken}]

LEMMA TypeSplit == TypeOK <=> Times /\ Lists /\ Calls
  BY DEF TypeOK, Times, Lists, Calls

LEMMA TypeSplitNext == TypeOK' <=> Times' /\ Lists' /\ Calls'
  BY DEF TypeOK, Times, Lists, Calls

(* A call past its validation has a token that was issued.                  *)
Validated ==
    /\ \A q \in Requests : reqPc[q] \in {"validated", "admitted"} =>
                             reqTok[q] \in Tokens
    /\ \A l \in Logouts : logPc[l] \in {"validated", "added"} =>
                            logTok[l] \in Tokens /\ issued(logTok[l])

(* t is in the blacklist, or its time is over.                              *)
Barred(t) == issued(t) /\ (t \in store \/ expiresAt(t) < now)

(* What was added is barred; what is about to be deleted has expired.       *)
Kept ==
    /\ \A t \in collected : issued(t) /\ expiresAt(t) < now
    /\ \A t \in revoked : Barred(t)
    /\ \A l \in Logouts : logPc[l] = "added" => Barred(logTok[l])

----------------------------------------------------------------------------
LEMMA TimesStep == Times /\ [Next]_vars => Times'
  <1> SUFFICES ASSUME Times, [Next]_vars PROVE Times'
    OBVIOUS
  <1> USE TimeAssumption DEF Times
  <1>1. CASE IssueStep
    BY <1>1 DEF IssueStep, generateToken, refreshToken, Issue
  <1>2. CASE Tick
    BY <1>2 DEF Tick
  <1>3. CASE UNCHANGED <<now, issuedAt>>
    BY <1>3
  <1>4. IssueStep \/ Tick \/ UNCHANGED <<now, issuedAt>>
    BY DEF Next, vars, CleanStep, ReqStep, LogStep, memoryCleanup,
       boltCollect, boltDelete, boltCleanupFails, cleanupLoopEnds,
       MiddlewareValidate, MiddlewareLookup, MiddlewareLookupFails, ReqGoto,
       LogoutValidate, LogoutAdd, LogoutAddFails, LogoutAnswer, LogGoto,
       Close, Exit, Restart
  <1>5. QED
    BY <1>1, <1>2, <1>3, <1>4

(* Time and the issuing of tokens: what was issued keeps its expiry, which  *)
(* only comes nearer.                                                       *)
LEMMA Monotone ==
  ASSUME Times, [Next]_vars
  PROVE  \A t \in Tokens : issued(t) =>
           /\ issued(t)' /\ expiresAt(t)' = expiresAt(t)
           /\ expiresAt(t) < now => expiresAt(t)' < now'
  <1> USE TimeAssumption DEF Times, issued, expiresAt
  <1>1. CASE IssueStep
    BY <1>1 DEF IssueStep, generateToken, refreshToken, Issue
  <1>2. CASE Tick
    BY <1>2 DEF Tick
  <1>3. CASE UNCHANGED <<now, issuedAt>>
    BY <1>3
  <1>4. IssueStep \/ Tick \/ UNCHANGED <<now, issuedAt>>
    BY DEF Next, vars, CleanStep, ReqStep, LogStep, memoryCleanup,
       boltCollect, boltDelete, boltCleanupFails, cleanupLoopEnds,
       MiddlewareValidate, MiddlewareLookup, MiddlewareLookupFails, ReqGoto,
       LogoutValidate, LogoutAdd, LogoutAddFails, LogoutAnswer, LogGoto,
       Close, Exit, Restart
  <1>5. QED
    BY <1>1, <1>2, <1>3, <1>4

LEMMA CallsStep == Calls /\ [Next]_vars => Calls'
  <1> SUFFICES ASSUME Calls, [Next]_vars PROVE Calls'
    OBVIOUS
  <1> USE DEF Calls
  <1>1. ASSUME NEW q \in Requests, ReqStep(q) PROVE Calls'
    BY <1>1 DEF ReqStep, MiddlewareValidate, MiddlewareLookup,
       MiddlewareLookupFails, ReqGoto, AfterLookupError
  <1>2. ASSUME NEW l \in Logouts, LogStep(l) PROVE Calls'
    BY <1>2 DEF LogStep, LogoutValidate, LogoutAdd, LogoutAddFails,
       LogoutAnswer, LogGoto
  <1>3. CASE Exit
    BY <1>3 DEF Exit
  <1>4. CASE IssueStep \/ CleanStep \/ Close \/ Restart \/ Tick
    BY <1>4 DEF IssueStep, generateToken, refreshToken, Issue, CleanStep,
       memoryCleanup, boltCollect, boltDelete, boltCleanupFails,
       cleanupLoopEnds, Close, Restart, Tick
  <1>5. CASE UNCHANGED vars
    BY <1>5 DEF vars
  <1>6. QED
    BY <1>1, <1>2, <1>3, <1>4, <1>5 DEF Next

LEMMA ValidatedStep ==
  Calls /\ Times /\ Validated /\ [Next]_vars => Validated'
  <1> SUFFICES ASSUME Calls, Times, Validated, [Next]_vars PROVE Validated'
    OBVIOUS
  <1>m. \A t \in Tokens : issued(t) => issued(t)'
    BY Monotone
  <1> USE DEF Calls, Validated
  <1>1. ASSUME NEW q \in Requests, ReqStep(q) PROVE Validated'
    BY <1>1, <1>m DEF ReqStep, MiddlewareValidate, MiddlewareLookup,
       MiddlewareLookupFails, ReqGoto, AfterLookupError
  <1>2. ASSUME NEW l \in Logouts, LogStep(l) PROVE Validated'
    BY <1>2, <1>m DEF LogStep, LogoutValidate, LogoutAdd, LogoutAddFails,
       LogoutAnswer, LogGoto, ValidateToken
  <1>3. CASE Exit
    BY <1>3, <1>m DEF Exit
  <1>4. CASE IssueStep \/ CleanStep \/ Close \/ Restart \/ Tick
    BY <1>4, <1>m DEF IssueStep, generateToken, refreshToken, Issue,
       CleanStep, memoryCleanup, boltCollect, boltDelete, boltCleanupFails,
       cleanupLoopEnds, Close, Restart, Tick
  <1>5. CASE UNCHANGED vars
    BY <1>5, <1>m DEF vars
  <1>6. QED
    BY <1>1, <1>2, <1>3, <1>4, <1>5 DEF Next

LEMMA ListsStep ==
  Lists /\ Times /\ Validated /\ [Next]_vars => Lists'
  <1> SUFFICES ASSUME Lists, Times, Validated, [Next]_vars PROVE Lists'
    OBVIOUS
  <1>m. \A t \in Tokens : issued(t) => issued(t)'
    BY Monotone
  <1> USE DEF Lists
  <1>1. ASSUME NEW q \in Requests, ReqStep(q) PROVE Lists'
    BY <1>1, <1>m DEF ReqStep, MiddlewareValidate, MiddlewareLookup,
       MiddlewareLookupFails, ReqGoto
  <1>2. ASSUME NEW l \in Logouts, LogStep(l) PROVE Lists'
    BY <1>2, <1>m DEF LogStep, LogoutValidate, LogoutAdd, LogoutAddFails,
       LogoutAnswer, LogGoto, Add, Validated
  <1>3. CASE CleanStep
    BY <1>3, <1>m DEF CleanStep, memoryCleanup, boltCollect, boltDelete,
       boltCleanupFails, cleanupLoopEnds, expired
  <1>4. CASE Exit \/ Restart
    BY <1>4, <1>m DEF Exit, Restart, Recovered, expired, StartCleanup
  <1>5. CASE IssueStep \/ Close \/ Tick
    BY <1>5, <1>m DEF IssueStep, generateToken, refreshToken, Issue, Close,
       Tick
  <1>6. CASE UNCHANGED vars
    BY <1>6, <1>m DEF vars
  <1>7. QED
    BY <1>1, <1>2, <1>3, <1>4, <1>5, <1>6 DEF Next

(* Only the clean-ups, a restart and the loss of the memory remove entries. *)
LEMMA KeptStep ==
  Lists /\ Times /\ Calls /\ Validated /\ Kept /\ [Next]_vars => Kept'
  <1> SUFFICES ASSUME Lists, Times, Calls, Validated, Kept, [Next]_vars
               PROVE  Kept'
    OBVIOUS
  <1>m. \A t \in Tokens : issued(t) =>
          /\ issued(t)'
          /\ expiresAt(t) < now => expiresAt(t)' < now'
    BY Monotone
  <1> USE DEF Lists, Validated, Kept, Barred
  <1>1. ASSUME NEW q \in Requests, ReqStep(q) PROVE Kept'
    BY <1>1, <1>m DEF ReqStep, MiddlewareValidate, MiddlewareLookup,
       MiddlewareLookupFails, ReqGoto
  <1>2. ASSUME NEW l \in Logouts, LogStep(l) PROVE Kept'
    BY <1>2, <1>m DEF LogStep, LogoutValidate, LogoutAdd, LogoutAddFails,
       LogoutAnswer, LogGoto, Add, Calls
  <1>3. CASE CleanStep
    BY <1>3, <1>m DEF CleanStep, memoryCleanup, boltCollect, boltDelete,
       boltCleanupFails, cleanupLoopEnds, expired
  <1>4. CASE Exit
    BY <1>4, <1>m DEF Exit, Calls
  <1>5. CASE Restart
    BY <1>5, <1>m DEF Restart, Recovered, expired
  <1>6. CASE IssueStep \/ Close \/ Tick
    BY <1>6, <1>m DEF IssueStep, generateToken, refreshToken, Issue, Close,
       Tick
  <1>7. CASE UNCHANGED vars
    BY <1>7, <1>m DEF vars
  <1>8. QED
    BY <1>1, <1>2, <1>3, <1>4, <1>5, <1>6, <1>7 DEF Next

----------------------------------------------------------------------------
Inv == TypeOK /\ Validated /\ Kept

(* The inductive invariant: types, validated calls hold issued tokens, and  *)
(* what was added to the blacklist is in it or has expired.                 *)
THEOREM Invariance == Spec => []Inv
  <1>1. Init => Inv
    <2> SUFFICES ASSUME Init PROVE Inv
      OBVIOUS
    <2>1. Times
      BY TimeAssumption DEF Init, Times
    <2>2. Lists /\ Calls
      BY DEF Init, Lists, Calls, StartCleanup
    <2>3. Validated /\ Kept
      BY DEF Init, Validated, Kept
    <2>4. QED
      BY <2>1, <2>2, <2>3, TypeSplit DEF Inv
  <1>2. Inv /\ [Next]_vars => Inv'
    BY TypeSplit, TypeSplitNext, TimesStep, ListsStep, CallsStep,
       ValidatedStep, KeptStep DEF Inv
  <1>3. QED
    BY <1>1, <1>2, PTL DEF Spec

(* Middleware, logout and both blacklists keep their types, and only tokens *)
(* that the server issued are stored.                                       *)
THEOREM Typing == Spec => []TypeOK
  <1>1. Inv => TypeOK
    BY DEF Inv
  <1>2. QED
    BY <1>1, Invariance, PTL

----------------------------------------------------------------------------
(* The one step that admits is a lookup that finds the blacklist open and   *)
(* the token not in it, or expired.                                         *)
LEMMA AdmittedStep ==
  ASSUME Times, Calls, Lists, Validated, [Next]_vars, NEW q \in Requests,
         reqPc[q] # "admitted", reqPc'[q] = "admitted"
  PROVE  /\ MiddlewareLookup(q) /\ reqTok[q] \in Tokens
         /\ reqTok[q] \notin store \/ expiresAt(reqTok[q]) <= now
  <1>1. MiddlewareLookup(q)
    <2> USE DEF Calls
    <2>request. ASSUME NEW p \in Requests, ReqStep(p)
                PROVE  MiddlewareLookup(q)
      BY <2>request DEF ReqStep, MiddlewareValidate, MiddlewareLookup,
         MiddlewareLookupFails, ReqGoto, AfterLookupError
    <2>logout. CASE \E l \in Logouts : LogStep(l)
      BY <2>logout DEF LogStep, LogoutValidate, LogoutAdd, LogoutAddFails,
         LogoutAnswer, LogGoto
    <2>other. CASE IssueStep \/ CleanStep \/ Close \/ Restart \/ Tick \/ Exit
      BY <2>other DEF IssueStep, generateToken, refreshToken, Issue, CleanStep,
         memoryCleanup, boltCollect, boltDelete, boltCleanupFails,
         cleanupLoopEnds, Close, Restart, Tick, Exit
    <2> QED
      BY <2>request, <2>logout, <2>other DEF Next, vars
  <1>2. reqTok[q] \in Tokens
    BY <1>1 DEF Validated, MiddlewareLookup
  <1>3. ~IsBlacklisted(reqTok[q])
    BY <1>1 DEF MiddlewareLookup, ReqGoto, Calls
  <1>4. reqTok[q] \in store => ~(now < expiresAt(reqTok[q]))
    BY <1>3 DEF IsBlacklisted
  <1>5. expiresAt(reqTok[q]) \in Nat /\ now \in Nat
    BY <1>2, TimeAssumption DEF Times, expiresAt
  <1>6. QED
    BY <1>1, <1>2, <1>4, <1>5

(* auth.Middleware and Server.logout: after a logout is answered no request *)
(* is admitted with the token before it expires, whatever clean-up,         *)
(* shutdown and (with bolt) crashes do in between.                          *)
THEOREM LogoutHolds == Spec => RevokedDenied
  <1>1. Inv /\ [Next]_vars =>
          [\A q \in Requests :
             /\ reqPc[q] = "validated" /\ reqPc'[q] = "admitted"
             /\ reqTok[q] \in revoked
             => expiresAt(reqTok[q]) <= now]_vars
    <2> SUFFICES ASSUME Inv, [Next]_vars, NEW q \in Requests,
                        reqPc[q] = "validated", reqPc'[q] = "admitted",
                        reqTok[q] \in revoked
                 PROVE  expiresAt(reqTok[q]) <= now
      OBVIOUS
    <2>1. Times /\ Calls /\ Lists /\ Validated /\ Kept
      BY TypeSplit DEF Inv
    <2>2. reqTok[q] \in Tokens
          /\ (reqTok[q] \notin store \/ expiresAt(reqTok[q]) <= now)
      BY <2>1, AdmittedStep
    <2>3. reqTok[q] \in store \/ expiresAt(reqTok[q]) < now
      BY <2>1 DEF Kept, Barred
    <2>4. expiresAt(reqTok[q]) \in Nat /\ now \in Nat
      BY <2>1, <2>2, TimeAssumption DEF Times, expiresAt
    <2>5. QED
      BY <2>2, <2>3, <2>4
  <1>2. QED
    BY <1>1, Invariance, PTL DEF Spec, RevokedDenied

----------------------------------------------------------------------------
(* The refinement mapping, part by part. *)
Expiry == [t \in Tokens |-> expiresAt(t)]

AdmittedBy ==
    [q \in Requests |-> IF reqPc[q] = "admitted" THEN reqTok[q] ELSE NoToken]

Durable == backend = "bolt"

ListStep == [List!Next]_(List!vars)

USE DEF Expiry, AdmittedBy, Durable

(* A step that only deletes expired entries forgets them.                   *)
LEMMA Forgetting ==
  ASSUME Times, NEW S \in SUBSET Tokens, store' = store \ S,
         \A t \in S : expiresAt(t) < now,
         UNCHANGED <<now, issuedAt, backend, AdmittedBy>>
  PROVE  ListStep
  <1>1. \A t \in S : Expiry[t] <= now
    <2> SUFFICES ASSUME NEW t \in S PROVE expiresAt(t) <= now
      OBVIOUS
    <2>1. expiresAt(t) \in Nat /\ now \in Nat
      BY TimeAssumption DEF Times, expiresAt
    <2>2. QED
      BY <2>1
  <1>2. UNCHANGED <<Expiry, Durable>>
    BY DEF expiresAt
  <1>3. List!Forget(S)
    BY <1>1, <1>2 DEF List!Forget, List!Expired
  <1>4. QED
    BY <1>3 DEF ListStep, List!Next

LEMMA ExpiredEntries ==
  ASSUME Lists
  PROVE  expired \in SUBSET Tokens /\ \A t \in expired : expiresAt(t) < now
  BY DEF expired, Lists

LEMMA RequestStep ==
  ASSUME Times, Calls, Lists, Validated, [Next]_vars,
         NEW q \in Requests, ReqStep(q)
  PROVE  ListStep
  <1>1. UNCHANGED <<store, now, Expiry, Durable>>
    BY DEF ReqStep, MiddlewareValidate, MiddlewareLookup,
       MiddlewareLookupFails, ReqGoto, expiresAt
  <1>2. CASE reqPc[q] # "admitted" /\ reqPc'[q] = "admitted"
    <2>1. /\ MiddlewareLookup(q) /\ reqTok[q] \in Tokens
          /\ reqTok[q] \notin store \/ expiresAt(reqTok[q]) <= now
      BY <1>2, AdmittedStep
    <2>2. AdmittedBy' = [AdmittedBy EXCEPT ![q] = reqTok[q]]
      BY <2>1, <1>2 DEF MiddlewareLookup, ReqGoto, Calls
    <2>3. List!Admit(q, reqTok[q])
      BY <1>1, <2>1, <2>2 DEF List!Admit, List!Expired
    <2>4. reqTok[q] \in Tokens
      BY <2>1
    <2>5. \E p \in Requests, t \in Tokens : List!Admit(p, t)
      BY <2>3, <2>4 DEF List!Admit
    <2>6. QED
      BY <2>5 DEF ListStep, List!Next
  <1>3. CASE ~(reqPc[q] # "admitted" /\ reqPc'[q] = "admitted")
    <2>1. UNCHANGED AdmittedBy
      BY <1>3 DEF ReqStep, MiddlewareValidate, MiddlewareLookup,
         MiddlewareLookupFails, ReqGoto, AfterLookupError, Calls
    <2>2. QED
      BY <1>1, <2>1 DEF ListStep, List!vars
  <1>4. QED
    BY <1>2, <1>3

LEMMA LogoutStep ==
  ASSUME Validated, Calls, NEW l \in Logouts, LogStep(l)
  PROVE  ListStep
  <1>1. UNCHANGED <<now, Expiry, AdmittedBy, Durable>>
    BY DEF LogStep, LogoutValidate, LogoutAdd, LogoutAddFails, LogoutAnswer,
       LogGoto, expiresAt
  <1>2. UNCHANGED store \/ (logTok[l] \in Tokens /\ Add(logTok[l]))
    BY DEF LogStep, LogoutValidate, LogoutAdd, LogoutAddFails, LogoutAnswer,
       Validated
  <1>3. CASE UNCHANGED store
    BY <1>1, <1>3 DEF ListStep, List!vars
  <1>4. CASE logTok[l] \in Tokens /\ Add(logTok[l])
    <2>1. List!Deny(logTok[l])
      BY <1>1, <1>4 DEF List!Deny, Add
    <2>2. QED
      BY <1>4, <2>1 DEF ListStep, List!Next
  <1>5. QED
    BY <1>2, <1>3, <1>4

LEMMA CleaningStep ==
  ASSUME Times, Lists, Kept, CleanStep
  PROVE  ListStep
  <1>1. UNCHANGED <<now, issuedAt, backend, AdmittedBy>>
    BY DEF CleanStep, memoryCleanup, boltCollect, boltDelete,
       boltCleanupFails, cleanupLoopEnds
  <1>2. CASE UNCHANGED store
    BY <1>1, <1>2 DEF ListStep, List!vars, expiresAt
  <1>3. CASE memoryCleanup
    BY <1>1, <1>3, ExpiredEntries, Forgetting DEF memoryCleanup
  <1>4. CASE boltDelete
    BY <1>1, <1>4, Forgetting DEF boltDelete, Kept, Lists
  <1>5. QED
    BY <1>2, <1>3, <1>4 DEF CleanStep, boltCollect, boltCleanupFails,
       cleanupLoopEnds

LEMMA ProcessStep ==
  ASSUME Times, Lists, Calls, Close \/ Exit \/ Restart
  PROVE  ListStep
  <1>1. CASE Close
    BY <1>1 DEF Close, ListStep, List!vars, expiresAt
  <1>2. CASE Exit
    <2>1. UNCHANGED <<now, Expiry, AdmittedBy, Durable>>
      BY <1>2 DEF Exit, Calls, expiresAt
    <2>2. CASE backend = "memory"
      <3>1. List!Lose
        BY <1>2, <2>1, <2>2 DEF Exit, List!Lose
      <3>2. QED
        BY <3>1 DEF ListStep, List!Next
    <2>3. CASE backend # "memory"
      BY <1>2, <2>1, <2>3 DEF Exit, ListStep, List!vars
    <2>4. QED
      BY <2>2, <2>3
  <1>3. CASE Restart
    <2>1. UNCHANGED <<now, issuedAt, backend, AdmittedBy>>
      BY <1>3 DEF Restart
    <2>2. CASE store' = store
      BY <2>1, <2>2 DEF ListStep, List!vars, expiresAt
    <2>3. CASE store' = store \ expired
      BY <2>1, <2>3, ExpiredEntries, Forgetting
    <2>4. QED
      BY <1>3, <2>2, <2>3 DEF Restart, Recovered
  <1>4. QED
    BY <1>1, <1>2, <1>3

LEMMA ProceedStep ==
  ASSUME Times, Lists, [Next]_vars, IssueStep \/ Tick
  PROVE  ListStep
  <1>1. UNCHANGED <<store, AdmittedBy, Durable>>
    BY DEF IssueStep, generateToken, refreshToken, Issue, Tick
  <1>2. now <= now'
    BY DEF IssueStep, generateToken, refreshToken, Issue, Tick, Times
  <1>3. \A t \in store : Expiry'[t] = Expiry[t]
    BY Monotone DEF Lists
  <1>4. List!Proceed
    BY <1>1, <1>2, <1>3 DEF List!Proceed
  <1>5. QED
    BY <1>4 DEF ListStep, List!Next

(* Both blacklists, their clean-ups, the middleware, logout, shutdown and   *)
(* restarts implement the abstract deny list.                               *)
THEOREM Refinement == Spec => Implements
  <1>1. Init => List!Init
    BY DEF Init, List!Init
  <1>2. Inv /\ [Next]_vars => [List!Next]_(List!vars)
    <2> SUFFICES ASSUME Inv, [Next]_vars PROVE ListStep
      BY DEF ListStep
    <2>1. Times /\ Calls /\ Lists /\ Validated /\ Kept
      BY TypeSplit DEF Inv
    <2>2. CASE UNCHANGED vars
      BY <2>2 DEF vars, ListStep, List!vars, expiresAt
    <2>3. CASE Next
      BY <2>1, <2>3, RequestStep, LogoutStep, CleaningStep, ProcessStep,
         ProceedStep DEF Next
    <2>4. QED
      BY <2>2, <2>3
  <1>3. QED
    BY <1>1, <1>2, Invariance, PTL DEF Spec, Implements, List!Spec
=============================================================================
