-------------------------------- MODULE Jobs --------------------------------
(***************************************************************************)
(* Async jobs: the job.Manager of internal/job, the runAsync and cancelJob  *)
(* handlers and the completion callback of internal/api/async.go, and the   *)
(* notifier of internal/webhook.  Every action is one critical section of   *)
(* Manager.mu or one delivery attempt.  What a run does is external: it     *)
(* completes, fails or crashes.  A job's age counts the clock ticks since   *)
(* UpdatedAt, saturating just above the TTL.                                *)
(***************************************************************************)
EXTENDS Integers

CONSTANTS
    Jobs,      \* one POST /run/async each
    Hooked,    \* the jobs whose request has a webhook_url
    TTL        \* jobs.cleanup_ttl, in clock ticks

ASSUME HookedAssumption == Hooked \subseteq Jobs
ASSUME TTLAssumption == TTL \in Nat

VARIABLES
    present,       \* keys of Manager.jobs
    status,        \* Job.Status
    hasSession,    \* Job.SessionID is not empty
    cancelledAt,   \* jobs whose CancelledAt is set
    hasUsage,      \* jobs whose Usage is set
    age,           \* time since Job.UpdatedAt
    runPc,         \* per job: the handler, then the run goroutine
    outcome,       \* the callback's local `status`
    delivered,     \* payloads the webhook receiver got
    stopped, looping   \* stopChan closed; cleanupLoop alive

jobVars == <<present, status, hasSession, cancelledAt, hasUsage, age>>
loopVars == <<stopped, looping>>
vars == <<jobVars, runPc, outcome, delivered, loopVars>>

Outcomes == {"completed", "failed", "crashed"}
MaxAttempts == 2    \* "initial attempt + one retry"

Init ==
    /\ present = {} /\ cancelledAt = {} /\ hasUsage = {} /\ hasSession = {}
    /\ status = [j \in Jobs |-> "pending"]
    /\ age = [j \in Jobs |-> 0]
    /\ runPc = [j \in Jobs |-> "new"]
    /\ outcome = [j \in Jobs |-> "failed"]
    /\ delivered = [j \in Jobs |-> 0]
    /\ stopped = FALSE /\ looping = TRUE

RunGoto(j, label) == runPc' = [runPc EXCEPT ![j] = label]

----------------------------------------------------------------------------
(* Manager *)

Create(j) ==
    /\ present' = present \cup {j}
    /\ status' = [status EXCEPT ![j] = "pending"]
    /\ age' = [age EXCEPT ![j] = 0]
    /\ UNCHANGED <<hasSession, cancelledAt, hasUsage>>

(* A wrong Update: m.jobs[id] is assigned whether or not it exists. *)
UpdateUpsert(j, st, session) ==
    /\ present' = present \cup {j}
    /\ status' = [status EXCEPT ![j] = st]
    /\ hasSession' = IF session THEN hasSession \cup {j} ELSE hasSession \ {j}
    /\ age' = [age EXCEPT ![j] = 0]
    /\ UNCHANGED <<cancelledAt, hasUsage>>

(* Overwrites status and session id, whatever they are; a deleted job stays *)
(* deleted.                                                                 *)
Update(j, st, session) ==
    IF j \in present
    THEN /\ status' = [status EXCEPT ![j] = st]
         /\ hasSession' = IF session THEN hasSession \cup {j}
                                     ELSE hasSession \ {j}
         /\ age' = [age EXCEPT ![j] = 0]
         /\ UNCHANGED <<present, cancelledAt, hasUsage>>
    ELSE UNCHANGED jobVars

UpdateWithCrash(j) ==
    IF j \in present
    THEN /\ status' = [status EXCEPT ![j] = "crashed"]
         /\ hasSession' = hasSession \cup {j}
         /\ age' = [age EXCEPT ![j] = 0]
         /\ UNCHANGED <<present, cancelledAt, hasUsage>>
    ELSE UNCHANGED jobVars

SetUsage(j) ==
    IF j \in present
    THEN /\ hasUsage' = hasUsage \cup {j}
         /\ age' = [age EXCEPT ![j] = 0]
         /\ UNCHANGED <<present, status, hasSession, cancelledAt>>
    ELSE UNCHANGED jobVars

(* A wrong Cancellable: any job that exists. *)
CancellableAny(j) == j \in present

Cancellable(j) == j \in present /\ status[j] \in {"pending", "running"}

(* DELETE /jobs/{id}.  The run goroutine is not told. *)
Cancel(j) ==
    /\ Cancellable(j)
    /\ status' = [status EXCEPT ![j] = "cancelled"]
    /\ cancelledAt' = cancelledAt \cup {j}
    /\ age' = [age EXCEPT ![j] = 0]
    /\ UNCHANGED <<present, hasSession, hasUsage, runPc, outcome, delivered,
                   loopVars>>

(* Two wrong Terminals: crashed is forgotten; any status will do. *)
TerminalNotCrashed(j) == status[j] \in {"completed", "failed", "cancelled"}
TerminalAny(j) == TRUE

Terminal(j) == status[j] \in {"completed", "failed", "cancelled", "crashed"}

(* One tick of cleanupLoop *)
cleanup ==
    /\ looping
    /\ present' = {j \in present : ~(Terminal(j) /\ age[j] > TTL)}
    /\ present' # present
    /\ UNCHANGED <<status, hasSession, cancelledAt, hasUsage, age, runPc,
                   outcome, delivered, loopVars>>

(* StopCleanup, at shutdown.  The loop's select may still take a tick. *)
StopCleanup ==
    /\ ~stopped
    /\ stopped' = TRUE
    /\ UNCHANGED <<jobVars, runPc, outcome, delivered, looping>>

LoopEnds ==
    /\ looping /\ stopped
    /\ looping' = FALSE
    /\ UNCHANGED <<jobVars, runPc, outcome, delivered, stopped>>

Tick ==
    /\ \E j \in present : age[j] <= TTL
    /\ age' = [j \in Jobs |-> IF j \in present /\ age[j] <= TTL
                              THEN age[j] + 1 ELSE age[j]]
    /\ UNCHANGED <<present, status, hasSession, cancelledAt, hasUsage, runPc,
                   outcome, delivered, loopVars>>

----------------------------------------------------------------------------
(* runAsync: Create, then Update(running), then the run goroutine *)

AsyncCreate(j) ==
    /\ runPc[j] = "new"
    /\ RunGoto(j, "created")
    /\ Create(j)
    /\ UNCHANGED <<outcome, delivered, loopVars>>

AsyncStart(j) ==
    /\ runPc[j] = "created"
    /\ RunGoto(j, "running")
    /\ Update(j, "running", TRUE)
    /\ UNCHANGED <<outcome, delivered, loopVars>>

(* r.Run returns: an error, a result with CrashInfo, or a result. *)
RunEnds(j) ==
    /\ runPc[j] = "running"
    /\ RunGoto(j, "callback")
    /\ \E o \in Outcomes : outcome' = [outcome EXCEPT ![j] = o]
    /\ UNCHANGED <<jobVars, delivered, loopVars>>

(* The callback records the outcome; on an error its sessionID is empty. *)
CallbackUpdate(j) ==
    /\ runPc[j] = "callback"
    /\ RunGoto(j, "usage")
    /\ IF outcome[j] = "crashed" THEN UpdateWithCrash(j)
       ELSE Update(j, outcome[j], outcome[j] = "completed")
    /\ UNCHANGED <<outcome, delivered, loopVars>>

(* buildUsage is nil without a session id, and may be nil with one. *)
CallbackUsage(j) ==
    /\ runPc[j] = "usage"
    /\ RunGoto(j, IF j \in Hooked THEN "notify" ELSE "done")
    /\ \/ outcome[j] # "failed" /\ SetUsage(j)
       \/ UNCHANGED jobVars
    /\ UNCHANGED <<outcome, delivered, loopVars>>

NextAttempt(label) == IF label = "notify" THEN "retry" ELSE "done"

(* Notify: an attempt reaches the receiver or not, and is answered with a   *)
(* 2xx or not; a payload can arrive although its attempt failed.            *)
NotifyAttempt(j) ==
    /\ runPc[j] \in {"notify", "retry"}
    /\ \/ /\ delivered' = [delivered EXCEPT ![j] = @ + 1]
          /\ RunGoto(j, "done") \/ RunGoto(j, NextAttempt(runPc[j]))
       \/ RunGoto(j, NextAttempt(runPc[j])) /\ UNCHANGED delivered
    /\ UNCHANGED <<jobVars, outcome, loopVars>>

RunStep(j) ==
    \/ AsyncStart(j) \/ CallbackUpdate(j) \/ CallbackUsage(j)
    \/ NotifyAttempt(j)

Next ==
    \/ \E j \in Jobs : AsyncCreate(j) \/ RunEnds(j) \/ RunStep(j) \/ Cancel(j)
    \/ cleanup \/ Tick \/ StopCleanup \/ LoopEnds

Spec == Init /\ [][Next]_vars

(* Handlers and callbacks run to their end, time passes and the cleanup     *)
(* ticker fires.  A run need not end: without a timeout it may take forever.*)
FairSpec == /\ Spec
            /\ \A j \in Jobs : WF_vars(RunStep(j))
            /\ WF_vars(Tick) /\ WF_vars(cleanup)

----------------------------------------------------------------------------
(* Properties *)

(* The status of Manager.jobs entries, the steps of the run goroutine and   *)
(* the bounds on ages and attempts.                                         *)
TypeOK ==
    /\ present \subseteq Jobs /\ hasSession \subseteq Jobs
    /\ cancelledAt \subseteq Jobs /\ hasUsage \subseteq Jobs
    /\ status \in [Jobs -> {"pending", "running", "cancelled"} \cup Outcomes]
    /\ age \in [Jobs -> 0 .. TTL + 1]
    /\ runPc \in [Jobs -> {"new", "created", "running", "callback", "usage",
                           "notify", "retry", "done"}]
    /\ outcome \in [Jobs -> Outcomes]
    /\ delivered \in [Jobs -> 0 .. MaxAttempts]
    /\ stopped \in BOOLEAN /\ looping \in BOOLEAN

Reported(j) == runPc[j] \in {"usage", "notify", "retry", "done"}

(* The verdict of a run nobody cancelled is what the job reports from the   *)
(* callback on, and no status that has been recorded changes again: not by  *)
(* a Cancel that comes too late, nor by the rest of the callback            *)
(* (job.go:112-208, async.go:92-130).  The webhook tells it no sooner, and  *)
(* at most twice, also when the answer to a delivery is lost                *)
(* (webhook.go:88-116).  What becomes of a job that was cancelled before is *)
(* CancelSticks'.                                                           *)
VerdictSticks ==
    [][/\ \A j \in present \cap present' :
            /\ Reported(j) => status'[j] = status[j]
            /\ ~Reported(j) /\ Reported(j)' /\ j \notin cancelledAt =>
                   status'[j] = outcome[j]
       /\ \A j \in Jobs : delivered'[j] # delivered[j] =>
            Reported(j) /\ delivered'[j] <= MaxAttempts]_vars

(* What DELETE /jobs/{id} answers, {"id": ..., "status": "cancelled"}       *)
(* (docs/api/endpoints.md:185-190), stays true: a cancelled job does not    *)
(* turn into something else.  The callback's Update does not look at the    *)
(* status it overwrites (job.go:112-128).                                   *)
CancelSticks ==
    [][\A j \in present \cap present' :
         status[j] = "cancelled" => status'[j] = "cancelled"]_vars

(* cleanup drops a job whose run is still going only if it was cancelled:   *)
(* otherwise a slow run would find its job gone and lose its result.        *)
NoResultDropped ==
    \A j \in Jobs \ present :
        runPc[j] # "new" => Reported(j) \/ j \in cancelledAt

(* A late Update, UpdateWithCrash or SetUsage does not bring back a job     *)
(* that cleanup has removed.                                                *)
NoResurrection ==
    [][\A j \in Jobs : runPc[j] # "new" /\ j \notin present
                         => j \notin present']_vars

(* Every job whose run ended is collected in the end, so that Manager.jobs  *)
(* does not grow for ever (while the cleanup loop lives).                   *)
JobsCollected ==
    \A j \in Jobs : runPc[j] = "callback" ~> j \notin present \/ stopped
=============================================================================
