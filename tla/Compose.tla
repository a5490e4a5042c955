------------------------------ MODULE Compose ------------------------------
(***************************************************************************)
(* The compose stack of one session: the entry of compose.Manager.stacks,   *)
(* the podman project behind it, the runs that internal/runner/compose.go   *)
(* executes in it, DestroySession, and the clean-up loop of main.go.        *)
(* Nothing serialises them: the manager's mutex guards the map, and podman  *)
(* commands run outside it.  A Stack object is named by the run whose Up    *)
(* made it.  Podman is external: a command takes effect at one moment, or   *)
(* fails and leaves part of its effect.  Init hooks and the marker are the  *)
(* subject of Runs; here a run's preparation succeeds or fails.             *)
(***************************************************************************)
EXTENDS Naturals

CONSTANTS
    Runs,         \* one run in a compose environment each
    Service,      \* the service that a run's request names
    Destroyers,   \* one DestroySession call each
    NoStack

ASSUME StackAssumption == NoStack \notin Runs
ASSUME CleanerAssumption == "cleaner" \notin Destroyers

VARIABLES
    project,      \* what podman has of the project
    tracked,      \* Manager.stacks[sessionID]
    stackState,   \* Stack.State of each Stack object
    old,          \* the Stacks older than compose.stack_ttl
    pc, stack,    \* per run: its progress and its local `stack`
    downPc,       \* per caller of Down
    reliable      \* no podman compose down has failed so far

stackVars == <<tracked, stackState, old>>
runVars == <<pc, stack>>
vars == <<project, stackVars, runVars, downPc, reliable>>

Stacks  == Runs \cup {NoStack}
Downers == Destroyers \cup {"cleaner"}

Init ==
    /\ project = "none"
    /\ tracked = NoStack /\ stackState = [r \in Runs |-> "starting"]
    /\ old = {}
    /\ pc = [r \in Runs |-> "new"] /\ stack = [r \in Runs |-> NoStack]
    /\ downPc = [d \in Downers |-> IF d = "cleaner" THEN "idle" ELSE "call"]
    /\ reliable = TRUE

RunGoto(r, label) ==
    /\ pc' = [pc EXCEPT ![r] = label]
    /\ UNCHANGED <<downPc, old>>

----------------------------------------------------------------------------
(* Podman *)

(* podman compose down -v: the project is gone; or the command fails and    *)
(* leaves it, or part of it.                                                *)
ComposeDown ==
    /\ project' = "none"
    /\ UNCHANGED reliable

ComposeDownFails ==
    /\ project' \in {project, "partial"}
    /\ reliable' = FALSE

(* Services become healthy, or stop being so. *)
ServiceChanges ==
    /\ project \in {"healthy", "unhealthy"}
    /\ project' \in {"healthy", "unhealthy"} \ {project}
    /\ UNCHANGED <<stackVars, runVars, downPc, reliable>>

(* checkHealth looks at the services that podman lists: none of a project   *)
(* that is gone, which counts as healthy, and any of a partial one.         *)
AllHealthy == project # "unhealthy"
SomeUnhealthy == project \in {"partial", "unhealthy"}

----------------------------------------------------------------------------
(* A run, up to its stack *)

(* No compose manager, no session, or no credentials. *)
RunRefused(r) ==
    /\ pc[r] = "new"
    /\ RunGoto(r, "failed")
    /\ UNCHANGED <<project, tracked, stackState, stack, reliable>>

GetStack(r) ==
    /\ pc[r] = "new"
    /\ RunGoto(r, IF tracked = NoStack THEN "up" ELSE "ready")
    /\ stack' = [stack EXCEPT ![r] = tracked]
    /\ UNCHANGED <<project, tracked, stackState, reliable>>

(* stack.IsReady() reads the state after the manager's lock is released. *)
IsReady(r) ==
    /\ pc[r] = "ready"
    /\ RunGoto(r, IF stackState[stack[r]] = "running" THEN "hooks" ELSE "up")
    /\ UNCHANGED <<project, tracked, stackState, stack, reliable>>

----------------------------------------------------------------------------
(* Up *)

(* The compose file or the build timeout is refused. *)
UpRefused(r) ==
    /\ pc[r] = "up"
    /\ RunGoto(r, "failed")
    /\ UNCHANGED <<project, tracked, stackState, stack, reliable>>

(* podman compose up -d --build *)
ComposeUp(r) ==
    /\ pc[r] = "up"
    /\ RunGoto(r, "health")
    /\ project' \in {"healthy", "unhealthy"}
    /\ UNCHANGED <<tracked, stackState, stack, reliable>>

ComposeUpFails(r) ==
    /\ pc[r] = "up"
    /\ RunGoto(r, "cleanup")
    /\ project' \in {project, "partial"}
    /\ UNCHANGED <<tracked, stackState, stack, reliable>>

(* A wrong AfterUnhealthy: the error is returned without cleanupProject. *)
AfterUnhealthyReturns == "failed"

AfterUnhealthy == "cleanup"

(* WaitForHealthy: an error of the first check fails, one of a later check  *)
(* is ignored.                                                              *)
CheckHealth(r) ==
    /\ pc[r] = "health"
    /\ \/ AllHealthy /\ RunGoto(r, "checked")
       \/ SomeUnhealthy /\ RunGoto(r, "poll")
       \/ RunGoto(r, AfterUnhealthy)
    /\ UNCHANGED <<project, tracked, stackState, stack, reliable>>

PollHealth(r) ==
    /\ pc[r] = "poll" /\ AllHealthy
    /\ RunGoto(r, "checked")
    /\ UNCHANGED <<project, tracked, stackState, stack, reliable>>

(* A wrong healthTimeout: polling goes on for ever. *)
HealthTimeoutNever == FALSE

healthTimeout == TRUE

HealthTimesOut(r) ==
    /\ pc[r] = "poll" /\ healthTimeout
    /\ RunGoto(r, AfterUnhealthy)
    /\ UNCHANGED <<project, tracked, stackState, stack, reliable>>

(* cleanupProject; its error is only logged. *)
CleanupProject(r) ==
    /\ pc[r] = "cleanup"
    /\ RunGoto(r, "failed")
    /\ ComposeDown \/ ComposeDownFails
    /\ UNCHANGED <<tracked, stackState, stack>>

(* The stack becomes visible, in place of any other. *)
Track(r) ==
    /\ pc[r] = "checked"
    /\ RunGoto(r, "hooks")
    /\ stackState' = [stackState EXCEPT ![r] = "running"]
    /\ tracked' = r
    /\ stack' = [stack EXCEPT ![r] = r]
    /\ UNCHANGED <<project, reliable>>

----------------------------------------------------------------------------
(* The command *)

(* prepareLifecycleHooks *)
PrepareHooks(r) ==
    /\ pc[r] = "hooks"
    /\ RunGoto(r, "exec") \/ RunGoto(r, "failed")
    /\ UNCHANGED <<project, tracked, stackState, stack, reliable>>

(* Exec, ExecStream: the map is looked at again, its Stack's state is not. *)
ExecAllowed(r) ==
    tracked # NoStack /\ Service[tracked] = Service[stack[r]]

Exec(r) ==
    /\ pc[r] = "exec"
    /\ RunGoto(r, IF ExecAllowed(r) THEN "running" ELSE "failed")
    /\ UNCHANGED <<project, tracked, stackState, stack, reliable>>

(* The command succeeds only where its container runs. *)
ExecEnds(r) ==
    /\ pc[r] = "running"
    /\ \/ project # "none" /\ RunGoto(r, "done")
       \/ RunGoto(r, "failed")
    /\ UNCHANGED <<project, tracked, stackState, stack, reliable>>

----------------------------------------------------------------------------
(* Down, called by DestroySession and by CleanupOrphanedStacks *)

DownGoto(d, label) ==
    /\ downPc' = [downPc EXCEPT ![d] = label]
    /\ UNCHANGED <<runVars, old>>

(* A wrong untrack: only the state is set, the entry stays. *)
UntrackMarksOnly == UNCHANGED tracked

untrack == tracked' = NoStack

markStopping(r) == IF r = tracked THEN "stopping" ELSE stackState[r]

(* Mark as stopping and remove from the map, under the lock. *)
DownUntrack(d) ==
    /\ downPc[d] \in {"call", "collected"}
    /\ DownGoto(d, "podman")
    /\ stackState' = [r \in Runs |-> markStopping(r)]
    /\ untrack
    /\ UNCHANGED <<project, reliable>>

(* A failure that is an exit code counts as success; any other error makes  *)
(* the clean-up restore, and DestroySession ignores it.                     *)
DownCommand(d) ==
    /\ downPc[d] = "podman"
    /\ \/ ComposeDown /\ DownGoto(d, IF d = "cleaner" THEN "idle" ELSE "done")
       \/ /\ ComposeDownFails
          /\ \/ DownGoto(d, IF d = "cleaner" THEN "idle" ELSE "done")
             \/ d = "cleaner" /\ DownGoto(d, "restore")
    /\ UNCHANGED <<tracked, stackState>>

(* The session's stack gets older than the TTL. *)
Age ==
    /\ tracked # NoStack /\ tracked \notin old
    /\ old' = old \cup {tracked}
    /\ UNCHANGED <<project, tracked, stackState, runVars, downPc, reliable>>

(* CleanupOrphanedStacks takes the stack if it is running and old. *)
CleanCollect ==
    /\ downPc["cleaner"] = "idle"
    /\ tracked # NoStack /\ tracked \in old
    /\ stackState[tracked] = "running"
    /\ DownGoto("cleaner", "collected")
    /\ stackState' = [stackState EXCEPT ![tracked] = "stopping"]
    /\ UNCHANGED <<project, tracked, reliable>>

Restorable(r) == r = tracked /\ stackState[r] = "stopping"

(* After a failed Down: back to running, if the stack is still there. *)
CleanRestore ==
    /\ downPc["cleaner"] = "restore"
    /\ DownGoto("cleaner", "idle")
    /\ stackState' = [r \in Runs |-> IF Restorable(r) THEN "running"
                                                      ELSE stackState[r]]
    /\ UNCHANGED <<project, tracked, reliable>>

----------------------------------------------------------------------------
UpStep(r) ==
    \/ UpRefused(r) \/ ComposeUp(r) \/ ComposeUpFails(r) \/ CheckHealth(r)
    \/ PollHealth(r) \/ HealthTimesOut(r) \/ CleanupProject(r) \/ Track(r)

RunStep(r) ==
    \/ RunRefused(r) \/ GetStack(r) \/ IsReady(r) \/ UpStep(r)
    \/ PrepareHooks(r) \/ Exec(r) \/ ExecEnds(r)

CleanStep ==
    \/ CleanCollect \/ DownUntrack("cleaner") \/ DownCommand("cleaner")
    \/ CleanRestore

Next ==
    \/ \E r \in Runs : RunStep(r)
    \/ \E d \in Destroyers : DownUntrack(d) \/ DownCommand(d)
    \/ CleanStep \/ Age \/ ServiceChanges

Spec == Init /\ [][Next]_vars

(* Up and the clean-up loop give every podman command a timeout, time       *)
(* passes, and the ticker fires.  DestroySession's command has no timeout,  *)
(* and a run's command may go on for ever.                                  *)
FairSpec ==
    /\ Spec
    /\ \A r \in Runs : WF_vars(UpStep(r))
    /\ WF_vars(CleanStep) /\ WF_vars(Age)

----------------------------------------------------------------------------
(* Properties *)

(* The types of the map entry, the Stack objects and the calls' progress.   *)
TypeOK ==
    /\ project \in {"none", "partial", "unhealthy", "healthy"}
    /\ tracked \in Stacks
    /\ stackState \in [Runs -> {"starting", "running", "stopping"}]
    /\ old \subseteq Runs
    /\ pc \in [Runs -> {"new", "ready", "up", "health", "poll", "cleanup",
                        "checked", "hooks", "exec", "running", "done",
                        "failed"}]
    /\ stack \in [Runs -> Stacks]
    /\ downPc \in [Downers -> {"idle", "call", "collected", "podman",
                               "restore", "done"}]
    /\ reliable \in BOOLEAN

Upping(r) == pc[r] \in {"health", "poll", "cleanup", "checked"}

(* Up, Down and the clean-up leave no project behind that nobody knows of:  *)
(* as long as podman's downs succeed, a project that exists is in the map,  *)
(* or some Up or Down in progress will deal with it, however the two-step   *)
(* Downs and the Ups interleave.                                            *)
NoLeak ==
    reliable /\ project # "none" =>
        \/ tracked # NoStack
        \/ \E r \in Runs : Upping(r)
        \/ \E d \in Downers : downPc[d] = "podman"

(* Whatever the Ups, the Downs, the clean-up and its restore do, the stack  *)
(* in the map is running, or the clean-up loop is just about to take it     *)
(* out: none is left in it that runs refuse (types.go:89, IsReady) and the   *)
(* loop skips (manager.go:321), for ever.                                   *)
VisibleIsUsable ==
    tracked # NoStack =>
        \/ stackState[tracked] = "running"
        \/ stackState[tracked] = "stopping" /\ downPc["cleaner"] = "collected"

(* A clean-up whose Down failed is retried: afterwards the session's stack  *)
(* is in the map and running, unless DestroySession was called              *)
(* (manager.go:344, "Restore state to Running so it can be retried later"). *)
CleanupRetried ==
    [][downPc["cleaner"] = "restore" /\ downPc'["cleaner"] = "idle"
         /\ (\A d \in Destroyers : downPc[d] = "call")
         => tracked' # NoStack /\ stackState'[tracked'] = "running"]_vars

(* The clean-up takes down no stack but old ones (manager.go:310,           *)
(* "CleanupOrphanedStacks removes stacks older than maxAge").               *)
OnlyOldCleaned ==
    [][downPc["cleaner"] = "collected" /\ downPc'["cleaner"] = "podman"
         => tracked \in old \cup {NoStack}]_vars

(* Up returns: health polling ends, whatever the services do.               *)
UpReturns == \A r \in Runs : pc[r] = "up" ~> pc[r] \in {"hooks", "failed"}

(* A stack past its TTL leaves the map, though Downs, Ups and failed        *)
(* clean-ups interfere: the clean-up loop never wedges on it.               *)
OldStackGoes ==
    \A r \in Runs : tracked = r /\ r \in old ~> tracked # r
=============================================================================
