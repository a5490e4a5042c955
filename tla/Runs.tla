-------------------------------- MODULE Runs --------------------------------
(***************************************************************************)
(* One session of internal/session and the runs that internal/runner (Run,  *)
(* RunStream) executes in it: the session directory with its init marker    *)
(* and its flock, the container that carries the session's name, and        *)
(* DELETE /sessions/{id}.  Nothing but the flock serialises them, so every  *)
(* system call that another process can get in between is an action.        *)
(* Directories and lock files that were removed and made again are told     *)
(* apart by a number (`gen`, `inode`): a container keeps its mount and a    *)
(* process its lock on what was removed.  Podman is external.               *)
(***************************************************************************)
EXTENDS Integers

CONSTANTS
    Runs,         \* one Run or RunStream call each, all on this session
    Hooked,       \* the runs with onCreateCommand or postCreate hooks
    Destroyers,   \* one DestroySession call each
    NoRun,
    MaxCrashes    \* bound on the crashes of the server

ASSUME RunsAssumption == NoRun \notin Runs /\ Hooked \subseteq Runs
ASSUME CrashAssumption == MaxCrashes \in Nat

VARIABLES
    dir, gen,      \* the session directory exists; which one it is
    marker,        \* .stromboli-initialized exists
    inode,         \* identity of .stromboli-init.lock
    prepared,      \* the init hooks have completed in the directory
    container,     \* the run whose container bears the session's name
    alive,         \* that container is running
    pc, result,    \* per run: its progress and what it returns
    held,          \* per run: the lock file it has locked, 0 for none
    needsInit,     \* per run: the local needsInit
    mount,         \* per run: the directory its container mounts
    destPc,        \* per DestroySession call
    quiet,         \* every removal succeeded, with no run in progress
    up, crashes    \* the server is up; how often it has crashed

dirVars == <<dir, gen, marker, inode>>
conVars == <<container, alive>>
runVars == <<pc, result, held, needsInit, mount>>
srvVars == <<up, crashes>>
vars == <<dirVars, prepared, conVars, runVars, destPc, quiet, srvVars>>

InProgress(r) == pc[r] \notin {"new", "done"}

Init ==
    /\ dir = FALSE /\ gen = 1 /\ marker = FALSE /\ inode = 1
    /\ prepared = FALSE
    /\ container = NoRun /\ alive = FALSE
    /\ pc = [r \in Runs |-> "new"] /\ result = [r \in Runs |-> "none"]
    /\ held = [r \in Runs |-> 0] /\ mount = [r \in Runs |-> 0]
    /\ needsInit = [r \in Runs |-> FALSE]
    /\ destPc = [d \in Destroyers |-> "stat"]
    /\ quiet = TRUE /\ up = TRUE /\ crashes = 0

RunGoto(r, label) ==
    /\ up
    /\ pc' = [pc EXCEPT ![r] = label]
    /\ UNCHANGED <<gen, inode, destPc, quiet, srvVars>>

(* The call returns through its deferred functions, from `label` on. *)
Return(r, label, res) ==
    RunGoto(r, label) /\ result' = [result EXCEPT ![r] = res]

----------------------------------------------------------------------------
(* Run, up to the command: session.Create and prepareLifecycleHooks *)

(* Credentials, timeout or image are refused before anything is done. *)
RunRefused(r) ==
    /\ pc[r] = "new"
    /\ Return(r, "done", "failed")
    /\ UNCHANGED <<dir, marker, prepared, conVars, held, needsInit, mount>>

(* os.MkdirAll: the directory is made unless it exists. *)
RunCreate(r) ==
    /\ pc[r] = "new"
    /\ RunGoto(r, "lock")
    /\ dir' = TRUE
    /\ UNCHANGED <<marker, prepared, conVars, result, held, needsInit, mount>>

LockFree == \A q \in Runs : held[q] # inode

(* Volumes, secrets or hooks are refused; or there is no session (any more) *)
(* to take the lock in.                                                     *)
LockFails(r) ==
    /\ pc[r] = "lock"
    /\ Return(r, "done", "failed")
    /\ UNCHANGED <<dir, marker, prepared, conVars, held, needsInit, mount>>

(* TryAcquireInitLock, if there are init hooks *)
TryAcquireInitLock(r) ==
    /\ pc[r] = "lock"
    /\ r \in Hooked => dir
    /\ RunGoto(r, IF r \notin Hooked THEN "exec"
                  ELSE IF LockFree THEN "check" ELSE "contended")
    /\ held' = IF r \in Hooked /\ LockFree THEN [held EXCEPT ![r] = inode]
                                           ELSE held
    /\ UNCHANGED <<dir, marker, prepared, conVars, result, needsInit, mount>>

(* A wrong InitNeeded: no double-check under the lock. *)
InitNeededUnchecked == TRUE

InitNeeded == ~marker

(* The double-check under the lock *)
CheckInitialized(r) ==
    /\ pc[r] = "check"
    /\ RunGoto(r, "exec")
    /\ needsInit' = [needsInit EXCEPT ![r] = InitNeeded]
    /\ UNCHANGED <<dir, marker, prepared, conVars, result, held, mount>>

(* A wrong MayProceed: whoever finds the lock taken goes on without init. *)
MayProceedAlways == TRUE

MayProceed == marker

(* Another run has the lock: go on if it is done, else ErrInitInProgress. *)
CheckContended(r) ==
    /\ pc[r] = "contended"
    /\ \/ MayProceed /\ RunGoto(r, "exec") /\ UNCHANGED result
       \/ ~MayProceed /\ Return(r, "done", "busy")
    /\ UNCHANGED <<dir, marker, prepared, conVars, held, needsInit, mount>>

----------------------------------------------------------------------------
(* The command: podman run --rm --name stromboli-agent-<session> *)

(* The container starts, with the directory of that name as its home. *)
ContainerStarts(r) ==
    /\ pc[r] = "exec" /\ container = NoRun /\ dir
    /\ RunGoto(r, "running")
    /\ container' = r /\ alive' = TRUE
    /\ mount' = [mount EXCEPT ![r] = gen]
    /\ UNCHANGED <<dir, marker, prepared, result, held, needsInit>>

(* The name is taken, the directory is gone, or podman fails otherwise. *)
ContainerRefused(r) ==
    /\ pc[r] = "exec"
    /\ Return(r, "remove", "failed")
    /\ UNCHANGED <<dir, marker, prepared, conVars, held, needsInit, mount>>

(* In the container, before the main command: the init hooks.  They go on   *)
(* after a timeout or a crash of the server, until the container is removed.*)
HooksComplete ==
    /\ container # NoRun /\ alive /\ needsInit[container]
    /\ ~prepared /\ mount[container] = gen
    /\ prepared' = TRUE
    /\ UNCHANGED <<dirVars, conVars, runVars, destPc, quiet, srvVars>>

(* It exits with 0: all hooks and the main command succeeded.  --rm removes *)
(* it, or fails to.                                                         *)
ContainerSucceeds(r) ==
    /\ pc[r] = "running" /\ container = r /\ alive
    /\ needsInit[r] /\ mount[r] = gen => prepared
    /\ IF needsInit[r] THEN RunGoto(r, "mark") /\ UNCHANGED result
                       ELSE Return(r, "remove", "ok")
    /\ container' \in {r, NoRun} /\ alive' = FALSE
    /\ UNCHANGED <<dir, marker, prepared, held, needsInit, mount>>

(* A wrong AfterFailure: an error does not return before MarkInitialized. *)
AfterFailureMarks(r) == IF needsInit[r] THEN "mark" ELSE "remove"

AfterFailure(r) == "remove"

(* It exits with an error (failed) or by a signal (crashed). *)
ContainerFails(r) ==
    /\ pc[r] = "running" /\ container = r /\ alive
    /\ \E res \in {"failed", "crashed"} : Return(r, AfterFailure(r), res)
    /\ container' \in {r, NoRun} /\ alive' = FALSE
    /\ UNCHANGED <<dir, marker, prepared, held, needsInit, mount>>

(* Someone else removed the container: exit code 137, a crash. *)
ContainerKilled(r) ==
    /\ pc[r] = "running" /\ container # r
    /\ Return(r, AfterFailure(r), "crashed")
    /\ UNCHANGED <<dir, marker, prepared, conVars, held, needsInit, mount>>

ContextResult == "crashed"

(* The context ends (timeout, client gone): the podman client is killed,    *)
(* which counts as a crash; the container itself runs on.                   *)
RunTimesOut(r) ==
    /\ pc[r] = "running"
    /\ Return(r, AfterFailure(r), ContextResult)
    /\ UNCHANGED <<dir, marker, prepared, conVars, held, needsInit, mount>>

----------------------------------------------------------------------------
(* After the command *)

(* MarkInitialized: the directory of that name gets the marker, or the call *)
(* fails (it always does when the directory is gone).                       *)
MarkInitialized(r) ==
    /\ pc[r] = "mark"
    /\ \/ dir /\ Return(r, "remove", "ok") /\ marker' = TRUE
       \/ Return(r, "remove", "failed") /\ UNCHANGED marker
    /\ UNCHANGED <<dir, prepared, conVars, held, needsInit, mount>>

(* defer removeContainer: podman rm -f, by name, or its failure. *)
RemoveContainer(r) ==
    /\ pc[r] = "remove"
    /\ RunGoto(r, "unlock")
    /\ \/ container' = NoRun /\ alive' = FALSE
       \/ UNCHANGED conVars
    /\ UNCHANGED <<dir, marker, prepared, result, held, needsInit, mount>>

(* A wrong Unlock: the lock file stays open. *)
UnlockMissing(r) == held

Unlock(r) == [held EXCEPT ![r] = 0]

(* defer cleanup *)
ReleaseLock(r) ==
    /\ pc[r] = "unlock"
    /\ RunGoto(r, "done")
    /\ held' = Unlock(r)
    /\ UNCHANGED <<dir, marker, prepared, conVars, result, needsInit, mount>>

----------------------------------------------------------------------------
(* DestroySession, without a lock *)

DestGoto(d, label) ==
    /\ up
    /\ destPc' = [destPc EXCEPT ![d] = label]
    /\ UNCHANGED <<conVars, runVars, srvVars>>

DestroyStat(d) ==
    /\ destPc[d] = "stat"
    /\ DestGoto(d, IF dir THEN "remove" ELSE "notFound")
    /\ UNCHANGED <<dirVars, prepared, quiet>>

(* os.RemoveAll *)
DestroyRemove(d) ==
    /\ destPc[d] = "remove"
    /\ DestGoto(d, "done")
    /\ dir' = FALSE /\ marker' = FALSE /\ prepared' = FALSE
    /\ gen' = gen + 1 /\ inode' = inode + 1
    /\ quiet' = (quiet /\ \A r \in Runs : ~InProgress(r))

(* os.RemoveAll fails half-way: any of the files may be gone. *)
DestroyFails(d) ==
    /\ destPc[d] = "remove"
    /\ DestGoto(d, "failed")
    /\ \E kept \in BOOLEAN : marker' = (marker /\ kept)
    /\ \E kept \in BOOLEAN : prepared' = (prepared /\ kept)
    /\ inode' \in {inode, inode + 1}
    /\ quiet' = FALSE
    /\ UNCHANGED <<dir, gen>>

----------------------------------------------------------------------------
(* The server crashes: the calls are lost, the kernel drops their locks,    *)
(* the container runs on.                                                   *)
Crash ==
    /\ up /\ crashes < MaxCrashes
    /\ up' = FALSE /\ crashes' = crashes + 1
    /\ pc' = [r \in Runs |-> IF InProgress(r) THEN "done" ELSE pc[r]]
    /\ held' = [r \in Runs |-> 0]
    /\ destPc' = [d \in Destroyers |-> IF destPc[d] = "remove" THEN "failed"
                                                              ELSE destPc[d]]
    /\ UNCHANGED <<dirVars, prepared, conVars, result, needsInit, mount,
                   quiet>>

(* CleanupOrphanedContainers at startup; a failure is not fatal. *)
Startup ==
    /\ ~up
    /\ up' = TRUE
    /\ \/ container' = NoRun /\ alive' = FALSE
       \/ UNCHANGED conVars
    /\ UNCHANGED <<dirVars, prepared, runVars, destPc, quiet, crashes>>

----------------------------------------------------------------------------
RunStep(r) ==
    \/ RunRefused(r) \/ RunCreate(r) \/ LockFails(r) \/ TryAcquireInitLock(r)
    \/ CheckInitialized(r) \/ CheckContended(r)
    \/ ContainerStarts(r) \/ ContainerRefused(r) \/ ContainerSucceeds(r)
    \/ ContainerFails(r) \/ ContainerKilled(r) \/ RunTimesOut(r)
    \/ MarkInitialized(r) \/ RemoveContainer(r) \/ ReleaseLock(r)

DestroyStep(d) == DestroyStat(d) \/ DestroyRemove(d) \/ DestroyFails(d)

Next ==
    \/ \E r \in Runs : RunStep(r)
    \/ \E d \in Destroyers : DestroyStep(d)
    \/ HooksComplete \/ Crash \/ Startup

Spec == Init /\ [][Next]_vars

----------------------------------------------------------------------------
(* Properties *)

FlagsOK ==
    /\ dir \in BOOLEAN /\ marker \in BOOLEAN /\ prepared \in BOOLEAN
    /\ alive \in BOOLEAN /\ quiet \in BOOLEAN /\ up \in BOOLEAN
    /\ needsInit \in [Runs -> BOOLEAN]

NumbersOK ==
    /\ gen \in Nat /\ inode \in Nat /\ crashes \in 0 .. MaxCrashes
    /\ held \in [Runs -> Nat] /\ mount \in [Runs -> Nat]

PcsOK ==
    /\ container \in Runs \cup {NoRun}
    /\ pc \in [Runs -> {"new", "lock", "check", "contended", "exec", "running",
                        "mark", "remove", "unlock", "done"}]
    /\ result \in [Runs -> {"none", "ok", "failed", "crashed", "busy"}]
    /\ destPc \in [Destroyers -> {"stat", "remove", "notFound", "done",
                                  "failed"}]

(* The types of the session's files, the container and the calls' locals.   *)
TypeOK == FlagsOK /\ NumbersOK /\ PcsOK

(* The precondition that the comment on Destroy asks of its callers, no     *)
(* operation in progress, is `quiet`.  Under it:                            *)

(* The marker's contract (session.go:27-34), across timeouts, failures and  *)
(* crashes of the server: it is there only if the init hooks completed.     *)
MarkerMeansPrepared == quiet /\ marker => prepared

(* prepareLifecycleHooks: a run with init hooks that skips them runs its    *)
(* command only where they have completed, also when it lost the race for   *)
(* the lock.                                                                *)
NoUseBeforeInit ==
    \A r \in Hooked :
        quiet /\ pc[r] = "running" /\ ~needsInit[r] => prepared

(* No run executes the init hooks again once the marker is there, and no    *)
(* two runs execute them at once.                                           *)
HooksNotRepeated ==
    \A r \in Runs :
        quiet /\ needsInit[r] /\ pc[r] \in {"exec", "running", "mark"} =>
            /\ ~marker
            /\ \A q \in Runs : needsInit[q] /\ InProgress(q) /\ q # r =>
                                  pc[q] \in {"remove", "unlock"}

(* ErrInitInProgress cannot last: whatever way a run ends, it does not keep *)
(* the init lock.                                                           *)
LockReleased == \A r \in Runs : ~InProgress(r) => held[r] = 0
=============================================================================
