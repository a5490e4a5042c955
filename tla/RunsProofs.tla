----------------------------- MODULE RunsProofs -----------------------------
(***************************************************************************)
(* Theorems about Runs, for any number of runs and of DestroySession calls  *)
(* and any number of crashes.                                               *)
(***************************************************************************)
EXTENDS Runs, TLAPS

USE DEF dirVars, conVars, runVars, srvVars

(* The lock: nobody holds a lock file of the future, and a lock file has    *)
(* one holder.                                                              *)
LockInv ==
    /\ \A r \in Runs : held[r] <= inode
    /\ \A r, q \in Runs : held[r] = held[q] /\ held[r] # 0 => r = q
    /\ inode # 0

(* The locals of a run, as far as they do not depend on `quiet`. *)
LocalInv ==
    \A r \in Runs :
        /\ pc[r] \in {"new", "lock", "check", "contended"} => ~needsInit[r]
        /\ pc[r] = "mark" => needsInit[r]
        /\ pc[r] \in {"new", "lock", "contended", "done"} => held[r] = 0

(* While no removal has disturbed a run: who is to initialise holds the     *)
(* lock of the current directory and has not marked it, who is not found    *)
(* the marker, and a container works in the current directory.              *)
QuietInv ==
    quiet => \A r \in Runs :
        /\ pc[r] = "check" => held[r] = inode
        /\ needsInit[r] /\ pc[r] \in {"exec", "running", "mark", "remove",
                                      "unlock"} => held[r] = inode
        /\ needsInit[r] /\ pc[r] \in {"exec", "running", "mark"} => ~marker
        /\ r \in Hooked /\ pc[r] \in {"exec", "running"} /\ ~needsInit[r]
             => marker
        /\ pc[r] = "running" => mount[r] = gen
        /\ pc[r] = "mark" => prepared

Inv == TypeOK /\ LockInv /\ LocalInv /\ QuietInv /\ MarkerMeansPrepared

LEMMA InitInv == Init => Inv
  <1> SUFFICES ASSUME Init PROVE Inv
    OBVIOUS
  <1> USE RunsAssumption, CrashAssumption DEF Init
  <1>1. TypeOK
    <2>1. /\ gen \in Nat /\ inode \in Nat /\ crashes \in 0 .. MaxCrashes
          /\ held \in [Runs -> Nat] /\ mount \in [Runs -> Nat]
      OBVIOUS
    <2>2. QED
      BY <2>1 DEF TypeOK, FlagsOK, NumbersOK, PcsOK
  <1>2. LockInv
    BY DEF LockInv
  <1>3. LocalInv /\ QuietInv /\ MarkerMeansPrepared
    BY DEF LocalInv, QuietInv, MarkerMeansPrepared, InProgress
  <1>4. QED
    BY <1>1, <1>2, <1>3 DEF Inv

LEMMA FlagsStep == FlagsOK /\ [Next]_vars => FlagsOK'
  <1> SUFFICES ASSUME FlagsOK, [Next]_vars PROVE FlagsOK'
    OBVIOUS
  <1> USE RunsAssumption, CrashAssumption
      DEF FlagsOK, RunGoto, Return, InProgress, DestGoto
  <1>1. ASSUME NEW r \in Runs,
               RunRefused(r) \/ RunCreate(r) \/ LockFails(r)
        PROVE  FlagsOK'
    BY <1>1 DEF RunRefused, RunCreate, LockFails
  <1>2. ASSUME NEW r \in Runs,
               TryAcquireInitLock(r)
        PROVE  FlagsOK'
    BY <1>2 DEF TryAcquireInitLock
  <1>3. ASSUME NEW r \in Runs,
               CheckInitialized(r) \/ CheckContended(r)
        PROVE  FlagsOK'
    BY <1>3 DEF CheckInitialized, CheckContended, InitNeeded
  <1>4. ASSUME NEW r \in Runs,
               ContainerStarts(r) \/ ContainerRefused(r)
        PROVE  FlagsOK'
    BY <1>4 DEF ContainerStarts, ContainerRefused
  <1>5. ASSUME NEW r \in Runs,
               ContainerSucceeds(r)
        PROVE  FlagsOK'
    BY <1>5 DEF ContainerSucceeds
  <1>6. ASSUME NEW r \in Runs,
               ContainerFails(r) \/ ContainerKilled(r) \/ RunTimesOut(r)
        PROVE  FlagsOK'
    BY <1>6 DEF ContainerFails, ContainerKilled, RunTimesOut,
       AfterFailure, ContextResult
  <1>7. ASSUME NEW r \in Runs,
               MarkInitialized(r)
        PROVE  FlagsOK'
    BY <1>7 DEF MarkInitialized
  <1>8. ASSUME NEW r \in Runs,
               RemoveContainer(r) \/ ReleaseLock(r)
        PROVE  FlagsOK'
    BY <1>8 DEF RemoveContainer, ReleaseLock, Unlock
  <1>9. ASSUME NEW d \in Destroyers, DestroyStep(d) PROVE FlagsOK'
    <2>1. CASE DestroyStat(d)
      BY <2>1 DEF DestroyStat
    <2>2. CASE DestroyRemove(d)
      BY <2>2 DEF DestroyRemove
    <2>3. CASE DestroyFails(d)
      BY <2>3 DEF DestroyFails
    <2>4. QED
      BY <1>9, <2>1, <2>2, <2>3 DEF DestroyStep
  <1>10. CASE HooksComplete
    BY <1>10 DEF HooksComplete
  <1>11. CASE Crash
    BY <1>11 DEF Crash
  <1>12. CASE Startup
    BY <1>12 DEF Startup
  <1>13. CASE UNCHANGED vars
    BY <1>13 DEF vars
  <1>14. QED
    BY <1>1, <1>2, <1>3, <1>4, <1>5, <1>6, <1>7, <1>8, <1>9,
       <1>10, <1>11, <1>12, <1>13 DEF Next, RunStep

LEMMA NumbersStep == NumbersOK /\ [Next]_vars => NumbersOK'
  <1> SUFFICES ASSUME NumbersOK, [Next]_vars PROVE NumbersOK'
    OBVIOUS
  <1> USE RunsAssumption, CrashAssumption
      DEF NumbersOK, RunGoto, Return, InProgress, DestGoto
  <1>1. ASSUME NEW r \in Runs,
               RunRefused(r) \/ RunCreate(r) \/ LockFails(r)
        PROVE  NumbersOK'
    BY <1>1 DEF RunRefused, RunCreate, LockFails
  <1>2. ASSUME NEW r \in Runs,
               TryAcquireInitLock(r)
        PROVE  NumbersOK'
    BY <1>2 DEF TryAcquireInitLock
  <1>3. ASSUME NEW r \in Runs,
               CheckInitialized(r) \/ CheckContended(r)
        PROVE  NumbersOK'
    BY <1>3 DEF CheckInitialized, CheckContended, InitNeeded
  <1>4. ASSUME NEW r \in Runs,
               ContainerStarts(r) \/ ContainerRefused(r)
        PROVE  NumbersOK'
    BY <1>4 DEF ContainerStarts, ContainerRefused
  <1>5. ASSUME NEW r \in Runs,
               ContainerSucceeds(r)
        PROVE  NumbersOK'
    BY <1>5 DEF ContainerSucceeds
  <1>6. ASSUME NEW r \in Runs,
               ContainerFails(r) \/ ContainerKilled(r) \/ RunTimesOut(r)
        PROVE  NumbersOK'
    BY <1>6 DEF ContainerFails, ContainerKilled, RunTimesOut,
       AfterFailure, ContextResult
  <1>7. ASSUME NEW r \in Runs,
               MarkInitialized(r)
        PROVE  NumbersOK'
    BY <1>7 DEF MarkInitialized
  <1>8. ASSUME NEW r \in Runs,
               RemoveContainer(r) \/ ReleaseLock(r)
        PROVE  NumbersOK'
    BY <1>8 DEF RemoveContainer, ReleaseLock, Unlock
  <1>9. ASSUME NEW d \in Destroyers, DestroyStep(d) PROVE NumbersOK'
    <2>1. CASE DestroyStat(d)
      BY <2>1 DEF DestroyStat
    <2>2. CASE DestroyRemove(d)
      BY <2>2 DEF DestroyRemove
    <2>3. CASE DestroyFails(d)
      BY <2>3 DEF DestroyFails
    <2>4. QED
      BY <1>9, <2>1, <2>2, <2>3 DEF DestroyStep
  <1>10. CASE HooksComplete
    BY <1>10 DEF HooksComplete
  <1>11. CASE Crash
    BY <1>11 DEF Crash
  <1>12. CASE Startup
    BY <1>12 DEF Startup
  <1>13. CASE UNCHANGED vars
    BY <1>13 DEF vars
  <1>14. QED
    BY <1>1, <1>2, <1>3, <1>4, <1>5, <1>6, <1>7, <1>8, <1>9,
       <1>10, <1>11, <1>12, <1>13 DEF Next, RunStep

LEMMA PcsStep == PcsOK /\ [Next]_vars => PcsOK'
  <1> SUFFICES ASSUME PcsOK, [Next]_vars PROVE PcsOK'
    OBVIOUS
  <1> USE RunsAssumption, CrashAssumption
      DEF PcsOK, RunGoto, Return, InProgress, DestGoto
  <1>1. ASSUME NEW r \in Runs,
               RunRefused(r) \/ RunCreate(r) \/ LockFails(r)
        PROVE  PcsOK'
    BY <1>1 DEF RunRefused, RunCreate, LockFails
  <1>2. ASSUME NEW r \in Runs,
               TryAcquireInitLock(r)
        PROVE  PcsOK'
    BY <1>2 DEF TryAcquireInitLock
  <1>3. ASSUME NEW r \in Runs,
               CheckInitialized(r) \/ CheckContended(r)
        PROVE  PcsOK'
    BY <1>3 DEF CheckInitialized, CheckContended, InitNeeded
  <1>4. ASSUME NEW r \in Runs,
               ContainerStarts(r) \/ ContainerRefused(r)
        PROVE  PcsOK'
    BY <1>4 DEF ContainerStarts, ContainerRefused
  <1>5. ASSUME NEW r \in Runs,
               ContainerSucceeds(r)
        PROVE  PcsOK'
    BY <1>5 DEF ContainerSucceeds
  <1>6. ASSUME NEW r \in Runs,
               ContainerFails(r) \/ ContainerKilled(r) \/ RunTimesOut(r)
        PROVE  PcsOK'
    BY <1>6 DEF ContainerFails, ContainerKilled, RunTimesOut,
       AfterFailure, ContextResult
  <1>7. ASSUME NEW r \in Runs,
               MarkInitialized(r)
        PROVE  PcsOK'
    BY <1>7 DEF MarkInitialized
  <1>8. ASSUME NEW r \in Runs,
               RemoveContainer(r) \/ ReleaseLock(r)
        PROVE  PcsOK'
    BY <1>8 DEF RemoveContainer, ReleaseLock, Unlock
  <1>9. ASSUME NEW d \in Destroyers, DestroyStep(d) PROVE PcsOK'
    <2>1. CASE DestroyStat(d)
      BY <2>1 DEF DestroyStat
    <2>2. CASE DestroyRemove(d)
      BY <2>2 DEF DestroyRemove
    <2>3. CASE DestroyFails(d)
      BY <2>3 DEF DestroyFails
    <2>4. QED
      BY <1>9, <2>1, <2>2, <2>3 DEF DestroyStep
  <1>10. CASE HooksComplete
    BY <1>10 DEF HooksComplete
  <1>11. CASE Crash
    BY <1>11 DEF Crash
  <1>12. CASE Startup
    BY <1>12 DEF Startup
  <1>13. CASE UNCHANGED vars
    BY <1>13 DEF vars
  <1>14. QED
    BY <1>1, <1>2, <1>3, <1>4, <1>5, <1>6, <1>7, <1>8, <1>9,
       <1>10, <1>11, <1>12, <1>13 DEF Next, RunStep

LEMMA LockStep == TypeOK /\ LockInv /\ LocalInv /\ [Next]_vars
                    => LockInv' /\ LocalInv'
  <1> SUFFICES ASSUME TypeOK, LockInv, LocalInv, [Next]_vars
               PROVE  LockInv' /\ LocalInv'
    OBVIOUS
  <1> USE RunsAssumption
      DEF TypeOK, FlagsOK, NumbersOK, PcsOK, LockInv, LocalInv, RunGoto,
          Return, InProgress, DestGoto
  <1>1. ASSUME NEW r \in Runs, RunRefused(r) \/ RunCreate(r) \/ LockFails(r)
        PROVE  LockInv' /\ LocalInv'
    BY <1>1 DEF RunRefused, RunCreate, LockFails
  <1>2. ASSUME NEW r \in Runs, TryAcquireInitLock(r)
        PROVE  LockInv' /\ LocalInv'
    BY <1>2 DEF TryAcquireInitLock, LockFree
  <1>3. ASSUME NEW r \in Runs, CheckInitialized(r) \/ CheckContended(r)
        PROVE  LockInv' /\ LocalInv'
    BY <1>3 DEF CheckInitialized, CheckContended, InitNeeded
  <1>4. ASSUME NEW r \in Runs, ContainerStarts(r) \/ ContainerRefused(r)
        PROVE  LockInv' /\ LocalInv'
    BY <1>4 DEF ContainerStarts, ContainerRefused
  <1>5. ASSUME NEW r \in Runs,
               \/ ContainerSucceeds(r) \/ ContainerFails(r)
               \/ ContainerKilled(r) \/ RunTimesOut(r)
        PROVE  LockInv' /\ LocalInv'
    BY <1>5 DEF ContainerSucceeds, ContainerFails, ContainerKilled,
       RunTimesOut, AfterFailure
  <1>6. ASSUME NEW r \in Runs,
               MarkInitialized(r) \/ RemoveContainer(r) \/ ReleaseLock(r)
        PROVE  LockInv' /\ LocalInv'
    BY <1>6 DEF MarkInitialized, RemoveContainer, ReleaseLock, Unlock
  <1>7. ASSUME NEW d \in Destroyers, DestroyStep(d)
        PROVE  LockInv' /\ LocalInv'
    <2>1. CASE DestroyStat(d)
      BY <2>1 DEF DestroyStat
    <2>2. CASE DestroyRemove(d)
      BY <2>2 DEF DestroyRemove
    <2>3. CASE DestroyFails(d)
      BY <2>3 DEF DestroyFails
    <2>4. QED
      BY <1>7, <2>1, <2>2, <2>3 DEF DestroyStep
  <1>8. CASE HooksComplete \/ Startup
    BY <1>8 DEF HooksComplete, Startup
  <1>9. CASE Crash
    BY <1>9 DEF Crash
  <1>10. CASE UNCHANGED vars
    BY <1>10 DEF vars
  <1>11. QED
    BY <1>1, <1>2, <1>3, <1>4, <1>5, <1>6, <1>7, <1>8, <1>9, <1>10
       DEF Next, RunStep

LEMMA QuietStep ==
    ASSUME Inv, [Next]_vars
    PROVE  QuietInv' /\ MarkerMeansPrepared'
  <1> DEFINE Goal == QuietInv' /\ MarkerMeansPrepared'
  <1> USE RunsAssumption
      DEF Inv, TypeOK, FlagsOK, NumbersOK, PcsOK, LockInv, LocalInv,
          QuietInv, MarkerMeansPrepared, RunGoto, Return, InProgress, DestGoto
  <1>1. ASSUME NEW r \in Runs, RunRefused(r) \/ RunCreate(r) \/ LockFails(r)
        PROVE  Goal
    BY <1>1 DEF RunRefused, RunCreate, LockFails
  <1>2. ASSUME NEW r \in Runs, TryAcquireInitLock(r) PROVE Goal
    BY <1>2 DEF TryAcquireInitLock, LockFree
  <1>3. ASSUME NEW r \in Runs, CheckInitialized(r) \/ CheckContended(r)
        PROVE  Goal
    BY <1>3 DEF CheckInitialized, CheckContended, InitNeeded, MayProceed
  <1>4. ASSUME NEW r \in Runs, ContainerStarts(r) \/ ContainerRefused(r)
        PROVE  Goal
    BY <1>4 DEF ContainerStarts, ContainerRefused
  <1>5. ASSUME NEW r \in Runs, ContainerSucceeds(r) PROVE Goal
    BY <1>5 DEF ContainerSucceeds
  <1>6. ASSUME NEW r \in Runs,
               ContainerFails(r) \/ ContainerKilled(r) \/ RunTimesOut(r)
        PROVE  Goal
    BY <1>6 DEF ContainerFails, ContainerKilled, RunTimesOut, AfterFailure
  <1>7. ASSUME NEW r \in Runs, MarkInitialized(r) PROVE Goal
    BY <1>7 DEF MarkInitialized
  <1>8. ASSUME NEW r \in Runs, RemoveContainer(r) \/ ReleaseLock(r) PROVE Goal
    BY <1>8 DEF RemoveContainer, ReleaseLock, Unlock
  <1>9. ASSUME NEW d \in Destroyers, DestroyStep(d) PROVE Goal
    <2>1. CASE DestroyStat(d)
      BY <2>1 DEF DestroyStat
    <2>2. CASE DestroyRemove(d)
      BY <2>2 DEF DestroyRemove
    <2>3. CASE DestroyFails(d)
      BY <2>3 DEF DestroyFails
    <2>4. QED
      BY <1>9, <2>1, <2>2, <2>3 DEF DestroyStep
  <1>10. CASE HooksComplete \/ Startup
    BY <1>10 DEF HooksComplete, Startup
  <1>11. CASE Crash
    BY <1>11 DEF Crash
  <1>12. CASE UNCHANGED vars
    BY <1>12 DEF vars
  <1>13. QED
    BY <1>1, <1>2, <1>3, <1>4, <1>5, <1>6, <1>7, <1>8, <1>9, <1>10, <1>11,
       <1>12 DEF Next, RunStep

(* Inv is inductive: the lock has one holder, and while no removal disturbs *)
(* a run the marker, the hooks and the mounted directory belong together.   *)
THEOREM Invariance == Spec => []Inv
  <1>1. Inv /\ [Next]_vars => Inv'
    BY FlagsStep, NumbersStep, PcsStep, LockStep, QuietStep DEF Inv, TypeOK
  <1>2. QED
    BY <1>1, InitInv, PTL DEF Spec

(* The marker's contract holds for callers that respect Destroy's           *)
(* precondition, whatever fails, times out or crashes.                      *)
THEOREM MarkerIsSound == Spec => []MarkerMeansPrepared
  <1>1. Inv => MarkerMeansPrepared
    BY DEF Inv
  <1>2. QED
    BY <1>1, Invariance, PTL

(* A run with init hooks never works in a session they did not prepare.     *)
THEOREM InitBeforeUse == Spec => []NoUseBeforeInit
  <1>1. Inv => NoUseBeforeInit
    BY RunsAssumption
       DEF Inv, QuietInv, MarkerMeansPrepared, NoUseBeforeInit
  <1>2. QED
    BY <1>1, Invariance, PTL

(* The init hooks are not executed again once they are marked as done, and  *)
(* never by two runs at once: the double-check under the flock is enough.   *)
THEOREM InitOnce == Spec => []HooksNotRepeated
  <1>1. Inv => HooksNotRepeated
    BY DEF Inv, TypeOK, NumbersOK, PcsOK, LockInv, LocalInv, QuietInv,
           HooksNotRepeated, InProgress
  <1>2. QED
    BY <1>1, Invariance, PTL

(* No run keeps the init lock after it has returned.                        *)
THEOREM LocksAreReleased == Spec => []LockReleased
  <1>1. Inv => LockReleased
    BY DEF Inv, LocalInv, LockReleased, InProgress
  <1>2. QED
    BY <1>1, Invariance, PTL
=============================================================================
