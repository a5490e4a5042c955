--------------------------- MODULE ComposeProofs ---------------------------
(***************************************************************************)
(* Theorems about Compose, for every number of runs and DestroySession      *)
(* calls.  StackInv relates a Stack's state to its run's progress and to    *)
(* the clean-up loop; NoLeak is inductive once the types are known.         *)
(***************************************************************************)
EXTENDS Compose, TLAPS

USE DEF stackVars, runVars

EarlyLabels == {"new", "ready", "up", "health", "poll", "cleanup", "checked"}

(* A Stack is starting until its Up has tracked it; the tracked one has     *)
(* started, and it is stopping only while the clean-up loop has collected   *)
(* it: all others that stop have left the map.                              *)
StackInv ==
    /\ \A r \in Runs : pc[r] \in EarlyLabels =>
                          stackState[r] = "starting" /\ tracked # r
    /\ \A r \in Runs : tracked = r /\ stackState[r] = "stopping" =>
                          downPc["cleaner"] = "collected"
    /\ \A r \in Runs : tracked = r => stackState[r] # "starting"

ReliableOK == reliable \in BOOLEAN

PcsOK ==
    /\ project \in {"none", "partial", "unhealthy", "healthy"}
    /\ tracked \in Stacks
    /\ stackState \in [Runs -> {"starting", "running", "stopping"}]
    /\ old \subseteq Runs
    /\ pc \in [Runs -> {"new", "ready", "up", "health", "poll", "cleanup",
                        "checked", "hooks", "exec", "running", "done",
                        "failed"}]
    /\ stack \in [Runs -> Stacks]
    /\ downPc \in [Downers -> {"idle", "call", "collected", "podman",
                               "restore", "done"}]

LEMMA TypeSplit == TypeOK <=> PcsOK /\ ReliableOK
  BY DEF TypeOK, PcsOK, ReliableOK

LEMMA TypeSplitNext == TypeOK' <=> PcsOK' /\ ReliableOK'
  BY DEF TypeOK, PcsOK, ReliableOK

----------------------------------------------------------------------------
LEMMA InitType == Init => TypeOK
  <1> SUFFICES ASSUME Init PROVE TypeOK
    OBVIOUS
  <1>1. PcsOK
    BY DEF Init, PcsOK, Stacks, Downers
  <1>2. ReliableOK
    BY DEF Init, ReliableOK
  <1>3. QED
    BY <1>1, <1>2, TypeSplit

LEMMA PcsStep == PcsOK /\ [Next]_vars => PcsOK'
  <1> SUFFICES ASSUME PcsOK, [Next]_vars PROVE PcsOK'
    OBVIOUS
  <1> USE DEF PcsOK, Stacks, Downers
  <1>1. ASSUME NEW r \in Runs,
               RunRefused(r) \/ GetStack(r) \/ IsReady(r) \/ PrepareHooks(r)
                 \/ Exec(r) \/ ExecEnds(r)
        PROVE  PcsOK'
    BY <1>1 DEF RunRefused, GetStack, IsReady, PrepareHooks, Exec, ExecEnds,
       RunGoto
  <1>2. ASSUME NEW r \in Runs, UpStep(r) PROVE PcsOK'
    <2>1. CASE UpRefused(r) \/ CheckHealth(r) \/ PollHealth(r)
                 \/ HealthTimesOut(r)
      BY <2>1 DEF UpRefused, CheckHealth, PollHealth, HealthTimesOut,
         AfterUnhealthy, RunGoto
    <2>2. CASE ComposeUp(r) \/ ComposeUpFails(r)
      BY <2>2 DEF ComposeUp, ComposeUpFails, RunGoto
    <2>3. CASE CleanupProject(r)
      BY <2>3 DEF CleanupProject, RunGoto, ComposeDown, ComposeDownFails
    <2>4. CASE Track(r)
      BY <2>4 DEF Track, RunGoto
    <2>5. QED
      BY <1>2, <2>1, <2>2, <2>3, <2>4 DEF UpStep
  <1>3. ASSUME NEW d \in Downers, DownUntrack(d) PROVE PcsOK'
    BY <1>3 DEF DownUntrack, DownGoto, markStopping, untrack
  <1>4. ASSUME NEW d \in Downers, DownCommand(d) PROVE PcsOK'
    BY <1>4 DEF DownCommand, DownGoto, ComposeDown, ComposeDownFails
  <1>5. CASE CleanCollect \/ CleanRestore
    BY <1>5 DEF CleanCollect, CleanRestore, DownGoto
  <1>6. CASE Age \/ ServiceChanges
    BY <1>6 DEF Age, ServiceChanges
  <1>7. CASE UNCHANGED vars
    BY <1>7 DEF vars
  <1>8. QED
    BY <1>1, <1>2, <1>3, <1>4, <1>5, <1>6, <1>7 DEF Next, RunStep, CleanStep

LEMMA ReliableStep == ReliableOK /\ [Next]_vars => ReliableOK'
  BY DEF ReliableOK, Next, vars, RunStep, UpStep, CleanStep, RunRefused,
     GetStack, IsReady, PrepareHooks, Exec, ExecEnds, UpRefused, ComposeUp,
     ComposeUpFails, CheckHealth, PollHealth, HealthTimesOut, CleanupProject,
     Track, DownUntrack, DownCommand, CleanCollect, CleanRestore, Age,
     ServiceChanges, ComposeDown, ComposeDownFails

----------------------------------------------------------------------------
(* Which steps can disturb StackInv: the ones that change a Stack's state   *)
(* or the map.                                                              *)
LEMMA StackStep == PcsOK /\ StackInv /\ [Next]_vars => StackInv'
  <1> SUFFICES ASSUME PcsOK, StackInv, [Next]_vars PROVE StackInv'
    OBVIOUS
  <1> USE DEF PcsOK, StackInv, EarlyLabels, Stacks, Downers
  <1>1. ASSUME NEW r \in Runs, RunStep(r), ~Track(r) PROVE StackInv'
    BY <1>1 DEF RunStep, UpStep, RunRefused, GetStack, IsReady, PrepareHooks,
       Exec, ExecEnds, UpRefused, ComposeUp, ComposeUpFails, CheckHealth,
       PollHealth, HealthTimesOut, CleanupProject, AfterUnhealthy, RunGoto
  <1>2. ASSUME NEW r \in Runs, Track(r) PROVE StackInv'
    BY <1>2 DEF Track, RunGoto
  <1>3. ASSUME NEW d \in Downers, DownUntrack(d) PROVE StackInv'
    BY <1>3, StackAssumption DEF DownUntrack, DownGoto, markStopping, untrack
  <1>4. ASSUME NEW d \in Downers, DownCommand(d) PROVE StackInv'
    BY <1>4 DEF DownCommand, DownGoto
  <1>5. CASE CleanCollect
    BY <1>5 DEF CleanCollect, DownGoto
  <1>6. CASE CleanRestore
    BY <1>6 DEF CleanRestore, DownGoto, Restorable
  <1>7. CASE Age \/ ServiceChanges
    BY <1>7 DEF Age, ServiceChanges
  <1>8. CASE UNCHANGED vars
    BY <1>8 DEF vars
  <1>9. QED
    BY <1>1, <1>2, <1>3, <1>4, <1>5, <1>6, <1>7, <1>8 DEF Next, CleanStep,
       RunStep, UpStep

LEMMA LeakStep == PcsOK /\ NoLeak /\ [Next]_vars => NoLeak'
  <1> SUFFICES ASSUME PcsOK, NoLeak, [Next]_vars PROVE NoLeak'
    OBVIOUS
  <1> USE DEF PcsOK, NoLeak, Upping, Downers, Stacks
  <1>1. ASSUME NEW r \in Runs,
               RunRefused(r) \/ GetStack(r) \/ IsReady(r) \/ PrepareHooks(r)
                 \/ Exec(r) \/ ExecEnds(r) \/ UpRefused(r)
        PROVE  NoLeak'
    BY <1>1 DEF RunRefused, GetStack, IsReady, PrepareHooks, Exec, ExecEnds,
       UpRefused, RunGoto
  <1>2. ASSUME NEW r \in Runs,
               ComposeUp(r) \/ ComposeUpFails(r) \/ CheckHealth(r)
                 \/ PollHealth(r) \/ HealthTimesOut(r)
        PROVE  NoLeak'
    BY <1>2 DEF ComposeUp, ComposeUpFails, CheckHealth, PollHealth,
       HealthTimesOut, AfterUnhealthy, RunGoto
  <1>3. ASSUME NEW r \in Runs, CleanupProject(r) PROVE NoLeak'
    BY <1>3 DEF CleanupProject, ComposeDown, ComposeDownFails
  <1>4. ASSUME NEW r \in Runs, Track(r) PROVE NoLeak'
    BY <1>4, StackAssumption DEF Track
  <1>5. ASSUME NEW d \in Downers, DownUntrack(d) PROVE NoLeak'
    BY <1>5 DEF DownUntrack, DownGoto
  <1>6. ASSUME NEW d \in Downers, DownCommand(d) PROVE NoLeak'
    BY <1>6 DEF DownCommand, ComposeDown, ComposeDownFails
  <1>7. CASE CleanCollect \/ CleanRestore
    BY <1>7 DEF CleanCollect, CleanRestore, DownGoto
  <1>8. CASE Age \/ ServiceChanges
    BY <1>8 DEF Age, ServiceChanges
  <1>9. CASE UNCHANGED vars
    BY <1>9 DEF vars
  <1>10. QED
    BY <1>1, <1>2, <1>3, <1>4, <1>5, <1>6, <1>7, <1>8, <1>9 DEF Next,
       CleanStep, RunStep, UpStep

----------------------------------------------------------------------------
Inv == TypeOK /\ StackInv /\ NoLeak

(* The inductive invariant: types, the life of a Stack, and no leak.        *)
THEOREM Invariance == Spec => []Inv
  <1>1. Init => Inv
    <2> SUFFICES ASSUME Init PROVE Inv
      OBVIOUS
    <2>1. StackInv
      BY StackAssumption DEF Init, StackInv, EarlyLabels
    <2>2. NoLeak
      BY DEF Init, NoLeak
    <2>3. QED
      BY <2>1, <2>2, InitType DEF Inv
  <1>2. Inv /\ [Next]_vars => Inv'
    BY TypeSplit, TypeSplitNext, PcsStep, ReliableStep, StackStep, LeakStep
       DEF Inv
  <1>3. QED
    BY <1>1, <1>2, PTL DEF Spec

(* compose.Manager: as long as podman's downs succeed, a project that       *)
(* exists is tracked or some Up or Down in progress will deal with it.      *)
THEOREM NothingLeaks == Spec => []NoLeak
  <1>1. Inv => NoLeak
    BY DEF Inv
  <1>2. QED
    BY <1>1, Invariance, PTL

(* The stack in the map is running or about to be taken out of it, however  *)
(* the Ups, the Downs and the clean-up interleave (manager.go:311-356).     *)
THEOREM VisibleUsable == Spec => []VisibleIsUsable
  <1>1. Inv => VisibleIsUsable
    BY DEF Inv, TypeOK, StackInv, Stacks, VisibleIsUsable
  <1>2. QED
    BY <1>1, Invariance, PTL
=============================================================================
