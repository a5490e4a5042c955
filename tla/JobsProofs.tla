----------------------------- MODULE JobsProofs -----------------------------
(***************************************************************************)
(* Theorems about Jobs, for any set of jobs and any TTL.                    *)
(***************************************************************************)
EXTENDS Jobs, TLAPS

USE DEF jobVars, loopVars

(* How often the receiver may have been called when an attempt starts. *)
AttemptInv ==
    \A j \in Jobs :
        /\ runPc[j] \notin {"retry", "done"} => delivered[j] = 0
        /\ runPc[j] = "retry" => delivered[j] <= 1

(* A job is present only after Create, and before the callback has reported *)
(* only Cancel can have made it terminal.                                   *)
StatusInv ==
    \A j \in Jobs :
        /\ j \in present => runPc[j] # "new"
        /\ j \in present /\ ~Reported(j) /\ Terminal(j) => j \in cancelledAt

(* What the callback has recorded is terminal: no Cancel finds it pending   *)
(* or running.                                                              *)
VerdictInv == \A j \in present : Reported(j) => Terminal(j)

Inv == TypeOK /\ AttemptInv /\ StatusInv /\ VerdictInv /\ NoResultDropped

LEMMA InitInv == Init => Inv
  <1> SUFFICES ASSUME Init PROVE Inv
    OBVIOUS
  <1> USE DEF Init
  <1>1. TypeOK
    <2>1. /\ age \in [Jobs -> 0 .. TTL + 1]
          /\ delivered \in [Jobs -> 0 .. MaxAttempts]
      BY TTLAssumption DEF MaxAttempts
    <2>2. stopped \in BOOLEAN /\ looping \in BOOLEAN
      OBVIOUS
    <2>3. /\ present \subseteq Jobs /\ hasSession \subseteq Jobs
          /\ cancelledAt \subseteq Jobs /\ hasUsage \subseteq Jobs
      OBVIOUS
    <2>4. QED
      BY <2>1, <2>2, <2>3 DEF TypeOK, Outcomes
  <1>2. AttemptInv /\ StatusInv
    BY DEF AttemptInv, StatusInv
  <1>3. VerdictInv /\ NoResultDropped
    BY DEF VerdictInv, NoResultDropped
  <1>4. QED
    BY <1>1, <1>2, <1>3 DEF Inv

LEMMA TypeStep == TypeOK /\ AttemptInv /\ [Next]_vars => TypeOK' /\ AttemptInv'
  <1> SUFFICES ASSUME TypeOK, AttemptInv, [Next]_vars
               PROVE  TypeOK' /\ AttemptInv'
    OBVIOUS
  <1> USE TTLAssumption DEF TypeOK, AttemptInv, Outcomes, MaxAttempts, RunGoto
  <1>1. ASSUME NEW j \in Jobs, AsyncCreate(j) PROVE TypeOK' /\ AttemptInv'
    BY <1>1 DEF AsyncCreate, Create
  <1>2. ASSUME NEW j \in Jobs, AsyncStart(j) PROVE TypeOK' /\ AttemptInv'
    BY <1>2 DEF AsyncStart, Update
  <1>3. ASSUME NEW j \in Jobs, RunEnds(j) PROVE TypeOK' /\ AttemptInv'
    BY <1>3 DEF RunEnds
  <1>4. ASSUME NEW j \in Jobs, CallbackUpdate(j) PROVE TypeOK' /\ AttemptInv'
    BY <1>4 DEF CallbackUpdate, Update, UpdateWithCrash
  <1>5. ASSUME NEW j \in Jobs, CallbackUsage(j) PROVE TypeOK' /\ AttemptInv'
    BY <1>5 DEF CallbackUsage, SetUsage
  <1>6. ASSUME NEW j \in Jobs, NotifyAttempt(j) PROVE TypeOK' /\ AttemptInv'
    BY <1>6 DEF NotifyAttempt, NextAttempt
  <1>7. ASSUME NEW j \in Jobs, Cancel(j) PROVE TypeOK' /\ AttemptInv'
    BY <1>7 DEF Cancel, Cancellable
  <1>8. CASE cleanup
    BY <1>8 DEF cleanup
  <1>9. CASE Tick
    BY <1>9 DEF Tick
  <1>10. CASE StopCleanup
    BY <1>10 DEF StopCleanup
  <1>11. CASE LoopEnds
    BY <1>11 DEF LoopEnds
  <1>12. CASE UNCHANGED vars
    BY <1>12 DEF vars
  <1>13. QED
    BY <1>1, <1>2, <1>3, <1>4, <1>5, <1>6, <1>7, <1>8, <1>9, <1>10, <1>11,
       <1>12 DEF Next, RunStep

LEMMA StatusStep ==
    ASSUME Inv, [Next]_vars
    PROVE  StatusInv' /\ VerdictInv' /\ NoResultDropped'
  <1> DEFINE Goal == StatusInv' /\ VerdictInv' /\ NoResultDropped'
  <1> USE DEF Inv, TypeOK, StatusInv, VerdictInv, NoResultDropped,
          Reported, Terminal, Outcomes, RunGoto
  <1>1. ASSUME NEW j \in Jobs, AsyncCreate(j) PROVE Goal
    BY <1>1 DEF AsyncCreate, Create
  <1>2. ASSUME NEW j \in Jobs, AsyncStart(j) PROVE Goal
    BY <1>2 DEF AsyncStart, Update
  <1>3. ASSUME NEW j \in Jobs, RunEnds(j) PROVE Goal
    BY <1>3 DEF RunEnds
  <1>4. ASSUME NEW j \in Jobs, CallbackUpdate(j) PROVE Goal
    BY <1>4 DEF CallbackUpdate, Update, UpdateWithCrash
  <1>5. ASSUME NEW j \in Jobs, CallbackUsage(j) PROVE Goal
    BY <1>5 DEF CallbackUsage, SetUsage
  <1>6. ASSUME NEW j \in Jobs, NotifyAttempt(j) PROVE Goal
    BY <1>6 DEF NotifyAttempt, NextAttempt
  <1>7. ASSUME NEW j \in Jobs, Cancel(j) PROVE Goal
    BY <1>7 DEF Cancel, Cancellable
  <1>8. CASE cleanup
    BY <1>8 DEF cleanup
  <1>9. CASE Tick \/ StopCleanup \/ LoopEnds
    BY <1>9 DEF Tick, StopCleanup, LoopEnds
  <1>10. CASE UNCHANGED vars
    BY <1>10 DEF vars
  <1>11. QED
    BY <1>1, <1>2, <1>3, <1>4, <1>5, <1>6, <1>7, <1>8, <1>9, <1>10
       DEF Next, RunStep

(* Inv is inductive. *)
THEOREM Invariance == Spec => []Inv
  <1>1. Inv /\ [Next]_vars => Inv'
    BY TypeStep, StatusStep DEF Inv
  <1>2. QED
    BY <1>1, InitInv, PTL DEF Spec

(* Every job keeps its types, and the retry of Notify is the last one: the  *)
(* receiver gets a job's payload at most MaxAttempts times, even when both  *)
(* the failed attempt and its retry arrive.                                 *)
THEOREM TypeCorrect == Spec => []TypeOK
  <1>1. Inv => TypeOK
    BY DEF Inv
  <1>2. QED
    BY <1>1, Invariance, PTL

(* What the callback records of a run nobody cancelled is its outcome, and  *)
(* no status changes any more once the callback has come to it, for any     *)
(* number of jobs and of concurrent cancel requests (job.go:112-208); the   *)
(* webhook tells no verdict that is not recorded, and at most twice         *)
(* (webhook.go:88-116).                                                     *)
THEOREM VerdictIsFinal == Spec => VerdictSticks
  <1> DEFINE Same(j) == Reported(j) => status'[j] = status[j]
             First(j) == ~Reported(j) /\ Reported(j)' /\ j \notin cancelledAt =>
                            status'[j] = outcome[j]
             Told == \A j \in Jobs : delivered'[j] # delivered[j] =>
                        Reported(j) /\ delivered'[j] <= MaxAttempts
             Sticks == /\ \A j \in present \cap present' :
                            /\ Reported(j) => status'[j] = status[j]
                            /\ ~Reported(j) /\ Reported(j)' /\ j \notin cancelledAt =>
                                  status'[j] = outcome[j]
                       /\ \A j \in Jobs : delivered'[j] # delivered[j] =>
                            Reported(j) /\ delivered'[j] <= MaxAttempts
  <1>step. ASSUME Inv, [Next]_vars, NEW j \in present \cap present' PROVE Same(j) /\ First(j)
    <2> USE <1>step DEF Inv, TypeOK, Outcomes, Reported, RunGoto
    <2>create. ASSUME NEW i \in Jobs, AsyncCreate(i) PROVE Same(j) /\ First(j)
      BY <2>create DEF AsyncCreate, Create, StatusInv
    <2>start. ASSUME NEW i \in Jobs, AsyncStart(i) PROVE Same(j) /\ First(j)
      BY <2>start DEF AsyncStart, Update
    <2>callback. ASSUME NEW i \in Jobs, CallbackUpdate(i) PROVE Same(j) /\ First(j)
      BY <2>callback DEF CallbackUpdate, Update, UpdateWithCrash
    <2>cancel. ASSUME NEW i \in Jobs, Cancel(i) PROVE Same(j) /\ First(j)
      BY <2>cancel DEF Cancel, Cancellable, VerdictInv, Terminal
    <2>run. ASSUME NEW i \in Jobs, RunEnds(i) \/ CallbackUsage(i) \/ NotifyAttempt(i)
            PROVE  Same(j) /\ First(j)
      BY <2>run DEF RunEnds, CallbackUsage, SetUsage, NotifyAttempt, NextAttempt
    <2>other. CASE cleanup \/ Tick \/ StopCleanup \/ LoopEnds \/ UNCHANGED vars
      BY <2>other DEF cleanup, Tick, StopCleanup, LoopEnds, vars
    <2> QED
      BY <2>create, <2>start, <2>callback, <2>cancel, <2>run, <2>other DEF Next, RunStep
  <1>told. ASSUME Inv, [Next]_vars PROVE Told
    <2> USE <1>told DEF Inv
    <2>types. TypeOK'
      BY TypeStep
    <2>notify. ASSUME NEW i \in Jobs, NotifyAttempt(i) PROVE Told
      BY <2>notify, <2>types DEF NotifyAttempt, TypeOK, Reported, MaxAttempts
    <2>same. CASE UNCHANGED delivered
      BY <2>same
    <2>other. ASSUME Next, \A i \in Jobs : ~NotifyAttempt(i) PROVE UNCHANGED delivered
      BY <2>other DEF Next, RunStep, AsyncCreate, AsyncStart, RunEnds, CallbackUpdate,
         CallbackUsage, Cancel, cleanup, Tick, StopCleanup, LoopEnds
    <2> QED
      BY <2>notify, <2>same, <2>other DEF vars
  <1>1. Inv /\ [Next]_vars => [Sticks]_vars
    BY <1>step, <1>told
  <1>2. QED
    BY <1>1, Invariance, PTL DEF Spec, VerdictSticks

(* cleanup never takes a job away from a run that nobody cancelled.         *)
THEOREM ResultsAreKept == Spec => []NoResultDropped
  <1>1. Inv => NoResultDropped
    BY DEF Inv
  <1>2. QED
    BY <1>1, Invariance, PTL

(* No late callback of a run recreates a removed job.                       *)
THEOREM RemovedStaysRemoved == Spec => NoResurrection
  <1> DEFINE Gone == \A j \in Jobs : runPc[j] # "new" /\ j \notin present
                                       => j \notin present'
  <1>1. Inv /\ [Next]_vars => [Gone]_vars
    <2> SUFFICES ASSUME Inv, Next PROVE Gone
      OBVIOUS
    <2>1. QED
      BY DEF Next, RunStep, AsyncCreate, Create, AsyncStart, Update, RunEnds,
         CallbackUpdate, UpdateWithCrash, CallbackUsage, SetUsage,
         NotifyAttempt, Cancel, cleanup, Tick, StopCleanup, LoopEnds
  <1>2. QED
    BY <1>1, Invariance, PTL DEF Spec, NoResurrection
=============================================================================
