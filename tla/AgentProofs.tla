---------------------------- MODULE AgentProofs ----------------------------
(***************************************************************************)
(* Theorems about Agent, for every number of Send, Subscribe and Stop calls *)
(* and every capacity of the channels.  Typing is proved part by part (the  *)
(* flags, the program counters, the lines, the subscriber channels);        *)
(* Safety rests on ExitInv (who may call markExited when) and SubInv (which *)
(* channels are registered).  The theorems about turns rest on TurnInv,     *)
(* which holds until a Stop takes the agent out of the registry: one turn   *)
(* is in flight, its result line comes last, and dispatch reads its id.     *)
(* PromiseKept is the refinement of Feed: with LifeInv, which says which    *)
(* turns an event may still name, every step is a step of Feed or none.     *)
(***************************************************************************)
EXTENDS Agent, TLAPS

USE DEF regVars, agentVars, chanVars, dispVars, pipeVars, procVars

----------------------------------------------------------------------------
(* Facts about the sequences the model is built from *)

LEMMA HeadTailType ==
    ASSUME NEW S, NEW q \in Seq(S), q # <<>>
    PROVE  Head(q) \in S /\ Tail(q) \in Seq(S) /\ Len(Tail(q)) = Len(q) - 1
  OBVIOUS

LEMMA PrefixType ==
    ASSUME NEW S, NEW q \in Seq(S), NEW k \in 0 .. Len(q)
    PROVE  SubSeq(q, 1, k) \in Seq(S)
  OBVIOUS

(* A full channel makes room for the event, so capacities are respected. *)
LEMMA PushType ==
    ASSUME NEW q \in Seq(Event), Len(q) <= SubCap, NEW ev \in Event
    PROVE  Push(q, ev) \in Seq(Event) /\ Len(Push(q, ev)) <= SubCap
  BY CapAssumption, HeadTailType DEF Push

LEMMA FanoutType ==
    ASSUME TypeOK, NEW type \in {"turn_start", "output", "turn_end", "error",
                                 "exited"}, NEW t \in Turns, fanout(type, t)
    PROVE  ChansOK'
  <1>1. [type |-> type, turn |-> t] \in Event
    BY DEF Event
  <1>2. \A s \in Subs :
            /\ Push(buf[s], [type |-> type, turn |-> t]) \in Seq(Event)
            /\ Len(Push(buf[s], [type |-> type, turn |-> t])) <= SubCap
    BY <1>1, PushType DEF TypeOK, ChansOK
  <1>3. QED
    BY <1>2 DEF TypeOK, ChansOK, fanout

----------------------------------------------------------------------------
(* Type correctness *)

LEMMA FlagsStep == TypeOK /\ [Next]_vars => FlagsOK'
  <1> SUFFICES ASSUME TypeOK, [Next]_vars PROVE FlagsOK'
    OBVIOUS
  <1> USE DEF TypeOK, FlagsOK
  <1>1. CASE CreateFails \/ Spawn \/ Register
    BY <1>1 DEF CreateFails, Spawn, Register, notCreate
  <1>2. ASSUME NEW s \in Senders, SendStep(s) PROVE FlagsOK'
    BY <1>2 DEF SendStep, SendLookup, SendBegin, SendAnnounce, SendWrite,
       SendFails, SendRollback, SendComplain, SendGoto, fanout
  <1>3. ASSUME NEW s \in Subs, SubStep(s) PROVE FlagsOK'
    BY <1>3 DEF SubStep, SubLookup, SubAdd, SubRecv, SubLeave, SubClosed,
       SubCancel, SubGoto, closeSubscribers
  <1>4. ASSUME NEW x \in Exiters, StopRemove(x) \/ StopStep(x) PROVE FlagsOK'
    BY <1>4 DEF StopRemove, StopStep, StopCloseStdin, StopExited, StopTerm,
       StopKill, Goto, notStop, sigkill
  <1>5. ASSUME NEW x \in Exiters, MarkStep(x) PROVE FlagsOK'
    BY <1>5 DEF MarkStep, MarkExited, ExitCloseDone, ExitFanout,
       ExitCloseSubs, Goto, notMark, fanout, closeDone, closeSubscribers
  <1>6. CASE WatchStep
    BY <1>6 DEF WatchStep, WatchEnd, WatchTick, WatchFanout, Goto, notMark,
       fanout
  <1>7. CASE TimePasses
    BY <1>7 DEF TimePasses
  <1>8. CASE WaitStep
    BY <1>8 DEF WaitStep, WaitReturns, WaitFlush, WaitSignal, Goto
  <1>9. CASE ForwardStep
    BY <1>9 DEF ForwardStep, ForwardStdout, ForwardStderr, forward
  <1>10. CASE DispatchStep
    BY <1>10 DEF DispatchStep, DispatchStderr, DispatchStdout,
       readCurrentTurn, DispatchFanout, completeTurn, DispatchTurnEnd,
       DispatchEnd, DispGoto, fanout, markIdleIfStarting
  <1>11. CASE ProcStep
    BY <1>11 DEF ProcStep, ProcTake, ProcOutput, ProcResult, ProcStderr,
       ProcExit, notProc
  <1>12. CASE UNCHANGED vars
    BY <1>12 DEF vars
  <1>13. QED
    BY <1>1, <1>2, <1>3, <1>4, <1>5, <1>6, <1>7, <1>8, <1>9, <1>10, <1>11,
       <1>12 DEF Next

LEMMA PcsStep == TypeOK /\ [Next]_vars => PcsOK'
  <1> SUFFICES ASSUME TypeOK, [Next]_vars PROVE PcsOK'
    OBVIOUS
  <1> USE DEF TypeOK, PcsOK, Exiters
  <1>1. CASE CreateFails \/ Spawn \/ Register
    BY <1>1 DEF CreateFails, Spawn, Register, notCreate
  <1>2. ASSUME NEW s \in Senders, SendStep(s) PROVE PcsOK'
    BY <1>2 DEF SendStep, SendLookup, SendBegin, SendAnnounce, SendWrite,
       SendFails, SendRollback, SendComplain, SendGoto
  <1>3. ASSUME NEW s \in Subs, SubStep(s) PROVE PcsOK'
    BY <1>3 DEF SubStep, SubLookup, SubAdd, SubRecv, SubLeave, SubClosed,
       SubCancel, SubGoto
  <1>4. ASSUME NEW x \in Exiters, StopRemove(x) \/ StopStep(x) PROVE PcsOK'
    BY <1>4 DEF StopRemove, StopStep, StopCloseStdin, StopExited, StopTerm,
       StopKill, Goto, notStop
  <1>5. ASSUME NEW x \in Exiters, MarkStep(x) PROVE PcsOK'
    BY <1>5 DEF MarkStep, MarkExited, ExitCloseDone, ExitFanout,
       ExitCloseSubs, Goto, notMark
  <1>6. CASE WatchStep
    BY <1>6 DEF WatchStep, WatchEnd, WatchTick, WatchFanout, Goto, notMark
  <1>7. CASE TimePasses
    BY <1>7 DEF TimePasses
  <1>8. CASE WaitStep
    BY <1>8 DEF WaitStep, WaitReturns, WaitFlush, WaitSignal, Goto
  <1>9. CASE ForwardStep
    BY <1>9 DEF ForwardStep, ForwardStdout, ForwardStderr, forward
  <1>10. CASE DispatchStep
    BY <1>10 DEF DispatchStep, DispatchStderr, DispatchStdout,
       readCurrentTurn, DispatchFanout, completeTurn, DispatchTurnEnd,
       DispatchEnd, DispGoto, markIdleIfStarting
  <1>11. CASE ProcStep
    BY <1>11 DEF ProcStep, ProcTake, ProcOutput, ProcResult, ProcStderr,
       ProcExit, notProc
  <1>12. CASE UNCHANGED vars
    BY <1>12 DEF vars
  <1>13. QED
    BY <1>1, <1>2, <1>3, <1>4, <1>5, <1>6, <1>7, <1>8, <1>9, <1>10, <1>11,
       <1>12 DEF Next

LEMMA LinesStep == TypeOK /\ [Next]_vars => LinesOK'
  <1> SUFFICES ASSUME TypeOK, [Next]_vars PROVE LinesOK'
    OBVIOUS
  <1> USE DEF TypeOK, LinesOK
  <1>1. CASE CreateFails \/ Spawn \/ Register
    BY <1>1 DEF CreateFails, Spawn, Register, notCreate
  <1>2. ASSUME NEW s \in Senders, SendStep(s) PROVE LinesOK'
    <2>1. CASE SendWrite(s) \/ SendFails(s)
      <3>1. Append(inbox, s) \in Seq(Senders)
        OBVIOUS
      <3>2. QED
        BY <2>1, <3>1 DEF SendWrite, SendFails, SendGoto
    <2>2. CASE SendBegin(s) \/ SendRollback(s)
      BY <2>2 DEF SendBegin, SendRollback, SendGoto, clearTurn, Turns
    <2>3. QED
      BY <1>2, <2>1, <2>2 DEF SendStep, SendLookup, SendAnnounce,
         SendComplain, SendGoto
  <1>3. ASSUME NEW s \in Subs, SubStep(s) PROVE LinesOK'
    BY <1>3 DEF SubStep, SubLookup, SubAdd, SubRecv, SubLeave, SubClosed,
       SubCancel, SubGoto
  <1>4. ASSUME NEW x \in Exiters, StopRemove(x) \/ StopStep(x) PROVE LinesOK'
    BY <1>4 DEF StopRemove, StopStep, StopCloseStdin, StopExited, StopTerm,
       StopKill, Goto, notStop
  <1>5. ASSUME NEW x \in Exiters, MarkStep(x) PROVE LinesOK'
    BY <1>5 DEF MarkStep, MarkExited, ExitCloseDone, ExitFanout,
       ExitCloseSubs, Goto, notMark
  <1>6. CASE WatchStep
    BY <1>6 DEF WatchStep, WatchEnd, WatchTick, WatchFanout, Goto, notMark
  <1>7. CASE TimePasses
    BY <1>7 DEF TimePasses
  <1>8. CASE WaitStep
    <2>1. CASE WaitReturns
      BY <2>1, PrefixType DEF WaitReturns, Goto
    <2>2. QED
      BY <1>8, <2>1 DEF WaitStep, WaitFlush, WaitSignal, Goto
  <1>9. CASE ForwardStep
    <2>1. \A l \in Line : Len(sink) < SinkCap =>
              Append(sink, l) \in Seq(Line) /\ Len(Append(sink, l)) <= SinkCap
      BY CapAssumption
    <2>2. CASE ForwardStdout
      <3>1. Head(pipe) \in Line /\ Tail(pipe) \in Seq(Line)
        BY <2>2, HeadTailType DEF ForwardStdout
      <3>2. \A k \in {Head(pipe).kind, "out"} :
                [kind |-> k, turn |-> Head(pipe).turn] \in Line
        BY <3>1 DEF Line
      <3>3. QED
        BY <2>1, <2>2, <3>1, <3>2 DEF ForwardStdout, forward
    <2>3. CASE ForwardStderr
      <3>1. StderrLine \in Line
        BY DEF StderrLine, Line, Turns
      <3>2. QED
        BY <2>1, <2>3, <3>1 DEF ForwardStderr, forward
    <2>4. QED
      BY <1>9, <2>2, <2>3 DEF ForwardStep
  <1>10. CASE DispatchStep
    <2>1. CASE DispatchStderr \/ DispatchStdout
      <3>1. /\ Head(sink) \in Line /\ Tail(sink) \in Seq(Line)
            /\ Len(Tail(sink)) <= SinkCap
        BY <2>1, HeadTailType, CapAssumption DEF DispatchStderr, DispatchStdout
      <3>2. QED
        BY <2>1, <3>1 DEF DispatchStderr, DispatchStdout, DispGoto
    <2>2. CASE readCurrentTurn \/ completeTurn
      BY <2>2 DEF readCurrentTurn, completeTurn, clearTurn, DispGoto, Turns
    <2>3. QED
      BY <1>10, <2>1, <2>2 DEF DispatchStep, DispatchFanout, DispatchTurnEnd,
         DispatchEnd, DispGoto
  <1>11. CASE ProcStep
    <2>1. CASE ProcTake
      BY <2>1, HeadTailType DEF ProcTake, notProc, Turns
    <2>2. CASE ProcOutput \/ ProcResult
      <3>1. \A k \in {"out", "result"} : [kind |-> k, turn |-> answering] \in Line
        BY DEF Line
      <3>2. \A l \in Line : Append(pipe, l) \in Seq(Line)
        OBVIOUS
      <3>3. CASE ProcOutput
        BY <3>1, <3>2, <3>3 DEF ProcOutput, notProc
      <3>4. CASE ProcResult
        BY <3>1, <3>2, <3>4 DEF ProcResult, notProc, Turns
      <3>5. QED
        BY <2>2, <3>3, <3>4
    <2>3. QED
      BY <1>11, <2>1, <2>2 DEF ProcStep, ProcStderr, ProcExit, notProc
  <1>12. CASE UNCHANGED vars
    BY <1>12 DEF vars
  <1>13. QED
    BY <1>1, <1>2, <1>3, <1>4, <1>5, <1>6, <1>7, <1>8, <1>9, <1>10, <1>11,
       <1>12 DEF Next

LEMMA ChansStep == TypeOK /\ [Next]_vars => ChansOK'
  <1> SUFFICES ASSUME TypeOK, [Next]_vars PROVE ChansOK'
    OBVIOUS
  <1>0. ASSUME UNCHANGED <<subscribers, closed, buf>> PROVE ChansOK'
    BY <1>0 DEF TypeOK, ChansOK
  <1>1. CASE CreateFails \/ Spawn \/ Register
    BY <1>0, <1>1 DEF CreateFails, Spawn, Register, notCreate
  <1>2. ASSUME NEW s \in Senders, SendStep(s) PROVE ChansOK'
    <2>1. s \in Turns
      BY DEF Turns
    <2>2. QED
      BY <1>0, <1>2, <2>1, FanoutType DEF SendStep, SendLookup, SendBegin,
         SendAnnounce, SendWrite, SendFails, SendRollback, SendComplain
  <1>3. ASSUME NEW s \in Subs, SubStep(s) PROVE ChansOK'
    <2>1. CASE SubRecv(s)
      <3>1. /\ Tail(buf[s]) \in Seq(Event)
            /\ Len(Tail(buf[s])) <= SubCap
        BY <2>1, HeadTailType, CapAssumption DEF SubRecv, TypeOK, ChansOK
      <3>2. QED
        BY <2>1, <3>1 DEF SubRecv, TypeOK, ChansOK
    <2>2. CASE SubAdd(s) \/ SubCancel(s)
      BY <2>2 DEF SubAdd, SubCancel, closeSubscribers, TypeOK, ChansOK
    <2>3. QED
      BY <1>0, <1>3, <2>1, <2>2 DEF SubStep, SubLookup, SubLeave, SubClosed
  <1>4. ASSUME NEW x \in Exiters, StopRemove(x) \/ StopStep(x) PROVE ChansOK'
    BY <1>0, <1>4 DEF StopRemove, StopStep, StopCloseStdin, StopExited,
       StopTerm, StopKill, notStop
  <1>5. NoTurn \in Turns
    BY DEF Turns
  <1>6. ASSUME NEW x \in Exiters, MarkStep(x) PROVE ChansOK'
    <2>1. CASE ExitCloseSubs(x)
      BY <2>1 DEF ExitCloseSubs, closeSubscribers, TypeOK, ChansOK
    <2>2. QED
      BY <1>0, <1>5, <1>6, <2>1, FanoutType DEF MarkStep, MarkExited,
         ExitCloseDone, closeDone, ExitFanout
  <1>7. CASE WatchStep
    BY <1>0, <1>5, <1>7, FanoutType DEF WatchStep, WatchEnd, WatchTick,
       WatchFanout
  <1>8. CASE TimePasses \/ WaitStep \/ ForwardStep \/ ProcStep
    BY <1>0, <1>8 DEF TimePasses, WaitStep, WaitReturns, WaitFlush,
       WaitSignal, ForwardStep, ForwardStdout, ForwardStderr, forward,
       ProcStep, ProcTake, ProcOutput, ProcResult, ProcStderr, ProcExit,
       notProc
  <1>9. CASE DispatchStep
    <2>1. lineTurn \in Turns
      BY DEF TypeOK, LinesOK
    <2>2. QED
      BY <1>0, <1>9, <2>1, FanoutType DEF DispatchStep, DispatchStderr,
         DispatchStdout, readCurrentTurn, DispatchFanout, completeTurn,
         DispatchTurnEnd, DispatchEnd
  <1>10. CASE UNCHANGED vars
    BY <1>0, <1>10 DEF vars
  <1>11. QED
    BY <1>1, <1>2, <1>3, <1>4, <1>6, <1>7, <1>8, <1>9, <1>10 DEF Next

LEMMA InitTypeOK == Init => TypeOK
  <1> SUFFICES ASSUME Init PROVE TypeOK
    OBVIOUS
  <1>1. FlagsOK
    BY DEF Init, FlagsOK
  <1>2. ChansOK
    BY CapAssumption DEF Init, ChansOK
  <1>3. PcsOK
    BY DEF Init, PcsOK, Exiters
  <1>4. LinesOK
    BY CapAssumption DEF Init, LinesOK, Turns, Line, StderrLine
  <1>5. QED
    BY <1>1, <1>2, <1>3, <1>4 DEF TypeOK

LEMMA TypeStep == TypeOK /\ [Next]_vars => TypeOK'
  BY FlagsStep, PcsStep, LinesStep, ChansStep DEF TypeOK

(* Every variable of the agent keeps its type, and no channel ever holds    *)
(* more than its capacity, however many calls run concurrently.             *)
THEOREM Typing == Spec => []TypeOK
  BY InitTypeOK, TypeStep, PTL DEF Spec

----------------------------------------------------------------------------
(* Safety of the exit path *)

MarkLabels == {"mark", "close", "fan", "subs"}

(* The wait goroutine alone closes the sink and p.exited, after the process *)
(* died and the pipes were flushed; nobody is inside markExited before.     *)
ExitInv ==
    /\ exitPc["waiter"] \in {"off", "wait", "flush", "signal", "done"}
                               \cup MarkLabels
    /\ sinkClosed <=> exitPc["waiter"] \in {"signal", "done"} \cup MarkLabels
    /\ pexited <=> exitPc["waiter"] \in {"done"} \cup MarkLabels
    /\ exitPc["waiter"] \notin {"off", "wait"} => proc = "dead"
    /\ creator = "new" => exitPc["waiter"] = "off"
    /\ sinkClosed => pipe = <<>> /\ errPipe = 0
    /\ \A x \in Exiters : exitPc[x] \in MarkLabels => pexited
    /\ status = "exited" \/ done => pexited

(* A registered channel is open, and a channel not yet registered has never *)
(* been closed.                                                             *)
SubInv ==
    /\ subscribers \cap closed = {}
    /\ \A s \in Subs : subPc[s] \in {"call", "add"}
                         => s \notin subscribers \cup closed

SafeInv == TypeOK /\ ExitInv /\ SubInv /\ NoPanic

LEMMA ExitStep == TypeOK /\ ExitInv /\ [Next]_vars => ExitInv'
  <1> SUFFICES ASSUME TypeOK, ExitInv, [Next]_vars PROVE ExitInv'
    OBVIOUS
  <1> USE DEF TypeOK, FlagsOK, PcsOK, ExitInv, MarkLabels, Exiters
  <1>1. CASE CreateFails \/ Spawn \/ Register
    BY <1>1, StoppersAssumption DEF CreateFails, Spawn, Register, notCreate
  <1>2. ASSUME NEW s \in Senders, SendStep(s) PROVE ExitInv'
    BY <1>2 DEF SendStep, SendLookup, SendBegin, SendAnnounce, SendWrite,
       SendFails, SendRollback, SendComplain, SendGoto
  <1>3. ASSUME NEW s \in Subs, SubStep(s) PROVE ExitInv'
    BY <1>3 DEF SubStep, SubLookup, SubAdd, SubRecv, SubLeave, SubClosed,
       SubCancel, SubGoto
  <1>4. ASSUME NEW x \in Exiters, StopRemove(x) \/ StopStep(x) PROVE ExitInv'
    BY <1>4 DEF StopRemove, StopStep, StopCloseStdin, StopExited, StopTerm,
       StopKill, Goto, notStop
  <1>5. ASSUME NEW x \in Exiters, MarkStep(x) PROVE ExitInv'
    BY <1>5 DEF MarkStep, MarkExited, ExitCloseDone, ExitFanout,
       ExitCloseSubs, Goto, notMark, closeDone
  <1>6. CASE WatchStep
    BY <1>6 DEF WatchStep, WatchEnd, WatchTick, WatchFanout, Goto, notMark
  <1>7. CASE TimePasses
    BY <1>7 DEF TimePasses
  <1>8. CASE WaitStep
    BY <1>8 DEF WaitStep, WaitReturns, WaitFlush, WaitSignal, Goto, pipesDone
  <1>9. CASE ForwardStep
    BY <1>9 DEF ForwardStep, ForwardStdout, ForwardStderr, forward
  <1>10. CASE DispatchStep
    BY <1>10 DEF DispatchStep, DispatchStderr, DispatchStdout,
       readCurrentTurn, DispatchFanout, completeTurn, DispatchTurnEnd,
       DispatchEnd, DispGoto, markIdleIfStarting
  <1>11. CASE ProcStep
    BY <1>11 DEF ProcStep, ProcTake, ProcOutput, ProcResult, ProcStderr,
       ProcExit, notProc
  <1>12. CASE UNCHANGED vars
    BY <1>12 DEF vars
  <1>13. QED
    BY <1>1, <1>2, <1>3, <1>4, <1>5, <1>6, <1>7, <1>8, <1>9, <1>10, <1>11,
       <1>12 DEF Next

(* closeSubscribers is only ever given registered channels, and fanout only *)
(* reaches registered channels: neither can hit a closed one.               *)
LEMMA SubStepInv ==
    ASSUME TypeOK, ExitInv, SubInv, NoPanic, [Next]_vars
    PROVE  SubInv' /\ NoPanic'
  <1> USE DEF NoPanic
  <1>0. ASSUME UNCHANGED <<chanVars, subPc>> PROVE SubInv' /\ NoPanic'
    BY <1>0 DEF SubInv
  <1>1. ASSUME NEW type, NEW t, fanout(type, t), UNCHANGED subPc
        PROVE  SubInv' /\ NoPanic'
    BY <1>1 DEF fanout, SubInv
  <1>2. CASE CreateFails \/ Spawn \/ Register
    BY <1>0, <1>2 DEF CreateFails, Spawn, Register, notCreate
  <1>3. ASSUME NEW s \in Senders, SendStep(s) PROVE SubInv' /\ NoPanic'
    BY <1>0, <1>1, <1>3 DEF SendStep, SendLookup, SendBegin, SendAnnounce,
       SendWrite, SendFails, SendRollback, SendComplain, SendGoto
  <1>4. ASSUME NEW s \in Subs, SubStep(s) PROVE SubInv' /\ NoPanic'
    <2> USE DEF TypeOK, PcsOK, SubInv, SubGoto
    <2>1. CASE SubAdd(s)
      BY <2>1 DEF SubAdd
    <2>2. CASE SubCancel(s)
      BY <2>2 DEF SubCancel, closeSubscribers
    <2>3. CASE SubLookup(s)
      BY <2>3 DEF SubLookup
    <2>4. CASE SubRecv(s) \/ SubLeave(s) \/ SubClosed(s)
      BY <2>4 DEF SubRecv, SubLeave, SubClosed
    <2>5. QED
      BY <1>4, <2>1, <2>2, <2>3, <2>4 DEF SubStep
  <1>5. ASSUME NEW x \in Exiters, StopRemove(x) \/ StopStep(x)
        PROVE  SubInv' /\ NoPanic'
    BY <1>0, <1>5 DEF StopRemove, StopStep, StopCloseStdin, StopExited,
       StopTerm, StopKill, Goto, notStop
  <1>6. ASSUME NEW x \in Exiters, MarkStep(x) PROVE SubInv' /\ NoPanic'
    <2>1. CASE ExitCloseSubs(x)
      BY <2>1 DEF ExitCloseSubs, closeSubscribers, Goto, SubInv
    <2>2. QED
      BY <1>0, <1>1, <1>6, <2>1 DEF MarkStep, MarkExited, ExitCloseDone,
         closeDone, ExitFanout, Goto
  <1>7. CASE WatchStep
    BY <1>0, <1>1, <1>7 DEF WatchStep, WatchEnd, WatchTick, WatchFanout, Goto
  <1>8. CASE TimePasses \/ WaitStep \/ ProcStep
    BY <1>0, <1>8 DEF TimePasses, WaitStep, WaitReturns, WaitFlush,
       WaitSignal, Goto, ProcStep, ProcTake, ProcOutput, ProcResult,
       ProcStderr, ProcExit, notProc
  <1>9. CASE ForwardStep
    BY <1>9 DEF ForwardStep, ForwardStdout, ForwardStderr, forward, ExitInv,
       SubInv, TypeOK, FlagsOK
  <1>10. CASE DispatchStep
    BY <1>0, <1>1, <1>10 DEF DispatchStep, DispatchStderr, DispatchStdout,
       readCurrentTurn, DispatchFanout, completeTurn, DispatchTurnEnd,
       DispatchEnd, DispGoto
  <1>11. CASE UNCHANGED vars
    BY <1>0, <1>11 DEF vars
  <1>12. QED
    BY <1>2, <1>3, <1>4, <1>5, <1>6, <1>7, <1>8, <1>9, <1>10, <1>11 DEF Next

(* SafeInv is inductive. *)
THEOREM Safety == Spec => []SafeInv
  <1>1. Init => SafeInv
    <2> SUFFICES ASSUME Init PROVE SafeInv
      OBVIOUS
    <2>1. ExitInv
      BY StoppersAssumption DEF Init, ExitInv, MarkLabels, Exiters
    <2>2. SubInv /\ NoPanic
      BY DEF Init, SubInv, NoPanic
    <2>3. QED
      BY <2>1, <2>2, InitTypeOK DEF SafeInv
  <1>2. SafeInv /\ [Next]_vars => SafeInv'
    BY TypeStep, ExitStep, SubStepInv DEF SafeInv
  <1>3. QED
    BY <1>1, <1>2, PTL DEF Spec

(* Whatever the interleaving of Send, Subscribe, cancel, Stop, the idle     *)
(* watchdog and the exit of the process, no goroutine sends on or closes a  *)
(* closed channel.                                                          *)
THEOREM NeverPanics == Spec => []NoPanic
  <1>1. SafeInv => NoPanic
    BY DEF SafeInv
  <1>2. QED
    BY <1>1, Safety, PTL

(* An agent reported exited has no process, and none of its output is still *)
(* on the way to the sink.                                                  *)
THEOREM ExitedIsReaped == Spec => []ExitedMeansReaped
  <1>1. SafeInv => ExitedMeansReaped
    BY DEF SafeInv, ExitInv, MarkLabels, ExitedMeansReaped, TypeOK, FlagsOK
  <1>2. QED
    BY <1>1, Safety, PTL

----------------------------------------------------------------------------
(* Turns *)

(* Send s is between begin and the write of its prompt. *)
Sending(s) == sendPc[s] \in {"announce", "write", "rollback"}

(* The prompt of s, or a line of its answer, is on the way to completeTurn. *)
Downstream(s) ==
    \/ \E i \in DOMAIN inbox : inbox[i] = s
    \/ answering = s
    \/ \E i \in DOMAIN pipe : pipe[i].turn = s
    \/ \E i \in DOMAIN sink : sink[i].turn = s
    \/ dispPc \in {"read", "output", "complete"} /\ line.turn = s

ProcQuiet == answering = NoTurn /\ inbox = <<>>
PipeQuiet == \A i \in DOMAIN pipe : pipe[i].turn = NoTurn
SinkQuiet == \A i \in DOMAIN sink : sink[i].turn = NoTurn

(* Only the end of the process closes stdin of an agent that is registered. *)
StdinInv ==
    /\ creator = "new" => proc = "none"
    /\ stdinClosed => proc = "dead"
    /\ \A x \in Exiters : exitPc[x] # "closeStdin"

(* There is one turn in flight, the current one, and its Send is either at  *)
(* it or has written the prompt.                                            *)
FlightInv ==
    \A s \in Senders :
        /\ Downstream(s) => sendPc[s] = "sent"
        /\ Sending(s) \/ Downstream(s) => turn = s /\ status \in {"generating", "exited"}

(* A result line has nothing of any turn behind it. *)
ResultInv ==
    /\ Len(inbox) <= 1
    /\ answering # NoTurn => inbox = <<>>
    /\ \A i \in DOMAIN pipe : pipe[i].kind = "result" =>
         /\ pipe[i].turn # NoTurn /\ ProcQuiet
         /\ \A j \in DOMAIN pipe : j > i => pipe[j].turn = NoTurn
    /\ \A i \in DOMAIN sink : sink[i].kind = "result" =>
         /\ sink[i].turn # NoTurn /\ ProcQuiet /\ PipeQuiet
         /\ \A j \in DOMAIN sink : j > i => sink[j].turn = NoTurn
    /\ dispPc \in {"read", "output", "complete"} /\ line.kind = "result" =>
         line.turn # NoTurn /\ ProcQuiet /\ PipeQuiet /\ SinkQuiet

(* What dispatch has read of the turn while it handles a line. *)
DispInv ==
    /\ dispPc = "error" => line.kind = "stderr"
    /\ dispPc \in {"complete", "end"} => line.kind = "result"
    /\ dispPc = "output" /\ line.turn # NoTurn => lineTurn = line.turn
    /\ dispPc = "end" => /\ lineTurn = line.turn /\ lineTurn \in Senders
                         /\ sendPc[lineTurn] = "sent" /\ turn # lineTurn

EndsLast(q) ==
    \A i, j \in DOMAIN q : q[i].type = "turn_end" /\ q[j].turn = q[i].turn => j <= i

AllOver(q) == \A i \in DOMAIN q : q[i].type = "turn_end" => Over(q[i].turn)

EndInv == \A s \in Subs : EndsLast(buf[s]) /\ AllOver(buf[s])

TurnInv == Serving => StdinInv /\ FlightInv /\ ResultInv /\ DispInv /\ EndInv

----------------------------------------------------------------------------
(* Sequences, element by element *)

LEMMA AppendElements ==
    ASSUME NEW S, NEW q \in Seq(S), NEW e
    PROVE  /\ DOMAIN Append(q, e) = 1 .. Len(q) + 1 /\ DOMAIN q = 1 .. Len(q) /\ Len(q) \in Nat
           /\ \A i \in DOMAIN q : Append(q, e)[i] = q[i]
           /\ Append(q, e)[Len(q) + 1] = e
           /\ \A i \in DOMAIN Append(q, e) : i \in DOMAIN q \/ i = Len(q) + 1
  OBVIOUS

LEMMA TailElements ==
    ASSUME NEW S, NEW q \in Seq(S), q # <<>>
    PROVE  /\ DOMAIN q = 1 .. Len(q) /\ Len(q) \in Nat \ {0} /\ Head(q) = q[1] /\ 1 \in DOMAIN q
           /\ DOMAIN Tail(q) = 1 .. Len(q) - 1
           /\ \A i \in DOMAIN Tail(q) : i + 1 \in DOMAIN q /\ Tail(q)[i] = q[i + 1]
  OBVIOUS

LEMMA PrefixElements ==
    ASSUME NEW S, NEW q \in Seq(S), NEW k \in 0 .. Len(q)
    PROVE  /\ DOMAIN q = 1 .. Len(q) /\ DOMAIN SubSeq(q, 1, k) = 1 .. k
           /\ \A i \in DOMAIN SubSeq(q, 1, k) : i \in DOMAIN q /\ SubSeq(q, 1, k)[i] = q[i]
  OBVIOUS

(* What a push does to the order of the events in a channel. *)
LEMMA PushElements ==
    ASSUME NEW q \in Seq(Event), NEW ev, Len(q) <= SubCap
    PROVE  LET p == Push(q, ev)
               d == IF Len(q) < SubCap THEN 0 ELSE 1
           IN  /\ DOMAIN q = 1 .. Len(q) /\ Len(q) \in Nat /\ DOMAIN p = 1 .. Len(q) + 1 - d
               /\ \A i \in DOMAIN p : i < Len(q) + 1 - d => i + d \in DOMAIN q /\ p[i] = q[i + d]
               /\ p[Len(q) + 1 - d] = ev
  <1>1. CASE Len(q) < SubCap
    BY <1>1, AppendElements DEF Push
  <1>2. CASE ~(Len(q) < SubCap)
    <2>1. q # <<>>
      BY <1>2, CapAssumption
    <2>2. Tail(q) \in Seq(Event) /\ Len(Tail(q)) = Len(q) - 1
      BY <2>1
    <2>3. Push(q, ev) = Append(Tail(q), ev)
      BY <1>2 DEF Push
    <2> DEFINE t == Tail(q)
    <2>4. /\ DOMAIN q = 1 .. Len(q) /\ Len(q) \in Nat \ {0} /\ DOMAIN t = 1 .. Len(q) - 1
          /\ \A i \in DOMAIN t : i + 1 \in DOMAIN q /\ t[i] = q[i + 1]
      BY <2>1, TailElements
    <2> HIDE DEF t
    <2>5. /\ DOMAIN Append(t, ev) = 1 .. Len(t) + 1 /\ DOMAIN t = 1 .. Len(t)
          /\ \A i \in DOMAIN t : Append(t, ev)[i] = t[i]
          /\ Append(t, ev)[Len(t) + 1] = ev
      BY <2>2, AppendElements DEF t
    <2>6. Len(t) = Len(q) - 1
      BY <2>2 DEF t
    <2>7. Push(q, ev) = Append(t, ev)
      BY <2>3 DEF t
    <2> DEFINE a == Append(t, ev)
               n == Len(q)
    <2> HIDE DEF a, n
    <2>8. n \in Nat \ {0} /\ DOMAIN q = 1 .. n /\ DOMAIN t = 1 .. n - 1
      BY <2>4 DEF n
    <2>9. DOMAIN a = 1 .. n /\ a[n] = ev
      <3>1. DOMAIN a = 1 .. (n - 1) + 1 /\ a[(n - 1) + 1] = ev
        BY <2>5, <2>6 DEF a, n
      <3> QED
        BY <3>1, <2>8
    <2>10. \A i \in DOMAIN t : i + 1 \in DOMAIN q /\ a[i] = q[i + 1]
      BY <2>4, <2>5 DEF a
    <2>11. \A i \in DOMAIN a : i < n => i \in DOMAIN t
      BY <2>8, <2>9
    <2>12. /\ DOMAIN a = 1 .. n + 1 - 1 /\ a[n + 1 - 1] = ev
           /\ \A i \in DOMAIN a : i < n + 1 - 1 => i + 1 \in DOMAIN q /\ a[i] = q[i + 1]
      BY <2>8, <2>9, <2>10, <2>11
    <2> QED
      BY <1>2, <2>7, <2>8, <2>12 DEF a, n
  <1> QED
    BY <1>1, <1>2

LEMMA PushEnds ==
    ASSUME NEW q \in Seq(Event), Len(q) <= SubCap, NEW ev \in Event, EndsLast(q),
           \A i \in DOMAIN q : q[i].type = "turn_end" => q[i].turn # ev.turn
    PROVE  /\ EndsLast(Push(q, ev))
           /\ \A i \in DOMAIN Push(q, ev) :
                Push(q, ev)[i] = ev \/ \E j \in DOMAIN q : Push(q, ev)[i] = q[j]
  <1> DEFINE p == Push(q, ev)
             d == IF Len(q) < SubCap THEN 0 ELSE 1
             n == Len(q) + 1 - d
  <1>1. /\ DOMAIN q = 1 .. Len(q) /\ Len(q) \in Nat /\ DOMAIN p = 1 .. n
        /\ \A i \in DOMAIN p : i < n => i + d \in DOMAIN q /\ p[i] = q[i + d]
        /\ p[n] = ev
    BY PushElements
  <1>2. d \in {0, 1} /\ n \in Nat
    BY <1>1
  <1> HIDE DEF p, d, n
  <1>3. \A i \in DOMAIN p : i \in Int /\ (i < n \/ i = n)
    BY <1>1, <1>2
  <1>4. EndsLast(p)
    <2> SUFFICES ASSUME NEW i \in DOMAIN p, NEW j \in DOMAIN p,
                        p[i].type = "turn_end", p[j].turn = p[i].turn
                 PROVE  j <= i
      BY DEF EndsLast
    <2>1. CASE i = n
      BY <2>1, <1>2, <1>3
    <2>2. CASE i < n /\ j = n
      BY <2>2, <1>1
    <2>3. CASE i < n /\ j < n
      <3>1. /\ i + d \in DOMAIN q /\ p[i] = q[i + d]
            /\ j + d \in DOMAIN q /\ p[j] = q[j + d]
        BY <2>3, <1>1
      <3>2. j + d <= i + d
        BY <3>1 DEF EndsLast
      <3> QED
        BY <3>2, <1>2, <1>3
    <2> QED
      BY <2>1, <2>2, <2>3, <1>3
  <1>5. \A i \in DOMAIN p : p[i] = ev \/ \E j \in DOMAIN q : p[i] = q[j]
    BY <1>1, <1>3
  <1> QED
    BY <1>4, <1>5 DEF p

----------------------------------------------------------------------------
(* Which steps touch the turn *)

turnVars == <<turn, sendPc, dispVars, sink, answering, inbox, pipe>>

(* Once a Stop has taken the agent out of the registry, it stays out. *)
LEMMA ServingBefore == [Next]_vars /\ Serving' => Serving
  <1> SUFFICES ASSUME [Next]_vars, Serving' PROVE Serving
    OBVIOUS
  <1>1. CASE UNCHANGED regVars
    BY <1>1 DEF Serving
  <1>2. CASE CreateFails \/ Spawn \/ Register
    BY <1>2 DEF CreateFails, Spawn, Register, Serving
  <1>3. ASSUME NEW x \in Exiters, StopRemove(x) PROVE Serving
    BY <1>3 DEF StopRemove, Goto, Serving
  <1>4. CASE \E s \in Senders : SendStep(s)
    BY <1>1, <1>4 DEF SendStep, SendLookup, SendBegin, SendAnnounce, SendWrite,
       SendFails, SendRollback, SendComplain, SendGoto
  <1>5. CASE \E s \in Subs : SubStep(s)
    BY <1>1, <1>5 DEF SubStep, SubLookup, SubAdd, SubRecv, SubLeave, SubClosed,
       SubCancel, SubGoto
  <1>6. ASSUME NEW x \in Exiters, StopStep(x) \/ MarkStep(x) PROVE Serving
    BY <1>1, <1>6 DEF StopStep, StopCloseStdin, StopExited, StopTerm, StopKill,
       Goto, notStop, MarkStep, MarkExited, ExitCloseDone, ExitFanout,
       ExitCloseSubs, notMark
  <1>7. CASE WatchStep \/ TimePasses \/ WaitStep
    BY <1>1, <1>7 DEF WatchStep, WatchEnd, WatchTick, WatchFanout, Goto, notMark,
       TimePasses, WaitStep, WaitReturns, WaitFlush, WaitSignal
  <1>8. CASE ForwardStep \/ DispatchStep \/ ProcStep
    BY <1>1, <1>8 DEF ForwardStep, ForwardStdout, ForwardStderr, forward,
       DispatchStep, DispatchStderr, DispatchStdout, readCurrentTurn,
       DispatchFanout, completeTurn, DispatchTurnEnd, DispatchEnd, DispGoto,
       ProcStep, ProcTake, ProcOutput, ProcResult, ProcStderr, ProcExit, notProc
  <1> QED
    BY <1>1, <1>2, <1>3, <1>4, <1>5, <1>6, <1>7, <1>8 DEF Next, vars

(* The steps of the subscribers, of Stop, of markExited and of the watchdog *)
(* leave the turn alone, except that markExited overwrites the status.      *)
LEMMA TurnFrame ==
    ASSUME [Next]_vars
    PROVE  \/ UNCHANGED turnVars /\ status' \in {status, "exited"}
           \/ Register \/ WaitReturns \/ ForwardStep \/ DispatchStep
           \/ \E s \in Senders : SendStep(s)
           \/ ProcTake \/ ProcOutput \/ ProcResult
  <1> DEFINE Frame == UNCHANGED turnVars /\ status' \in {status, "exited"}
  <1> USE DEF turnVars
  <1>1. CASE CreateFails \/ Spawn
    BY <1>1 DEF CreateFails, Spawn, notCreate
  <1>2. ASSUME NEW s \in Subs, SubStep(s) PROVE Frame
    BY <1>2 DEF SubStep, SubLookup, SubAdd, SubRecv, SubLeave, SubClosed,
       SubCancel, SubGoto
  <1>3. ASSUME NEW x \in Exiters, StopRemove(x) \/ StopStep(x) PROVE Frame
    BY <1>3 DEF StopRemove, StopStep, StopCloseStdin, StopExited, StopTerm,
       StopKill, Goto, notStop
  <1>4. ASSUME NEW x \in Exiters, MarkStep(x) PROVE Frame
    BY <1>4 DEF MarkStep, MarkExited, ExitCloseDone, ExitFanout, ExitCloseSubs,
       Goto, notMark
  <1>5. CASE WatchStep \/ TimePasses \/ WaitFlush \/ WaitSignal
    BY <1>5 DEF WatchStep, WatchEnd, WatchTick, WatchFanout, Goto, notMark,
       TimePasses, WaitFlush, WaitSignal
  <1>6. CASE ProcStderr \/ ProcExit
    BY <1>6 DEF ProcStderr, ProcExit, notProc
  <1>7. CASE UNCHANGED vars
    BY <1>7 DEF vars
  <1> QED
    BY <1>1, <1>2, <1>3, <1>4, <1>5, <1>6, <1>7 DEF Next, WaitStep, ProcStep

(* Nothing closes stdin of a live process as long as no Stop has begun. *)
LEMMA StdinStep ==
    ASSUME TypeOK, ExitInv, StdinInv, [Next]_vars, Serving'
    PROVE  StdinInv'
  <1> USE DEF TypeOK, FlagsOK, PcsOK, StdinInv, Exiters
  <1>1. CASE UNCHANGED <<creator, stdinClosed, proc, exitPc>>
    BY <1>1
  <1>2. CASE CreateFails \/ Spawn \/ Register
    BY <1>2, StoppersAssumption DEF CreateFails, Spawn, Register, notCreate
  <1>3. ASSUME NEW x \in Exiters, StopRemove(x) PROVE StdinInv'
    BY <1>3 DEF StopRemove, Goto, Serving, notStop
  <1>4. CASE \E s \in Senders : SendStep(s)
    BY <1>1, <1>4 DEF SendStep, SendLookup, SendBegin, SendAnnounce, SendWrite,
       SendFails, SendRollback, SendComplain, SendGoto
  <1>5. CASE \E s \in Subs : SubStep(s)
    BY <1>1, <1>5 DEF SubStep, SubLookup, SubAdd, SubRecv, SubLeave, SubClosed,
       SubCancel, SubGoto
  <1>6. ASSUME NEW x \in Exiters, StopStep(x) PROVE StdinInv'
    BY <1>6 DEF StopStep, StopCloseStdin, StopExited, StopTerm, StopKill,
       Goto, notStop
  <1>7. ASSUME NEW x \in Exiters, MarkStep(x) PROVE StdinInv'
    BY <1>7 DEF MarkStep, MarkExited, ExitCloseDone, ExitFanout,
       ExitCloseSubs, notMark, Goto
  <1>8. CASE WatchStep \/ TimePasses
    BY <1>8 DEF WatchStep, WatchEnd, WatchTick, WatchFanout, Goto, notMark,
       TimePasses
  <1>9. CASE WaitStep
    BY <1>9 DEF WaitStep, WaitReturns, WaitFlush, WaitSignal, Goto
  <1>10. CASE ForwardStep \/ DispatchStep
    BY <1>1, <1>10 DEF ForwardStep, ForwardStdout, ForwardStderr, forward,
       DispatchStep, DispatchStderr, DispatchStdout, readCurrentTurn,
       DispatchFanout, completeTurn, DispatchTurnEnd, DispatchEnd, DispGoto
  <1>11. CASE ProcStep
    BY <1>11 DEF ProcStep, ProcTake, ProcOutput, ProcResult, ProcStderr,
       ProcExit, notProc
  <1> QED
    BY <1>1, <1>2, <1>3, <1>4, <1>5, <1>6, <1>7, <1>8, <1>9, <1>10, <1>11
       DEF Next, vars

----------------------------------------------------------------------------
(* What is in flight *)

CoreInv == FlightInv /\ ResultInv /\ DispInv

LEMMA LineTypes ==
    ASSUME TypeOK
    PROVE  /\ \A i \in DOMAIN pipe : pipe[i] \in Line /\ pipe[i].turn \in Turns
           /\ \A i \in DOMAIN sink : sink[i] \in Line /\ sink[i].turn \in Turns
           /\ \A i \in DOMAIN inbox : inbox[i] \in Senders
           /\ line.turn \in Turns /\ answering \in Turns
           /\ inbox # <<>> => 1 \in DOMAIN inbox /\ inbox[1] \in Senders
  <1>1. /\ pipe \in Seq(Line) /\ sink \in Seq(Line) /\ inbox \in Seq(Senders)
        /\ line \in Line /\ answering \in Turns
    BY DEF TypeOK, LinesOK
  <1>2. \A l \in Line : l.turn \in Turns
    BY DEF Line
  <1>3. \A i \in DOMAIN pipe : pipe[i] \in Line
    BY <1>1
  <1>4. \A i \in DOMAIN sink : sink[i] \in Line
    BY <1>1
  <1>5. \A i \in DOMAIN inbox : inbox[i] \in Senders
    BY <1>1
  <1>6. inbox # <<>> => 1 \in DOMAIN inbox
    BY <1>1
  <1> QED
    BY <1>1, <1>2, <1>3, <1>4, <1>5, <1>6

(* With nothing in flight, no line belongs to a turn. *)
LEMMA NothingDownstream ==
    ASSUME TypeOK, \A t \in Senders : ~Downstream(t)
    PROVE  /\ ProcQuiet /\ PipeQuiet /\ SinkQuiet
           /\ dispPc \in {"read", "output", "complete"} => line.turn = NoTurn
  BY LineTypes DEF Downstream, ProcQuiet, PipeQuiet, SinkQuiet, Turns

(* A step that puts nothing new in flight *)
LEMMA FlightShrinks ==
    ASSUME TypeOK, FlightInv, turn' = turn, status' \in {status, "exited"},
           \A t \in Senders : /\ Downstream(t)' => Downstream(t)
                              /\ Sending(t)' => Sending(t)
                              /\ sendPc[t] = "sent" => sendPc'[t] = "sent"
    PROVE  FlightInv'
  BY DEF FlightInv

LEMMA FrameCore ==
    ASSUME TypeOK, CoreInv, UNCHANGED turnVars, status' \in {status, "exited"}
    PROVE  CoreInv'
  <1>1. FlightInv'
    <2>1. \A t \in Senders : (Downstream(t)' <=> Downstream(t)) /\ (Sending(t)' <=> Sending(t))
      BY DEF turnVars, Downstream, Sending
    <2> QED
      BY <2>1, FlightShrinks DEF CoreInv, turnVars
  <1>2. ResultInv'
    BY DEF CoreInv, turnVars, ResultInv, ProcQuiet, PipeQuiet, SinkQuiet
  <1>3. DispInv'
    BY DEF CoreInv, turnVars, DispInv
  <1> QED
    BY <1>1, <1>2, <1>3 DEF CoreInv

LEMMA RegisterCore == TypeOK /\ CoreInv /\ Register => CoreInv'
  <1> SUFFICES ASSUME TypeOK, CoreInv, Register PROVE CoreInv'
    OBVIOUS
  <1> USE DEF Register, notCreate
  <1>1. FlightInv'
    BY FlightShrinks DEF CoreInv, Downstream, Sending
  <1>2. ResultInv'
    BY DEF CoreInv, ResultInv, ProcQuiet, PipeQuiet, SinkQuiet
  <1>3. DispInv'
    BY DEF CoreInv, DispInv
  <1> QED
    BY <1>1, <1>2, <1>3 DEF CoreInv

----------------------------------------------------------------------------
(* Send *)

(* While the agent is registered a prompt that was not sent is not read:    *)
(* process.Send only fails on a process that has ended.                     *)
LEMMA FailedSendUnread ==
    ASSUME TypeOK, ExitInv, StdinInv, NEW s \in Senders, SendFails(s)
    PROVE  UNCHANGED inbox
  BY DEF SendFails, TypeOK, FlagsOK, ExitInv, MarkLabels, StdinInv

(* Before Send begins a turn, and until it has written the prompt, nothing  *)
(* of any turn is on its way to dispatch.                                   *)
LEMMA SendingAlone ==
    ASSUME TypeOK, FlightInv, NEW s \in Senders, Sending(s)
    PROVE  /\ \A t \in Senders : ~Downstream(t)
           /\ \A t \in Senders : Sending(t) => t = s
           /\ turn = s /\ status \in {"generating", "exited"}
  BY DEF FlightInv, Sending

LEMMA SendCore ==
    ASSUME TypeOK, ExitInv, StdinInv, CoreInv, NEW s \in Senders, SendStep(s)
    PROVE  CoreInv'
  <1> USE DEF CoreInv
  <1>t. sendPc \in [Senders -> {"call", "begin", "announce", "write", "sent",
                                "rollback", "complain", "failed", "refused"}]
    BY DEF TypeOK, PcsOK
  <1>d. ASSUME UNCHANGED <<dispVars, sink, answering, inbox, pipe>> PROVE ResultInv'
    BY <1>d DEF ResultInv, ProcQuiet, PipeQuiet, SinkQuiet
  <1>n. NoTurn \notin Senders
    BY SendersAssumption
  <1>1. CASE SendLookup(s) \/ SendAnnounce(s) \/ SendComplain(s)
    <2>1. /\ UNCHANGED <<dispVars, sink, answering, inbox, pipe, turn, status>>
          /\ \E l \in {"begin", "refused", "write", "failed"} :
                sendPc' = [sendPc EXCEPT ![s] = l]
          /\ sendPc[s] # "sent" /\ (sendPc'[s] = "write" => sendPc[s] = "announce")
      BY <1>1, <1>t DEF SendLookup, SendAnnounce, SendComplain, SendGoto, fanout
    <2>2. FlightInv'
      BY <2>1, <1>t, FlightShrinks DEF Downstream, Sending
    <2>3. DispInv'
      BY <2>1, <1>t DEF DispInv
    <2> QED
      BY <1>d, <2>1, <2>2, <2>3
  <1>2. CASE SendBegin(s)
    <2>1. UNCHANGED <<dispVars, sink, answering, inbox, pipe>> /\ sendPc[s] = "begin"
      BY <1>2 DEF SendBegin, SendGoto
    <2>2. CASE SendGoto(s, "refused") /\ UNCHANGED agentVars
      <3>1. FlightInv'
        BY <2>1, <2>2, <1>t, FlightShrinks DEF SendGoto, Downstream, Sending
      <3>2. DispInv'
        BY <2>1, <2>2, <1>t DEF SendGoto, DispInv
      <3> QED
        BY <1>d, <2>1, <3>1, <3>2
    <2>3. CASE ~SendRefused /\ SendGoto(s, "announce") /\ turn' = s /\ status' = "generating"
      <3>1. \A t \in Senders : ~Downstream(t) /\ ~Sending(t)
        BY <2>3 DEF SendRefused, FlightInv
      <3>2. \A t \in Senders : ~Downstream(t)' /\ (Sending(t)' => t = s)
        BY <2>1, <2>3, <3>1, <1>t DEF SendGoto, Downstream, Sending
      <3>3. FlightInv'
        BY <2>3, <3>2 DEF FlightInv
      <3>4. DispInv'
        BY <2>1, <2>3, <1>t DEF SendGoto, DispInv
      <3> QED
        BY <1>d, <2>1, <3>3, <3>4
    <2> QED
      BY <1>2, <2>2, <2>3 DEF SendBegin
  <1>3. CASE SendWrite(s)
    <2>1. Sending(s) /\ sendPc[s] = "write"
      BY <1>3 DEF SendWrite, Sending
    <2>2. /\ \A t \in Senders : ~Downstream(t) /\ (Sending(t) => t = s)
          /\ turn = s /\ status \in {"generating", "exited"}
      BY <2>1, SendingAlone
    <2>3. /\ ProcQuiet /\ PipeQuiet /\ SinkQuiet
          /\ dispPc \in {"read", "output", "complete"} => line.turn = NoTurn
      BY <2>2, NothingDownstream
    <2>4. /\ UNCHANGED <<dispVars, sink, answering, pipe, turn, status>>
          /\ sendPc' = [sendPc EXCEPT ![s] = "sent"]
          /\ inbox' \in {inbox, Append(inbox, s)}
      BY <1>3 DEF SendWrite, SendGoto
    <2>5. inbox' = <<>> \/ inbox' = <<s>>
      BY <2>3, <2>4 DEF ProcQuiet
    <2>6. Len(inbox') <= 1 /\ \A i \in DOMAIN inbox' : inbox'[i] = s
      BY <2>5
    <2>7. \A t \in Senders : (Downstream(t)' => t = s) /\ ~Sending(t)'
      BY <2>2, <2>3, <2>4, <2>6, <1>n, <1>t
         DEF Downstream, Sending, ProcQuiet, PipeQuiet, SinkQuiet
    <2>8. FlightInv'
      BY <2>2, <2>4, <2>7, <1>t DEF FlightInv
    <2>9. ResultInv'
      BY <2>3, <2>4, <2>6 DEF ResultInv, ProcQuiet, PipeQuiet, SinkQuiet
    <2>10. DispInv'
      BY <2>4, <1>t DEF DispInv
    <2> QED
      BY <2>8, <2>9, <2>10
  <1>4. CASE SendFails(s)
    <2>1. /\ UNCHANGED <<dispVars, sink, answering, inbox, pipe, turn, status>>
          /\ sendPc' = [sendPc EXCEPT ![s] = "rollback"] /\ sendPc[s] = "write"
      BY <1>4, FailedSendUnread DEF SendFails, SendGoto
    <2>2. FlightInv'
      BY <2>1, <1>t, FlightShrinks DEF Downstream, Sending
    <2>3. DispInv'
      BY <2>1, <1>t DEF DispInv
    <2> QED
      BY <1>d, <2>1, <2>2, <2>3
  <1>5. CASE SendRollback(s)
    <2>1. /\ UNCHANGED <<dispVars, sink, answering, inbox, pipe>>
          /\ sendPc' = [sendPc EXCEPT ![s] = "complain"] /\ sendPc[s] = "rollback"
          /\ turn' = NoTurn
      BY <1>5 DEF SendRollback, SendGoto, clearTurn
    <2>2. \A t \in Senders : ~Downstream(t) /\ (Sending(t) => t = s)
      BY <2>1, SendingAlone DEF Sending
    <2>3. \A t \in Senders : ~Downstream(t)' /\ ~Sending(t)'
      BY <2>1, <2>2, <1>t DEF Downstream, Sending
    <2>4. FlightInv'
      BY <2>3 DEF FlightInv
    <2>5. DispInv'
      BY <2>1, <1>t, <1>n DEF DispInv
    <2> QED
      BY <1>d, <2>1, <2>4, <2>5
  <1> QED
    BY <1>1, <1>2, <1>3, <1>4, <1>5 DEF SendStep

----------------------------------------------------------------------------
(* The process and its pipes *)

LEMMA WaitReturnsCore == TypeOK /\ CoreInv /\ WaitReturns => CoreInv'
  <1> SUFFICES ASSUME TypeOK, CoreInv, WaitReturns PROVE CoreInv'
    OBVIOUS
  <1> USE DEF CoreInv
  <1>1. /\ UNCHANGED <<turn, status, sendPc, dispVars, sink, answering, inbox>>
        /\ \E k \in 0 .. Len(pipe) : pipe' = SubSeq(pipe, 1, k)
    BY DEF WaitReturns, Goto
  <1>2. \A i \in DOMAIN pipe' : i \in DOMAIN pipe /\ pipe'[i] = pipe[i]
    <2>1. pipe \in Seq(Line)
      BY DEF TypeOK, LinesOK
    <2> QED
      BY <1>1, <2>1, PrefixElements
  <1>3. FlightInv'
    BY <1>1, <1>2, FlightShrinks DEF Downstream, Sending
  <1>4. ResultInv'
    BY <1>1, <1>2 DEF ResultInv, ProcQuiet, PipeQuiet, SinkQuiet
  <1>5. DispInv'
    BY <1>1 DEF DispInv
  <1> QED
    BY <1>3, <1>4, <1>5

(* A pipe reader moves the first line of the pipe, or a line of no turn, to *)
(* the end of the sink.                                                     *)
LEMMA ForwardCore == TypeOK /\ CoreInv /\ ForwardStep => CoreInv'
  <1> SUFFICES ASSUME TypeOK, CoreInv, ForwardStep PROVE CoreInv'
    OBVIOUS
  <1> USE DEF CoreInv
  <1>q. pipe \in Seq(Line) /\ sink \in Seq(Line)
    BY DEF TypeOK, LinesOK
  <1>u. UNCHANGED <<turn, status, sendPc, dispVars, answering, inbox>>
    BY DEF ForwardStep, ForwardStdout, ForwardStderr, forward
  <1>5. DispInv'
    BY <1>u DEF DispInv
  <1>1. CASE ForwardStdout
    <2>1. PICK kind \in {Head(pipe).kind, "out"} :
             sink' = Append(sink, [kind |-> kind, turn |-> Head(pipe).turn])
      BY <1>1 DEF ForwardStdout, forward
    <2>2. pipe # <<>> /\ pipe' = Tail(pipe)
      BY <1>1 DEF ForwardStdout
    <2> DEFINE l == [kind |-> kind, turn |-> Head(pipe).turn]
    <2>3. /\ l.turn = pipe[1].turn /\ 1 \in DOMAIN pipe
          /\ l.kind = "result" => pipe[1].kind = "result"
      BY <2>2, <1>q, TailElements
    <2>4. \A i \in DOMAIN pipe' : /\ i + 1 \in DOMAIN pipe /\ pipe'[i] = pipe[i + 1]
                                  /\ i \in Int /\ i > 0
      BY <2>2, <1>q, TailElements
    <2> HIDE DEF l
    <2>5. /\ DOMAIN sink = 1 .. Len(sink) /\ Len(sink) \in Nat
          /\ DOMAIN sink' = 1 .. Len(sink) + 1
          /\ \A i \in DOMAIN sink : sink'[i] = sink[i]
          /\ sink'[Len(sink) + 1] = l
          /\ \A i \in DOMAIN sink' : i \in DOMAIN sink \/ i = Len(sink) + 1
      BY <2>1, <1>q, AppendElements DEF l
    <2>6. \A i \in DOMAIN sink' : \/ i \in DOMAIN sink /\ sink'[i] = sink[i]
                                  \/ i = Len(sink) + 1 /\ sink'[i] = l
      BY <2>5
    <2>7. FlightInv'
      <3>1. \A t \in Senders : (Downstream(t)' => Downstream(t)) /\ (Sending(t)' => Sending(t))
        BY <1>u, <2>3, <2>4, <2>6 DEF Downstream, Sending
      <3> QED
        BY <3>1, <1>u, FlightShrinks
    <2>8. PipeQuiet => PipeQuiet' /\ l.turn = NoTurn
      BY <2>3, <2>4 DEF PipeQuiet
    <2>9. PipeQuiet /\ SinkQuiet => SinkQuiet'
      BY <2>6, <2>8 DEF SinkQuiet
    <2>10. \A i \in DOMAIN pipe' : pipe'[i].kind = "result" =>
             /\ pipe'[i].turn # NoTurn /\ ProcQuiet'
             /\ \A j \in DOMAIN pipe' : j > i => pipe'[j].turn = NoTurn
      <3> SUFFICES ASSUME NEW i \in DOMAIN pipe', pipe'[i].kind = "result"
                   PROVE  /\ pipe'[i].turn # NoTurn /\ ProcQuiet'
                          /\ \A j \in DOMAIN pipe' : j > i => pipe'[j].turn = NoTurn
        OBVIOUS
      <3>1. /\ pipe[i + 1].turn # NoTurn /\ ProcQuiet
            /\ \A j \in DOMAIN pipe : j > i + 1 => pipe[j].turn = NoTurn
        BY <2>4 DEF ResultInv
      <3>2. \A j \in DOMAIN pipe' : j > i => j + 1 > i + 1
        BY <2>4
      <3> QED
        BY <3>1, <3>2, <2>4, <1>u DEF ProcQuiet
    <2>11. l.kind = "result" => l.turn # NoTurn /\ ProcQuiet' /\ PipeQuiet'
      <3> SUFFICES ASSUME l.kind = "result"
                   PROVE  l.turn # NoTurn /\ ProcQuiet' /\ PipeQuiet'
        OBVIOUS
      <3>1. /\ pipe[1].turn # NoTurn /\ ProcQuiet
            /\ \A j \in DOMAIN pipe : j > 1 => pipe[j].turn = NoTurn
        BY <2>3 DEF ResultInv
      <3>2. \A i \in DOMAIN pipe' : i + 1 > 1
        BY <2>4
      <3> QED
        BY <3>1, <3>2, <2>3, <2>4, <1>u DEF ProcQuiet, PipeQuiet
    <2>12. \A i \in DOMAIN sink' : sink'[i].kind = "result" =>
             /\ sink'[i].turn # NoTurn /\ ProcQuiet' /\ PipeQuiet'
             /\ \A j \in DOMAIN sink' : j > i => sink'[j].turn = NoTurn
      <3> SUFFICES ASSUME NEW i \in DOMAIN sink', sink'[i].kind = "result"
                   PROVE  /\ sink'[i].turn # NoTurn /\ ProcQuiet' /\ PipeQuiet'
                          /\ \A j \in DOMAIN sink' : j > i => sink'[j].turn = NoTurn
        OBVIOUS
      <3>1. CASE i \in DOMAIN sink
        <4>1. /\ sink[i].turn # NoTurn /\ ProcQuiet /\ PipeQuiet
              /\ \A j \in DOMAIN sink : j > i => sink[j].turn = NoTurn
          BY <3>1, <2>5 DEF ResultInv
        <4> QED
          BY <3>1, <4>1, <2>5, <2>6, <2>8, <1>u DEF ProcQuiet
      <3>2. CASE i = Len(sink) + 1
        <4>1. \A j \in DOMAIN sink' : ~(j > i)
          BY <3>2, <2>5
        <4> QED
          BY <3>2, <4>1, <2>5, <2>11
      <3> QED
        BY <3>1, <3>2, <2>6
    <2>13. ResultInv'
      <3>1. Len(inbox') <= 1 /\ (answering' # NoTurn => inbox' = <<>>)
        BY <1>u DEF ResultInv
      <3>2. dispPc' \in {"read", "output", "complete"} /\ line'.kind = "result" =>
              line'.turn # NoTurn /\ ProcQuiet' /\ PipeQuiet' /\ SinkQuiet'
        BY <1>u, <2>8, <2>9 DEF ResultInv, ProcQuiet
      <3> QED
        BY <2>10, <2>12, <3>1, <3>2 DEF ResultInv
    <2> QED
      BY <1>5, <2>7, <2>13
  <1>2. CASE ForwardStderr
    <2>1. pipe' = pipe /\ sink' = Append(sink, StderrLine)
      BY <1>2 DEF ForwardStderr, forward
    <2>2. StderrLine.turn = NoTurn /\ StderrLine.kind # "result"
      BY DEF StderrLine
    <2>3. /\ DOMAIN sink = 1 .. Len(sink) /\ Len(sink) \in Nat
          /\ DOMAIN sink' = 1 .. Len(sink) + 1
          /\ \A i \in DOMAIN sink : sink'[i] = sink[i]
          /\ sink'[Len(sink) + 1] = StderrLine
          /\ \A i \in DOMAIN sink' : i \in DOMAIN sink \/ i = Len(sink) + 1
      BY <2>1, <1>q, AppendElements
    <2>4. \A i \in DOMAIN sink' : \/ i \in DOMAIN sink /\ sink'[i] = sink[i]
                                  \/ sink'[i].turn = NoTurn /\ sink'[i].kind # "result"
      BY <2>2, <2>3
    <2>5. FlightInv'
      <3>1. \A t \in Senders : (Downstream(t)' => Downstream(t)) /\ (Sending(t)' => Sending(t))
        BY <1>u, <2>1, <2>4, SendersAssumption DEF Downstream, Sending
      <3> QED
        BY <3>1, <1>u, FlightShrinks
    <2>6. ResultInv'
      BY <1>u, <2>1, <2>4 DEF ResultInv, ProcQuiet, PipeQuiet, SinkQuiet
    <2> QED
      BY <1>5, <2>5, <2>6
  <1> QED
    BY <1>1, <1>2 DEF ForwardStep

LEMMA ProcTakeCore == TypeOK /\ CoreInv /\ ProcTake => CoreInv'
  <1> SUFFICES ASSUME TypeOK, CoreInv, ProcTake PROVE CoreInv'
    OBVIOUS
  <1> USE DEF CoreInv
  <1>1. /\ UNCHANGED <<turn, status, sendPc, dispVars, sink, pipe>>
        /\ inbox # <<>> /\ answering' = Head(inbox) /\ inbox' = Tail(inbox)
    BY DEF ProcTake, notProc
  <1>2. 1 \in DOMAIN inbox /\ answering' = inbox[1] /\ inbox' = <<>>
    <2>1. inbox \in Seq(Senders) /\ Len(inbox) <= 1
      BY DEF TypeOK, LinesOK, ResultInv
    <2> QED
      BY <1>1, <2>1
  <1>3. \A t \in Senders : (Downstream(t)' => Downstream(t)) /\ (Sending(t)' => Sending(t))
    BY <1>1, <1>2 DEF Downstream, Sending
  <1>4. FlightInv'
    BY <1>1, <1>3, FlightShrinks
  <1>5. ~ProcQuiet
    BY <1>1 DEF ProcQuiet
  <1>6. ResultInv'
    BY <1>1, <1>2, <1>5 DEF ResultInv
  <1>7. DispInv'
    BY <1>1 DEF DispInv
  <1> QED
    BY <1>4, <1>6, <1>7

(* A line on stdout belongs to the prompt the process is answering. *)
LEMMA ProcOutputCore == TypeOK /\ CoreInv /\ (ProcOutput \/ ProcResult) => CoreInv'
  <1> SUFFICES ASSUME TypeOK, CoreInv, ProcOutput \/ ProcResult PROVE CoreInv'
    OBVIOUS
  <1> USE DEF CoreInv
  <1>1. UNCHANGED <<turn, status, sendPc, dispVars, sink, inbox>>
    BY DEF ProcOutput, ProcResult, notProc
  <1>2. PICK kind \in {"out", "result"} :
           /\ pipe' = Append(pipe, [kind |-> kind, turn |-> answering])
           /\ kind = "out" => answering' = answering
           /\ kind = "result" => answering' = NoTurn /\ answering # NoTurn
    BY DEF ProcOutput, ProcResult
  <1> DEFINE l == [kind |-> kind, turn |-> answering]
  <1>3. l.turn = answering /\ l.kind = kind
    OBVIOUS
  <1>4. pipe \in Seq(Line)
    BY DEF TypeOK, LinesOK
  <1> HIDE DEF l
  <1>5. /\ DOMAIN pipe = 1 .. Len(pipe) /\ Len(pipe) \in Nat
        /\ DOMAIN pipe' = 1 .. Len(pipe) + 1
        /\ \A i \in DOMAIN pipe : pipe'[i] = pipe[i]
        /\ pipe'[Len(pipe) + 1] = l
        /\ \A i \in DOMAIN pipe' : i \in DOMAIN pipe \/ i = Len(pipe) + 1
    BY <1>2, <1>4, AppendElements DEF l
  <1>6. \A i \in DOMAIN pipe' : \/ i \in DOMAIN pipe /\ pipe'[i] = pipe[i]
                                \/ i = Len(pipe) + 1 /\ pipe'[i] = l
    BY <1>5
  <1>7. FlightInv'
    <2>1. \A t \in Senders : (Downstream(t)' => Downstream(t)) /\ (Sending(t)' => Sending(t))
      BY <1>1, <1>2, <1>3, <1>6, SendersAssumption DEF Downstream, Sending
    <2> QED
      BY <1>1, <2>1, FlightShrinks
  <1>8. DispInv'
    BY <1>1 DEF DispInv
  <1>9. answering # NoTurn => inbox = <<>>
    BY DEF ResultInv
  <1>10. CASE kind = "out"
    <2>1. ProcQuiet' <=> ProcQuiet
      BY <1>1, <1>2, <1>10 DEF ProcQuiet
    <2>2. ProcQuiet /\ PipeQuiet => PipeQuiet'
      BY <1>3, <1>6 DEF ProcQuiet, PipeQuiet
    <2>3. ProcQuiet => l.turn = NoTurn
      BY <1>3 DEF ProcQuiet
    <2>4. \A i \in DOMAIN pipe' : pipe'[i].kind = "result" =>
             i \in DOMAIN pipe /\ pipe'[i] = pipe[i]
      BY <1>3, <1>6, <1>10
    <2>5. SinkQuiet' <=> SinkQuiet
      BY <1>1 DEF SinkQuiet
    <2>6. ResultInv'
      BY <1>1, <1>2, <1>6, <1>9, <1>10, <2>1, <2>2, <2>3, <2>4, <2>5 DEF ResultInv
    <2> QED
      BY <1>7, <1>8, <2>6
  <1>11. CASE kind = "result"
    <2>1. ~ProcQuiet /\ answering # NoTurn
      BY <1>2, <1>11 DEF ProcQuiet
    <2>2. ProcQuiet' /\ inbox' = <<>>
      BY <1>1, <1>2, <1>9, <1>11, <2>1 DEF ProcQuiet
    <2>3. /\ \A i \in DOMAIN pipe : pipe[i].kind # "result"
          /\ \A i \in DOMAIN sink : sink[i].kind # "result"
          /\ dispPc \in {"read", "output", "complete"} => line.kind # "result"
      BY <2>1 DEF ResultInv
    <2>4. \A i \in DOMAIN pipe' : pipe'[i].kind = "result" =>
             pipe'[i].turn # NoTurn /\ \A j \in DOMAIN pipe' : ~(j > i)
      BY <1>3, <1>5, <1>6, <2>1, <2>3
    <2>5. ResultInv'
      BY <1>1, <2>2, <2>3, <2>4 DEF ResultInv
    <2> QED
      BY <1>7, <1>8, <2>5
  <1> QED
    BY <1>10, <1>11

----------------------------------------------------------------------------
(* dispatch *)

(* dispatch takes the first line out of the sink. *)
LEMMA ReceiveCore ==
    ASSUME TypeOK, CoreInv, DispatchStderr \/ DispatchStdout
    PROVE  CoreInv'
  <1> USE DEF CoreInv
  <1>1. /\ UNCHANGED <<turn, sendPc, answering, inbox, pipe>>
        /\ sink # <<>> /\ sink' = Tail(sink) /\ line' = Head(sink)
        /\ dispPc = "recv" /\ dispPc' \in {"error", "read"}
        /\ dispPc' = "error" => line'.kind = "stderr"
        /\ status' = status \/ status = "starting"
    BY DEF DispatchStderr, DispatchStdout, DispGoto, markIdleIfStarting
  <1>2. /\ line' = sink[1] /\ 1 \in DOMAIN sink
        /\ \A i \in DOMAIN sink' : i + 1 \in DOMAIN sink /\ sink'[i] = sink[i + 1] /\ i + 1 > 1
        /\ \A i, j \in DOMAIN sink' : j > i => j + 1 > i + 1
    <2>1. sink \in Seq(Line)
      BY DEF TypeOK, LinesOK
    <2> QED
      BY <1>1, <2>1, TailElements
  <1>3. \A t \in Senders : (Downstream(t)' => Downstream(t)) /\ (Sending(t)' => Sending(t))
    BY <1>1, <1>2 DEF Downstream, Sending
  <1>4. FlightInv'
    BY <1>1, <1>3 DEF FlightInv
  <1>5. PipeQuiet' = PipeQuiet /\ ProcQuiet' = ProcQuiet
    BY <1>1 DEF PipeQuiet, ProcQuiet
  <1>6. line'.kind = "result" =>
          line'.turn # NoTurn /\ ProcQuiet' /\ PipeQuiet' /\ SinkQuiet'
    <2> SUFFICES ASSUME line'.kind = "result"
                 PROVE  line'.turn # NoTurn /\ ProcQuiet' /\ PipeQuiet' /\ SinkQuiet'
      OBVIOUS
    <2>1. /\ sink[1].turn # NoTurn /\ ProcQuiet /\ PipeQuiet
          /\ \A j \in DOMAIN sink : j > 1 => sink[j].turn = NoTurn
      BY <1>2 DEF ResultInv
    <2> QED
      BY <2>1, <1>2, <1>5 DEF SinkQuiet
  <1>7. \A i \in DOMAIN sink' : sink'[i].kind = "result" =>
          /\ sink'[i].turn # NoTurn /\ ProcQuiet' /\ PipeQuiet'
          /\ \A j \in DOMAIN sink' : j > i => sink'[j].turn = NoTurn
    <2> SUFFICES ASSUME NEW i \in DOMAIN sink', sink'[i].kind = "result"
                 PROVE  /\ sink'[i].turn # NoTurn /\ ProcQuiet' /\ PipeQuiet'
                        /\ \A j \in DOMAIN sink' : j > i => sink'[j].turn = NoTurn
      OBVIOUS
    <2>1. /\ sink[i + 1].turn # NoTurn /\ ProcQuiet /\ PipeQuiet
          /\ \A j \in DOMAIN sink : j > i + 1 => sink[j].turn = NoTurn
      BY <1>2 DEF ResultInv
    <2> QED
      BY <2>1, <1>2, <1>5
  <1>8. ResultInv'
    <2>1. Len(inbox') <= 1 /\ (answering' # NoTurn => inbox' = <<>>)
      BY <1>1 DEF ResultInv
    <2>2. \A i \in DOMAIN pipe' : pipe'[i].kind = "result" =>
            /\ pipe'[i].turn # NoTurn /\ ProcQuiet'
            /\ \A j \in DOMAIN pipe' : j > i => pipe'[j].turn = NoTurn
      BY <1>1, <1>5 DEF ResultInv
    <2> QED
      BY <2>1, <2>2, <1>6, <1>7 DEF ResultInv
  <1>9. DispInv'
    BY <1>1 DEF DispInv
  <1> QED
    BY <1>4, <1>8, <1>9

(* The line that ends a turn is the last thing of any turn in flight. *)
LEMMA CompleteAlone ==
    ASSUME TypeOK, CoreInv, dispPc = "complete"
    PROVE  /\ line.turn \in Senders /\ turn = line.turn /\ sendPc[turn] = "sent"
           /\ ProcQuiet /\ PipeQuiet /\ SinkQuiet
           /\ \A t \in Senders : ~Sending(t)
  <1>1. line.kind = "result"
    BY DEF CoreInv, DispInv
  <1>2. line.turn # NoTurn /\ ProcQuiet /\ PipeQuiet /\ SinkQuiet
    BY <1>1 DEF CoreInv, ResultInv
  <1>3. line.turn \in Senders /\ Downstream(line.turn)
    BY <1>2, LineTypes DEF Turns, Downstream
  <1>4. turn = line.turn /\ sendPc[line.turn] = "sent"
    BY <1>3 DEF CoreInv, FlightInv
  <1>5. \A t \in Senders : Sending(t) => turn = t
    BY DEF CoreInv, FlightInv
  <1>6. ~Sending(line.turn)
    BY <1>4 DEF Sending
  <1> QED
    BY <1>2, <1>3, <1>4, <1>5, <1>6

LEMMA DispatchCore == TypeOK /\ CoreInv /\ DispatchStep => CoreInv'
  <1> SUFFICES ASSUME TypeOK, CoreInv, DispatchStep PROVE CoreInv'
    OBVIOUS
  <1> USE DEF CoreInv
  <1>1. CASE DispatchStderr \/ DispatchStdout
    BY <1>1, ReceiveCore
  <1>2. CASE readCurrentTurn
    <2>1. /\ UNCHANGED <<turn, status, sendPc, answering, inbox, pipe, sink, line>>
          /\ dispPc = "read" /\ dispPc' = "output" /\ lineTurn' = turn
      BY <1>2 DEF readCurrentTurn, DispGoto
    <2>2. FlightInv'
      BY <2>1, FlightShrinks DEF Downstream, Sending
    <2>3. ResultInv'
      BY <2>1 DEF ResultInv, ProcQuiet, PipeQuiet, SinkQuiet
    <2>4. line.turn # NoTurn => turn = line.turn
      <3>1. line.turn # NoTurn => line.turn \in Senders /\ Downstream(line.turn)
        BY <2>1, LineTypes DEF Turns, Downstream
      <3> QED
        BY <3>1 DEF FlightInv
    <2>5. DispInv'
      BY <2>1, <2>4 DEF DispInv
    <2> QED
      BY <2>2, <2>3, <2>5
  <1>3. CASE DispatchFanout \/ DispatchTurnEnd \/ DispatchEnd
    <2>1. /\ UNCHANGED <<turn, status, sendPc, answering, inbox, pipe, sink, line, lineTurn>>
          /\ dispPc' \in {"complete", "recv", "done"}
          /\ dispPc' = "complete" => dispPc \in {"error", "output"} /\ line.kind = "result"
      BY <1>3 DEF DispatchFanout, DispatchTurnEnd, DispatchEnd, DispGoto
    <2>2. dispPc' = "complete" => dispPc = "output"
      BY <2>1 DEF DispInv
    <2>3. FlightInv'
      BY <2>1, <2>2, FlightShrinks DEF Downstream, Sending
    <2>4. ResultInv'
      BY <2>1, <2>2 DEF ResultInv, ProcQuiet, PipeQuiet, SinkQuiet
    <2>5. DispInv'
      BY <2>1 DEF DispInv
    <2> QED
      BY <2>3, <2>4, <2>5
  <1>4. CASE completeTurn
    <2>1. /\ UNCHANGED <<sendPc, answering, inbox, pipe, sink, line>>
          /\ dispPc = "complete" /\ dispPc' = "end" /\ lineTurn' = turn /\ turn' = NoTurn
      BY <1>4 DEF completeTurn, clearTurn, DispGoto
    <2>2. /\ line.turn \in Senders /\ turn = line.turn /\ sendPc[turn] = "sent"
          /\ ProcQuiet /\ PipeQuiet /\ SinkQuiet
          /\ \A t \in Senders : ~Sending(t)
      BY <2>1, CompleteAlone
    <2>3. \A t \in Senders : ~Downstream(t)' /\ ~Sending(t)'
      BY <2>1, <2>2, SendersAssumption
         DEF Downstream, Sending, ProcQuiet, PipeQuiet, SinkQuiet
    <2>4. FlightInv'
      BY <2>3 DEF FlightInv
    <2>5. ResultInv'
      BY <2>1, <2>2 DEF ResultInv, ProcQuiet, PipeQuiet, SinkQuiet
    <2>6. DispInv'
      <3>1. line.kind = "result"
        BY <2>1 DEF DispInv
      <3> QED
        BY <2>1, <2>2, <3>1, SendersAssumption DEF DispInv
    <2> QED
      BY <2>4, <2>5, <2>6
  <1> QED
    BY <1>1, <1>2, <1>3, <1>4 DEF DispatchStep

LEMMA CoreStep ==
    TypeOK /\ ExitInv /\ StdinInv /\ CoreInv /\ [Next]_vars => CoreInv'
  BY TurnFrame, FrameCore, RegisterCore, SendCore, WaitReturnsCore, ForwardCore,
     DispatchCore, ProcTakeCore, ProcOutputCore

----------------------------------------------------------------------------
(* The order of the events *)

(* A turn that is over stays over: nothing makes it current again. *)
LEMMA OverStays ==
    ASSUME TypeOK, CoreInv, [Next]_vars, NEW t, Over(t)
    PROVE  Over(t)'
  <1> USE DEF Over
  <1>1. CASE UNCHANGED turnVars
    BY <1>1 DEF turnVars
  <1>2. CASE Register
    BY <1>2 DEF Register, notCreate
  <1>3. CASE WaitReturns \/ ForwardStep \/ ProcTake \/ ProcOutput \/ ProcResult
    BY <1>3 DEF WaitReturns, Goto, ForwardStep, ForwardStdout, ForwardStderr,
       forward, ProcTake, ProcOutput, ProcResult, notProc
  <1>4. ASSUME NEW s \in Senders, SendStep(s) PROVE Over(t)'
    <2>1. sendPc \in [Senders -> {"call", "begin", "announce", "write", "sent",
                                  "rollback", "complain", "failed", "refused"}]
      BY DEF TypeOK, PcsOK
    <2>2. /\ UNCHANGED dispVars /\ sendPc[s] # "sent"
          /\ \E l : sendPc' = [sendPc EXCEPT ![s] = l]
          /\ turn' \in {turn, s, NoTurn}
      BY <1>4 DEF SendStep, SendLookup, SendBegin, SendAnnounce, SendWrite,
         SendFails, SendRollback, SendComplain, SendGoto, clearTurn
    <2>3. t \in Senders /\ t # s /\ t # NoTurn
      BY <2>2, SendersAssumption
    <2> QED
      BY <2>1, <2>2, <2>3
  <1>5. CASE DispatchStep
    <2>1. CASE DispatchStderr \/ DispatchStdout
      BY <2>1 DEF DispatchStderr, DispatchStdout, DispGoto
    <2>2. CASE readCurrentTurn
      BY <2>2 DEF readCurrentTurn, DispGoto
    <2>3. CASE DispatchFanout \/ DispatchTurnEnd \/ DispatchEnd
      BY <2>3 DEF DispatchFanout, DispatchTurnEnd, DispatchEnd, DispGoto
    <2>4. CASE completeTurn
      BY <2>4, SendersAssumption DEF completeTurn, clearTurn, DispGoto
    <2> QED
      BY <1>5, <2>1, <2>2, <2>3, <2>4 DEF DispatchStep
  <1> QED
    BY <1>1, <1>2, <1>3, <1>4, <1>5, TurnFrame

(* What the channels receive: an event of a turn that is not over, or the   *)
(* turn_end of a turn that is over from then on.                            *)
LEMMA BufFrame ==
    ASSUME TypeOK, CoreInv, [Next]_vars
    PROVE  \/ UNCHANGED buf
           \/ \E s \in Subs : SubRecv(s)
           \/ \E type \in {"turn_start", "output", "error", "exited"}, t \in Turns :
                 fanout(type, t) /\ ~Over(t)
           \/ \E t \in Turns : fanout("turn_end", t) /\ ~Over(t) /\ Over(t)'
  <1> DEFINE Published == \E type \in {"turn_start", "output", "error", "exited"}, t \in Turns :
                             fanout(type, t) /\ ~Over(t)
  <1>n. NoTurn \in Turns /\ ~Over(NoTurn)
    BY SendersAssumption DEF Turns, Over
  <1>l. lineTurn \in Turns
    BY DEF TypeOK, LinesOK
  <1>s. Senders \subseteq Turns
    BY DEF Turns
  <1>1. CASE CreateFails \/ Spawn \/ Register
    BY <1>1 DEF CreateFails, Spawn, Register, notCreate
  <1>2. ASSUME NEW s \in Senders, SendStep(s) PROVE UNCHANGED buf \/ Published
    <2>1. CASE SendAnnounce(s)
      <3>1. fanout("turn_start", s) /\ ~Over(s)
        BY <2>1 DEF SendAnnounce, Over
      <3> QED
        BY <3>1, <1>s
    <2>2. CASE SendComplain(s)
      <3>1. fanout("error", s) /\ ~Over(s)
        BY <2>2 DEF SendComplain, Over
      <3> QED
        BY <3>1, <1>s
    <2> QED
      BY <1>2, <2>1, <2>2 DEF SendStep, SendLookup, SendBegin, SendWrite, SendFails,
         SendRollback
  <1>3. ASSUME NEW s \in Subs, SubStep(s)
        PROVE  UNCHANGED buf \/ SubRecv(s)
    BY <1>3 DEF SubStep, SubLookup, SubAdd, SubLeave, SubClosed, SubCancel,
       closeSubscribers
  <1>4. ASSUME NEW x \in Exiters, StopRemove(x) \/ StopStep(x) PROVE UNCHANGED buf
    BY <1>4 DEF StopRemove, StopStep, StopCloseStdin, StopExited, StopTerm,
       StopKill, notStop
  <1>5. ASSUME NEW x \in Exiters, MarkStep(x) PROVE UNCHANGED buf \/ Published
    BY <1>5, <1>n DEF MarkStep, MarkExited, ExitCloseDone, ExitFanout,
       ExitCloseSubs, closeDone, closeSubscribers
  <1>6. CASE WatchStep
    BY <1>6, <1>n DEF WatchStep, WatchEnd, WatchTick, WatchFanout
  <1>7. CASE TimePasses \/ WaitStep \/ ForwardStep \/ ProcStep
    BY <1>7 DEF TimePasses, WaitStep, WaitReturns, WaitFlush, WaitSignal,
       ForwardStep, ForwardStdout, ForwardStderr, forward, ProcStep, ProcTake,
       ProcOutput, ProcResult, ProcStderr, ProcExit, notProc
  <1>8. CASE DispatchFanout
    <2>1. /\ dispPc \in {"error", "output"} /\ fanout(dispPc, lineTurn)
          /\ ~Over(lineTurn)
      BY <1>8 DEF DispatchFanout, Over
    <2> QED
      BY <2>1, <1>l
  <1>9. CASE DispatchTurnEnd
    <2>1. /\ fanout("turn_end", lineTurn) /\ dispPc = "end" /\ dispPc' = "recv"
          /\ UNCHANGED <<sendPc, turn>>
      BY <1>9 DEF DispatchTurnEnd, DispGoto
    <2>2. ~Over(lineTurn)
      BY <2>1 DEF Over
    <2>3. PICK t \in Turns : t = lineTurn
      BY <1>l
    <2>4. Over(t)'
      BY <2>1, <2>3 DEF CoreInv, DispInv, Over
    <2> QED
      BY <2>1, <2>2, <2>3, <2>4
  <1>10. CASE DispatchStderr \/ DispatchStdout \/ readCurrentTurn \/ completeTurn \/ DispatchEnd
    BY <1>10 DEF DispatchStderr, DispatchStdout, readCurrentTurn, completeTurn,
       DispatchEnd
  <1>11. CASE UNCHANGED vars
    BY <1>11 DEF vars
  <1> QED
    BY <1>1, <1>2, <1>3, <1>4, <1>5, <1>6, <1>7, <1>8, <1>9, <1>10, <1>11
       DEF Next, DispatchStep

(* Publishing an event of a turn that is not over keeps the order.          *)
LEMMA FanoutEnds ==
    ASSUME TypeOK, EndInv, \A t : Over(t) => Over(t)',
           NEW type \in {"turn_start", "output", "turn_end", "error", "exited"},
           NEW u \in Turns, fanout(type, u), ~Over(u),
           type = "turn_end" => Over(u)'
    PROVE  EndInv'
  <1> DEFINE ev == [type |-> type, turn |-> u]
  <1>1. ev \in Event /\ ev.type = type /\ ev.turn = u
    BY DEF Event
  <1> SUFFICES ASSUME NEW s \in Subs PROVE EndsLast(buf'[s]) /\ AllOver(buf[s])'
    BY DEF EndInv
  <1>2. buf[s] \in Seq(Event) /\ Len(buf[s]) <= SubCap
    BY DEF TypeOK, ChansOK
  <1>3. EndsLast(buf[s]) /\ \A i \in DOMAIN buf[s] : buf[s][i].type = "turn_end" => Over(buf[s][i].turn)
    BY DEF EndInv, AllOver
  <1>4. buf'[s] = IF s \in subscribers THEN Push(buf[s], ev) ELSE buf[s]
    BY DEF fanout
  <1> HIDE DEF ev
  <1>5. CASE buf'[s] = buf[s]
    <2>1. EndsLast(buf'[s])
      BY <1>3, <1>5
    <2>2. AllOver(buf[s])'
      BY <1>3, <1>5 DEF AllOver
    <2> QED
      BY <2>1, <2>2
  <1>6. CASE buf'[s] = Push(buf[s], ev)
    <2>1. \A i \in DOMAIN buf[s] : buf[s][i].type = "turn_end" => buf[s][i].turn # ev.turn
      BY <1>1, <1>3
    <2>2. /\ EndsLast(buf'[s])
          /\ \A i \in DOMAIN buf'[s] : buf'[s][i] = ev \/ \E j \in DOMAIN buf[s] : buf'[s][i] = buf[s][j]
      BY <1>1, <1>2, <1>3, <1>6, <2>1, PushEnds
    <2>3. AllOver(buf[s])'
      BY <1>1, <1>3, <2>2 DEF AllOver
    <2> QED
      BY <2>2, <2>3
  <1> QED
    BY <1>4, <1>5, <1>6

LEMMA EndStep ==
    ASSUME TypeOK, CoreInv, EndInv, [Next]_vars
    PROVE  EndInv'
  <1>1. \A t : Over(t) => Over(t)'
    BY OverStays
  <1>2. CASE UNCHANGED buf
    <2>1. \A s \in Subs : AllOver(buf[s])'
      BY <1>1, <1>2 DEF EndInv, AllOver
    <2> QED
      BY <1>2, <2>1 DEF EndInv
  <1>3. ASSUME NEW s \in Subs, SubRecv(s) PROVE EndInv'
    <2>1. buf[s] # <<>> /\ buf[s] \in Seq(Event) /\ buf' = [buf EXCEPT ![s] = Tail(@)]
      BY <1>3 DEF SubRecv, TypeOK, ChansOK
    <2>2. buf \in [Subs -> Seq(Event)]
      BY DEF TypeOK, ChansOK
    <2> DEFINE q == buf[s]
               p == Tail(q)
    <2>3. /\ \A i \in DOMAIN p : i + 1 \in DOMAIN q /\ p[i] = q[i + 1]
          /\ DOMAIN p = 1 .. Len(q) - 1
      BY <2>1, TailElements
    <2>4. buf'[s] = p /\ \A r \in Subs : r # s => buf'[r] = buf[r]
      BY <2>1, <2>2
    <2>5. EndsLast(q) /\ AllOver(q)
      BY DEF EndInv
    <2> HIDE DEF p, q
    <2>6. EndsLast(p)
      <3>1. \A i, j \in DOMAIN p : j + 1 <= i + 1 => j <= i
        BY <2>3
      <3> QED
        BY <2>3, <2>5, <3>1 DEF EndsLast
    <2>7. \A i \in DOMAIN p : p[i].type = "turn_end" => \E t : t = p[i].turn /\ Over(t)'
      BY <1>1, <2>3, <2>5 DEF AllOver
    <2>8. AllOver(buf[s])'
      BY <2>4, <2>7 DEF AllOver
    <2>9. \A r \in Subs : r # s => EndsLast(buf'[r]) /\ AllOver(buf[r])'
      BY <1>1, <2>4 DEF EndInv, AllOver
    <2> QED
      BY <2>4, <2>6, <2>8, <2>9 DEF EndInv
  <1>4. ASSUME NEW type \in {"turn_start", "output", "error", "exited"}, NEW t \in Turns,
               fanout(type, t), ~Over(t)
        PROVE  EndInv'
    <2>1. type # "turn_end"
      OBVIOUS
    <2> QED
      BY <1>1, <1>4, <2>1, FanoutEnds
  <1>5. ASSUME NEW t \in Turns, fanout("turn_end", t), ~Over(t), Over(t)'
        PROVE  EndInv'
    BY <1>1, <1>5, FanoutEnds
  <1> QED
    BY <1>2, <1>3, <1>4, <1>5, BufFrame

----------------------------------------------------------------------------
(* TurnInv is inductive relative to SafeInv: whatever Send, Subscribe, the  *)
(* pipe readers, dispatch and the process do, at most one turn is on its    *)
(* way and nothing of it is behind its result line.                         *)
THEOREM TurnInvariance == Spec => []TurnInv
  <1>1. Init => TurnInv
    <2> SUFFICES ASSUME Init PROVE TurnInv
      OBVIOUS
    <2>0. DOMAIN <<>> = {}
      OBVIOUS
    <2>1. StdinInv
      BY DEF Init, StdinInv
    <2>2. FlightInv
      <3>1. /\ inbox = <<>> /\ pipe = <<>> /\ sink = <<>> /\ answering = NoTurn
            /\ dispPc = "off" /\ \A s \in Senders : sendPc[s] = "call"
        BY DEF Init
      <3>2. \A s \in Senders : ~Downstream(s)
        BY <2>0, <3>1, SendersAssumption DEF Downstream
      <3>3. \A s \in Senders : ~Sending(s)
        BY <3>1 DEF Sending
      <3> QED
        BY <3>2, <3>3 DEF FlightInv
    <2>3. ResultInv /\ DispInv
      BY DEF Init, ResultInv, DispInv
    <2>4. EndInv
      <3>1. \A s \in Subs : buf[s] = <<>>
        BY DEF Init
      <3>2. EndsLast(<<>>) /\ AllOver(<<>>)
        BY <2>0 DEF EndsLast, AllOver
      <3> QED
        BY <3>1, <3>2 DEF EndInv
    <2> QED
      BY <2>1, <2>2, <2>3, <2>4 DEF TurnInv
  <1>2. SafeInv /\ TurnInv /\ [Next]_vars => TurnInv'
    <2> SUFFICES ASSUME SafeInv, TurnInv, [Next]_vars, Serving'
                 PROVE  (StdinInv /\ FlightInv /\ ResultInv /\ DispInv /\ EndInv)'
      BY DEF TurnInv
    <2>1. TypeOK /\ ExitInv
      BY DEF SafeInv
    <2>2. StdinInv /\ CoreInv /\ EndInv
      BY ServingBefore DEF TurnInv, CoreInv
    <2>3. StdinInv'
      BY <2>1, <2>2, StdinStep
    <2>4. CoreInv'
      BY <2>1, <2>2, CoreStep
    <2>5. EndInv'
      BY <2>1, <2>2, EndStep
    <2> QED
      BY <2>3, <2>4, <2>5 DEF CoreInv
  <1> QED
    BY <1>1, <1>2, Safety, PTL DEF Spec

LEMMA RegisteredServing == registered => Serving
  BY DEF Serving

(* dispatch publishes a stdout line under the turn whose prompt it answers, *)
(* and completeTurn ends that turn, although each reads currentTurnID in a  *)
(* lock region of its own, long after the line was written.                 *)
THEOREM OutputOfItsTurn == Spec => []OutputCarriesItsTurn
  <1>1. SafeInv /\ TurnInv => OutputCarriesItsTurn
    <2> SUFFICES ASSUME SafeInv, TurnInv, registered PROVE OutputCarriesItsTurn
      BY DEF OutputCarriesItsTurn
    <2>1. TypeOK /\ CoreInv
      BY RegisteredServing DEF SafeInv, TurnInv, CoreInv
    <2> QED
      BY <2>1, CompleteAlone DEF CoreInv, DispInv, OutputCarriesItsTurn
  <1> QED
    BY <1>1, Safety, TurnInvariance, PTL

(* The ErrAgentBusy test of Send keeps two prompts from being in the        *)
(* process, its pipes or dispatch at the same time, and the one that is     *)
(* there is currentTurnID, however Sends, failures and rollbacks interleave.*)
THEOREM OneTurn == Spec => []OneTurnInFlight
  <1>1. TurnInv => OneTurnInFlight
    BY RegisteredServing DEF TurnInv, FlightInv, OneTurnInFlight, InFlight, Sending, Downstream
  <1> QED
    BY <1>1, TurnInvariance, PTL

(* No subscriber finds an event of a turn behind the turn_end of that turn, *)
(* although Send and dispatch publish from different goroutines and a full  *)
(* channel drops its oldest event.                                          *)
THEOREM TurnEndsLast == Spec => []TurnEndIsLast
  <1>1. TurnInv => TurnEndIsLast
    BY RegisteredServing DEF TurnInv, EndInv, EndsLast, TurnEndIsLast
  <1> QED
    BY <1>1, TurnInvariance, PTL

----------------------------------------------------------------------------
(* What subscribers are promised *)

(* A current turn has been begun by its Send, and none is current while a   *)
(* Send would be let in; the turn that dispatch has read is the current one *)
(* or one whose Send failed.                                                *)
LifeInv ==
    /\ turn # NoTurn => sendPc[turn] \in {"announce", "write", "rollback", "sent"}
    /\ status \in {"starting", "idle"} => turn = NoTurn
    /\ dispPc \in {"error", "output"} /\ lineTurn # NoTurn =>
         turn = lineTurn \/ sendPc[lineTurn] \in {"complain", "failed"}
    /\ creator # "created" => dispPc = "off"

LEMMA CreatedStays ==
    ASSUME [Next]_vars, creator = "created"
    PROVE  creator' = "created"
  <1>1. CASE CreateFails \/ Spawn \/ Register
    BY <1>1 DEF CreateFails, Spawn, Register
  <1>2. ASSUME NEW s \in Senders, SendStep(s) PROVE creator' = "created"
    BY <1>2 DEF SendStep, SendLookup, SendBegin, SendAnnounce, SendWrite, SendFails,
       SendRollback, SendComplain, SendGoto, regVars
  <1>3. ASSUME NEW s \in Subs, SubStep(s) PROVE creator' = "created"
    BY <1>3 DEF SubStep, SubLookup, SubAdd, SubRecv, SubLeave, SubClosed, SubCancel, SubGoto,
       regVars
  <1>4. ASSUME NEW x \in Exiters, StopRemove(x) \/ StopStep(x) \/ MarkStep(x)
        PROVE  creator' = "created"
    BY <1>4 DEF StopRemove, StopStep, StopCloseStdin, StopExited, StopTerm, StopKill, Goto,
       notStop, MarkStep, MarkExited, ExitCloseDone, ExitFanout, ExitCloseSubs, notMark, regVars
  <1>5. CASE WatchStep \/ TimePasses \/ WaitStep \/ ForwardStep \/ UNCHANGED vars
    BY <1>5 DEF WatchStep, WatchEnd, WatchTick, WatchFanout, Goto, notMark, notStop, TimePasses,
       WaitStep, WaitReturns, WaitFlush, WaitSignal, ForwardStep, ForwardStdout, ForwardStderr,
       forward, regVars, vars
  <1>6. CASE DispatchStep \/ ProcStep
    BY <1>6 DEF DispatchStep, DispatchStderr, DispatchStdout, readCurrentTurn, DispatchFanout,
       completeTurn, DispatchTurnEnd, DispatchEnd, DispGoto, ProcStep, ProcTake, ProcOutput,
       ProcResult, ProcStderr, ProcExit, notProc, regVars
  <1> QED
    BY <1>1, <1>2, <1>3, <1>4, <1>5, <1>6 DEF Next

LEMMA LifeStep ==
    ASSUME TypeOK, CoreInv, LifeInv, [Next]_vars
    PROVE  LifeInv'
  <1> USE DEF LifeInv
  <1>t. /\ sendPc \in [Senders -> {"call", "begin", "announce", "write", "sent",
                                   "rollback", "complain", "failed", "refused"}]
        /\ turn \in Senders \cup {NoTurn} /\ lineTurn \in Senders \cup {NoTurn}
        /\ NoTurn \notin Senders
    BY SendersAssumption DEF TypeOK, PcsOK, LinesOK, Turns
  <1>c. creator = "created" => creator' = "created"
    BY CreatedStays
  <1>1. ASSUME UNCHANGED <<turn, sendPc, dispVars>>, status' \in {status, "exited"}
        PROVE  LifeInv'
    BY <1>1, <1>c DEF dispVars
  <1>2. CASE Register
    BY <1>2 DEF Register, notCreate, agentVars
  <1>3. CASE WaitReturns \/ ForwardStep \/ ProcTake \/ ProcOutput \/ ProcResult
    BY <1>1, <1>3 DEF WaitReturns, Goto, notStop, ForwardStep, ForwardStdout, ForwardStderr,
       forward, ProcTake, ProcOutput, ProcResult, notProc, agentVars
  <1>4. ASSUME NEW s \in Senders, SendStep(s) PROVE LifeInv'
    <2>1. CASE SendBegin(s)
      <3>1. UNCHANGED dispVars /\ sendPc[s] = "begin"
        BY <2>1 DEF SendBegin, SendGoto
      <3>2. CASE SendGoto(s, "refused") /\ UNCHANGED agentVars
        BY <3>1, <3>2, <1>t, <1>c DEF SendGoto, agentVars, dispVars
      <3>3. CASE ~SendRefused /\ SendGoto(s, "announce") /\ turn' = s /\ status' = "generating"
        <4>1. turn = NoTurn
          BY <3>3 DEF SendRefused, TypeOK, PcsOK
        <4> QED
          BY <3>1, <3>3, <4>1, <1>t, <1>c DEF SendGoto, dispVars
      <3> QED
        BY <2>1, <3>2, <3>3 DEF SendBegin
    <2>2. CASE SendRollback(s)
      <3>1. turn = s
        BY <2>2, SendingAlone DEF SendRollback, Sending, CoreInv
      <3> QED
        BY <2>2, <3>1, <1>t, <1>c DEF SendRollback, SendGoto, clearTurn, dispVars
    <2>3. CASE SendLookup(s) \/ SendAnnounce(s) \/ SendWrite(s) \/ SendFails(s) \/ SendComplain(s)
      <3>1. /\ UNCHANGED <<turn, status, dispVars>>
            /\ \E l : /\ sendPc' = [sendPc EXCEPT ![s] = l]
                      /\ \/ sendPc[s] = "call" /\ l \in {"begin", "refused"}
                         \/ sendPc[s] = "announce" /\ l = "write"
                         \/ sendPc[s] = "write" /\ l \in {"sent", "rollback"}
                         \/ sendPc[s] = "complain" /\ l = "failed"
        BY <2>3 DEF SendLookup, SendAnnounce, SendWrite, SendFails, SendComplain, SendGoto, agentVars
      <3> QED
        BY <3>1, <1>t, <1>c DEF dispVars
    <2> QED
      BY <1>4, <2>1, <2>2, <2>3 DEF SendStep
  <1>5. CASE DispatchStep
    <2>1. CASE DispatchStderr \/ DispatchStdout
      BY <2>1, <1>c DEF DispatchStderr, DispatchStdout, DispGoto, markIdleIfStarting, agentVars
    <2>2. CASE readCurrentTurn
      BY <2>2, <1>c DEF readCurrentTurn, DispGoto, agentVars
    <2>3. CASE DispatchFanout \/ DispatchTurnEnd \/ DispatchEnd
      BY <2>3, <1>c DEF DispatchFanout, DispatchTurnEnd, DispatchEnd, DispGoto, agentVars
    <2>4. CASE completeTurn
      BY <2>4, <1>c DEF completeTurn, clearTurn, DispGoto
    <2> QED
      BY <1>5, <2>1, <2>2, <2>3, <2>4 DEF DispatchStep
  <1> QED
    BY <1>1, <1>2, <1>3, <1>4, <1>5, TurnFrame DEF turnVars

(* LifeInv is needed for the refinement: it says which turns an event may   *)
(* still name.  manager.go:196-262, 398-452                                 *)
THEOREM LifeInvariance == Spec => [](Serving => LifeInv)
  <1>1. Init => LifeInv
    BY DEF Init, LifeInv
  <1>2. SafeInv /\ TurnInv /\ (Serving => LifeInv) /\ [Next]_vars => (Serving => LifeInv)'
    <2> SUFFICES ASSUME SafeInv, TurnInv, Serving => LifeInv, [Next]_vars, Serving'
                 PROVE  LifeInv'
      OBVIOUS
    <2>1. Serving /\ TypeOK /\ CoreInv
      BY ServingBefore DEF SafeInv, TurnInv, CoreInv
    <2> QED
      BY <2>1, LifeStep
  <1> QED
    BY <1>1, <1>2, Safety, TurnInvariance, PTL DEF Spec

Phases == [t \in Senders |-> IF Serving THEN PhaseOf(t) ELSE "new"]

SameTurns == Phases' = Phases /\ Serving' = Serving
SameChans == UNCHANGED <<buf, subscribers, closed>>

(* What fanout does is to deliver. *)
LEMMA FanoutDelivers ==
    ASSUME NEW type, NEW t, fanout(type, t)
    PROVE  Promise!Deliver([type |-> type, turn |-> t])
  BY DEF fanout, Push, Promise!Deliver

LEMMA StutterMaps == SameTurns /\ SameChans => UNCHANGED Promise!vars
  BY DEF SameTurns, SameChans, Phases, Promise!vars, Promise!turnVars, Promise!chanVars

LEMMA PublishMaps ==
    ASSUME SameTurns, NEW type \in {"turn_start", "output", "turn_end", "error", "exited"},
           NEW t \in Turns, fanout(type, t),
           Serving =>
             \/ t = NoTurn /\ type \in {"output", "error", "exited"}
             \/ t \in Senders /\
                  \/ type = "turn_start" /\ PhaseOf(t) = "current"
                  \/ type \in {"output", "error"} /\ PhaseOf(t) \in {"current", "failed"}
    PROVE  Promise!Next
  <1> DEFINE ev == [type |-> type, turn |-> t]
  <1>1. ev \in Promise!Events /\ ev.type = type /\ ev.turn = t
    BY DEF Promise!Events, Turns
  <1>2. Promise!Deliver(ev)
    BY FanoutDelivers
  <1> HIDE DEF ev
  <1>3. Serving => Promise!Told(ev)
    BY <1>1 DEF Promise!Told
  <1>4. UNCHANGED Promise!turnVars
    BY DEF SameTurns, Phases, Promise!turnVars
  <1>5. Promise!Publish(ev)
    BY <1>2, <1>3, <1>4 DEF Promise!Publish
  <1> QED
    BY <1>1, <1>5 DEF Promise!Next

(* A turn step of a serving agent, seen in the phases. *)
PhaseMoves(t, from, to) ==
    /\ Serving /\ Serving' /\ t \in Senders /\ PhaseOf(t) = from
    /\ \A u \in Senders : PhaseOf(u)' = IF u = t THEN to ELSE PhaseOf(u)

LEMMA MoveMaps ==
    ASSUME NEW t, NEW from, NEW to, PhaseMoves(t, from, to)
    PROVE  /\ Phases[t] = from /\ Phases' = [Phases EXCEPT ![t] = to] /\ Serving' = Serving
           /\ \A u \in Senders : Phases[u] = PhaseOf(u)
  <1>1. Phases = [u \in Senders |-> PhaseOf(u)]
    BY DEF PhaseMoves, Phases
  <1>2. Phases' = [u \in Senders |-> IF u = t THEN to ELSE PhaseOf(u)]
    BY DEF PhaseMoves, Phases
  <1>3. Phases' = [Phases EXCEPT ![t] = to]
    BY <1>1, <1>2
  <1> QED
    BY <1>1, <1>3 DEF PhaseMoves

LEMMA KeepsPhases ==
    ASSUME Serving' = Serving, Serving => \A t \in Senders : PhaseOf(t)' = PhaseOf(t)
    PROVE  SameTurns
  <1>1. CASE Serving
    BY <1>1 DEF SameTurns, Phases
  <1>2. CASE ~Serving
    BY <1>2 DEF SameTurns, Phases
  <1> QED
    BY <1>1, <1>2

LEMMA SamePhases ==
    ASSUME UNCHANGED <<regVars, turn, sendPc, dispVars>>
    PROVE  SameTurns
  <1>1. Serving' = Serving
    BY DEF Serving, regVars
  <1>2. \A t \in Senders : PhaseOf(t)' = PhaseOf(t)
    BY DEF PhaseOf, Over, dispVars
  <1> QED
    BY <1>1, <1>2, KeepsPhases

(* Where a Send is in its call does not matter to the phase of its turn,    *)
(* except at the begin and at the rollback.                                 *)
LEMMA SendKeepsPhases ==
    ASSUME TypeOK, Serving => CoreInv /\ LifeInv, UNCHANGED <<regVars, turn, dispVars>>,
           NEW s \in Senders, NEW l, sendPc' = [sendPc EXCEPT ![s] = l],
           \/ sendPc[s] \in {"call", "begin"} /\ l \in {"begin", "refused"}
           \/ sendPc[s] = "announce" /\ l = "write"
           \/ sendPc[s] = "write" /\ l \in {"sent", "rollback"}
           \/ sendPc[s] = "complain" /\ l = "failed"
    PROVE  SameTurns
  <1>1. Serving' = Serving
    BY DEF Serving, regVars
  <1>2. ASSUME Serving, NEW t \in Senders PROVE PhaseOf(t)' = PhaseOf(t)
    <2>1. sendPc \in [Senders -> {"call", "begin", "announce", "write", "sent",
                                  "rollback", "complain", "failed", "refused"}]
      BY DEF TypeOK, PcsOK
    <2>2. Sending(s) => turn = s
      BY <1>2, SendingAlone DEF CoreInv
    <2>3. CASE turn = t
      BY <2>3 DEF PhaseOf
    <2>4. CASE turn # t /\ t # s
      BY <2>1, <2>4 DEF PhaseOf, Over, dispVars
    <2>5. CASE turn # t /\ t = s
      <3>1. \/ sendPc[s] \in {"call", "begin"} /\ l \in {"begin", "refused"}
            \/ sendPc[s] = "complain" /\ l = "failed"
        BY <2>2, <2>5 DEF Sending
      <3> QED
        BY <2>1, <2>5, <3>1 DEF PhaseOf, Over, dispVars
    <2> QED
      BY <2>3, <2>4, <2>5
  <1> QED
    BY <1>1, <1>2, KeepsPhases

LEMMA SendMaps ==
    ASSUME TypeOK, ExitInv, Serving => StdinInv /\ CoreInv /\ LifeInv,
           NEW s \in Senders, SendStep(s)
    PROVE  Promise!Next \/ UNCHANGED Promise!vars
  <1>t. /\ sendPc \in [Senders -> {"call", "begin", "announce", "write", "sent",
                                   "rollback", "complain", "failed", "refused"}]
        /\ NoTurn \notin Senders
    BY SendersAssumption DEF TypeOK, PcsOK
  <1>r. UNCHANGED <<regVars, dispVars>> /\ Serving' = Serving
    BY DEF SendStep, SendLookup, SendBegin, SendAnnounce, SendWrite, SendFails,
       SendRollback, SendComplain, SendGoto, Serving, regVars
  <1>s. s \in Turns
    BY DEF Turns
  <1>1. CASE SendLookup(s) \/ SendWrite(s) \/ SendFails(s)
    <2>1. UNCHANGED turn /\ SameChans
      BY <1>1 DEF SendLookup, SendWrite, SendFails, agentVars, chanVars, SameChans
    <2>2. \E l : /\ sendPc' = [sendPc EXCEPT ![s] = l]
                 /\ \/ sendPc[s] = "call" /\ l \in {"begin", "refused"}
                    \/ sendPc[s] = "write" /\ l \in {"sent", "rollback"}
      BY <1>1 DEF SendLookup, SendWrite, SendFails, SendGoto
    <2>3. SameTurns
      BY <1>r, <2>1, <2>2, SendKeepsPhases
    <2> QED
      BY <2>1, <2>3, StutterMaps
  <1>2. CASE SendAnnounce(s)
    <2>1. /\ UNCHANGED turn /\ fanout("turn_start", s)
          /\ sendPc[s] = "announce" /\ sendPc' = [sendPc EXCEPT ![s] = "write"]
      BY <1>2 DEF SendAnnounce, SendGoto, agentVars
    <2>2. SameTurns
      BY <1>r, <2>1, SendKeepsPhases
    <2>3. Serving => PhaseOf(s) = "current"
      BY <2>1, SendingAlone DEF Sending, CoreInv, PhaseOf
    <2> QED
      BY <1>s, <2>1, <2>2, <2>3, PublishMaps
  <1>3. CASE SendComplain(s)
    <2>1. /\ UNCHANGED turn /\ fanout("error", s)
          /\ sendPc[s] = "complain" /\ sendPc' = [sendPc EXCEPT ![s] = "failed"]
      BY <1>3 DEF SendComplain, SendGoto, agentVars
    <2>2. SameTurns
      BY <1>r, <2>1, SendKeepsPhases
    <2>3. Serving => PhaseOf(s) = "failed"
      BY <2>1, <1>t DEF CoreInv, DispInv, LifeInv, PhaseOf, Over
    <2> QED
      BY <1>s, <2>1, <2>2, <2>3, PublishMaps
  <1>4. CASE SendBegin(s)
    <2>1. sendPc[s] = "begin" /\ SameChans
      BY <1>4 DEF SendBegin, SameChans, chanVars
    <2>2. CASE SendGoto(s, "refused") /\ UNCHANGED agentVars
      <3>1. UNCHANGED turn /\ sendPc' = [sendPc EXCEPT ![s] = "refused"]
        BY <2>2 DEF SendGoto, agentVars
      <3>2. SameTurns
        BY <1>r, <2>1, <3>1, SendKeepsPhases
      <3> QED
        BY <2>1, <3>2, StutterMaps
    <2>3. CASE ~SendRefused /\ SendGoto(s, "announce") /\ turn' = s
      <3>1. sendPc' = [sendPc EXCEPT ![s] = "announce"]
        BY <2>3 DEF SendGoto
      <3>2. CASE ~Serving
        <4>1. SameTurns
          BY <1>r, <3>2, KeepsPhases
        <4> QED
          BY <2>1, <4>1, StutterMaps
      <3>3. CASE Serving
        <4>1. turn = NoTurn
          BY <2>3, <3>3 DEF SendRefused, LifeInv, TypeOK, PcsOK
        <4>2. \A u \in Senders : PhaseOf(u) # "current"
          BY <4>1, <1>t DEF PhaseOf
        <4>3. PhaseOf(s) = "new"
          BY <2>1, <3>3, <4>1, <1>t DEF PhaseOf, Over, CoreInv, DispInv
        <4>4. PhaseOf(s)' = "current"
          BY <2>3 DEF PhaseOf
        <4>5. ASSUME NEW u \in Senders, u # s PROVE PhaseOf(u)' = PhaseOf(u)
          BY <1>r, <1>t, <2>3, <3>1, <4>1, <4>5 DEF PhaseOf, Over, dispVars
        <4>6. PhaseMoves(s, "new", "current")
          BY <1>r, <3>3, <4>3, <4>4, <4>5 DEF PhaseMoves
        <4>7. /\ Phases[s] = "new" /\ Phases' = [Phases EXCEPT ![s] = "current"]
              /\ Serving' = Serving /\ \A u \in Senders : Phases[u] # "current"
          BY <4>2, <4>6, MoveMaps
        <4>8. Promise!Begin(s)
          BY <2>1, <3>3, <4>7 DEF Promise!Begin, Promise!PhaseGoto, Promise!chanVars,
             Phases, SameChans
        <4> QED
          BY <4>8 DEF Promise!Next
      <3> QED
        BY <3>2, <3>3
    <2> QED
      BY <1>4, <2>2, <2>3 DEF SendBegin
  <1>5. CASE SendRollback(s)
    <2>1. /\ sendPc[s] = "rollback" /\ SameChans /\ turn' = NoTurn
          /\ sendPc' = [sendPc EXCEPT ![s] = "complain"]
      BY <1>5 DEF SendRollback, SendGoto, clearTurn, SameChans, chanVars
    <2>2. CASE ~Serving
      <3>1. SameTurns
        BY <1>r, <2>2, KeepsPhases
      <3> QED
        BY <2>1, <3>1, StutterMaps
    <2>3. CASE Serving
      <3>1. turn = s
        BY <2>1, <2>3, SendingAlone DEF Sending, CoreInv
      <3>2. PhaseOf(s) = "current"
        BY <3>1 DEF PhaseOf
      <3>3. PhaseOf(s)' = "failed"
        BY <1>r, <1>t, <2>1, <2>3 DEF PhaseOf, Over, dispVars, CoreInv, DispInv
      <3>4. ASSUME NEW u \in Senders, u # s PROVE PhaseOf(u)' = PhaseOf(u)
        BY <1>r, <1>t, <2>1, <3>1, <3>4 DEF PhaseOf, Over, dispVars
      <3>5. PhaseMoves(s, "current", "failed")
        BY <1>r, <2>3, <3>2, <3>3, <3>4 DEF PhaseMoves
      <3>6. /\ Phases[s] = "current" /\ Phases' = [Phases EXCEPT ![s] = "failed"]
            /\ Serving' = Serving
        BY <3>5, MoveMaps
      <3>7. Promise!Fail(s)
        BY <2>1, <2>3, <3>6 DEF Promise!Fail, Promise!PhaseGoto, Promise!chanVars,
           Phases, SameChans
      <3> QED
        BY <3>7 DEF Promise!Next
    <2> QED
      BY <2>2, <2>3
  <1> QED
    BY <1>1, <1>2, <1>3, <1>4, <1>5 DEF SendStep

(* The subscriber's channel: SubInv says that a call that joins is new.     *)
LEMMA SubMaps ==
    ASSUME TypeOK, SubInv, NEW s \in Subs, SubStep(s)
    PROVE  Promise!Next \/ UNCHANGED Promise!vars
  <1>1. SameTurns
    BY SamePhases DEF SubStep, SubLookup, SubAdd, SubRecv, SubLeave, SubClosed,
       SubCancel, SubGoto, agentVars
  <1>2. CASE SubLookup(s) \/ SubLeave(s) \/ SubClosed(s)
    <2>1. SameChans
      BY <1>2 DEF SubLookup, SubLeave, SubClosed, chanVars, SameChans
    <2> QED
      BY <1>1, <2>1, StutterMaps
  <1>t. UNCHANGED Promise!turnVars
    BY <1>1 DEF SameTurns, Phases, Promise!turnVars
  <1>3. CASE SubAdd(s)
    <2>1. Promise!Join(s)
      BY <1>3, <1>t DEF SubAdd, SubInv, Promise!Join
    <2> QED
      BY <2>1 DEF Promise!Next
  <1>4. CASE SubRecv(s)
    <2>1. Promise!Receive(s)
      BY <1>4, <1>t DEF SubRecv, Promise!Receive
    <2> QED
      BY <2>1 DEF Promise!Next
  <1>5. CASE SubCancel(s)
    <2> DEFINE S == {s} \cap subscribers
    <2>1. S \in SUBSET Subs /\ Promise!Part(S)
      BY <1>5, <1>t DEF SubCancel, closeSubscribers, Promise!Part
    <2> QED
      BY <2>1 DEF Promise!Next
  <1> QED
    BY <1>2, <1>3, <1>4, <1>5 DEF SubStep

(* Stop, markExited and the watchdog *)
LEMMA ExitMaps ==
    ASSUME TypeOK, NEW x \in Exiters, StopRemove(x) \/ StopStep(x) \/ MarkStep(x)
    PROVE  Promise!Next \/ UNCHANGED Promise!vars
  <1>1. CASE StopRemove(x)
    <2>1. SameChans /\ UNCHANGED <<creator, turn, sendPc, dispVars>> /\ creator = "created"
          /\ registered' = FALSE
      BY <1>1 DEF StopRemove, Goto, notStop, chanVars, SameChans
    <2>2. CASE registered
      <3>1. Serving = TRUE /\ Serving' = FALSE
        BY <2>1, <2>2 DEF Serving
      <3>2. Phases' = [t \in Senders |-> "new"]
        BY <3>1 DEF Phases
      <3>3. Promise!Retire
        BY <2>1, <3>1, <3>2 DEF Promise!Retire, Promise!chanVars, Phases, SameChans
      <3> QED
        BY <3>3 DEF Promise!Next
    <2>3. CASE ~registered
      <3>1. ~Serving /\ Serving' = Serving
        BY <2>1, <2>3 DEF Serving
      <3>2. SameTurns
        BY <3>1, KeepsPhases
      <3> QED
        BY <2>1, <3>2, StutterMaps
    <2> QED
      BY <2>2, <2>3
  <1>2. CASE StopStep(x) \/ MarkStep(x)
    <2>1. SameTurns
      BY <1>2, SamePhases DEF StopStep, StopCloseStdin, StopExited, StopTerm, StopKill, Goto,
         notStop, MarkStep, MarkExited, ExitCloseDone, ExitFanout, ExitCloseSubs, notMark, regVars
    <2>2. CASE StopStep(x) \/ MarkExited(x) \/ ExitCloseDone(x)
      <3>1. SameChans
        BY <2>2 DEF StopStep, StopCloseStdin, StopExited, StopTerm, StopKill, notStop,
           MarkExited, ExitCloseDone, closeDone, chanVars, SameChans
      <3> QED
        BY <2>1, <3>1, StutterMaps
    <2>3. CASE ExitFanout(x)
      <3>1. fanout("exited", NoTurn) /\ NoTurn \in Turns
        BY <2>3 DEF ExitFanout, Turns
      <3> QED
        BY <2>1, <3>1, PublishMaps
    <2>4. CASE ExitCloseSubs(x)
      <3>1. subscribers \in SUBSET Subs /\ closeSubscribers(subscribers)
        BY <2>4 DEF ExitCloseSubs, TypeOK, ChansOK
      <3>2. UNCHANGED Promise!turnVars
        BY <2>1 DEF SameTurns, Phases, Promise!turnVars
      <3>3. Promise!Part(subscribers)
        BY <3>1, <3>2 DEF closeSubscribers, Promise!Part
      <3> QED
        BY <3>1, <3>3 DEF Promise!Next
    <2> QED
      BY <1>2, <2>2, <2>3, <2>4 DEF MarkStep
  <1> QED
    BY <1>1, <1>2

LEMMA WatchMaps ==
    ASSUME WatchStep
    PROVE  Promise!Next \/ UNCHANGED Promise!vars
  <1>1. SameTurns
    BY SamePhases DEF WatchStep, WatchEnd, WatchTick, WatchFanout, Goto, notMark, regVars
  <1>2. CASE WatchEnd \/ WatchTick
    <2>1. SameChans
      BY <1>2 DEF WatchEnd, WatchTick, chanVars, SameChans
    <2> QED
      BY <1>1, <2>1, StutterMaps
  <1>3. CASE WatchFanout
    <2>1. fanout("exited", NoTurn) /\ NoTurn \in Turns
      BY <1>3 DEF WatchFanout, Turns
    <2> QED
      BY <1>1, <2>1, PublishMaps
  <1> QED
    BY <1>2, <1>3 DEF WatchStep

LEMMA DispatchMaps ==
    ASSUME TypeOK, Serving => CoreInv /\ LifeInv, DispatchStep
    PROVE  Promise!Next \/ UNCHANGED Promise!vars
  <1>t. turn \in Turns /\ lineTurn \in Turns /\ NoTurn \notin Senders
    BY SendersAssumption DEF TypeOK, LinesOK
  <1>r. UNCHANGED <<regVars, sendPc>> /\ Serving' = Serving
    BY DEF DispatchStep, DispatchStderr, DispatchStdout, readCurrentTurn, DispatchFanout,
       completeTurn, DispatchTurnEnd, DispatchEnd, DispGoto, Serving, regVars
  <1>1. CASE DispatchStderr \/ DispatchStdout \/ readCurrentTurn \/ DispatchEnd
    <2>1. SameChans /\ turn' = turn
      BY <1>1 DEF DispatchStderr, DispatchStdout, readCurrentTurn, DispatchEnd, agentVars,
         chanVars, SameChans
    <2>2. /\ dispPc \in {"recv", "read"} /\ dispPc' \in {"error", "read", "output", "done"}
          /\ dispPc' \in {"error", "output"} => lineTurn' = turn
      BY <1>1 DEF DispatchStderr, DispatchStdout, readCurrentTurn, DispatchEnd, DispGoto
    <2>3. \A t \in Senders : PhaseOf(t)' = PhaseOf(t)
      BY <1>r, <2>1, <2>2 DEF PhaseOf, Over
    <2>4. SameTurns
      BY <1>r, <2>3, KeepsPhases
    <2> QED
      BY <2>1, <2>4, StutterMaps
  <1>2. CASE DispatchFanout
    <2>1. /\ dispPc \in {"error", "output"} /\ fanout(dispPc, lineTurn)
          /\ UNCHANGED <<turn, lineTurn>> /\ dispPc' \in {"recv", "complete"}
      BY <1>2 DEF DispatchFanout, DispGoto, agentVars
    <2>2. Serving /\ lineTurn # NoTurn =>
            lineTurn \in Senders /\ PhaseOf(lineTurn) \in {"current", "failed"}
      BY <1>t, <2>1 DEF LifeInv, PhaseOf, Over, Turns
    <2>3. ASSUME Serving, NEW t \in Senders PROVE PhaseOf(t)' = PhaseOf(t)
      <3>1. sendPc[t] = "sent" /\ turn # t => lineTurn # t
        BY <2>1, <2>3, <1>t DEF LifeInv
      <3> QED
        BY <1>r, <2>1, <3>1 DEF PhaseOf, Over
    <2>4. SameTurns
      BY <1>r, <2>3, KeepsPhases
    <2> QED
      BY <1>t, <2>1, <2>2, <2>4, PublishMaps
  <1>3. CASE completeTurn
    <2>1. /\ SameChans /\ dispPc = "complete" /\ dispPc' = "end"
          /\ lineTurn' = turn /\ turn' = NoTurn
      BY <1>3 DEF completeTurn, clearTurn, DispGoto, chanVars, SameChans
    <2>2. CASE ~Serving
      <3>1. SameTurns
        BY <1>r, <2>2, KeepsPhases
      <3> QED
        BY <2>1, <3>1, StutterMaps
    <2>3. CASE Serving
      <3>1. turn \in Senders /\ sendPc[turn] = "sent"
        BY <2>1, <2>3, CompleteAlone
      <3>2. PICK t \in Senders : t = turn
        BY <3>1
      <3>3. PhaseOf(t) = "current" /\ PhaseOf(t)' = "ending"
        BY <1>t, <2>1, <3>2 DEF PhaseOf
      <3>4. ASSUME NEW u \in Senders, u # t PROVE PhaseOf(u)' = PhaseOf(u)
        BY <1>r, <1>t, <2>1, <3>2, <3>4 DEF PhaseOf, Over
      <3>5. PhaseMoves(t, "current", "ending")
        BY <1>r, <2>3, <3>3, <3>4 DEF PhaseMoves
      <3>6. /\ Phases[t] = "current" /\ Phases' = [Phases EXCEPT ![t] = "ending"]
            /\ Serving' = Serving
        BY <3>5, MoveMaps
      <3>7. Promise!Finish(t)
        BY <2>1, <2>3, <3>6 DEF Promise!Finish, Promise!PhaseGoto, Promise!chanVars,
           Phases, SameChans
      <3> QED
        BY <3>7 DEF Promise!Next
    <2> QED
      BY <2>2, <2>3
  <1>4. CASE DispatchTurnEnd
    <2>1. /\ dispPc = "end" /\ dispPc' = "recv" /\ fanout("turn_end", lineTurn)
          /\ UNCHANGED <<turn, lineTurn>>
      BY <1>4 DEF DispatchTurnEnd, DispGoto, agentVars
    <2>2. CASE ~Serving
      <3>1. SameTurns
        BY <1>r, <2>2, KeepsPhases
      <3> QED
        BY <1>t, <2>1, <2>2, <3>1, PublishMaps
    <2>3. CASE Serving
      <3>1. lineTurn \in Senders /\ sendPc[lineTurn] = "sent" /\ turn # lineTurn
        BY <2>1, <2>3 DEF CoreInv, DispInv
      <3>2. PICK t \in Senders : t = lineTurn
        BY <3>1
      <3>3. PhaseOf(t) = "ending" /\ PhaseOf(t)' = "over"
        BY <1>r, <2>1, <3>1, <3>2 DEF PhaseOf, Over
      <3>4. ASSUME NEW u \in Senders, u # t PROVE PhaseOf(u)' = PhaseOf(u)
        BY <1>r, <2>1, <3>2, <3>4 DEF PhaseOf, Over
      <3>5. PhaseMoves(t, "ending", "over")
        BY <1>r, <2>3, <3>3, <3>4 DEF PhaseMoves
      <3>6. /\ Phases[t] = "ending" /\ Phases' = [Phases EXCEPT ![t] = "over"]
            /\ Serving' = Serving
        BY <3>5, MoveMaps
      <3>7. Promise!Deliver([type |-> "turn_end", turn |-> t])
        BY <2>1, <3>2, FanoutDelivers
      <3>8. Promise!End(t)
        BY <2>3, <3>6, <3>7 DEF Promise!End, Promise!PhaseGoto, Phases
      <3> QED
        BY <3>8 DEF Promise!Next
    <2> QED
      BY <2>2, <2>3
  <1> QED
    BY <1>1, <1>2, <1>3, <1>4 DEF DispatchStep

LEMMA PromiseStep ==
    ASSUME SafeInv, TurnInv, Serving => LifeInv, [Next]_vars
    PROVE  Promise!Next \/ UNCHANGED Promise!vars
  <1>1. /\ TypeOK /\ ExitInv /\ SubInv
        /\ Serving => StdinInv /\ CoreInv /\ LifeInv
    BY DEF SafeInv, TurnInv, CoreInv
  <1>2. CASE CreateFails \/ Spawn \/ Register
    <2>1. SameChans /\ UNCHANGED <<turn, sendPc, line, lineTurn>>
      BY <1>2 DEF CreateFails, Spawn, Register, notCreate, agentVars, chanVars, SameChans
    <2>2. Serving' = Serving
      <3>1. creator \in {"new", "spawned"} /\ (creator' # "created" \/ registered')
        BY <1>2 DEF CreateFails, Spawn, Register
      <3>2. Serving /\ Serving'
        BY <3>1 DEF Serving
      <3> QED
        BY <3>2 DEF Serving
    <2>3. Serving => \A t \in Senders : PhaseOf(t)' = PhaseOf(t)
      <3>1. CASE CreateFails \/ Spawn
        BY <2>1, <3>1 DEF CreateFails, Spawn, PhaseOf, Over
      <3>2. CASE Register
        <4>1. dispPc' = "recv" /\ dispPc = "off"
          BY <3>2, <1>1 DEF Register, Serving, LifeInv
        <4> QED
          BY <2>1, <4>1 DEF PhaseOf, Over
      <3> QED
        BY <1>2, <3>1, <3>2
    <2> QED
      BY <2>1, <2>2, <2>3, KeepsPhases, StutterMaps
  <1>3. ASSUME NEW s \in Senders, SendStep(s) PROVE Promise!Next \/ UNCHANGED Promise!vars
    BY <1>1, <1>3, SendMaps
  <1>4. ASSUME NEW s \in Subs, SubStep(s) PROVE Promise!Next \/ UNCHANGED Promise!vars
    BY <1>1, <1>4, SubMaps
  <1>5. ASSUME NEW x \in Exiters, StopRemove(x) \/ StopStep(x) \/ MarkStep(x)
        PROVE  Promise!Next \/ UNCHANGED Promise!vars
    BY <1>1, <1>5, ExitMaps
  <1>6. CASE WatchStep
    BY <1>6, WatchMaps
  <1>7. CASE TimePasses \/ WaitStep \/ ForwardStep \/ ProcStep \/ UNCHANGED vars
    <2>1. UNCHANGED <<regVars, turn, sendPc, dispVars>> /\ SameChans
      BY <1>7 DEF TimePasses, WaitStep, WaitReturns, WaitFlush, WaitSignal, Goto, notStop,
         notMark, ForwardStep, ForwardStdout, ForwardStderr, forward, ProcStep, ProcTake,
         ProcOutput, ProcResult, ProcStderr, ProcExit, notProc, vars, agentVars, chanVars,
         regVars, SameChans
    <2> QED
      BY <2>1, SamePhases, StutterMaps
  <1>8. CASE DispatchStep
    BY <1>1, <1>8, DispatchMaps
  <1> QED
    BY <1>2, <1>3, <1>4, <1>5, <1>6, <1>7, <1>8 DEF Next

(* What the SSE handlers of a registered agent receive is what Feed         *)
(* promises: one turn at a time, its events between its begin and its end,  *)
(* every event to every subscriber, the oldest dropped when SubCap of them  *)
(* wait, and nothing on a channel that is closed.  manager.go:160-262,      *)
(* 266-330, 374-470                                                         *)
THEOREM PromiseKept == Spec => KeepsPromise
  <1>1. Init => Promise!Init
    <2> SUFFICES ASSUME Init PROVE Promise!Init
      OBVIOUS
    <2>1. Serving
      BY DEF Init, Serving
    <2>2. \A t \in Senders : PhaseOf(t) = "new"
      BY SendersAssumption DEF Init, PhaseOf, Over
    <2> QED
      BY <2>1, <2>2 DEF Init, Promise!Init, Serving
  <1>2. SafeInv /\ TurnInv /\ (Serving => LifeInv) /\ [Next]_vars =>
          [Promise!Next]_(Promise!vars)
    BY PromiseStep
  <1> QED
    BY <1>1, <1>2, Safety, TurnInvariance, LifeInvariance, PTL DEF Spec, KeepsPromise, Promise!Spec
=============================================================================
