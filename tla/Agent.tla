------------------------------- MODULE Agent -------------------------------
(***************************************************************************)
(* One persistent agent of internal/agent: the record a Manager keeps, the  *)
(* goroutines and HTTP calls that share it, and the child process behind    *)
(* it.  Every action is one critical section (a.mu, a.subsMu, m.mu) or one  *)
(* channel operation, so every interleaving of them is a behaviour.         *)
(*   Senders   one Send call each; the turn id a call generates is the call *)
(*   Subs      one Subscribe call (an SSE stream) each                      *)
(*   Stoppers  one Stop call each (DELETE /agents/{id}, or StopAll)         *)
(* A line of output is abstracted to what dispatch tells apart, its kind    *)
(* and the prompt it answers; time to `stale`, "idleTimeout has elapsed     *)
(* since lastActivityAt".  The child process (podman + claude) is external: *)
(* it answers a prompt with output lines and one final result line, writes  *)
(* to stderr when it likes, and may die at any moment.                      *)
(***************************************************************************)
EXTENDS Integers, Sequences

CONSTANTS
    Senders, Subs, Stoppers,
    NoTurn,               \* currentTurnID = ""
    DisableIdleTimeout,   \* CreateRequest.DisableIdleTimeout
    SinkCap,              \* capacity of lineSink (256 in the code)
    SubCap,               \* capacity of a subscriber channel (32 in the code)
    MaxLines              \* bound on the output lines of the process

ASSUME SendersAssumption == NoTurn \notin Senders
ASSUME StoppersAssumption == Stoppers \cap {"watchdog", "waiter"} = {}
ASSUME CapAssumption == SinkCap \in Nat \ {0} /\ SubCap \in Nat \ {0}

VARIABLES
    creator,      \* progress of the Create call
    registered,   \* the agent is in m.agents
    status, turn, stale, turnsCompleted,        \* guarded by a.mu
    done,         \* a.done is closed
    subscribers,  \* keys of a.subscribers, guarded by a.subsMu
    closed,       \* subscriber channels that have been closed
    buf,          \* contents of the subscriber channels
    panicked,     \* a send on, or close of, a closed channel happened
    sendPc, subPc, exitPc, dispPc,              \* the goroutines
    line, lineTurn,                             \* locals of dispatch
    sink, sinkClosed, pexited, stdinClosed,     \* realProcess
    proc, answering, inbox, pipe, errPipe, killed, lines   \* the child process

regVars   == <<creator, registered>>
agentVars == <<status, turn, stale, turnsCompleted>>
chanVars  == <<subscribers, closed, buf, panicked>>
dispVars  == <<dispPc, line, lineTurn>>
pipeVars  == <<sink, sinkClosed, pexited, stdinClosed>>
procVars  == <<proc, answering, inbox, pipe, errPipe, killed, lines>>
vars == <<regVars, agentVars, done, chanVars, sendPc, subPc, exitPc, dispVars,
          pipeVars, procVars>>

Turns   == Senders \cup {NoTurn}
Exiters == Stoppers \cup {"watchdog", "waiter"}   \* those who call markExited
Line    == [kind : {"out", "result", "stderr"}, turn : Turns]
StderrLine == [kind |-> "stderr", turn |-> NoTurn]
Event   == [type : {"turn_start", "output", "turn_end", "error", "exited"},
            turn : Turns]

(* Before Create is called. *)
Init ==
    /\ creator = "new" /\ registered = FALSE
    /\ status = "starting" /\ turn = NoTurn
    /\ stale = FALSE /\ turnsCompleted = 0
    /\ done = FALSE
    /\ subscribers = {} /\ closed = {} /\ buf = [s \in Subs |-> <<>>]
    /\ panicked = FALSE
    /\ sendPc = [s \in Senders |-> "call"]
    /\ subPc = [s \in Subs |-> "call"]
    /\ exitPc = [x \in Exiters |-> IF x \in Stoppers THEN "remove" ELSE "off"]
    /\ dispPc = "off" /\ line = StderrLine /\ lineTurn = NoTurn
    /\ sink = <<>> /\ sinkClosed = FALSE /\ pexited = FALSE
    /\ stdinClosed = FALSE
    /\ proc = "none" /\ answering = NoTurn /\ inbox = <<>> /\ pipe = <<>>
    /\ errPipe = 0 /\ killed = FALSE /\ lines = 0

----------------------------------------------------------------------------
(* The subscriber channels and a.done *)

(* A non-blocking send that drops the oldest event of a full channel. *)
Push(q, ev) ==
    IF Len(q) < SubCap THEN Append(q, ev) ELSE Append(Tail(q), ev)

(* A wrong fanout: wait for room instead of dropping. *)
FanoutBlocking(type, t) ==
    /\ \A s \in subscribers : Len(buf[s]) < SubCap
    /\ buf' = [s \in Subs |-> IF s \in subscribers
                              THEN Append(buf[s], [type |-> type, turn |-> t])
                              ELSE buf[s]]
    /\ UNCHANGED <<subscribers, closed, panicked>>

(* Under subsMu every registered subscriber gets the event; a channel that  *)
(* is registered but closed would make the send panic.                      *)
fanout(type, t) ==
    /\ buf' = [s \in Subs |-> IF s \in subscribers
                              THEN Push(buf[s], [type |-> type, turn |-> t])
                              ELSE buf[s]]
    /\ panicked' = (panicked \/ subscribers \cap closed # {})
    /\ UNCHANGED <<subscribers, closed>>

(* delete(a.subscribers, id); close(ch) for the channels S, under subsMu *)
closeSubscribers(S) ==
    /\ subscribers' = subscribers \ S
    /\ closed' = closed \cup S
    /\ panicked' = (panicked \/ S \cap closed # {})
    /\ UNCHANGED buf

(* A wrong closeDone: close(a.done) without the sync.Once. *)
CloseDoneNoOnce ==
    /\ done' = TRUE
    /\ panicked' = (panicked \/ done)
    /\ UNCHANGED <<subscribers, closed, buf>>

(* a.doneOnce.Do(func() { close(a.done) }) *)
closeDone == done' = TRUE /\ UNCHANGED chanVars

----------------------------------------------------------------------------
(* Create *)

notCreate == <<agentVars, done, chanVars, sendPc, subPc, line, lineTurn,
               pipeVars, answering, inbox, pipe, errPipe, killed, lines>>

(* Bad idle timeout, argv that does not build, or a failed Spawn: no agent. *)
CreateFails ==
    /\ creator = "new"
    /\ creator' = "failed"
    /\ UNCHANGED <<notCreate, registered, exitPc, dispPc, proc>>

(* Spawn starts the process, its pipe readers and the wait goroutine before *)
(* the agent is in the registry.                                            *)
Spawn ==
    /\ creator = "new"
    /\ creator' = "spawned"
    /\ proc' = "running"
    /\ exitPc' = [exitPc EXCEPT !["waiter"] = "wait"]
    /\ UNCHANGED <<notCreate, registered, dispPc>>

(* m.agents[agentID] = a; go a.dispatch(lineSink); go a.watchIdle(m).       *)
(* The optional first prompt is one of the Senders, enabled from here on.   *)
Register ==
    /\ creator = "spawned"
    /\ creator' = "created"
    /\ registered' = TRUE
    /\ dispPc' = "recv"
    /\ exitPc' = IF DisableIdleTimeout THEN exitPc
                 ELSE [exitPc EXCEPT !["watchdog"] = "watch"]
    /\ UNCHANGED <<notCreate, proc>>

----------------------------------------------------------------------------
(* The turn state *)

(* A wrong clearTurn: the finished turn stays current. *)
ClearTurnMissing == UNCHANGED turn

clearTurn == turn' = NoTurn

(* A wrong markIdleIfStarting: every line makes the agent idle. *)
MarkIdleAlways == status' = "idle" /\ UNCHANGED stale

markIdleIfStarting ==
    IF status = "starting" THEN status' = "idle" /\ stale' = FALSE
                           ELSE UNCHANGED <<status, stale>>

----------------------------------------------------------------------------
(* Send *)

SendGoto(s, label) ==
    /\ sendPc' = [sendPc EXCEPT ![s] = label]
    /\ UNCHANGED <<regVars, done, subPc, exitPc, dispVars, pipeVars>>

(* The registry lookup.  An empty prompt is refused here as well. *)
SendLookup(s) ==
    /\ sendPc[s] = "call" /\ creator = "created"
    /\ \/ registered /\ SendGoto(s, "begin")
       \/ SendGoto(s, "refused")
    /\ UNCHANGED <<agentVars, chanVars, procVars>>

(* A wrong SendRefused: a turn in flight does not refuse the next one. *)
SendRefusedExited == status = "exited"

(* ErrAgentBusy, ErrAgentExited.  A starting agent is not refused. *)
SendRefused == status \in {"generating", "exited"}

(* One region of a.mu: refuse, or begin the turn. *)
SendBegin(s) ==
    /\ sendPc[s] = "begin"
    /\ \/ SendRefused /\ SendGoto(s, "refused") /\ UNCHANGED agentVars
       \/ /\ ~SendRefused
          /\ SendGoto(s, "announce")
          /\ turn' = s
          /\ status' = "generating"
          /\ stale' = FALSE
          /\ UNCHANGED turnsCompleted
    /\ UNCHANGED <<chanVars, procVars>>

SendAnnounce(s) ==
    /\ sendPc[s] = "announce"
    /\ SendGoto(s, "write")
    /\ fanout("turn_start", s)
    /\ UNCHANGED <<agentVars, procVars>>

(* process.Send succeeds.  A write that reaches a process already dead, but *)
(* not yet reaped, may land in the pipe and is then read by nobody.         *)
SendWrite(s) ==
    /\ sendPc[s] = "write"
    /\ ~pexited /\ ~stdinClosed
    /\ SendGoto(s, "sent")
    /\ inbox' = IF proc = "running" THEN Append(inbox, s) ELSE inbox
    /\ UNCHANGED <<agentVars, chanVars, proc, answering, pipe, errPipe, killed,
                   lines>>

(* process.Send fails: p.exited is closed, stdin is closed, or EPIPE.  The  *)
(* payload and its newline are two writes: when a Stop closes stdin between *)
(* them, the process still reads the unterminated prompt before EOF.        *)
SendFails(s) ==
    /\ sendPc[s] = "write"
    /\ pexited \/ stdinClosed \/ proc # "running"
    /\ SendGoto(s, "rollback")
    /\ \/ UNCHANGED inbox
       \/ proc = "running" /\ inbox' = Append(inbox, s)
    /\ UNCHANGED <<agentVars, chanVars, proc, answering, pipe, errPipe, killed,
                   lines>>

(* The rollback sets status whatever it has become in the meantime. *)
SendRollback(s) ==
    /\ sendPc[s] = "rollback"
    /\ SendGoto(s, "complain")
    /\ status' = "idle"
    /\ clearTurn
    /\ UNCHANGED <<stale, turnsCompleted, chanVars, procVars>>

SendComplain(s) ==
    /\ sendPc[s] = "complain"
    /\ SendGoto(s, "failed")
    /\ fanout("error", s)
    /\ UNCHANGED <<agentVars, procVars>>

----------------------------------------------------------------------------
(* Subscribe, its cancel function, and the SSE handler that reads *)

SubGoto(s, label) ==
    /\ subPc' = [subPc EXCEPT ![s] = label]
    /\ UNCHANGED <<regVars, agentVars, done, sendPc, exitPc, dispVars,
                   pipeVars, procVars>>

SubLookup(s) ==
    /\ subPc[s] = "call" /\ creator = "created"
    /\ SubGoto(s, IF registered THEN "add" ELSE "refused")
    /\ UNCHANGED chanVars

(* Neither status nor done is looked at: an exited agent takes subscribers. *)
SubAdd(s) ==
    /\ subPc[s] = "add"
    /\ SubGoto(s, "stream")
    /\ subscribers' = subscribers \cup {s}
    /\ UNCHANGED <<closed, buf, panicked>>

SubRecv(s) ==
    /\ subPc[s] = "stream" /\ buf[s] # <<>>
    /\ SubGoto(s, "stream")
    /\ buf' = [buf EXCEPT ![s] = Tail(@)]
    /\ UNCHANGED <<subscribers, closed, panicked>>

(* The client goes away, or a write to it fails. *)
SubLeave(s) ==
    /\ subPc[s] = "stream"
    /\ SubGoto(s, "cancel")
    /\ UNCHANGED chanVars

(* The channel is closed and drained: the handler writes `closed`. *)
SubClosed(s) ==
    /\ subPc[s] = "stream" /\ s \in closed /\ buf[s] = <<>>
    /\ SubGoto(s, "cancel")
    /\ UNCHANGED chanVars

(* The deferred cancel closes the channel, unless markExited has. *)
SubCancel(s) ==
    /\ subPc[s] = "cancel"
    /\ SubGoto(s, "done")
    /\ closeSubscribers({s} \cap subscribers)

----------------------------------------------------------------------------
(* Stop, called by the Stoppers and, through watchIdle, by the watchdog *)

Goto(x, label) ==
    /\ exitPc' = [exitPc EXCEPT ![x] = label]
    /\ UNCHANGED <<creator, turn, stale, turnsCompleted, sendPc, subPc,
                   dispVars, sink, proc, answering, inbox, lines>>

notStop == <<status, done, chanVars, sinkClosed, pexited, pipe, errPipe>>

(* delete(m.agents, id) under m.mu; ErrAgentNotFound for the losers. *)
StopRemove(x) ==
    /\ exitPc[x] = "remove" /\ creator = "created"
    /\ Goto(x, IF registered THEN "closeStdin" ELSE "notFound")
    /\ registered' = FALSE
    /\ UNCHANGED <<notStop, stdinClosed, killed>>

StopCloseStdin(x) ==
    /\ exitPc[x] = "closeStdin"
    /\ Goto(x, "grace")
    /\ stdinClosed' = TRUE
    /\ UNCHANGED <<notStop, registered, killed>>

(* <-p.exited, in either grace period or after SIGKILL *)
StopExited(x) ==
    /\ exitPc[x] \in {"grace", "term", "kill"} /\ pexited
    /\ Goto(x, "mark")
    /\ UNCHANGED <<notStop, registered, stdinClosed, killed>>

(* The first grace period runs out: SIGTERM, which the process may ignore. *)
StopTerm(x) ==
    /\ exitPc[x] = "grace"
    /\ Goto(x, "term")
    /\ UNCHANGED <<notStop, registered, stdinClosed, killed>>

(* A wrong sigkill: a second SIGTERM. *)
SigtermAgain == UNCHANGED killed

sigkill == killed' = TRUE

(* The second grace period runs out. *)
StopKill(x) ==
    /\ exitPc[x] = "term"
    /\ Goto(x, "kill")
    /\ sigkill
    /\ UNCHANGED <<notStop, registered, stdinClosed>>

----------------------------------------------------------------------------
(* markExited, called by Stop and by the wait goroutine's onExit *)

notMark == <<registered, sinkClosed, pexited, stdinClosed, pipe, errPipe,
             killed>>

MarkExited(x) ==
    /\ exitPc[x] = "mark"
    /\ Goto(x, IF status = "exited" THEN "done" ELSE "close")
    /\ status' = "exited"
    /\ UNCHANGED <<notMark, done, chanVars>>

ExitCloseDone(x) ==
    /\ exitPc[x] = "close"
    /\ Goto(x, "fan")
    /\ closeDone
    /\ UNCHANGED <<notMark, status>>

ExitFanout(x) ==
    /\ exitPc[x] = "fan"
    /\ Goto(x, "subs")
    /\ fanout("exited", NoTurn)
    /\ UNCHANGED <<notMark, status, done>>

ExitCloseSubs(x) ==
    /\ exitPc[x] = "subs"
    /\ Goto(x, "done")
    /\ closeSubscribers(subscribers)
    /\ UNCHANGED <<notMark, status, done>>

----------------------------------------------------------------------------
(* watchIdle *)

(* a.done is closed, or a tick finds the agent exited. *)
WatchEnd ==
    /\ exitPc["watchdog"] = "watch"
    /\ done \/ status = "exited"
    /\ Goto("watchdog", "done")
    /\ UNCHANGED <<notMark, status, done, chanVars>>

(* A wrong timedOut: only an idle agent can time out. *)
TimedOutWhenIdle == status = "idle" /\ stale

timedOut == status # "exited" /\ stale

(* A tick, under a.mu; what it found is acted upon after the unlock. *)
WatchTick ==
    /\ exitPc["watchdog"] = "watch" /\ timedOut
    /\ Goto("watchdog", "timedOut")
    /\ UNCHANGED <<notMark, status, done, chanVars>>

WatchFanout ==
    /\ exitPc["watchdog"] = "timedOut"
    /\ Goto("watchdog", "remove")
    /\ fanout("exited", NoTurn)
    /\ UNCHANGED <<notMark, status, done>>

(* idleTimeout elapses without activity. *)
TimePasses ==
    /\ ~stale /\ creator = "created"
    /\ stale' = TRUE
    /\ UNCHANGED <<regVars, status, turn, turnsCompleted, done, chanVars,
                   sendPc, subPc, exitPc, dispVars, pipeVars, procVars>>

----------------------------------------------------------------------------
(* realProcess: the wait goroutine and the two pipe readers *)

(* cmd.Wait returns: it closes stdin and the read ends of both pipes, so    *)
(* what the readers have not taken into their buffers by now is lost.       *)
WaitReturns ==
    /\ exitPc["waiter"] = "wait" /\ proc = "dead"
    /\ Goto("waiter", "flush")
    /\ stdinClosed' = TRUE
    /\ \E k \in 0 .. Len(pipe) : pipe' = SubSeq(pipe, 1, k)
    /\ errPipe' \in 0 .. errPipe
    /\ UNCHANGED <<registered, status, done, chanVars, sinkClosed, pexited,
                   killed>>

(* A wrong pipesDone: not waiting for the readers. *)
PipesNotAwaited == TRUE

pipesDone == pipe = <<>> /\ errPipe = 0

(* pipesDone.Wait(); close(lineSink) *)
WaitFlush ==
    /\ exitPc["waiter"] = "flush" /\ pipesDone
    /\ Goto("waiter", "signal")
    /\ sinkClosed' = TRUE
    /\ UNCHANGED <<registered, status, done, chanVars, pexited, stdinClosed,
                   pipe, errPipe, killed>>

(* close(p.exited), then onExit, which is markExited *)
WaitSignal ==
    /\ exitPc["waiter"] = "signal"
    /\ Goto("waiter", "mark")
    /\ pexited' = TRUE
    /\ UNCHANGED <<registered, status, done, chanVars, sinkClosed, stdinClosed,
                   pipe, errPipe, killed>>

(* A reader's blocking send into the bounded sink *)
forward(l) ==
    /\ Len(sink) < SinkCap
    /\ sink' = Append(sink, l)
    /\ panicked' = (panicked \/ sinkClosed)
    /\ UNCHANGED <<regVars, agentVars, done, subscribers, closed, buf, sendPc,
                   subPc, exitPc, dispVars, sinkClosed, pexited, stdinClosed,
                   proc, answering, inbox, killed, lines>>

(* forwardLines on stdout.  A line over maxAgentLineBytes is replaced by a  *)
(* marker, which is no result line.                                         *)
ForwardStdout ==
    /\ pipe # <<>>
    /\ \E kind \in {Head(pipe).kind, "out"} :
          forward([kind |-> kind, turn |-> Head(pipe).turn])
    /\ pipe' = Tail(pipe)
    /\ UNCHANGED errPipe

ForwardStderr ==
    /\ errPipe > 0
    /\ forward(StderrLine)
    /\ errPipe' = errPipe - 1
    /\ UNCHANGED pipe

----------------------------------------------------------------------------
(* dispatch: one line at a time, one lock region per step *)

DispGoto(label) ==
    /\ dispPc' = label
    /\ UNCHANGED <<regVars, done, sendPc, subPc, exitPc, sinkClosed, pexited,
                   stdinClosed, procVars>>

(* A stderr line: readCurrentTurn, no change of turn state. *)
DispatchStderr ==
    /\ dispPc = "recv" /\ sink # <<>> /\ Head(sink).kind = "stderr"
    /\ DispGoto("error")
    /\ line' = Head(sink) /\ sink' = Tail(sink)
    /\ lineTurn' = turn
    /\ UNCHANGED <<agentVars, chanVars>>

(* Any other line *)
DispatchStdout ==
    /\ dispPc = "recv" /\ sink # <<>> /\ Head(sink).kind # "stderr"
    /\ DispGoto("read")
    /\ line' = Head(sink) /\ sink' = Tail(sink)
    /\ markIdleIfStarting
    /\ UNCHANGED <<turn, turnsCompleted, chanVars, lineTurn>>

readCurrentTurn ==
    /\ dispPc = "read"
    /\ DispGoto("output")
    /\ lineTurn' = turn
    /\ UNCHANGED <<agentVars, chanVars, line, sink>>

DispatchFanout ==
    /\ dispPc \in {"error", "output"}
    /\ DispGoto(IF line.kind = "result" THEN "complete" ELSE "recv")
    /\ fanout(dispPc, lineTurn)
    /\ UNCHANGED <<agentVars, line, lineTurn, sink>>

(* The region of completeTurn under a.mu *)
completeTurn ==
    /\ dispPc = "complete"
    /\ DispGoto("end")
    /\ lineTurn' = turn
    /\ clearTurn
    /\ status' = IF status = "generating" THEN "idle" ELSE status
    /\ turnsCompleted' = turnsCompleted + 1
    /\ stale' = FALSE
    /\ UNCHANGED <<chanVars, line, sink>>

DispatchTurnEnd ==
    /\ dispPc = "end"
    /\ DispGoto("recv")
    /\ fanout("turn_end", lineTurn)
    /\ UNCHANGED <<agentVars, line, lineTurn, sink>>

(* The range over a closed and drained sink ends. *)
DispatchEnd ==
    /\ dispPc = "recv" /\ sink = <<>> /\ sinkClosed
    /\ DispGoto("done")
    /\ UNCHANGED <<agentVars, chanVars, line, lineTurn, sink>>

----------------------------------------------------------------------------
(* The child process, external *)

notProc == <<regVars, agentVars, done, chanVars, sendPc, subPc, exitPc,
             dispVars, pipeVars, killed>>

ProcTake ==
    /\ proc = "running" /\ answering = NoTurn /\ inbox # <<>>
    /\ answering' = Head(inbox)
    /\ inbox' = Tail(inbox)
    /\ UNCHANGED <<notProc, proc, pipe, errPipe, lines>>

(* A line on stdout: a banner before the first prompt, or part of an answer *)
ProcOutput ==
    /\ proc = "running" /\ lines < MaxLines
    /\ lines' = lines + 1
    /\ pipe' = Append(pipe, [kind |-> "out", turn |-> answering])
    /\ UNCHANGED <<notProc, proc, answering, inbox, errPipe>>

(* The result line ends the answer; one per prompt, so it needs no bound. *)
ProcResult ==
    /\ proc = "running" /\ answering # NoTurn
    /\ answering' = NoTurn
    /\ pipe' = Append(pipe, [kind |-> "result", turn |-> answering])
    /\ UNCHANGED <<notProc, proc, inbox, errPipe, lines>>

ProcStderr ==
    /\ proc = "running" /\ lines < MaxLines
    /\ lines' = lines + 1
    /\ errPipe' = errPipe + 1
    /\ UNCHANGED <<notProc, proc, answering, inbox, pipe>>

(* The process ends: EOF on stdin, a crash, a signal. *)
ProcExit ==
    /\ proc = "running"
    /\ proc' = "dead"
    /\ UNCHANGED <<notProc, answering, inbox, pipe, errPipe, lines>>

----------------------------------------------------------------------------
SendStep(s) ==
    \/ SendLookup(s) \/ SendBegin(s) \/ SendAnnounce(s) \/ SendWrite(s)
    \/ SendFails(s) \/ SendRollback(s) \/ SendComplain(s)

SubStep(s) ==
    \/ SubLookup(s) \/ SubAdd(s) \/ SubRecv(s) \/ SubLeave(s) \/ SubClosed(s)
    \/ SubCancel(s)

StopStep(x) ==
    \/ StopCloseStdin(x) \/ StopExited(x) \/ StopTerm(x) \/ StopKill(x)

MarkStep(x) ==
    \/ MarkExited(x) \/ ExitCloseDone(x) \/ ExitFanout(x) \/ ExitCloseSubs(x)

WatchStep == WatchEnd \/ WatchTick \/ WatchFanout

WaitStep == WaitReturns \/ WaitFlush \/ WaitSignal

ForwardStep == ForwardStdout \/ ForwardStderr

DispatchStep ==
    \/ DispatchStderr \/ DispatchStdout \/ readCurrentTurn \/ DispatchFanout
    \/ completeTurn \/ DispatchTurnEnd \/ DispatchEnd

ProcStep == ProcTake \/ ProcOutput \/ ProcResult \/ ProcStderr \/ ProcExit

Next ==
    \/ CreateFails \/ Spawn \/ Register
    \/ \E s \in Senders : SendStep(s)
    \/ \E s \in Subs : SubStep(s)
    \/ \E x \in Exiters : StopRemove(x) \/ StopStep(x) \/ MarkStep(x)
    \/ WatchStep \/ TimePasses
    \/ WaitStep \/ ForwardStep \/ DispatchStep \/ ProcStep

Spec == Init /\ [][Next]_vars

(* The Go scheduler runs every goroutine that can run, timers fire, time    *)
(* passes and SIGKILL is effective.  Nothing is assumed of the process, of  *)
(* the clients, or of a write to the process's stdin (the pipe may be full).*)
Fairness ==
    /\ WF_vars(Register)
    /\ \A s \in Senders :
          WF_vars(SendAnnounce(s) \/ SendRollback(s) \/ SendComplain(s))
    /\ \A s \in Subs : WF_vars(SubAdd(s) \/ SubCancel(s))
    /\ \A x \in Exiters : WF_vars(StopStep(x) \/ MarkStep(x))
    /\ WF_vars(WatchStep \/ StopRemove("watchdog"))
    /\ WF_vars(TimePasses) /\ WF_vars(WaitStep) /\ WF_vars(ForwardStep)
    /\ WF_vars(DispatchStep) /\ WF_vars(killed /\ ProcExit)

FairSpec == Spec /\ Fairness

----------------------------------------------------------------------------
(* Properties *)

FlagsOK ==
    /\ registered \in BOOLEAN /\ stale \in BOOLEAN /\ done \in BOOLEAN
    /\ panicked \in BOOLEAN /\ sinkClosed \in BOOLEAN /\ pexited \in BOOLEAN
    /\ stdinClosed \in BOOLEAN /\ killed \in BOOLEAN

PcsOK ==
    /\ creator \in {"new", "failed", "spawned", "created"}
    /\ status \in {"starting", "idle", "generating", "exited"}
    /\ sendPc \in [Senders -> {"call", "begin", "announce", "write", "sent",
                               "rollback", "complain", "failed", "refused"}]
    /\ subPc \in [Subs -> {"call", "add", "stream", "cancel", "done",
                           "refused"}]
    /\ exitPc \in [Exiters -> {"off", "remove", "closeStdin", "grace", "term",
                               "kill", "notFound", "mark", "close", "fan",
                               "subs", "done", "watch", "timedOut", "wait",
                               "flush", "signal"}]
    /\ dispPc \in {"off", "recv", "read", "error", "output", "complete", "end",
                   "done"}
    /\ proc \in {"none", "running", "dead"}

LinesOK ==
    /\ turn \in Turns /\ lineTurn \in Turns /\ answering \in Turns
    /\ line \in Line
    /\ sink \in Seq(Line) /\ Len(sink) <= SinkCap
    /\ inbox \in Seq(Senders) /\ pipe \in Seq(Line)
    /\ turnsCompleted \in Nat /\ errPipe \in Nat /\ lines \in Nat

ChansOK ==
    /\ subscribers \in SUBSET Subs /\ closed \in SUBSET Subs
    /\ buf \in [Subs -> Seq(Event)]
    /\ \A s \in Subs : Len(buf[s]) <= SubCap

(* Every variable has the type its Go declaration (or goroutine) gives it,  *)
(* and no channel holds more than its capacity.                             *)
TypeOK == FlagsOK /\ PcsOK /\ LinesOK /\ ChansOK

(* No interleaving of cancel, fanout, markExited (which can run twice: the  *)
(* rollback of Send can undo the first) and the pipe readers sends on or    *)
(* closes a channel that is closed already, which would crash the server.   *)
NoPanic == ~panicked

(* markExited: an agent is reported exited, and a.done is closed, only once *)
(* its process is gone, its last line is in the sink and the sink is closed.*)
ExitedMeansReaped ==
    status = "exited" \/ done =>
        /\ pexited /\ sinkClosed
        /\ proc = "dead" /\ pipe = <<>> /\ errPipe = 0

(* dispatch: a stdout line of an answer is published under the turn whose   *)
(* prompt it answers, and the turn completeTurn ends is that turn, although *)
(* currentTurnID is re-read in a lock region of its own.  (Once a Stop has  *)
(* taken the agent out of the registry, the answer to a prompt whose Send   *)
(* it made fail has no turn any more.)                                      *)
OutputCarriesItsTurn ==
    registered =>
        /\ dispPc = "output" /\ line.turn # NoTurn => lineTurn = line.turn
        /\ dispPc = "complete" => turn = line.turn
        /\ dispPc = "end" => lineTurn = line.turn

(* Turns that Send has begun and whose result line dispatch has not handled *)
InFlight ==
    {s \in Senders :
        \/ sendPc[s] \in {"announce", "write", "rollback"}
        \/ \E i \in DOMAIN inbox : inbox[i] = s
        \/ answering = s
        \/ \E i \in DOMAIN pipe : pipe[i].turn = s
        \/ \E i \in DOMAIN sink : sink[i].turn = s
        \/ dispPc \in {"read", "output", "complete"} /\ line.turn = s}

(* ErrAgentBusy protects the process: at most one turn is in flight, it is  *)
(* currentTurnID, and no Send can begin another one meanwhile.              *)
OneTurnInFlight ==
    \A s \in InFlight :
        registered => turn = s /\ status \in {"generating", "exited"}

(* A turn_end closes its turn for every subscriber: no event of that turn,  *)
(* from Send or from dispatch, reaches a channel behind it.  (A turn_start  *)
(* of the next turn may overtake it.)                                       *)
TurnEndIsLast ==
    \A s \in Subs : \A i, j \in DOMAIN buf[s] :
        registered /\ buf[s][i].type = "turn_end"
                   /\ buf[s][j].turn = buf[s][i].turn => j <= i

(* DELETE returns: a Stop that took the agent out of the registry ends,     *)
(* whatever the process, the subscribers and other Stops do.                *)
StopReturns ==
    \A x \in Exiters \ {"waiter"} :
        exitPc[x] = "closeStdin" ~> exitPc[x] = "done"

(* watchIdle is the cost-control gate: an agent nobody talks to any more    *)
(* loses its process, also when a turn never ends.                          *)
IdleAgentReaped == creator = "created" ~> pexited

(* One slow client must not block the agent: when the process is gone,      *)
(* dispatch drains the sink and ends even if no subscriber ever reads.      *)
DispatchDrains == sinkClosed ~> dispPc = "done"

----------------------------------------------------------------------------
(* See Feed.  A turn is over once its Send has written it, it is no longer  *)
(* current and dispatch has nothing more to publish under it.               *)
Serving == registered \/ creator # "created"

Over(t) ==
    /\ t \in Senders /\ sendPc[t] = "sent" /\ turn # t
    /\ dispPc \in {"error", "output", "end"} => lineTurn # t

PhaseOf(t) ==
    IF turn = t THEN "current"
    ELSE IF dispPc = "end" /\ lineTurn = t THEN "ending"
    ELSE IF Over(t) THEN "over"
    ELSE IF sendPc[t] \in {"complain", "failed"} THEN "failed"
    ELSE "new"

Promise == INSTANCE Feed WITH
    Turns <- Senders, Cap <- SubCap, serving <- Serving,
    phase <- [t \in Senders |-> IF Serving THEN PhaseOf(t) ELSE "new"],
    feed <- buf, listening <- subscribers

(* What the SSE handlers get is what Feed promises: turns one after the     *)
(* other, each with its events between its begin and its end, whatever      *)
(* Send's rollback, dispatch's lock regions and the exit paths interleave   *)
(* (manager.go:160-262, 374-470).                                           *)
KeepsPromise == Promise!Spec
=============================================================================
