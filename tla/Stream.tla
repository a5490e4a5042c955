------------------------------- MODULE Stream -------------------------------
(***************************************************************************)
(* One GET /run/stream: the handler (internal/api/stream.go), the goroutine *)
(* that executes RunStream or runStreamWithCompose for it, that run's two   *)
(* pipe readers, and the podman process.  They share the buffered channel   *)
(* `output`, the unbuffered channels done, resultChan and errChan, a        *)
(* strings.Builder and the contexts of the request and of the run.  A line  *)
(* is the pair of its pipe and its number in it.  What happens to the       *)
(* session and to the container is in Runs and Compose.                     *)
(***************************************************************************)
EXTENDS Integers, Sequences

CONSTANTS
    Pipes,       \* stdout and stderr
    MaxLines,    \* bound on the lines the process writes to a pipe
    OutputCap,   \* capacity of output (100 in stream.go:78)
    PipeCap,     \* lines a pipe holds before a write to it blocks
    Torn         \* what a racing write may leave in the builder

ASSUME BoundsAssumption == MaxLines \in Nat /\ OutputCap \in Nat /\ PipeCap \in Nat

Line == Pipes \X (1 .. MaxLines)

VARIABLES
    total, long,       \* per pipe: lines to come; number of one too long for
                       \* bufio.Scanner (0: none)
    timed,             \* the run has a timeout
    proc, wrote,       \* the process; per pipe: lines written
    rpc, scanned,      \* per pipe: its reader; lines scanned
    allOutput, base,   \* the builder; per reader: the contents it appends to
    output, closed,    \* the channel
    mpc, result,       \* RunStream; what it returns
    hpc, delivered,    \* the handler; per pipe: last line sent to the client
    final,             \* the event that ends the client's stream
    client, expired    \* the client is connected; the timeout has expired

planVars == <<total, long, timed>>
procVars == <<proc, wrote>>
readVars == <<rpc, scanned, allOutput, base>>
chanVars == <<output, closed>>
mainVars == <<mpc, result>>
handVars == <<hpc, delivered, final>>
ctxVars == <<client, expired>>
vars == <<planVars, procVars, readVars, chanVars, mainVars, handVars, ctxVars>>

Init ==
    /\ total \in [Pipes -> 0 .. MaxLines] /\ long \in [Pipes -> 0 .. MaxLines]
    /\ \A p \in Pipes : long[p] <= total[p]
    /\ timed \in BOOLEAN
    /\ proc = "none" /\ wrote = [p \in Pipes |-> 0]
    /\ rpc = [p \in Pipes |-> "new"] /\ scanned = [p \in Pipes |-> 0]
    /\ allOutput = <<>> /\ base = [p \in Pipes |-> <<>>]
    /\ output = <<>> /\ closed = FALSE
    /\ mpc = "setup" /\ result = "none"
    /\ hpc = "stream" /\ delivered = [p \in Pipes |-> 0] /\ final = "none"
    /\ client = TRUE /\ expired = FALSE

(* ctx.Done() of the run, whose context derives from the request's *)
CtxDone == ~client \/ expired

----------------------------------------------------------------------------
(* RunStream, up to the start of the process *)

(* Anything before start() fails, start() included. *)
SetupFails ==
    /\ mpc = "setup"
    /\ mpc' = "return" /\ result' = "error"
    /\ UNCHANGED <<planVars, procVars, readVars, chanVars, handVars, ctxVars>>

StartProcess ==
    /\ mpc = "setup" /\ ~CtxDone
    /\ proc' = "running" /\ mpc' = "await"
    /\ rpc' = [p \in Pipes |-> "scan"]
    /\ UNCHANGED <<planVars, wrote, scanned, allOutput, base, chanVars,
                   result, handVars, ctxVars>>

----------------------------------------------------------------------------
(* The process: podman run, or podman compose exec *)

ProcWrites(p) ==
    /\ proc = "running" /\ wrote[p] < total[p]
    /\ wrote[p] - scanned[p] < PipeCap
    /\ wrote' = [wrote EXCEPT ![p] = @ + 1]
    /\ UNCHANGED <<planVars, proc, readVars, chanVars, mainVars, handVars,
                   ctxVars>>

ProcEnds(status) ==
    /\ proc = "running" /\ proc' = status
    /\ UNCHANGED <<planVars, wrote, readVars, chanVars, mainVars, handVars,
                   ctxVars>>

(* It has written everything and exits, with 0 or not. *)
ProcExits == wrote = total /\ \E s \in {"ok", "failed"} : ProcEnds(s)

(* It dies, or gives up half-way. *)
ProcDies == \E s \in {"failed", "crashed"} : ProcEnds(s)

(* exec.CommandContext kills it when the context ends. *)
ProcKilled == CtxDone /\ ProcEnds("crashed")

----------------------------------------------------------------------------
(* streamPipe, once per pipe *)

ReaderGoto(p, label) ==
    /\ rpc' = [rpc EXCEPT ![p] = label]
    /\ UNCHANGED <<planVars, procVars, mainVars, handVars, ctxVars>>

(* scanner.Scan returns a line. *)
ScanLine(p) ==
    /\ rpc[p] = "scan" /\ scanned[p] < wrote[p] /\ scanned[p] + 1 # long[p]
    /\ ReaderGoto(p, "load")
    /\ scanned' = [scanned EXCEPT ![p] = @ + 1]
    /\ UNCHANGED <<allOutput, base, chanVars>>

(* A line over the scanner's limit ends the loop like the end of the file;  *)
(* scanner.Err is not asked.                                                *)
ScanTooLong(p) ==
    /\ rpc[p] = "scan" /\ scanned[p] < wrote[p] /\ scanned[p] + 1 = long[p]
    /\ ReaderGoto(p, "report")
    /\ UNCHANGED <<scanned, allOutput, base, chanVars>>

ScanEOF(p) ==
    /\ rpc[p] = "scan" /\ scanned[p] = wrote[p] /\ proc # "running"
    /\ ReaderGoto(p, "report")
    /\ UNCHANGED <<scanned, allOutput, base, chanVars>>

(* allOutput.WriteString reads the builder's slice and stores it back with  *)
(* the line appended.  Nothing orders the two readers: what the other one   *)
(* stored in between is lost, and the bytes may be torn.                    *)
LoadBuilder(p) ==
    /\ rpc[p] = "load"
    /\ ReaderGoto(p, "store")
    /\ base' = [base EXCEPT ![p] = allOutput]
    /\ UNCHANGED <<scanned, allOutput, chanVars>>

StoreBuilder(p) ==
    /\ rpc[p] = "store"
    /\ ReaderGoto(p, "send")
    /\ \/ allOutput' = Append(base[p], <<p, scanned[p]>>)
       \/ allOutput # base[p] /\ allOutput' = Append(base[p], Torn)
    /\ base' = [base EXCEPT ![p] = <<>>]
    /\ UNCHANGED <<scanned, chanVars>>

OutputHasRoom == Len(output) < OutputCap

(* case output <- line *)
SendLine(p) ==
    /\ rpc[p] = "send" /\ OutputHasRoom
    /\ ReaderGoto(p, "scan")
    /\ output' = Append(output, <<p, scanned[p]>>)
    /\ UNCHANGED <<scanned, allOutput, base, closed>>

(* Wrong forms of AfterDone: the select is left but not the loop; there is  *)
(* no case for the context.                                                 *)
AfterDoneContinue == "scan"
AfterDoneBlocks == "send"

AfterDone == "report"

(* case <-ctx.Done() *)
SendAborted(p) ==
    /\ rpc[p] = "send" /\ CtxDone
    /\ ReaderGoto(p, AfterDone)
    /\ UNCHANGED <<scanned, allOutput, base, chanVars>>

(* done <- struct{}{}, received by RunStream *)
ReaderDone(p) ==
    /\ rpc[p] = "report" /\ mpc = "await"
    /\ ReaderGoto(p, "gone")
    /\ UNCHANGED <<scanned, allOutput, base, chanVars>>

----------------------------------------------------------------------------
(* RunStream, from <-done on *)

(* A wrong BothDone: one <-done too few. *)
BothDoneOnce == \E p \in Pipes : rpc[p] = "gone"

BothDone == \A p \in Pipes : rpc[p] = "gone"

PipesDone ==
    /\ mpc = "await" /\ BothDone
    /\ mpc' = "wait"
    /\ UNCHANGED <<planVars, procVars, readVars, chanVars, result, handVars,
                   ctxVars>>

(* A wrong WaitResult: the context's error is not looked at. *)
WaitResultNoCtx == CASE proc = "crashed" -> "crashed"
                     [] proc = "failed" -> "error"
                     [] OTHER -> "completed"

(* cmd.Wait and IsCrash: an exit with 0 is an error if the context ended.   *)
WaitResult == CASE proc = "crashed" -> "crashed"
                [] proc = "failed" \/ CtxDone -> "error"
                [] OTHER -> "completed"

(* wait(); after it the marking of the session may fail. *)
WaitProcess ==
    /\ mpc = "wait" /\ proc # "running"
    /\ mpc' = "return"
    /\ result' \in {WaitResult,
                    IF WaitResult = "completed" THEN "error" ELSE WaitResult}
    /\ UNCHANGED <<planVars, procVars, readVars, chanVars, handVars, ctxVars>>

(* Wrong forms of ClosedOnReturn: output is left open. *)
ClosedOnReturnMissing == closed

ClosedOnReturn == TRUE

(* The deferred functions; the last closes output. *)
RunStreamReturns ==
    /\ mpc = "return"
    /\ mpc' = "deliver" /\ closed' = ClosedOnReturn
    /\ UNCHANGED <<planVars, procVars, readVars, output, result, handVars,
                   ctxVars>>

----------------------------------------------------------------------------
(* The handler *)

(* case line := <-output: the line is written and flushed. *)
RelayLine ==
    /\ hpc = "stream" /\ output # <<>>
    /\ output' = Tail(output)
    /\ delivered' = [delivered EXCEPT ![Head(output)[1]] = Head(output)[2]]
    /\ UNCHANGED <<planVars, procVars, readVars, closed, mainVars, hpc, final,
                   ctxVars>>

Drained == closed /\ output = <<>>

(* line, ok := <-output with ok = false: goto waitForResult *)
OutputClosed ==
    /\ hpc = "stream" /\ Drained
    /\ hpc' = "waitForResult"
    /\ UNCHANGED <<planVars, procVars, readVars, chanVars, mainVars,
                   delivered, final, ctxVars>>

(* resultChan or errChan: the run's goroutine sends, the handler writes the *)
(* last event.                                                              *)
FinalEvent ==
    /\ mpc = "deliver" /\ hpc = "waitForResult"
    /\ mpc' = "ended" /\ hpc' = "ended" /\ final' = result
    /\ UNCHANGED <<planVars, procVars, readVars, chanVars, result, delivered,
                   ctxVars>>

(* case <-c.Request.Context().Done(), in either select.  The goroutine of   *)
(* the run then has nobody to send its result to.                           *)
HandlerLeaves ==
    /\ hpc \in {"stream", "waitForResult"} /\ ~client
    /\ hpc' = "left"
    /\ UNCHANGED <<planVars, procVars, readVars, chanVars, mainVars,
                   delivered, final, ctxVars>>

ClientLeaves ==
    /\ client /\ hpc # "ended"
    /\ client' = FALSE
    /\ UNCHANGED <<planVars, procVars, readVars, chanVars, mainVars, handVars,
                   expired>>

(* context.WithTimeout of RunStream; cancelled when it returns *)
TimeoutExpires ==
    /\ timed /\ ~expired /\ mpc \in {"setup", "await", "wait"}
    /\ expired' = TRUE
    /\ UNCHANGED <<planVars, procVars, readVars, chanVars, mainVars, handVars,
                   client>>

----------------------------------------------------------------------------
ReaderStep(p) ==
    \/ ScanLine(p) \/ ScanTooLong(p) \/ ScanEOF(p)
    \/ LoadBuilder(p) \/ StoreBuilder(p)
    \/ SendLine(p) \/ SendAborted(p) \/ ReaderDone(p)

MainStep ==
    \/ SetupFails \/ StartProcess
    \/ PipesDone \/ WaitProcess \/ RunStreamReturns

HandlerStep == RelayLine \/ OutputClosed \/ FinalEvent \/ HandlerLeaves

ProcStep == (\E p \in Pipes : ProcWrites(p)) \/ ProcExits \/ ProcKilled

Next ==
    \/ \E p \in Pipes : ReaderStep(p)
    \/ MainStep \/ HandlerStep \/ ProcStep \/ ProcDies
    \/ ClientLeaves \/ TimeoutExpires

Spec == Init /\ [][Next]_vars

(* Goroutines are scheduled, the process gets on unless a pipe is full, the *)
(* kernel delivers the kill and a timer fires.  Clients need not leave.     *)
Fairness ==
    /\ \A p \in Pipes : WF_vars(ReaderStep(p))
    /\ WF_vars(MainStep) /\ WF_vars(HandlerStep) /\ WF_vars(ProcStep)
    /\ WF_vars(TimeoutExpires)

FairSpec == Spec /\ Fairness

----------------------------------------------------------------------------
(* Properties *)

PlanOK ==
    /\ total \in [Pipes -> 0 .. MaxLines] /\ long \in [Pipes -> 0 .. MaxLines]
    /\ wrote \in [Pipes -> 0 .. MaxLines] /\ scanned \in [Pipes -> 0 .. MaxLines]
    /\ delivered \in [Pipes -> 0 .. MaxLines]

PcsOK ==
    /\ proc \in {"none", "running", "ok", "failed", "crashed"}
    /\ rpc \in [Pipes -> {"new", "scan", "load", "store", "send", "report",
                          "gone"}]
    /\ mpc \in {"setup", "await", "wait", "return", "deliver", "ended"}
    /\ result \in {"none", "completed", "crashed", "error"}
    /\ hpc \in {"stream", "waitForResult", "ended", "left"}
    /\ final \in {"none", "completed", "crashed", "error"}

FlagsOK ==
    /\ timed \in BOOLEAN /\ closed \in BOOLEAN
    /\ client \in BOOLEAN /\ expired \in BOOLEAN

SeqsOK ==
    /\ output \in Seq(Line) /\ Len(output) <= OutputCap
    /\ allOutput \in Seq(Line \cup {Torn})
    /\ base \in [Pipes -> Seq(Line \cup {Torn})]

(* The types of the channels, the builder and the goroutines' locals; output *)
(* holds at most its capacity.                                              *)
TypeOK == PlanOK /\ PcsOK /\ FlagsOK /\ SeqsOK

(* A reader never sends on the closed output channel, which would panic:    *)
(* RunStream's deferred close comes after both readers have reported, also  *)
(* when the context ends or the process dies under them.                    *)
NoPanic == \A p \in Pipes : rpc[p] = "send" => ~closed

(* The client sees each pipe's lines in order and without a gap, also when  *)
(* it is a timeout that cuts the stream off.                                *)
InOrder ==
    [][\A p \in Pipes : delivered'[p] \in {delivered[p], delivered[p] + 1}]_vars

(* When the client is told the run completed it has got every line the      *)
(* process wrote to a pipe, or every line before the one that was too long  *)
(* for the scanner (stream.go:94-116, runner.go:594-599: close after both   *)
(* readers, result after close, handler drains before it asks for it).      *)
Expected(p) == IF long[p] \in 1 .. wrote[p] THEN long[p] - 1 ELSE wrote[p]

CompletedIsWhole ==
    final = "completed" => \A p \in Pipes : delivered[p] = Expected(p)

(* Once the run's context has ended, by its timeout or because the client   *)
(* left, RunStream returns: neither a full output channel nobody reads nor  *)
(* a pipe nobody drains keeps it.  (It is then that it removes the          *)
(* container and releases the session's lock.)                              *)
RunReturns == CtxDone ~> mpc \in {"deliver", "ended"}

(* A client that stays gets its final event, unless a line was too long for *)
(* the scanner: then the process may block on the pipe for ever, and only a *)
(* timeout or the client's departure ends the run.                          *)
AnswerArrives ==
    <>(\/ final # "none" \/ hpc = "left"
       \/ \E p \in Pipes : long[p] # 0 /\ scanned[p] + 1 = long[p])
=============================================================================
