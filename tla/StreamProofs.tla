---------------------------- MODULE StreamProofs ----------------------------
(***************************************************************************)
(* Proofs about Stream for any number of pipes, of lines and any capacity   *)
(* of the channel and the pipes.                                            *)
(***************************************************************************)
EXTENDS Stream, SequenceTheorems, TLAPS

USE DEF planVars, procVars, readVars, chanVars, mainVars, handVars, ctxVars

Holding == {"load", "store", "send"}

(* Where the goroutines can be relative to each other. *)
PcInv ==
    /\ mpc = "setup" => \A p \in Pipes : rpc[p] = "new"
    /\ mpc \notin {"setup", "await"} => \A p \in Pipes : rpc[p] \in {"new", "gone"}
    /\ mpc = "wait" => \A p \in Pipes : rpc[p] = "gone"
    /\ mpc \in {"setup", "await", "wait"} => result = "none"
    /\ result = "completed" => \A p \in Pipes : rpc[p] = "gone"
    /\ closed => mpc \in {"deliver", "ended"}
    /\ hpc \in {"waitForResult", "ended"} => closed /\ output = <<>>
    /\ final # "none" => final = result /\ hpc = "ended"

(* A reader is behind the process and before the line that is too long. *)
CountInv ==
    \A p \in Pipes :
        /\ scanned[p] <= wrote[p]
        /\ rpc[p] \in Holding => scanned[p] >= 1
        /\ long[p] = 0 \/ scanned[p] < long[p]

(* The last line a reader may have put into output. *)
Sent(p) == IF rpc[p] \in Holding THEN scanned[p] - 1 ELSE scanned[p]

InOutput(p, n) == \E i \in 1 .. Len(output) : output[i] = <<p, n>>

(* No timeout and no departure has cut a reader's sending short. *)
Uncut(p) == rpc[p] \in {"new", "scan"} \cup Holding \/ ~CtxDone \/ result = "completed"

(* What output holds: of each pipe, in order and each line once, the ones   *)
(* between the last delivered and the last sent.                            *)
Ascending ==
    \A i, j \in 1 .. Len(output) :
        i < j /\ output[i][1] = output[j][1] => output[i][2] < output[j][2]
Between ==
    \A p \in Pipes : \A i \in 1 .. Len(output) :
        output[i][1] = p => delivered[p] < output[i][2] /\ output[i][2] <= Sent(p)
NotAhead == \A p \in Pipes : delivered[p] <= Sent(p)
Gapless ==
    \A p \in Pipes : \A i \in 1 .. Len(output) : \A n \in 1 .. output[i][2] :
        output[i][1] = p => n <= delivered[p] \/ InOutput(p, n)
AllSent ==
    \A p \in Pipes : Uncut(p) =>
        \A n \in 1 .. Sent(p) : n <= delivered[p] \/ InOutput(p, n)
ChanInv == Ascending /\ Between /\ NotAhead /\ Gapless /\ AllSent

(* A reader that ended on its own has read all there is to read. *)
WholeInv ==
    \A p \in Pipes :
        rpc[p] \in {"report", "gone"} /\ Uncut(p) =>
            /\ scanned[p] = Expected(p)
            /\ proc # "running" \/ long[p] \in 1 .. wrote[p]

IInv == TypeOK /\ PcInv /\ CountInv /\ ChanInv /\ WholeInv

----------------------------------------------------------------------------
LEMMA Initially == Init => IInv
<1> SUFFICES ASSUME Init PROVE IInv OBVIOUS
<1> USE BoundsAssumption DEF Init
<1>plan. PlanOK BY DEF PlanOK
<1>labels. PcsOK BY DEF PcsOK
<1>flags. FlagsOK BY DEF FlagsOK
<1>seqs. SeqsOK
  <2>none. \A S : <<>> \in Seq(S) /\ Len(<<>>) = 0 OBVIOUS
  <2> QED BY <2>none DEF SeqsOK
<1>types. TypeOK BY <1>plan, <1>labels, <1>flags, <1>seqs DEF TypeOK
<1>pcs. PcInv BY DEF PcInv
<1>counts. CountInv
  <2> SUFFICES ASSUME NEW p \in Pipes
               PROVE  /\ scanned[p] <= wrote[p] /\ rpc[p] \notin Holding
                      /\ long[p] = 0 \/ scanned[p] < long[p]
      BY DEF CountInv
  <2>long. long[p] \in 0 .. MaxLines BY Zenon
  <2>zero. scanned[p] = 0 /\ wrote[p] = 0 /\ rpc[p] = "new" BY Zenon
  <2> HIDE DEF Init
  <2> QED BY <2>long, <2>zero DEF Holding
<1>chan. ChanInv
    BY DEF ChanInv, Ascending, Between, NotAhead, Gapless, AllSent, Sent, Holding
<1>whole. WholeInv BY DEF WholeInv
<1> QED BY <1>types, <1>pcs, <1>counts, <1>chan, <1>whole DEF IInv

(* Steps, seen one part of the invariant at a time. *)
LEMMA FlagsStep == ASSUME FlagsOK, [Next]_vars PROVE FlagsOK'
BY DEF FlagsOK, Next, vars, ReaderStep, MainStep, HandlerStep, ProcStep, ProcEnds,
    ReaderGoto, SetupFails, StartProcess, ProcWrites, ProcExits, ProcDies,
    ProcKilled, ScanLine, ScanTooLong, ScanEOF, LoadBuilder, StoreBuilder,
    SendLine, SendAborted, ReaderDone, PipesDone, WaitProcess,
    RunStreamReturns, ClosedOnReturn, RelayLine, OutputClosed, FinalEvent,
    HandlerLeaves, ClientLeaves, TimeoutExpires

LEMMA PcsStep == ASSUME PcsOK, [Next]_vars PROVE PcsOK'
<1> USE DEF PcsOK
<1>reader. ASSUME NEW p \in Pipes, ReaderStep(p) PROVE PcsOK'
    BY <1>reader DEF ReaderStep, ReaderGoto, ScanLine, ScanTooLong, ScanEOF,
        LoadBuilder, StoreBuilder, SendLine, SendAborted, AfterDone, ReaderDone
<1>main. ASSUME MainStep PROVE PcsOK'
    BY <1>main DEF MainStep, SetupFails, StartProcess, PipesDone, WaitProcess,
        WaitResult, RunStreamReturns
<1>handler. ASSUME HandlerStep PROVE PcsOK'
    BY <1>handler DEF HandlerStep, RelayLine, OutputClosed, FinalEvent, HandlerLeaves
<1>rest. ASSUME ProcStep \/ ProcDies \/ ClientLeaves \/ TimeoutExpires \/ UNCHANGED vars
         PROVE PcsOK'
    BY <1>rest DEF ProcStep, ProcWrites, ProcExits, ProcKilled, ProcEnds,
        ProcDies, ClientLeaves, TimeoutExpires, vars
<1> QED BY <1>reader, <1>main, <1>handler, <1>rest DEF Next

LEMMA HeadIsLine ==
    ASSUME output \in Seq(Line), output # <<>>
    PROVE  /\ Head(output) \in Line /\ Head(output) = output[1]
           /\ Head(output)[1] \in Pipes /\ Head(output)[2] \in 1 .. MaxLines
           /\ Tail(output) \in Seq(Line) /\ Len(Tail(output)) = Len(output) - 1
           /\ \A i \in 1 .. Len(output) - 1 : Tail(output)[i] = output[i + 1]
BY DEF Line

LEMMA PlanStep == ASSUME PlanOK, SeqsOK, CountInv, [Next]_vars PROVE PlanOK'
<1> USE BoundsAssumption DEF PlanOK
<1>scan. ASSUME NEW p \in Pipes, ScanLine(p) PROVE PlanOK'
  <2>new. /\ scanned' = [scanned EXCEPT ![p] = scanned[p] + 1]
          /\ scanned[p] + 1 <= wrote[p] /\ scanned[p] + 1 # long[p]
          /\ rpc' = [rpc EXCEPT ![p] = "load"]
          /\ UNCHANGED <<total, long, wrote, delivered>>
      BY <1>scan DEF ScanLine, ReaderGoto
  <2>bounds. scanned[p] + 1 \in 0 .. MaxLines BY <2>new
  <2> QED BY <2>new, <2>bounds
<1>reader. ASSUME NEW p \in Pipes,
                  ScanTooLong(p) \/ ScanEOF(p) \/ LoadBuilder(p) \/ StoreBuilder(p)
                  \/ SendLine(p) \/ SendAborted(p) \/ ReaderDone(p)
           PROVE PlanOK'
    BY <1>reader DEF ReaderGoto, ScanTooLong, ScanEOF,
        LoadBuilder, StoreBuilder, SendLine, SendAborted, ReaderDone
<1>main. ASSUME MainStep PROVE PlanOK'
    BY <1>main DEF MainStep, SetupFails, StartProcess, PipesDone, WaitProcess,
        RunStreamReturns
<1>relay. ASSUME RelayLine PROVE PlanOK'
    BY <1>relay, HeadIsLine DEF RelayLine, SeqsOK
<1>rest. ASSUME OutputClosed \/ FinalEvent \/ HandlerLeaves \/ ProcStep
                \/ ProcDies \/ ClientLeaves \/ TimeoutExpires \/ UNCHANGED vars
         PROVE PlanOK'
    BY <1>rest DEF OutputClosed, FinalEvent, HandlerLeaves, ProcStep, ProcWrites,
        ProcExits, ProcKilled, ProcEnds, ProcDies, ClientLeaves, TimeoutExpires, vars
<1> QED BY <1>scan, <1>reader, <1>main, <1>relay, <1>rest
        DEF Next, ReaderStep, HandlerStep

LEMMA SeqsStep == ASSUME PlanOK, SeqsOK, CountInv, [Next]_vars PROVE SeqsOK'
<1> USE BoundsAssumption
<1>keep. ASSUME UNCHANGED <<output, allOutput, base>> PROVE SeqsOK'
    BY <1>keep DEF SeqsOK
<1>load. ASSUME NEW p \in Pipes, LoadBuilder(p) PROVE SeqsOK'
    BY <1>load DEF LoadBuilder, SeqsOK
<1>store. ASSUME NEW p \in Pipes, StoreBuilder(p) PROVE SeqsOK'
  <2>line. <<p, scanned[p]>> \in Line
      BY <1>store DEF StoreBuilder, CountInv, PlanOK, Holding, Line
  <2>old. base[p] \in Seq(Line \cup {Torn}) BY DEF SeqsOK
  <2>grown. /\ Append(base[p], <<p, scanned[p]>>) \in Seq(Line \cup {Torn})
            /\ Append(base[p], Torn) \in Seq(Line \cup {Torn})
      BY <2>line, <2>old
  <2>all. allOutput' \in Seq(Line \cup {Torn})
      BY <1>store, <2>grown DEF StoreBuilder
  <2>base. base' \in [Pipes -> Seq(Line \cup {Torn})]
      BY <1>store DEF StoreBuilder, SeqsOK
  <2> QED BY <1>store, <2>all, <2>base DEF StoreBuilder, SeqsOK
<1>send. ASSUME NEW p \in Pipes, SendLine(p) PROVE SeqsOK'
  <2>line. <<p, scanned[p]>> \in Line
      BY <1>send DEF SendLine, CountInv, PlanOK, Holding, Line
  <2>grown. /\ Append(output, <<p, scanned[p]>>) \in Seq(Line)
            /\ Len(Append(output, <<p, scanned[p]>>)) = Len(output) + 1
            /\ Len(output) \in Nat
      BY <2>line DEF SeqsOK
  <2> QED BY <1>send, <2>grown DEF SendLine, OutputHasRoom, SeqsOK
<1>relay. ASSUME RelayLine PROVE SeqsOK'
    BY <1>relay, HeadIsLine DEF RelayLine, SeqsOK
<1>reader. ASSUME NEW p \in Pipes,
                  ScanLine(p) \/ ScanTooLong(p) \/ ScanEOF(p) \/ SendAborted(p)
                  \/ ReaderDone(p)
           PROVE SeqsOK'
    BY <1>reader, <1>keep DEF ScanLine, ScanTooLong, ScanEOF, SendAborted, ReaderDone
<1>main. ASSUME MainStep PROVE SeqsOK'
    BY <1>main, <1>keep DEF MainStep, SetupFails, StartProcess, PipesDone,
        WaitProcess, RunStreamReturns
<1>rest. ASSUME OutputClosed \/ FinalEvent \/ HandlerLeaves \/ ProcStep
                \/ ProcDies \/ ClientLeaves \/ TimeoutExpires \/ UNCHANGED vars
         PROVE SeqsOK'
    BY <1>rest, <1>keep DEF OutputClosed, FinalEvent, HandlerLeaves, ProcStep,
        ProcWrites, ProcExits, ProcKilled, ProcEnds, ProcDies, ClientLeaves,
        TimeoutExpires, vars
<1> QED BY <1>load, <1>store, <1>send, <1>relay, <1>reader, <1>main, <1>rest
        DEF Next, ReaderStep, HandlerStep

LEMMA CountStep == ASSUME PlanOK, PcsOK, PcInv, CountInv, [Next]_vars PROVE CountInv'
<1> USE BoundsAssumption DEF CountInv, PlanOK, PcsOK, Holding
<1>scan. ASSUME NEW p \in Pipes, ScanLine(p) PROVE CountInv'
  <2>new. /\ scanned' = [scanned EXCEPT ![p] = scanned[p] + 1]
          /\ scanned[p] + 1 <= wrote[p] /\ scanned[p] + 1 # long[p]
          /\ rpc' = [rpc EXCEPT ![p] = "load"]
          /\ UNCHANGED <<total, long, wrote, delivered>>
      BY <1>scan DEF ScanLine, ReaderGoto
  <2>bounds. scanned[p] + 1 \in 0 .. MaxLines BY <2>new
  <2> QED BY <2>new, <2>bounds
<1>reader. ASSUME NEW p \in Pipes,
                  ScanTooLong(p) \/ ScanEOF(p) \/ LoadBuilder(p) \/ StoreBuilder(p)
                  \/ SendLine(p) \/ SendAborted(p) \/ ReaderDone(p)
           PROVE CountInv'
    BY <1>reader DEF ReaderGoto, ScanTooLong, ScanEOF,
        LoadBuilder, StoreBuilder, SendLine, SendAborted, AfterDone, ReaderDone
<1>main. ASSUME MainStep PROVE CountInv'
    BY <1>main DEF MainStep, SetupFails, StartProcess, PipesDone, WaitProcess,
        RunStreamReturns
<1>rest. ASSUME HandlerStep \/ ProcStep
                \/ ProcDies \/ ClientLeaves \/ TimeoutExpires \/ UNCHANGED vars
         PROVE CountInv'
    BY <1>rest DEF HandlerStep, RelayLine, OutputClosed, FinalEvent, HandlerLeaves,
        ProcStep, ProcWrites, ProcExits, ProcKilled, ProcEnds, ProcDies,
        ClientLeaves, TimeoutExpires, vars
<1> QED BY <1>scan, <1>reader, <1>main, <1>rest DEF Next, ReaderStep

LEMMA PcStep == ASSUME PcsOK, SeqsOK, PcInv, [Next]_vars PROVE PcInv'
<1> USE DEF PcInv, PcsOK
<1>reader. ASSUME NEW p \in Pipes, ReaderStep(p) PROVE PcInv'
  <2>awaited. mpc = "await" BY <1>reader DEF ReaderStep, ReaderGoto, ScanLine,
      ScanTooLong, ScanEOF, LoadBuilder, StoreBuilder, SendLine, SendAborted, ReaderDone
  <2> QED BY <1>reader, <2>awaited DEF ReaderStep, ReaderGoto, ScanLine,
      ScanTooLong, ScanEOF, LoadBuilder, StoreBuilder, SendLine, SendAborted,
      AfterDone, ReaderDone
<1>main. ASSUME MainStep PROVE PcInv'
    BY <1>main DEF MainStep, SetupFails, StartProcess, PipesDone, BothDone,
        WaitProcess, WaitResult, RunStreamReturns, ClosedOnReturn
<1>relay. ASSUME RelayLine PROVE PcInv'
    BY <1>relay DEF RelayLine
<1>closed. ASSUME OutputClosed PROVE PcInv'
    BY <1>closed DEF OutputClosed, Drained
<1>final. ASSUME FinalEvent PROVE PcInv'
    BY <1>final DEF FinalEvent
<1>rest. ASSUME HandlerLeaves \/ ProcStep
                \/ ProcDies \/ ClientLeaves \/ TimeoutExpires \/ UNCHANGED vars
         PROVE PcInv'
    BY <1>rest DEF HandlerLeaves, ProcStep, ProcWrites, ProcExits, ProcKilled,
        ProcEnds, ProcDies, ClientLeaves, TimeoutExpires, vars
<1> QED BY <1>reader, <1>main, <1>relay, <1>closed, <1>final, <1>rest
        DEF Next, HandlerStep

----------------------------------------------------------------------------
(* The channel *)

(* Steps that touch neither output nor what is sent and delivered. *)
LEMMA ChanKept ==
    ASSUME ChanInv, UNCHANGED <<output, delivered>>,
           \A p \in Pipes : Sent(p)' = Sent(p) /\ (Uncut(p)' => Uncut(p)),
           output \in Seq(Line)
    PROVE  ChanInv'
<1>pipes. \A i \in 1 .. Len(output) : output[i][1] \in Pipes BY DEF Line
<1>parts. Ascending' /\ NotAhead'
    BY DEF ChanInv, Ascending, NotAhead
<1>between. Between' BY <1>pipes DEF ChanInv, Between
<1>gapless. Gapless' BY DEF ChanInv, Gapless, InOutput
<1>all. AllSent' BY DEF ChanInv, AllSent, InOutput
<1> QED BY <1>parts, <1>between, <1>gapless, <1>all DEF ChanInv

(* output <- line *)
LEMMA ChanSend ==
    ASSUME IInv, NEW p \in Pipes, SendLine(p) PROVE ChanInv'
<1> DEFINE line == <<p, scanned[p]>>
<1>types. PlanOK /\ PcsOK /\ SeqsOK BY DEF IInv, TypeOK
<1>old. Ascending /\ Between /\ NotAhead /\ Gapless /\ AllSent /\ CountInv
    BY DEF IInv, ChanInv
<1>line. line \in Line /\ line[1] = p /\ line[2] = scanned[p] /\ scanned[p] \in Nat
         /\ scanned[p] >= 1
    BY <1>types, <1>old DEF SendLine, CountInv, PlanOK, Holding, Line
<1>output. /\ output' = Append(output, line) /\ Len(output) \in Nat
           /\ Len(output') = Len(output) + 1
           /\ \A i \in 1 .. Len(output) : output'[i] = output[i] /\ output[i] \in Line
           /\ output'[Len(output) + 1] = line
    BY <1>types, <1>line DEF SendLine, SeqsOK
<1>in. \A q \in Pipes, n \in Nat : InOutput(q, n) => InOutput(q, n)'
    BY <1>output DEF InOutput
<1>inline. InOutput(p, scanned[p])'
    BY <1>output DEF InOutput, SendLine
<1>sent. /\ Sent(p) = scanned[p] - 1 /\ Sent(p)' = scanned[p]
         /\ \A q \in Pipes : q # p => Sent(q)' = Sent(q)
         /\ \A q \in Pipes : Sent(q) \in Int /\ Sent(q)' \in Int /\ Sent(q) <= Sent(q)'
    BY <1>types DEF SendLine, ReaderGoto, Sent, Holding, PcsOK, PlanOK
<1>same. delivered' = delivered /\ delivered \in [Pipes -> Nat]
    BY <1>types DEF SendLine, ReaderGoto, PlanOK
<1>elems. \A i \in 1 .. Len(output) : output[i][1] \in Pipes /\ output[i][2] \in Nat
    BY <1>output DEF Line
<1>asc. Ascending'
  <2> SUFFICES ASSUME NEW i \in 1 .. Len(output'), NEW j \in 1 .. Len(output'),
                      i < j, output'[i][1] = output'[j][1]
               PROVE  output'[i][2] < output'[j][2]
      BY DEF Ascending
  <2>last. CASE j = Len(output) + 1
    <3>i. i \in 1 .. Len(output) /\ output'[i] = output[i] /\ output[i][1] = p
        BY <2>last, <1>output, <1>line
    <3> QED BY <2>last, <3>i, <1>output, <1>old, <1>line, <1>sent, <1>elems DEF Between
  <2>inner. CASE j # Len(output) + 1
      BY <2>inner, <1>output, <1>old DEF Ascending
  <2> QED BY <2>last, <2>inner
<1>between. Between'
  <2> SUFFICES ASSUME NEW q \in Pipes, NEW i \in 1 .. Len(output'), output'[i][1] = q
               PROVE  delivered[q] < output'[i][2] /\ output'[i][2] <= Sent(q)'
      BY <1>same DEF Between
  <2>last. CASE i = Len(output) + 1
      BY <2>last, <1>output, <1>old, <1>line, <1>sent, <1>same DEF NotAhead
  <2>inner. CASE i # Len(output) + 1
      BY <2>inner, <1>output, <1>old, <1>elems, <1>sent DEF Between
  <2> QED BY <2>last, <2>inner
<1>ahead. NotAhead' BY <1>old, <1>sent, <1>same DEF NotAhead
<1>all. AllSent'
  <2> SUFFICES ASSUME NEW q \in Pipes, Uncut(q)', NEW n \in 1 .. Sent(q)'
               PROVE  n <= delivered[q] \/ InOutput(q, n)'
      BY <1>same DEF AllSent
  <2>this. CASE q = p
      BY <2>this, <1>old, <1>in, <1>inline, <1>sent, <1>line
         DEF AllSent, SendLine, Uncut, Holding
  <2>other. CASE q # p
    <3>uncut. Uncut(q) BY <2>other, <1>types DEF SendLine, ReaderGoto, Uncut, CtxDone, PcsOK
    <3> QED BY <2>other, <3>uncut, <1>old, <1>in, <1>sent DEF AllSent
  <2> QED BY <2>this, <2>other
<1>gapless. Gapless'
  <2> SUFFICES ASSUME NEW q \in Pipes, NEW i \in 1 .. Len(output'),
                      NEW n \in 1 .. output'[i][2], output'[i][1] = q
               PROVE  n <= delivered[q] \/ InOutput(q, n)'
      BY <1>same DEF Gapless
  <2>last. CASE i = Len(output) + 1
    <3>uncut. Uncut(p)' BY <1>types DEF SendLine, ReaderGoto, Uncut, PcsOK
    <3> QED BY <2>last, <3>uncut, <1>output, <1>line, <1>all, <1>sent, <1>same DEF AllSent
  <2>inner. CASE i # Len(output) + 1
      BY <2>inner, <1>output, <1>old, <1>in, <1>elems DEF Gapless
  <2> QED BY <2>last, <2>inner
<1> QED BY <1>asc, <1>between, <1>ahead, <1>all, <1>gapless DEF ChanInv

(* line := <-output: the head is the line after the last delivered one. *)
LEMMA HeadIsNext ==
    ASSUME IInv, output # <<>>
    PROVE  Head(output)[2] = delivered[Head(output)[1]] + 1
<1> DEFINE p == Head(output)[1]
           n == Head(output)[2]
<1>types. PlanOK /\ SeqsOK BY DEF IInv, TypeOK
<1>old. Ascending /\ Between /\ Gapless BY DEF IInv, ChanInv
<1>head. /\ p \in Pipes /\ n \in Nat /\ Len(output) \in Nat /\ 1 \in 1 .. Len(output)
         /\ output[1][1] = p /\ output[1][2] = n /\ delivered[p] \in Nat
    BY <1>types, HeadIsLine DEF SeqsOK, PlanOK
<1> HIDE DEF p, n
<1>after. delivered[p] < n BY <1>head, <1>old DEF Between
<1>before. ASSUME delivered[p] + 1 < n PROVE FALSE
  <2> DEFINE m == delivered[p] + 1
  <2>there. InOutput(p, m)
      BY <1>before, <1>head, <1>old DEF Gapless
  <2> PICK j \in 1 .. Len(output) : output[j] = <<p, m>> BY <2>there DEF InOutput
  <2>later. 1 < j BY <1>before, <1>head
  <2> QED BY <1>before, <1>head, <1>old, <2>later DEF Ascending
<1> QED BY <1>head, <1>after, <1>before DEF p, n

LEMMA ChanRelay == ASSUME IInv, RelayLine PROVE ChanInv'
<1> DEFINE h == Head(output)[1]
           m == Head(output)[2]
<1>types. PlanOK /\ PcsOK /\ SeqsOK BY DEF IInv, TypeOK
<1>old. Ascending /\ Between /\ NotAhead /\ Gapless /\ AllSent
    BY DEF IInv, ChanInv
<1>head. /\ h \in Pipes /\ m \in Nat /\ Len(output) \in Nat /\ 1 \in 1 .. Len(output)
         /\ output[1] = <<h, m>> /\ m = delivered[h] + 1
         /\ output' = Tail(output) /\ Len(output') = Len(output) - 1
         /\ \A i \in 1 .. Len(output) - 1 : output'[i] = output[i + 1]
    BY <1>types, HeadIsLine, HeadIsNext DEF SeqsOK, RelayLine, Line
<1>delivered. /\ delivered' = [delivered EXCEPT ![h] = m]
              /\ \A q \in Pipes : delivered[q] \in Nat /\ delivered[q] <= delivered'[q]
              /\ delivered'[h] = m
    BY <1>types, <1>head DEF RelayLine, PlanOK
<1>sent. /\ \A q \in Pipes : Sent(q)' = Sent(q) /\ Sent(q) \in Int
         /\ \A q \in Pipes : Uncut(q)' = Uncut(q)
    BY <1>types DEF RelayLine, Sent, Uncut, CtxDone, PlanOK, PcsOK, Holding
<1>elems. \A i \in 1 .. Len(output) : output[i][1] \in Pipes /\ output[i][2] \in Nat
    BY <1>types DEF SeqsOK, Line
<1> HIDE DEF h, m
<1>in. ASSUME NEW q \in Pipes, NEW n \in Nat, InOutput(q, n)
       PROVE  InOutput(q, n)' \/ (q = h /\ n = m)
  <2> PICK i \in 1 .. Len(output) : output[i] = <<q, n>> BY <1>in DEF InOutput
  <2>first. CASE i = 1 BY <2>first, <1>head
  <2>later. CASE i # 1
    <3>j. i - 1 \in 1 .. Len(output') /\ output'[i - 1] = <<q, n>>
        BY <2>later, <1>head
    <3> QED BY <3>j DEF InOutput
  <2> QED BY <2>first, <2>later
<1>asc. Ascending' BY <1>old, <1>head DEF Ascending
<1>between. Between'
  <2> SUFFICES ASSUME NEW q \in Pipes, NEW i \in 1 .. Len(output'), output'[i][1] = q
               PROVE  delivered'[q] < output'[i][2] /\ output'[i][2] <= Sent(q)'
      BY DEF Between
  <2>i. /\ i + 1 \in 1 .. Len(output) /\ output'[i] = output[i + 1] /\ 1 < i + 1
        /\ output[i + 1][1] = q
      BY <1>head
  <2>this. CASE q = h
      BY <2>this, <2>i, <1>old, <1>head, <1>delivered, <1>sent, <1>elems
         DEF Ascending, Between
  <2>other. CASE q # h
      BY <2>other, <2>i, <1>old, <1>head, <1>delivered, <1>sent, <1>elems DEF Between
  <2> QED BY <2>this, <2>other
<1>ahead. NotAhead'
  <2>h. m <= Sent(h) BY <1>old, <1>head DEF Between
  <2> QED BY <2>h, <1>old, <1>head, <1>delivered, <1>sent DEF NotAhead
<1>gapless. Gapless'
  <2> SUFFICES ASSUME NEW q \in Pipes, NEW i \in 1 .. Len(output'),
                      NEW n \in 1 .. output'[i][2], output'[i][1] = q
               PROVE  n <= delivered'[q] \/ InOutput(q, n)'
      BY DEF Gapless
  <2>i. i + 1 \in 1 .. Len(output) /\ output'[i] = output[i + 1] BY <1>head
  <2>before. n <= delivered[q] \/ InOutput(q, n) BY <2>i, <1>old DEF Gapless
  <2> QED BY <2>before, <1>in, <1>delivered, <1>head
<1>all. AllSent'
  <2> SUFFICES ASSUME NEW q \in Pipes, Uncut(q)', NEW n \in 1 .. Sent(q)'
               PROVE  n <= delivered'[q] \/ InOutput(q, n)'
      BY DEF AllSent
  <2>before. n <= delivered[q] \/ InOutput(q, n) BY <1>old, <1>sent DEF AllSent
  <2> QED BY <2>before, <1>in, <1>delivered, <1>head
<1> QED BY <1>asc, <1>between, <1>ahead, <1>gapless, <1>all DEF ChanInv

(* case <-ctx.Done(): the line in hand is not sent, and no more is promised. *)
LEMMA ChanAbort == ASSUME IInv, NEW p \in Pipes, SendAborted(p) PROVE ChanInv'
<1>types. PlanOK /\ PcsOK /\ SeqsOK BY DEF IInv, TypeOK
<1>old. Ascending /\ Between /\ NotAhead /\ Gapless /\ AllSent /\ PcInv
    BY DEF IInv, ChanInv
<1>same. UNCHANGED <<output, delivered, scanned, result, client, expired, mpc>>
    BY DEF SendAborted, ReaderGoto
<1>sent. /\ \A q \in Pipes : Sent(q) \in Int /\ Sent(q)' \in Int /\ Sent(q) <= Sent(q)'
         /\ \A q \in Pipes : q # p => Sent(q)' = Sent(q)
    BY <1>types DEF SendAborted, AfterDone, ReaderGoto, Sent, Holding, PcsOK, PlanOK
<1>lines. \A i \in 1 .. Len(output) : output[i][1] \in Pipes /\ output[i][2] \in Nat
    BY <1>types DEF SeqsOK, Line
<1>nums. \A q \in Pipes : delivered[q] \in Nat
    BY <1>types DEF PlanOK
<1>elems. /\ \A i \in 1 .. Len(output) : output[i][1] \in Pipes /\ output[i][2] \in Nat
          /\ \A q \in Pipes : delivered[q] \in Nat
    BY <1>lines, <1>nums
<1>cut. ~Uncut(p)'
  <2>ctx. CtxDone' BY <1>same DEF SendAborted, CtxDone
  <2>result. result' # "completed" BY <1>types, <1>old, <1>same DEF SendAborted, PcInv
  <2>label. rpc'[p] = "report" BY <1>types DEF SendAborted, AfterDone, ReaderGoto, PcsOK
  <2> QED BY <2>ctx, <2>result, <2>label DEF Uncut, Holding
<1>other. \A q \in Pipes : q # p => Uncut(q)' = Uncut(q)
    BY <1>types, <1>same DEF SendAborted, ReaderGoto, Uncut, CtxDone, PcsOK
<1>in. \A q \in Pipes, n \in Nat : InOutput(q, n)' = InOutput(q, n)
    BY <1>same DEF InOutput
<1>asc. Ascending' BY <1>old, <1>same DEF Ascending
<1>between. Between' BY <1>old, <1>same, <1>sent, <1>elems DEF Between
<1>ahead. NotAhead' BY <1>old, <1>same, <1>sent, <1>elems DEF NotAhead
<1>gapless. Gapless' BY <1>old, <1>same, <1>in, <1>elems DEF Gapless
<1>all. AllSent' BY <1>old, <1>same, <1>cut, <1>other, <1>sent, <1>in DEF AllSent
<1> QED BY <1>asc, <1>between, <1>ahead, <1>gapless, <1>all DEF ChanInv

LEMMA ChanStep == ASSUME IInv, [Next]_vars PROVE ChanInv'
<1>types. PlanOK /\ PcsOK /\ SeqsOK BY DEF IInv, TypeOK
<1>old. ChanInv /\ PcInv BY DEF IInv
<1>kept. ASSUME UNCHANGED <<output, delivered>>,
                \A p \in Pipes : Sent(p)' = Sent(p) /\ (Uncut(p)' => Uncut(p))
         PROVE  ChanInv'
    BY <1>kept, <1>old, <1>types, ChanKept DEF SeqsOK
<1>reader. ASSUME NEW p \in Pipes,
                  ScanLine(p) \/ ScanTooLong(p) \/ ScanEOF(p) \/ LoadBuilder(p)
                  \/ StoreBuilder(p) \/ ReaderDone(p)
           PROVE ChanInv'
  <2> DEFINE S == {"load", "store", "report", "send", "gone"}
  <2>label. \E l \in S : rpc' = [rpc EXCEPT ![p] = l]
      BY <1>reader DEF ReaderGoto, ScanLine, ScanTooLong, ScanEOF, LoadBuilder,
          StoreBuilder, ReaderDone
  <2>same. UNCHANGED <<output, delivered, result, client, expired>>
      BY <1>reader DEF ReaderGoto, ScanLine, ScanTooLong, ScanEOF, LoadBuilder,
          StoreBuilder, ReaderDone
  <2>scan. ASSUME ScanLine(p) PROVE \A q \in Pipes : Sent(q)' = Sent(q)
    <3>num. scanned[p] \in Int BY <1>types DEF PlanOK
    <3>this. rpc[p] = "scan" /\ rpc'[p] = "load" /\ scanned'[p] = scanned[p] + 1
        BY <2>scan, <1>types DEF ScanLine, ReaderGoto, PcsOK, PlanOK
    <3>other. \A q \in Pipes : q # p => rpc'[q] = rpc[q] /\ scanned'[q] = scanned[q]
        BY <2>scan, <1>types DEF ScanLine, ReaderGoto, PcsOK, PlanOK
    <3> QED BY <3>num, <3>this, <3>other DEF Sent, Holding
  <2>stay. ASSUME ~ScanLine(p) PROVE \A q \in Pipes : Sent(q)' = Sent(q)
      BY <1>reader, <2>stay, <1>types DEF ReaderGoto, ScanTooLong, ScanEOF,
          LoadBuilder, StoreBuilder, ReaderDone, Sent, Holding, PcsOK
  <2>sent. \A q \in Pipes : Sent(q)' = Sent(q)
      BY <2>scan, <2>stay
  <2>this. Uncut(p)' => Uncut(p)
      BY <1>reader, <2>same, <1>types DEF ReaderGoto, ScanLine, ScanTooLong, ScanEOF,
          LoadBuilder, StoreBuilder, ReaderDone, Uncut, Holding, CtxDone, PcsOK
  <2>other. \A q \in Pipes : q # p => (Uncut(q)' => Uncut(q))
      BY <2>label, <2>same, <1>types DEF Uncut, CtxDone, PcsOK
  <2> QED BY <2>same, <2>sent, <2>this, <2>other, <1>kept
<1>start. ASSUME StartProcess PROVE ChanInv'
  <2>new. \A q \in Pipes : rpc[q] = "new" /\ rpc'[q] = "scan"
      BY <1>start, <1>old DEF StartProcess, PcInv
  <2> QED BY <1>start, <2>new, <1>kept DEF StartProcess, Sent, Uncut, Holding
<1>wait. ASSUME WaitProcess PROVE ChanInv'
  <2>completed. result' = "completed" => ~CtxDone
      BY <1>wait, <1>types DEF WaitProcess, WaitResult, PcsOK
  <2>same. UNCHANGED <<output, delivered, rpc, scanned, client, expired>>
      BY <1>wait DEF WaitProcess
  <2>ctx. CtxDone' = CtxDone BY <2>same DEF CtxDone
  <2>uncut. \A q \in Pipes : Uncut(q)' => Uncut(q)
      BY <2>completed, <2>same, <2>ctx DEF Uncut
  <2>sent. \A q \in Pipes : Sent(q)' = Sent(q) BY <2>same DEF Sent
  <2> QED BY <2>same, <2>uncut, <2>sent, <1>kept
<1>rest. ASSUME SetupFails \/ PipesDone \/ RunStreamReturns \/ OutputClosed
                \/ FinalEvent \/ HandlerLeaves \/ ProcStep \/ ProcDies
                \/ ClientLeaves \/ TimeoutExpires \/ UNCHANGED vars
         PROVE ChanInv'
  <2>same. UNCHANGED <<output, delivered, rpc, scanned>>
      BY <1>rest DEF SetupFails, PipesDone, RunStreamReturns, OutputClosed,
          FinalEvent, HandlerLeaves, ProcStep, ProcWrites, ProcExits, ProcKilled,
          ProcEnds, ProcDies, ClientLeaves, TimeoutExpires, vars
  <2>ctx. CtxDone => CtxDone'
      BY <1>rest DEF SetupFails, PipesDone, RunStreamReturns, OutputClosed,
          FinalEvent, HandlerLeaves, ProcStep, ProcWrites, ProcExits, ProcKilled,
          ProcEnds, ProcDies, ClientLeaves, TimeoutExpires, vars, CtxDone
  <2>result. result' = "completed" => result = "completed"
      BY <1>rest DEF SetupFails, PipesDone, RunStreamReturns, OutputClosed,
          FinalEvent, HandlerLeaves, ProcStep, ProcWrites, ProcExits, ProcKilled,
          ProcEnds, ProcDies, ClientLeaves, TimeoutExpires, vars
  <2>sent. \A q \in Pipes : Sent(q)' = Sent(q) BY <2>same DEF Sent
  <2>uncut. \A q \in Pipes : Uncut(q)' => Uncut(q)
      BY <2>same, <2>ctx, <2>result DEF Uncut
  <2> QED BY <2>same, <2>sent, <2>uncut, <1>kept
<1> QED BY ChanSend, ChanRelay, ChanAbort, <1>reader, <1>start, <1>wait, <1>rest
        DEF Next, ReaderStep, MainStep, HandlerStep

----------------------------------------------------------------------------
(* A reader that ended on its own has read all there is. *)
LEMMA WholeStep == ASSUME IInv, [Next]_vars PROVE WholeInv'
<1>types. PlanOK /\ PcsOK /\ SeqsOK BY DEF IInv, TypeOK
<1>old. WholeInv /\ CountInv /\ PcInv BY DEF IInv
<1> DEFINE Done(p) == rpc[p] \in {"report", "gone"}
           Good(p) == /\ scanned[p] = Expected(p)
                      /\ proc # "running" \/ long[p] \in 1 .. wrote[p]
<1>kept. ASSUME UNCHANGED <<scanned, wrote, long>>,
                proc # "running" => proc' # "running",
                \A p \in Pipes : Done(p)' /\ Uncut(p)' => Done(p) /\ Uncut(p)
         PROVE  WholeInv'
    BY <1>kept, <1>old DEF WholeInv, Expected
<1>scan. ASSUME NEW p \in Pipes, ScanLine(p) PROVE WholeInv'
  <2> SUFFICES ASSUME NEW q \in Pipes, Done(q)', Uncut(q)' PROVE Good(q)'
      BY DEF WholeInv
  <2>other. q # p /\ rpc'[q] = rpc[q] /\ scanned'[q] = scanned[q]
      BY <1>scan, <1>types DEF ScanLine, ReaderGoto, PcsOK, PlanOK
  <2>uncut. Uncut(q)
      BY <1>scan, <2>other DEF ScanLine, ReaderGoto, Uncut, CtxDone
  <2>good. Good(q) BY <2>other, <2>uncut, <1>old DEF WholeInv
  <2>same. UNCHANGED <<long, wrote, proc>> BY <1>scan DEF ScanLine, ReaderGoto
  <2> QED BY <2>other, <2>good, <2>same DEF Expected
<1>end. ASSUME NEW p \in Pipes, ScanTooLong(p) \/ ScanEOF(p) PROVE WholeInv'
  <2> SUFFICES ASSUME NEW q \in Pipes, Done(q)', Uncut(q)' PROVE Good(q)'
      BY DEF WholeInv
  <2>same. UNCHANGED <<long, wrote, proc, scanned, client, expired, result>>
      BY <1>end DEF ScanTooLong, ScanEOF, ReaderGoto
  <2>this. CASE q = p
    <3>num. scanned[p] \in Nat /\ wrote[p] \in Nat /\ long[p] \in Nat
        BY <1>types DEF PlanOK
    <3>long. CASE ScanTooLong(p)
        BY <2>this, <2>same, <3>num, <3>long DEF ScanTooLong, Expected
    <3>eof. CASE ScanEOF(p)
        BY <2>this, <2>same, <3>num, <3>eof, <1>old DEF ScanEOF, Expected, CountInv
    <3> QED BY <1>end, <3>long, <3>eof
  <2>other. CASE q # p
    <3>rpc. rpc'[q] = rpc[q]
        BY <1>end, <2>other, <1>types DEF ScanTooLong, ScanEOF, ReaderGoto, PcsOK
    <3>uncut. Uncut(q) BY <2>same, <3>rpc DEF Uncut, CtxDone
    <3> QED BY <2>same, <3>rpc, <3>uncut, <1>old DEF WholeInv, Expected
  <2> QED BY <2>this, <2>other
<1>busy. ASSUME NEW p \in Pipes, LoadBuilder(p) \/ StoreBuilder(p) \/ SendLine(p)
                                 \/ ReaderDone(p)
         PROVE WholeInv'
  <2>same. UNCHANGED <<long, wrote, proc, scanned, client, expired, result>>
      BY <1>busy DEF LoadBuilder, StoreBuilder, SendLine, ReaderDone, ReaderGoto
  <2>done. \A q \in Pipes : Done(q)' => Done(q)
      BY <1>busy, <1>types DEF LoadBuilder, StoreBuilder, SendLine, ReaderDone,
          ReaderGoto, PcsOK
  <2>uncut. \A q \in Pipes : Done(q) /\ Done(q)' => (Uncut(q)' => Uncut(q))
      BY <2>same DEF Uncut, CtxDone, Holding
  <2> QED BY <2>same, <2>done, <2>uncut, <1>kept
<1>abort. ASSUME NEW p \in Pipes, SendAborted(p) PROVE WholeInv'
  <2> SUFFICES ASSUME NEW q \in Pipes, Done(q)', Uncut(q)' PROVE Good(q)'
      BY DEF WholeInv
  <2>same. UNCHANGED <<long, wrote, proc, scanned, client, expired, result>>
      BY <1>abort DEF SendAborted, ReaderGoto
  <2>ctx. CtxDone' /\ result' # "completed"
      BY <1>abort, <2>same, <1>old, <1>types DEF SendAborted, CtxDone, PcInv
  <2>other. q # p
      BY <1>abort, <2>ctx, <1>types DEF SendAborted, AfterDone, ReaderGoto, Uncut, PcsOK, Holding
  <2>rpc. rpc'[q] = rpc[q]
      BY <1>abort, <2>other, <1>types DEF SendAborted, ReaderGoto, PcsOK
  <2>uncut. Uncut(q) BY <2>same, <2>rpc DEF Uncut, CtxDone
  <2> QED BY <2>same, <2>rpc, <2>uncut, <1>old DEF WholeInv, Expected
<1>write. ASSUME NEW p \in Pipes, ProcWrites(p) PROVE WholeInv'
  <2> SUFFICES ASSUME NEW q \in Pipes, Done(q)', Uncut(q)' PROVE Good(q)'
      BY DEF WholeInv
  <2>same. UNCHANGED <<long, rpc, proc, scanned, client, expired, result>>
      BY <1>write DEF ProcWrites
  <2>good. Good(q) BY <2>same, <1>old DEF WholeInv, Uncut, CtxDone
  <2>num. wrote[q] \in Nat /\ wrote'[q] \in Nat /\ wrote[q] <= wrote'[q] /\ long[q] \in Nat
      BY <1>write, <1>types DEF ProcWrites, PlanOK
  <2>running. proc = "running" BY <1>write DEF ProcWrites
  <2> QED BY <2>same, <2>good, <2>num, <2>running DEF Expected
<1>start. ASSUME StartProcess PROVE WholeInv'
    BY <1>start DEF StartProcess, WholeInv
<1>rest. ASSUME SetupFails \/ PipesDone \/ WaitProcess \/ RunStreamReturns
                \/ HandlerStep \/ ProcExits \/ ProcKilled \/ ProcDies
                \/ ClientLeaves \/ TimeoutExpires \/ UNCHANGED vars
         PROVE WholeInv'
  <2>same. UNCHANGED <<long, wrote, rpc, scanned>>
      BY <1>rest DEF SetupFails, PipesDone, WaitProcess, RunStreamReturns,
          HandlerStep, RelayLine, OutputClosed, FinalEvent, HandlerLeaves,
          ProcExits, ProcKilled, ProcEnds, ProcDies, ClientLeaves, TimeoutExpires, vars
  <2>proc. proc # "running" => proc' # "running"
      BY <1>rest DEF SetupFails, PipesDone, WaitProcess, RunStreamReturns,
          HandlerStep, RelayLine, OutputClosed, FinalEvent, HandlerLeaves,
          ProcExits, ProcKilled, ProcEnds, ProcDies, ClientLeaves, TimeoutExpires, vars
  <2>ctx. CtxDone => CtxDone'
      BY <1>rest DEF SetupFails, PipesDone, WaitProcess, RunStreamReturns,
          HandlerStep, RelayLine, OutputClosed, FinalEvent, HandlerLeaves,
          ProcExits, ProcKilled, ProcEnds, ProcDies, ClientLeaves, TimeoutExpires,
          vars, CtxDone
  <2>result. result' = "completed" => result = "completed" \/ ~CtxDone
      BY <1>rest, <1>types DEF SetupFails, PipesDone, WaitProcess, WaitResult,
          RunStreamReturns, HandlerStep, RelayLine, OutputClosed, FinalEvent,
          HandlerLeaves, ProcExits, ProcKilled, ProcEnds, ProcDies, ClientLeaves,
          TimeoutExpires, vars, PcsOK
  <2>uncut. \A q \in Pipes : Uncut(q)' => Uncut(q)
      BY <2>same, <2>ctx, <2>result DEF Uncut
  <2> QED BY <2>same, <2>proc, <2>uncut, <1>kept
<1> QED BY <1>scan, <1>end, <1>busy, <1>abort, <1>write, <1>start, <1>rest
        DEF Next, ReaderStep, MainStep, ProcStep

----------------------------------------------------------------------------
(* The invariant that carries the properties: output holds, of each pipe,   *)
(* exactly the lines between the last delivered and the last sent, and a    *)
(* reader that was not cut short has read everything.                       *)
THEOREM Invariance == Spec => []IInv
<1>step. IInv /\ [Next]_vars => IInv'
    BY FlagsStep, PcsStep, PlanStep, SeqsStep, CountStep, PcStep, ChanStep, WholeStep
       DEF IInv, TypeOK
<1> QED BY Initially, <1>step, PTL DEF Spec

(* Types and the capacity of the channel, for every number of pipes. *)
THEOREM TypeCorrect == Spec => []TypeOK
BY Invariance, PTL DEF IInv

(* No reader of runner.go:568-584 ever sends on the output channel that     *)
(* RunStream has closed.                                                    *)
THEOREM NeverPanics == Spec => []NoPanic
<1>now. IInv => NoPanic BY DEF IInv, PcInv, NoPanic
<1> QED BY Invariance, <1>now, PTL

(* A client that is told "completed" has got everything the scanners could  *)
(* read.                                                                    *)
THEOREM CompletedWhole == Spec => []CompletedIsWhole
<1>now. ASSUME IInv, final = "completed", NEW p \in Pipes PROVE delivered[p] = Expected(p)
  <2>types. scanned[p] \in Nat /\ delivered[p] \in Nat BY <1>now DEF IInv, TypeOK, PlanOK
  <2>end. result = "completed" /\ output = <<>> /\ rpc[p] = "gone"
      BY <1>now DEF IInv, PcInv
  <2>uncut. Uncut(p) BY <2>end DEF Uncut
  <2>read. scanned[p] = Expected(p) BY <1>now, <2>end, <2>uncut DEF IInv, WholeInv
  <2>sent. Sent(p) = scanned[p] BY <2>end DEF Sent, Holding
  <2>ahead. delivered[p] <= scanned[p] BY <1>now, <2>sent DEF IInv, ChanInv, NotAhead
  <2>none. \A n \in Nat : ~InOutput(p, n) BY <2>end DEF InOutput
  <2>all. scanned[p] <= delivered[p]
      BY <1>now, <2>types, <2>uncut, <2>sent, <2>none DEF IInv, ChanInv, AllSent
  <2> QED BY <2>types, <2>read, <2>ahead, <2>all
<1>inv. IInv => CompletedIsWhole BY <1>now DEF CompletedIsWhole
<1> QED BY Invariance, <1>inv, PTL

(* The client sees each pipe's lines one after the other, without a gap or  *)
(* a repetition.                                                            *)
THEOREM DeliveredInOrder == Spec => InOrder
<1>step. ASSUME IInv, [Next]_vars
         PROVE  [\A p \in Pipes : delivered'[p] \in {delivered[p], delivered[p] + 1}]_vars
  <2>relay. CASE RelayLine
    <3>new. delivered' = [delivered EXCEPT ![Head(output)[1]] = delivered[Head(output)[1]] + 1]
        BY <1>step, <2>relay, HeadIsNext DEF RelayLine
    <3>types. delivered \in [Pipes -> 0 .. MaxLines] BY <1>step DEF IInv, TypeOK, PlanOK
    <3> QED BY <3>new, <3>types
  <2>other. CASE ~RelayLine
    <3> UNCHANGED delivered
        BY <1>step, <2>other DEF Next, vars, ReaderStep, MainStep, HandlerStep,
            ProcStep, ProcEnds, ReaderGoto, SetupFails, StartProcess, ProcWrites,
            ProcExits, ProcDies, ProcKilled, ScanLine, ScanTooLong, ScanEOF,
            LoadBuilder, StoreBuilder, SendLine, SendAborted, ReaderDone, PipesDone,
            WaitProcess, RunStreamReturns, OutputClosed, FinalEvent, HandlerLeaves,
            ClientLeaves, TimeoutExpires
    <3> QED OBVIOUS
  <2> QED BY <2>relay, <2>other
<1> QED BY Invariance, <1>step, PTL DEF Spec, InOrder
=============================================================================
