------------------------------ MODULE MCStream ------------------------------
(***************************************************************************)
(* Stream for TLC: two pipes of up to two lines, and a claim of the         *)
(* repository about the result of a streamed run.                           *)
(***************************************************************************)
EXTENDS Stream

(* runner.go:562 "Collect all output for final result": the output of a     *)
(* completed run holds every line that was scanned.                         *)
AllCollected ==
    result = "completed" =>
        \A p \in Pipes : \A i \in 1 .. scanned[p] :
            \E k \in 1 .. Len(allOutput) : allOutput[k] = <<p, i>>
=============================================================================
