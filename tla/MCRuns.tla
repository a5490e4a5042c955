------------------------------- MODULE MCRuns -------------------------------
(***************************************************************************)
(* Runs for TLC, and the marker's contract without the precondition that    *)
(* DELETE /sessions/{id} does not establish.                                *)
(***************************************************************************)
EXTENDS Runs, TLC

(* Runs with init hooks are interchangeable, and so are runs without. *)
Symmetry == Permutations(Hooked) \cup Permutations(Runs \ Hooked)

(* session.go:29 "Presence = init hooks completed successfully": the marker *)
(* is in a session directory only if the hooks completed in it.             *)
MarkerContract == marker => prepared
=============================================================================
