----------------------------- MODULE MCCompose -----------------------------
(***************************************************************************)
(* Compose for TLC.                                                         *)
(***************************************************************************)
EXTENDS Compose

CONSTANTS r1, r2

(* The two runs name different services. *)
MCService == [r \in {r1, r2} |-> IF r = r1 THEN "app" ELSE "web"]
=============================================================================
