------------------------------ MODULE MCAgent ------------------------------
(***************************************************************************)
(* Agent for TLC (the cfg files give small sets of calls as model values    *)
(* and small channels), and a claim of the repository about an agent that   *)
(* the code does not keep.                                                  *)
(***************************************************************************)
EXTENDS Agent, TLC

(* Calls of one kind are interchangeable (used by the safety runs only). *)
Symmetry == Permutations(Senders) \cup Permutations(Stoppers)

(* Clients that read their stream to the end, for StreamEnds. *)
ReadingClients ==
    FairSpec /\ \A s \in Subs : WF_vars(SubRecv(s) \/ SubClosed(s))

(* manager.go:238-240: a subscriber "receives Events until the caller       *)
(* invokes the cancel function [...] or the agent exits".                   *)
StreamEnds ==
    \A s \in Subs : subPc[s] = "stream" /\ done ~> subPc[s] # "stream"
=============================================================================
