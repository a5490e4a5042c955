-------------------------------- MODULE Feed --------------------------------
(***************************************************************************)
(* What an agent promises to those who subscribe to it, while it is in the  *)
(* registry: turns follow one another, each has its events between its      *)
(* begin and its end, and the end is the last; a prompt that was not        *)
(* written is complained about.  A subscriber gets every event from joining *)
(* to parting, and loses the oldest ones when it lets Cap of them wait.     *)
(***************************************************************************)
EXTENDS Naturals, Sequences

CONSTANTS Turns, NoTurn, Subs, Cap

VARIABLES
    serving,    \* the agent has not been taken out of the registry
    phase,      \* per turn: where it is in its life
    feed,       \* per subscriber: the events that wait for it
    listening,  \* the subscribers that get the events published
    closed      \* the subscribers that get no more

turnVars == <<serving, phase>>
chanVars == <<feed, listening, closed>>
vars == <<turnVars, chanVars>>

Init ==
    /\ serving = TRUE
    /\ phase = [t \in Turns |-> "new"]
    /\ feed = [s \in Subs |-> << >>]
    /\ listening = {} /\ closed = {}

PhaseGoto(t, from, to) ==
    /\ serving /\ phase[t] = from
    /\ phase' = [phase EXCEPT ![t] = to]
    /\ UNCHANGED serving

Deliver(event) ==
    /\ feed' = [s \in Subs |->
                  IF s \notin listening THEN feed[s]
                  ELSE IF Len(feed[s]) < Cap THEN Append(feed[s], event)
                  ELSE Append(Tail(feed[s]), event)]
    /\ UNCHANGED <<listening, closed>>

----------------------------------------------------------------------------
(* The turns *)

Begin(t) ==
    /\ \A u \in Turns : phase[u] # "current"
    /\ PhaseGoto(t, "new", "current") /\ UNCHANGED chanVars

Fail(t) == PhaseGoto(t, "current", "failed") /\ UNCHANGED chanVars

Finish(t) == PhaseGoto(t, "current", "ending") /\ UNCHANGED chanVars

End(t) == PhaseGoto(t, "ending", "over") /\ Deliver([type |-> "turn_end", turn |-> t])

(* What may be said of a turn, by the phase it is in. *)
Told(event) ==
    \/ event.turn = NoTurn /\ event.type \in {"output", "error", "exited"}
    \/ event.turn \in Turns /\
         \/ event.type = "turn_start" /\ phase[event.turn] = "current"
         \/ event.type \in {"output", "error"} /\ phase[event.turn] \in {"current", "failed"}

Publish(event) == (serving => Told(event)) /\ Deliver(event) /\ UNCHANGED turnVars

(* From now on turns are not told apart. *)
Retire ==
    /\ serving /\ serving' = FALSE
    /\ phase' = [t \in Turns |-> "new"]
    /\ UNCHANGED chanVars

----------------------------------------------------------------------------
(* The subscribers *)

Join(s) ==
    /\ s \notin listening \cup closed /\ listening' = listening \cup {s}
    /\ UNCHANGED <<turnVars, feed, closed>>

Receive(s) ==
    /\ feed[s] # << >> /\ feed' = [feed EXCEPT ![s] = Tail(@)]
    /\ UNCHANGED <<turnVars, listening, closed>>

Part(S) ==
    /\ S \subseteq listening
    /\ listening' = listening \ S /\ closed' = closed \cup S
    /\ UNCHANGED <<turnVars, feed>>

----------------------------------------------------------------------------
Events == [type : {"turn_start", "output", "turn_end", "error", "exited"},
           turn : Turns \cup {NoTurn}]

Next ==
    \/ \E t \in Turns : Begin(t) \/ Fail(t) \/ Finish(t) \/ End(t)
    \/ \E event \in Events : Publish(event)
    \/ Retire
    \/ \E s \in Subs : Join(s) \/ Receive(s)
    \/ \E S \in SUBSET Subs : Part(S)

Spec == Init /\ [][Next]_vars
=============================================================================
