------------------------------ MODULE Gateway ------------------------------
(***************************************************************************)
(* Clients that read a session's history page by page through the rate      *)
(* limiter (internal/api/server.go: setupRoutes), while runs of the session *)
(* write it.  A client asks for the page behind what it has, asks again     *)
(* when it is told 429, stops when there is no more, and may then fetch one *)
(* of the messages by its uuid.  Other clients list the sessions or finish  *)
(* a run, behind the same limiter, and are shown its title and its usage.   *)
(***************************************************************************)
EXTENDS RateLimit, History

CONSTANT Pagers   \* the clients that read the history

ASSUME PagersAssumption == Pagers \subseteq Clients

VARIABLES
    cpc,        \* per client: "idle", "limited" by getLimiter, "admitted"
    state,      \* per client: what it knows of the history
    collected,  \* per client: the messages it got, <<serial, kind>> each
    total,      \* per client: the total it was told last
    overview,   \* per client: the title and the usage it was shown
    fetched,    \* per client: the answer to GET .../messages/{message_id}
    torn        \* history: clients that had begun when the file they read
                \* was no longer the first match

clientVars == <<cpc, state, collected, total, overview, fetched>>
vars == <<limitVars, historyVars, clientVars, torn>>

NoOverview == [title |-> 0, usage |-> NoUsage]

Init ==
    /\ LimitInit /\ HistoryInit
    /\ cpc = [c \in Clients |-> "idle"] /\ state = [c \in Clients |-> "asking"]
    /\ collected = [c \in Clients |-> << >>] /\ total = [c \in Clients |-> 0]
    /\ overview = [c \in Clients |-> NoOverview]
    /\ fetched = [c \in Clients |-> "no"] /\ torn = {}

CpcGoto(c, label) == cpc' = [cpc EXCEPT ![c] = label]

Fetchable(c) == {m[1] : m \in {collected[c][i] : i \in DOMAIN collected[c]}
                                \cap (Nat \X {"assistant"})}

----------------------------------------------------------------------------
(* RateLimitMiddleware *)

Ask(c) ==
    /\ cpc[c] = "idle"
    /\ state[c] = "asking"
       \/ (state[c] = "complete" /\ fetched[c] = "no" /\ Fetchable(c) # {})
    /\ getLimiter(c) /\ CpcGoto(c, "limited")
    /\ UNCHANGED <<historyVars, state, collected, total, overview, fetched, torn>>

Pass(c) ==
    /\ Allow(c) /\ CpcGoto(c, "admitted")
    /\ UNCHANGED <<historyVars, state, collected, total, overview, fetched, torn>>

Refuse(c) ==
    /\ TooManyRequests(c) /\ CpcGoto(c, "idle")
    /\ UNCHANGED <<historyVars, state, collected, total, overview, fetched, torn>>

----------------------------------------------------------------------------
(* The handlers, behind the limiter *)

SessionMessages(c) ==
    /\ c \in Pagers /\ cpc[c] = "admitted" /\ state[c] = "asking" /\ CpcGoto(c, "idle")
    /\ \/ /\ findSessionFile = 0
          /\ state' = [state EXCEPT ![c] = "notFound"]
          /\ UNCHANGED <<collected, total>>
       \/ /\ findSessionFile # 0 /\ TooLong(findSessionFile)
          /\ state' = [state EXCEPT ![c] = "failed"]
          /\ UNCHANGED <<collected, total>>
       \/ /\ findSessionFile # 0 /\ ~TooLong(findSessionFile)
          /\ \E limit \in Limits :
               LET page == ListMessages(findSessionFile, Len(collected[c]), limit)
               IN  /\ collected' = [collected EXCEPT ![c] = @ \o page.messages]
                   /\ total' = [total EXCEPT ![c] = page.total]
                   /\ state' = [state EXCEPT ![c] =
                                  IF page.hasMore THEN "asking" ELSE "complete"]
    /\ UNCHANGED <<limitVars, historyVars, overview, fetched, torn>>

(* listSessions, and what runClaude answers with: one reads the title, the  *)
(* other the usage.                                                         *)
Summarise(c) ==
    /\ c \notin Pagers /\ cpc[c] = "admitted" /\ CpcGoto(c, "idle")
    /\ state' = [state EXCEPT ![c] = "complete"]
    /\ \/ overview' = [overview EXCEPT ![c].title = GetTitle(findSessionFile)]
       \/ overview' = [overview EXCEPT ![c].usage = AggregateUsage(findSessionFile)]
    /\ UNCHANGED <<limitVars, historyVars, collected, total, fetched, torn>>

SessionMessage(c) ==
    /\ cpc[c] = "admitted" /\ state[c] = "complete" /\ CpcGoto(c, "idle")
    /\ \E uuid \in Fetchable(c) :
         fetched' = [fetched EXCEPT ![c] =
             IF findSessionFile = 0 THEN "notFound" ELSE GetMessage(findSessionFile, uuid)]
    /\ UNCHANGED <<limitVars, historyVars, state, collected, total, overview, torn>>

----------------------------------------------------------------------------
(* The session's files change: what a client has may no longer match. *)
WriterStep ==
    /\ \/ \E f \in Folders : \/ NewFile(f) \/ BeginLine(f) \/ GrowLine(f)
                             \/ \E k \in Kinds : EndLine(f, k)
       \/ destroySession
    /\ torn' = IF findSessionFile' = findSessionFile THEN torn
               ELSE torn \cup {c \in Clients : collected[c] # << >>}
    /\ UNCHANGED <<limitVars, clientVars>>

LimiterStep ==
    /\ cleanupStaleEntries \/ Tick
    /\ UNCHANGED <<historyVars, clientVars, torn>>

ClientStep(c) ==
    \/ Ask(c) \/ Pass(c) \/ Refuse(c)
    \/ SessionMessages(c) \/ SessionMessage(c) \/ Summarise(c)

Next == WriterStep \/ LimiterStep \/ \E c \in Clients : ClientStep(c)

Spec == Init /\ [][Next]_vars

(* Time passes, the server serves what it admits, and clients do not give   *)
(* up.  Nothing is asked of the writers.                                    *)
FairSpec ==
    /\ Spec
    /\ WF_vars(Tick /\ UNCHANGED <<historyVars, clientVars, torn>>)
    /\ \A c \in Clients : WF_vars(ClientStep(c))

----------------------------------------------------------------------------
(* Properties *)

(* The types of the variables. *)
TypeOK ==
    /\ LimitOK /\ HistoryOK
    /\ cpc \in [Clients -> {"idle", "limited", "admitted"}]
    /\ state \in [Clients -> {"asking", "complete", "notFound", "failed"}]
    /\ collected \in [Clients -> Seq(Nat \X Kinds)] /\ total \in [Clients -> Nat]
    /\ overview \in [Clients -> [title : Nat, usage : Nat \cup {NoUsage}]]
    /\ fetched \in [Clients -> {"no", "found", "notFound", "error"}]
    /\ torn \subseteq Clients

(* In any window an address gets no more requests through than a full       *)
(* bucket and what flowed in since, although idle entries are dropped and   *)
(* made anew with a full bucket (ratelimit.go:62-101) and requests use      *)
(* their bucket after they let go of the lock.  What a bucket lacks when it *)
(* is dropped is forgiven at most once in every Respite of the window; it   *)
(* is nothing when a bucket fills up in that time.                          *)
AdmittedBounded ==
    \A ip \in IPs : \E drops \in 0 .. elapsed :
        /\ Respite * drops <= elapsed
        /\ passed[ip] <= Burst + Rate * elapsed + Forgiven * drops

(* The pages a client put together are the beginning of the conversation:   *)
(* no message is missing, repeated or cut short, although the file grows    *)
(* and its last line may be half written when it is read, and a client that *)
(* was told there is no more has as many messages as it was told there are. *)
(* A session that was destroyed meanwhile, or has got a file in an earlier  *)
(* folder, is another one (reader.go:68-157).                               *)
PagesAreWhole ==
    \A c \in Pagers \ torn :
        /\ collected[c] # << >> =>
             \E n \in 0 .. Len(allMessages(findSessionFile)) :
                collected[c] = SubSeq(allMessages(findSessionFile), 1, n)
        /\ state[c] = "complete" => Len(collected[c]) = total[c]

(* A message that a list has shown can be fetched by its uuid as long as    *)
(* the file is there, even when a line that came later makes the file too   *)
(* long to list (reader.go:160-197).                                        *)
ListedIsFetchable ==
    [][\A c \in Clients \ torn : fetched'[c] \in {"no", "found"} \/ fetched'[c] = fetched[c]]_vars

(* A usage that is answered counts every message any client has been shown  *)
(* before, and a title is at least as recent as any title shown: the totals *)
(* of a run and the pages of its history agree (reader.go:204-306).         *)
OverviewCoversPages ==
    [][\A c \in Clients, d \in Pagers \ torn :
         LET shown(kind) == {i \in DOMAIN collected[d] : collected[d][i][2] = kind}
         IN  /\ overview'[c].usage \notin {overview[c].usage, NoUsage} =>
                    Cardinality(shown("assistant")) <= overview'[c].usage
             /\ overview'[c].title \notin {overview[c].title, 0} =>
                    \A i \in shown("custom-title") : collected[d][i][1] <= overview'[c].title]_vars

(* A client that asks again when it is refused comes to the end of the      *)
(* history, also when it shares its address with another one.               *)
PagingEnds == \A c \in Clients : <>(state[c] # "asking")

----------------------------------------------------------------------------
(* See TokenBucket: an address without an entry has a full bucket. *)
Ideal == INSTANCE TokenBucket WITH
    Quiet <- CleanupInterval, Patience <- MaxStall,
    level <- [ip \in IPs |->
                IF limiters[ip] = NoBucket THEN Burst ELSE tokens[limiters[ip]]],
    quiet <- [ip \in IPs |-> IF limiters[ip] = NoBucket THEN Stale ELSE idle[ip]]

(* The map with its clean-up cannot be told from one bucket per address:    *)
(* tokens are given away only to an address that was quiet for longer than  *)
(* the interval, never to one whose requests keep coming, and no request    *)
(* takes its token from a bucket that has been dropped (ratelimit.go:62-101). *)
BucketsAreIdeal == Ideal!Spec
=============================================================================
