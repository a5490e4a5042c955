------------------------------ MODULE History ------------------------------
(***************************************************************************)
(* The history of one session as the API shows it (internal/history,        *)
(* api/session_history.go).  Claude appends JSON lines to one file per      *)
(* project folder; the reader takes the first folder that has the file and  *)
(* reads it anew for every request.  A line is a serial number, which also  *)
(* stands for the message's uuid, and a kind:                               *)
(*   "assistant"        a message, with a uuid                              *)
(*   "custom-title"     an entry without one                                *)
(*   "queue-operation"  never shown                                         *)
(*   "garbage"          what is left when a writer died within a line       *)
(*   "huge"             over the scanner's limit of 10 MB                   *)
(***************************************************************************)
EXTENDS Integers, Sequences, FiniteSets

CONSTANTS
    Folders,       \* project folders, in the order of filepath.Glob
    Kinds,         \* kinds of lines
    DefaultLimit,  \* 50 messages
    MaxLimit,      \* 200 messages
    Limits,        \* what clients put into ?limit=; 0 is none, or not a number
    MaxLines       \* bound on the lines written

ASSUME FoldersAssumption == Folders \subseteq Nat \ {0}
ASSUME LimitsAssumption ==
    /\ DefaultLimit \in Nat \ {0} /\ MaxLimit \in Nat /\ MaxLimit >= DefaultLimit
    /\ Limits \subseteq Int /\ MaxLines \in Nat

VARIABLES
    present,   \* the folders that have the session's file
    files,     \* per folder: the lines written completely
    part,      \* the folders in whose file a line is half written,
    overlong,  \* and has come over the scanner's limit
    written    \* lines written so far

historyVars == <<present, files, part, overlong, written>>

HistoryInit ==
    /\ present = {} /\ files = [f \in Folders |-> << >>]
    /\ part = {} /\ overlong = {} /\ written = 0

----------------------------------------------------------------------------
(* The writers: runs of the session, each in its workdir's folder *)

NewFile(f) ==
    /\ f \notin present /\ present' = present \cup {f}
    /\ UNCHANGED <<files, part, overlong, written>>

BeginLine(f) ==
    /\ f \in present \ part /\ written + Cardinality(part) < MaxLines
    /\ part' = part \cup {f}
    /\ UNCHANGED <<present, files, overlong, written>>

GrowLine(f) ==
    /\ f \in part \ overlong /\ "huge" \in Kinds
    /\ overlong' = overlong \cup {f}
    /\ UNCHANGED <<present, files, part, written>>

EndLine(f, kind) ==
    /\ f \in part /\ (f \in overlong => kind = "huge")
    /\ part' = part \ {f} /\ overlong' = overlong \ {f}
    /\ written' = written + 1
    /\ files' = [files EXCEPT ![f] = Append(@, <<written + 1, kind>>)]
    /\ UNCHANGED present

(* DELETE /sessions/{id}; what it does beyond this file is in Runs. *)
destroySession ==
    /\ present # {} /\ present' = {} /\ part' = {} /\ overlong' = {}
    /\ files' = [f \in Folders |-> << >>]
    /\ UNCHANGED written

----------------------------------------------------------------------------
(* The reader *)

(* The first match, or 0. *)
findSessionFile ==
    IF present = {} THEN 0
    ELSE CHOOSE f \in present : \A g \in present : f <= g

(* What the scanner yields: it also yields the line being written. *)
Scan(f) == files[f] \o (IF f \in part THEN <<<<0, "partial">>>> ELSE << >>)

(* The scanner fails at a line over its limit, finished or not, when it has *)
(* to read the lines of these numbers.                                      *)
Fails(f, lines) ==
    (\E i \in lines : Scan(f)[i][2] = "huge") \/ (f \in overlong /\ Len(Scan(f)) \in lines)

TooLong(f) == Fails(f, DOMAIN Scan(f))

(* A wrong parseMessage: what can be decoded of half a line is a message. *)
parseMessageLax(kind) == kind # "garbage"

parseMessage(kind) == kind \notin {"garbage", "partial"}

Shown(kind) == parseMessage(kind) /\ kind # "queue-operation"

(* The loop over the lines: what has been appended after the first i. *)
messagesOf(lines) ==
    LET upTo[i \in 0 .. Len(lines)] ==
            IF i = 0 THEN << >>
            ELSE IF Shown(lines[i][2]) THEN Append(upTo[i - 1], lines[i]) ELSE upTo[i - 1]
    IN  upTo[Len(lines)]

allMessages(f) == messagesOf(Scan(f))

Least(a, b) == IF a < b THEN a ELSE b

(* A wrong pageLimit: what is not a number is 0. *)
pageLimitZero(limit) == IF limit > MaxLimit THEN MaxLimit ELSE limit

pageLimit(limit) ==
    IF limit <= 0 THEN DefaultLimit
    ELSE IF limit > MaxLimit THEN MaxLimit ELSE limit

ListMessages(f, offset, limit) ==
    LET total == Len(allMessages(f))
        start == Least(offset, total)
        end == Least(start + pageLimit(limit), total)
    IN  [messages |-> SubSeq(allMessages(f), start + 1, end),
         total |-> total, hasMore |-> end < total]

HasUUID(line) == parseMessage(line[2]) /\ line[2] = "assistant"

(* A wrong ReadUpTo: the whole file is read before the message is searched. *)
ReadUpToEnd(f, uuid) == DOMAIN Scan(f)

(* GetMessage reads no further than the message. *)
ReadUpTo(f, uuid) == {i \in DOMAIN Scan(f) : \A j \in 1 .. i - 1 : Scan(f)[j][1] # uuid}

GetMessage(f, uuid) ==
    IF Fails(f, ReadUpTo(f, uuid)) THEN "error"
    ELSE IF \E i \in DOMAIN Scan(f) : Scan(f)[i][1] = uuid /\ HasUUID(Scan(f)[i]) THEN "found"
    ELSE "notFound"

(* A wrong Counted: the last message's usage in place of the sum. *)
CountedLast(f) ==
    {i \in DOMAIN Scan(f) : HasUUID(Scan(f)[i])
                            /\ \A j \in i + 1 .. Len(Scan(f)) : ~HasUUID(Scan(f)[j])}

Counted(f) == {i \in DOMAIN Scan(f) : HasUUID(Scan(f)[i])}

NoUsage == -1

(* AggregateUsage and buildUsage: the sum over the assistant's messages,    *)
(* one each here; a file that cannot be read has none.                      *)
AggregateUsage(f) ==
    IF f = 0 THEN NoUsage
    ELSE IF TooLong(f) \/ Counted(f) = {} THEN NoUsage
    ELSE Cardinality(Counted(f))

Titles(f) == {Scan(f)[i][1] : i \in {j \in DOMAIN Scan(f) : Scan(f)[j][2] = "custom-title"}}

(* GetTitle: the last title, 0 for none; listSessions ignores its error. *)
GetTitle(f) ==
    IF f = 0 THEN 0
    ELSE IF TooLong(f) \/ Titles(f) = {} THEN 0
    ELSE CHOOSE t \in Titles(f) : \A u \in Titles(f) : u <= t

----------------------------------------------------------------------------
HistoryOK ==
    /\ present \subseteq Folders /\ part \subseteq present /\ overlong \subseteq part
    /\ files \in [Folders -> Seq(Nat \X Kinds)] /\ written \in 0 .. MaxLines
=============================================================================
