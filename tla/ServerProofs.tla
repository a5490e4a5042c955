---------------------------- MODULE ServerProofs ----------------------------
(***************************************************************************)
(* Proofs about Server, for any number of runs, agents, configurations and  *)
(* starts.  The credentials' secret is dealt with on its own first: every   *)
(* step of the server is, for module Secrets, one of a few moves.           *)
(***************************************************************************)
EXTENDS Server, TLAPS

(* Where a caller holds Manager.mu. *)
Inside == {"hash", "stat", "exists", "rm", "create", "cache"}

(* What a step of the server may do to the secret and its Manager. *)
Enter(c) ==
    /\ spc[c] = "idle" /\ SpcGoto(c, "lock")
    /\ UNCHANGED <<file, edits, secret, cachedHash, mu, cur, seen, doubt>>

Go(c) == spc[c] \in {"synced", "failed"} /\ Leave(c)

SecretsMove ==
    \/ \E c \in Everyone : SyncStep(c) \/ Enter(c) \/ Go(c)
    \/ Edit \/ RemoveFile \/ ApiDelete \/ ApiCreate
    \/ SecretsCrash \/ UNCHANGED secretVars

(* The mutex: who is inside holds it. *)
MutexInv == \A c \in Everyone : spc[c] \in Inside <=> mu = c

(* No content is newer than the last edit, and the file is the newest. *)
EditsInv ==
    /\ file = 0 \/ file = edits
    /\ secret <= edits /\ cachedHash <= edits
    /\ \A c \in Everyone : cur[c] <= edits /\ seen[c] <= edits

(* The secret is at least as new as the cached hash claims. *)
CacheInv == doubt \/ secret = 0 \/ (secret > 0 /\ secret >= cachedHash)

(* Who has just created it wrote what it saw, or newer. *)
CreatedInv ==
    \A c \in Everyone :
        spc[c] = "cache" => doubt \/ secret = 0 \/ (secret >= seen[c] /\ secret >= cur[c])

SyncedInv == \A c \in Everyone : spc[c] = "synced" => FreshFor(c)

SecretsInv ==
    SecretsOK /\ MutexInv /\ EditsInv /\ CacheInv /\ CreatedInv /\ SyncedInv /\ UpdatesDoNotClash

(* The start of the process syncs only while main waits for it. *)
BootInv == phase # "runner" => spc[Boot] = "idle"

USE CallersAssumption, EditsAssumption DEF Everyone, Content, API, Inside

LEMMA SecretsStart == SecretsInit => SecretsInv
  <1> SUFFICES ASSUME SecretsInit PROVE SecretsInv
    OBVIOUS
  <1> USE DEF SecretsInit
  <1>types. SecretsOK
    BY DEF SecretsOK
  <1>mutex. MutexInv
    BY DEF MutexInv
  <1>edits. EditsInv
    BY DEF EditsInv
  <1>cache. CacheInv
    BY DEF CacheInv
  <1>rest. CreatedInv /\ SyncedInv /\ UpdatesDoNotClash
    BY DEF CreatedInv, SyncedInv, UpdatesDoNotClash
  <1> QED
    BY <1>types, <1>mutex, <1>edits, <1>cache, <1>rest DEF SecretsInv

(* The steps of EnsureExists and SyncIfChanged. *)
LEMMA SyncStepKeeps == ASSUME SecretsInv, NEW c \in Everyone, SyncStep(c) PROVE SecretsInv'
  <1> USE DEF SecretsInv, SpcGoto, Return, Continue
  <1>lock. CASE Lock(c)
    <2> USE <1>lock DEF Lock, Unlocked
    <2>types. SecretsOK'
      BY DEF SecretsOK
    <2>mutex. MutexInv'
      BY DEF MutexInv, SecretsOK
    <2>edits. EditsInv'
      BY DEF EditsInv, SecretsOK
    <2>cache. CacheInv'
      BY DEF CacheInv
    <2>created. CreatedInv'
      BY DEF CreatedInv, SecretsOK
    <2>synced. SyncedInv'
      BY DEF SyncedInv, FreshFor, SecretsOK
    <2>clash. UpdatesDoNotClash'
      BY DEF UpdatesDoNotClash, SecretsOK
    <2> QED
      BY <2>types, <2>mutex, <2>edits, <2>cache, <2>created, <2>synced, <2>clash
  <1>hash. CASE SyncHash(c)
    <2> USE <1>hash DEF SyncHash
    <2>types. SecretsOK'
      BY DEF SecretsOK
    <2>mutex. MutexInv'
      BY DEF MutexInv, SecretsOK
    <2>edits. EditsInv'
      BY DEF EditsInv, SecretsOK
    <2>cache. CacheInv'
      BY DEF CacheInv
    <2>created. CreatedInv'
      BY DEF CreatedInv, SecretsOK
    <2>synced. SyncedInv'
      BY DEF SyncedInv, FreshFor, CacheInv, EditsInv, SecretsOK
    <2>clash. UpdatesDoNotClash'
      BY DEF UpdatesDoNotClash, SecretsOK
    <2> QED
      BY <2>types, <2>mutex, <2>edits, <2>cache, <2>created, <2>synced, <2>clash
  <1>stat. CASE c = Boot /\ EnsureStat
    <2> USE <1>stat DEF EnsureStat
    <2>types. SecretsOK'
      BY DEF SecretsOK
    <2>mutex. MutexInv'
      BY DEF MutexInv, SecretsOK
    <2>edits. EditsInv'
      BY DEF EditsInv, SecretsOK
    <2>cache. CacheInv'
      BY DEF CacheInv
    <2>created. CreatedInv'
      BY DEF CreatedInv, SecretsOK
    <2>synced. SyncedInv'
      BY DEF SyncedInv, FreshFor, SecretsOK
    <2>clash. UpdatesDoNotClash'
      BY DEF UpdatesDoNotClash, SecretsOK
    <2> QED
      BY <2>types, <2>mutex, <2>edits, <2>cache, <2>created, <2>synced, <2>clash
  <1>exists. CASE Exists(c)
    <2> USE <1>exists DEF Exists
    <2>types. SecretsOK'
      BY DEF SecretsOK
    <2>mutex. MutexInv'
      BY DEF MutexInv, SecretsOK
    <2>edits. EditsInv'
      BY DEF EditsInv, SecretsOK
    <2>cache. CacheInv'
      BY DEF CacheInv
    <2>created. CreatedInv'
      BY DEF CreatedInv, SecretsOK
    <2>synced. SyncedInv'
      BY DEF SyncedInv, FreshFor, SecretsOK
    <2>clash. UpdatesDoNotClash'
      BY DEF UpdatesDoNotClash, SecretsOK
    <2> QED
      BY <2>types, <2>mutex, <2>edits, <2>cache, <2>created, <2>synced, <2>clash
  <1>remove. CASE Remove(c)
    <2> USE <1>remove DEF Remove
    <2>types. SecretsOK'
      BY DEF SecretsOK
    <2>mutex. MutexInv'
      BY DEF MutexInv, SecretsOK
    <2>edits. EditsInv'
      BY DEF EditsInv, SecretsOK
    <2>cache. CacheInv'
      BY DEF CacheInv
    <2>created. CreatedInv'
      BY DEF CreatedInv, SecretsOK
    <2>synced. SyncedInv'
      BY DEF SyncedInv, FreshFor, SecretsOK
    <2>clash. UpdatesDoNotClash'
      BY DEF UpdatesDoNotClash, MutexInv, SecretsOK
    <2> QED
      BY <2>types, <2>mutex, <2>edits, <2>cache, <2>created, <2>synced, <2>clash
  <1>create. CASE Create(c)
    <2> USE <1>create DEF Create
    <2>types. SecretsOK'
      BY DEF SecretsOK
    <2>mutex. MutexInv'
      BY DEF MutexInv, SecretsOK
    <2>edits. EditsInv'
      BY DEF EditsInv, SecretsOK
    <2>cache. CacheInv'
      BY DEF CacheInv, EditsInv, SecretsOK
    <2>created. CreatedInv'
      BY DEF CreatedInv, EditsInv, SecretsOK
    <2>synced. SyncedInv'
      BY DEF SyncedInv, FreshFor, EditsInv, SecretsOK
    <2>clash. UpdatesDoNotClash'
      BY DEF UpdatesDoNotClash, MutexInv, SecretsOK
    <2> QED
      BY <2>types, <2>mutex, <2>edits, <2>cache, <2>created, <2>synced, <2>clash
  <1>cached. CASE Cache(c)
    <2>pre. spc[c] = "cache" /\ UNCHANGED <<file, edits, secret>>
      BY <1>cached DEF Cache
    <2>doubt. doubt => doubt'
      BY <1>cached, Zenon DEF Cache
    <2>two. \/ Return(c, "failed") /\ cachedHash' = cachedHash
            \/ /\ Return(c, "synced") /\ cachedHash' = HashToCache(c)
               /\ doubt' \/ c # Boot \/ file = secret
      BY <1>cached, Zenon DEF Cache
    <2> USE <2>pre, <2>two DEF HashToCache
    <2>types. SecretsOK'
      BY DEF SecretsOK
    <2>mutex. MutexInv'
      BY DEF MutexInv, SecretsOK
    <2>edits. EditsInv'
      BY DEF EditsInv, SecretsOK
    <2>cache. CacheInv'
      BY <2>doubt DEF CacheInv, CreatedInv, SecretsOK
    <2>created. CreatedInv'
      BY <2>doubt DEF CreatedInv, MutexInv, SecretsOK
    <2>synced. SyncedInv'
      BY <2>doubt DEF SyncedInv, CreatedInv, FreshFor, SecretsOK
    <2>clash. UpdatesDoNotClash'
      BY <2>doubt DEF UpdatesDoNotClash, SecretsOK
    <2> QED
      BY <2>types, <2>mutex, <2>edits, <2>cache, <2>created, <2>synced, <2>clash
  <1> QED
    BY <1>lock, <1>hash, <1>stat, <1>exists, <1>remove, <1>create, <1>cached DEF SyncStep

(* A caller that comes or goes. *)
LEMMA CallKeeps == ASSUME SecretsInv, NEW c \in Everyone, Enter(c) \/ Go(c) PROVE SecretsInv'
  <1> USE DEF SecretsInv, SpcGoto
  <1>enter. CASE Enter(c)
    <2> USE <1>enter DEF Enter
    <2>types. SecretsOK'
      BY DEF SecretsOK
    <2>mutex. MutexInv'
      BY DEF MutexInv, SecretsOK
    <2>edits. EditsInv'
      BY DEF EditsInv, SecretsOK
    <2>cache. CacheInv'
      BY DEF CacheInv, SecretsOK
    <2>created. CreatedInv'
      BY DEF CreatedInv, SecretsOK
    <2>synced. SyncedInv'
      BY DEF SyncedInv, FreshFor, SecretsOK
    <2>clash. UpdatesDoNotClash'
      BY DEF UpdatesDoNotClash, SecretsOK
    <2> QED
      BY <2>types, <2>mutex, <2>edits, <2>cache, <2>created, <2>synced, <2>clash
  <1>go. CASE Go(c)
    <2> USE <1>go DEF Go, Leave
    <2>types. SecretsOK'
      BY DEF SecretsOK
    <2>mutex. MutexInv'
      BY DEF MutexInv, SecretsOK
    <2>edits. EditsInv'
      BY DEF EditsInv, SecretsOK
    <2>cache. CacheInv'
      BY DEF CacheInv, SecretsOK
    <2>created. CreatedInv'
      BY DEF CreatedInv, SecretsOK
    <2>synced. SyncedInv'
      BY DEF SyncedInv, FreshFor, SecretsOK
    <2>clash. UpdatesDoNotClash'
      BY DEF UpdatesDoNotClash, SecretsOK
    <2> QED
      BY <2>types, <2>mutex, <2>edits, <2>cache, <2>created, <2>synced, <2>clash
  <1> QED
    BY <1>enter, <1>go

(* What the host, the API and a crash do. *)
LEMMA OutsideKeeps ==
  ASSUME SecretsInv, Edit \/ RemoveFile \/ ApiDelete \/ ApiCreate \/ SecretsCrash
  PROVE  SecretsInv'
  <1> USE DEF SecretsInv
  <1>edit. CASE Edit
    <2> USE <1>edit DEF Edit
    <2>types. SecretsOK'
      BY DEF SecretsOK
    <2>mutex. MutexInv'
      BY DEF MutexInv, SecretsOK
    <2>edits. EditsInv'
      BY DEF EditsInv, SecretsOK
    <2>cache. CacheInv'
      BY DEF CacheInv, SecretsOK
    <2>created. CreatedInv'
      BY DEF CreatedInv, SecretsOK
    <2>synced. SyncedInv'
      BY DEF SyncedInv, FreshFor, SecretsOK
    <2>clash. UpdatesDoNotClash'
      BY DEF UpdatesDoNotClash, SecretsOK
    <2> QED
      BY <2>types, <2>mutex, <2>edits, <2>cache, <2>created, <2>synced, <2>clash
  <1>rmFile. CASE RemoveFile
    <2> USE <1>rmFile DEF RemoveFile
    <2>types. SecretsOK'
      BY DEF SecretsOK
    <2>mutex. MutexInv'
      BY DEF MutexInv, SecretsOK
    <2>edits. EditsInv'
      BY DEF EditsInv, SecretsOK
    <2>cache. CacheInv'
      BY DEF CacheInv, SecretsOK
    <2>created. CreatedInv'
      BY DEF CreatedInv, SecretsOK
    <2>synced. SyncedInv'
      BY DEF SyncedInv, FreshFor, SecretsOK
    <2>clash. UpdatesDoNotClash'
      BY DEF UpdatesDoNotClash, SecretsOK
    <2> QED
      BY <2>types, <2>mutex, <2>edits, <2>cache, <2>created, <2>synced, <2>clash
  <1>apiDelete. CASE ApiDelete
    <2> USE <1>apiDelete DEF ApiDelete
    <2>types. SecretsOK'
      BY DEF SecretsOK
    <2>mutex. MutexInv'
      BY DEF MutexInv, SecretsOK
    <2>edits. EditsInv'
      BY DEF EditsInv, SecretsOK
    <2>cache. CacheInv'
      BY DEF CacheInv, SecretsOK
    <2>created. CreatedInv'
      BY DEF CreatedInv, SecretsOK
    <2>synced. SyncedInv'
      BY DEF SyncedInv, FreshFor, SecretsOK
    <2>clash. UpdatesDoNotClash'
      BY DEF UpdatesDoNotClash, SecretsOK
    <2> QED
      BY <2>types, <2>mutex, <2>edits, <2>cache, <2>created, <2>synced, <2>clash
  <1>apiCreate. CASE ApiCreate
    <2> USE <1>apiCreate DEF ApiCreate
    <2>types. SecretsOK'
      BY DEF SecretsOK
    <2>mutex. MutexInv'
      BY DEF MutexInv, SecretsOK
    <2>edits. EditsInv'
      BY DEF EditsInv, SecretsOK
    <2>cache. CacheInv'
      BY DEF CacheInv, SecretsOK
    <2>created. CreatedInv'
      BY DEF CreatedInv, SecretsOK
    <2>synced. SyncedInv'
      BY DEF SyncedInv, FreshFor, SecretsOK
    <2>clash. UpdatesDoNotClash'
      BY DEF UpdatesDoNotClash, SecretsOK
    <2> QED
      BY <2>types, <2>mutex, <2>edits, <2>cache, <2>created, <2>synced, <2>clash
  <1>crash. CASE SecretsCrash
    <2> USE <1>crash DEF SecretsCrash
    <2>types. SecretsOK'
      BY DEF SecretsOK
    <2>mutex. MutexInv'
      BY DEF MutexInv, SecretsOK
    <2>edits. EditsInv'
      BY DEF EditsInv, SecretsOK
    <2>cache. CacheInv'
      BY DEF CacheInv, SecretsOK
    <2>created. CreatedInv'
      BY DEF CreatedInv, SecretsOK
    <2>synced. SyncedInv'
      BY DEF SyncedInv, FreshFor, SecretsOK
    <2>clash. UpdatesDoNotClash'
      BY DEF UpdatesDoNotClash, SecretsOK
    <2> QED
      BY <2>types, <2>mutex, <2>edits, <2>cache, <2>created, <2>synced, <2>clash
  <1> QED
    BY <1>edit, <1>rmFile, <1>apiDelete, <1>apiCreate, <1>crash

LEMMA MoveKeeps == SecretsInv /\ SecretsMove => SecretsInv'
  <1> SUFFICES ASSUME SecretsInv, SecretsMove PROVE SecretsInv'
    OBVIOUS
  <1>same. CASE UNCHANGED secretVars
    BY <1>same DEF secretVars, SecretsInv, SecretsOK, MutexInv, EditsInv, CacheInv, CreatedInv,
       SyncedInv, FreshFor, UpdatesDoNotClash
  <1>caller. ASSUME NEW c \in Everyone, SyncStep(c) \/ Enter(c) \/ Go(c) PROVE SecretsInv'
    BY <1>caller, SyncStepKeeps, CallKeeps
  <1> QED
    BY <1>same, <1>caller, OutsideKeeps DEF SecretsMove

----------------------------------------------------------------------------
(* Every step of the server is such a move. *)
LEMMA StepIsMove == ASSUME SecretsOK, BootInv, Next PROVE SecretsMove
  <1>start. CASE Start \/ Crash
    BY <1>start DEF Start, Crash, Die, SecretsMove
  <1>main. CASE MainStep
    <2>tracing. CASE InitTracing
      BY <2>tracing DEF InitTracing, BootInv, Die, SecretsMove, Enter, boxVars
    <2>runner. CASE NewRunner
      BY <2>runner DEF NewRunner, Die, SecretsMove, Go
    <2>config. CASE LoadConfig \/ EnsureImage \/ BuildBlacklist \/ Listen
      BY <2>config DEF LoadConfig, EnsureImage, BuildBlacklist, Listen, Die, SecretsMove
    <2>other. CASE SweepList \/ SweepDone \/ StartLoops \/ StopLoops
                   \/ CollectAgents \/ CloseListener \/ Exit
      BY <2>other DEF SweepList, SweepDone, StartLoops, StopLoops, CollectAgents,
         CloseListener, Exit, SecretsMove
    <2> QED
      BY <1>main, <2>tracing, <2>runner, <2>config, <2>other DEF MainStep
  <1>signal. CASE Signal \/ HostStep \/ SecretsApi
    BY <1>signal DEF Signal, HostStep, SecretsApi, SecretsMove
  <1>sync. ASSUME NEW c \in Everyone, ManagerStep(c) PROVE SecretsMove
    BY <1>sync DEF ManagerStep, SecretsMove
  <1>call. ASSUME NEW r \in Callers, RunArrives(r) \/ RunLeaves(r) PROVE SecretsMove
    BY <1>call DEF RunArrives, RunLeaves, SecretsMove, Enter, Go
  <1>agent. ASSUME NEW a \in Agents, AgentStep(a) PROVE SecretsMove
    BY <1>agent DEF AgentStep, SweepRemove, SkipAgent, ContainerEnds, AgentSpawn, AgentRegister,
       AgentStopped, AgentRemove, AgentGoto, SecretsMove
  <1> QED
    BY <1>start, <1>main, <1>signal, <1>sync, <1>call, <1>agent DEF Next

----------------------------------------------------------------------------
(* main, the agents and their containers *)

(* What has been started was configured soundly. *)
ConfigInv == phase \notin {"down", "load"} => cfg \in Configs /\ parseConfig(cfg)

(* While the sweep lasts, what is left of earlier starts is on its list. *)
SweepInv ==
    phase = "sweeping" =>
        \A a \in old : box[a] = "none" \/ a \in spared \/ a \in toSweep

(* StopAll: what it collected is still on its list, or somebody stops it,   *)
(* or Stop has returned, and then its container is not running or its       *)
(* client was killed.                                                       *)
Halting == {"stopAgents", "drain", "exited"}
StopInv ==
    /\ phase \in Halting =>
        \A a \in collected :
            /\ apc[a] \notin {"none", "spawned"}
            /\ apc[a] \in {"registered", "stopAll"} => a \in ids
            /\ apc[a] = "gone" => box[a] # "running" \/ a \in killed
    /\ phase \in {"drain", "exited"} => ids = {}
    /\ phase = "exited" => \A a \in Agents : apc[a] # "delete"

MainInv == PhaseOK /\ AgentsOK /\ BootInv /\ ConfigInv /\ SweepInv /\ NoOrphansServed /\ StopInv

(* A step that only concerns the secret: Boot's place aside. *)
LEMMA FrameKeeps ==
  ASSUME MainInv, UNCHANGED <<mainVars, agentVars, boxVars>>,
         spc[Boot] = "idle" => spc'[Boot] = "idle"
  PROVE  MainInv'
  BY DEF MainInv, mainVars, agentVars, boxVars, PhaseOK, AgentsOK, BootInv, ConfigInv, SweepInv,
     NoOrphansServed, StopInv, Halting

LEMMA DieKeeps == ASSUME MainInv, Die PROVE MainInv'
  <1> USE DEF MainInv, Die
  <1>types. PhaseOK' /\ AgentsOK'
    BY DEF PhaseOK, AgentsOK
  <1>boot. BootInv' /\ ConfigInv'
    BY DEF BootInv, ConfigInv, SecretsCrash
  <1>rest. SweepInv' /\ NoOrphansServed' /\ StopInv'
    BY DEF SweepInv, NoOrphansServed, StopInv, Halting
  <1> QED
    BY <1>types, <1>boot, <1>rest

LEMMA StartKeeps == ASSUME MainInv, Start PROVE MainInv'
  <1> USE DEF MainInv, Start
  <1>types. PhaseOK' /\ AgentsOK'
    BY BootsAssumption DEF PhaseOK, AgentsOK
  <1>boot. BootInv' /\ ConfigInv'
    BY DEF BootInv, ConfigInv, SecretsCrash
  <1>rest. SweepInv' /\ NoOrphansServed' /\ StopInv'
    BY DEF SweepInv, NoOrphansServed, StopInv, Halting
  <1> QED
    BY <1>types, <1>boot, <1>rest

(* main's own steps, the ones that end the process aside *)
LEMMA MainStepKeeps == ASSUME MainInv, SecretsOK, MainStep PROVE MainInv'
  <1> USE DEF MainInv, Goto
  <1>load. CASE LoadConfig
    <2>c. PICK c \in Configs :
             \/ /\ parseConfig(c) /\ phase' = "image" /\ cfg' = c
                /\ UNCHANGED <<boots, panicked, accepting, agentVars, secretVars, boxVars>>
             \/ ~parseConfig(c) /\ Die
      BY <1>load DEF LoadConfig
    <2>ok. CASE parseConfig(c) /\ phase' = "image" /\ cfg' = c
                /\ UNCHANGED <<boots, panicked, accepting, agentVars, secretVars, boxVars>>
      <3>types. PhaseOK' /\ AgentsOK'
        BY <2>ok DEF PhaseOK, AgentsOK, agentVars, boxVars
      <3>boot. BootInv' /\ ConfigInv'
        BY <1>load, <2>ok DEF LoadConfig, BootInv, ConfigInv, secretVars
      <3>rest. SweepInv' /\ NoOrphansServed' /\ StopInv'
        BY <2>ok DEF SweepInv, NoOrphansServed, StopInv, Halting
      <3> QED
        BY <3>types, <3>boot, <3>rest
    <2> QED
      BY <2>c, <2>ok, DieKeeps
  <1>forth. ASSUME NEW p, NEW q, phase = p, phase' = q, q # "runner",
                   <<p, q>> \in {<<"image", "tracing">>, <<"sweeping", "loops">>,
                                <<"loops", "blacklist">>, <<"blacklist", "listen">>,
                                <<"listen", "serving">>, <<"stopLoops", "collect">>},
                   UNCHANGED <<cfg, boots, agentVars, secretVars, boxVars>>,
                   p = "sweeping" => toSweep = {}
            PROVE  MainInv'
    <2> USE <1>forth
    <2>types. PhaseOK' /\ AgentsOK'
      BY DEF PhaseOK, AgentsOK, agentVars, boxVars
    <2>boot. BootInv' /\ ConfigInv'
      BY DEF BootInv, ConfigInv, secretVars
    <2>sweep. SweepInv' /\ NoOrphansServed'
      BY DEF SweepInv, NoOrphansServed, boxVars
    <2>stop. StopInv'
      BY DEF StopInv, Halting
    <2> QED
      BY <2>types, <2>boot, <2>sweep, <2>stop
  <1>image. CASE EnsureImage
    BY <1>image, <1>forth, DieKeeps DEF EnsureImage
  <1>tracing. CASE InitTracing
    <2>ok. CASE phase' = "runner" /\ UNCHANGED <<cfg, boots, agentVars, boxVars>>
      <3>types. PhaseOK' /\ AgentsOK'
        BY <2>ok DEF PhaseOK, AgentsOK, agentVars, boxVars
      <3>boot. BootInv' /\ ConfigInv'
        BY <1>tracing, <2>ok DEF InitTracing, BootInv, ConfigInv
      <3>rest. SweepInv' /\ NoOrphansServed' /\ StopInv'
        BY <2>ok DEF SweepInv, NoOrphansServed, StopInv, Halting
      <3> QED
        BY <3>types, <3>boot, <3>rest
    <2> QED
      BY <1>tracing, <2>ok, DieKeeps DEF InitTracing
  <1>runner. CASE NewRunner
    <2>ok. CASE phase' = "sweep" /\ UNCHANGED <<cfg, boots, agentVars, boxVars>> /\ Leave(Boot)
      <3>types. PhaseOK' /\ AgentsOK'
        BY <2>ok DEF PhaseOK, AgentsOK, agentVars, boxVars
      <3>boot. BootInv' /\ ConfigInv'
        BY <1>runner, <2>ok DEF NewRunner, Leave, SpcGoto, SecretsOK, BootInv, ConfigInv
      <3>rest. SweepInv' /\ NoOrphansServed' /\ StopInv'
        BY <2>ok DEF SweepInv, NoOrphansServed, StopInv, Halting
      <3> QED
        BY <3>types, <3>boot, <3>rest
    <2> QED
      BY <1>runner, <2>ok, DieKeeps DEF NewRunner
  <1>list. CASE SweepList
    <2>types. PhaseOK' /\ AgentsOK'
      BY <1>list DEF SweepList, PhaseOK, AgentsOK, agentVars
    <2>boot. BootInv' /\ ConfigInv'
      BY <1>list DEF SweepList, BootInv, ConfigInv, secretVars
    <2>sweep. SweepInv' /\ NoOrphansServed'
      BY <1>list DEF SweepList, Listed, SweepInv, NoOrphansServed, AgentsOK
    <2>stop. StopInv'
      BY <1>list DEF SweepList, StopInv, Halting
    <2> QED
      BY <2>types, <2>boot, <2>sweep, <2>stop
  <1>loops. CASE SweepDone \/ StartLoops \/ StopLoops
    BY <1>loops, <1>forth DEF SweepDone, StartLoops, StopLoops
  <1>open. CASE BuildBlacklist \/ Listen
    BY <1>open, <1>forth, DieKeeps DEF BuildBlacklist, Listen
  <1>collect. CASE CollectAgents
    <2>types. PhaseOK' /\ AgentsOK'
      BY <1>collect DEF CollectAgents, PhaseOK, AgentsOK, boxVars
    <2>boot. BootInv' /\ ConfigInv'
      BY <1>collect DEF CollectAgents, BootInv, ConfigInv, secretVars
    <2>sweep. SweepInv' /\ NoOrphansServed'
      BY <1>collect DEF CollectAgents, SweepInv, NoOrphansServed, boxVars
    <2>stop. StopInv'
      BY <1>collect DEF CollectAgents, StopInv, Halting, boxVars
    <2> QED
      BY <2>types, <2>boot, <2>sweep, <2>stop
  <1>close. CASE CloseListener \/ Exit
    <2>types. PhaseOK' /\ AgentsOK'
      BY <1>close DEF CloseListener, Exit, PhaseOK, AgentsOK, boxVars, agentVars
    <2>boot. BootInv' /\ ConfigInv'
      BY <1>close DEF CloseListener, Exit, BootInv, ConfigInv, secretVars
    <2>sweep. SweepInv' /\ NoOrphansServed'
      BY <1>close DEF CloseListener, Exit, SweepInv, NoOrphansServed, boxVars
    <2>stop. StopInv'
      BY <1>close DEF CloseListener, Exit, StopAllDone, StopInv, Halting, boxVars, agentVars
    <2> QED
      BY <2>types, <2>boot, <2>sweep, <2>stop
  <1> QED
    BY <1>load, <1>image, <1>tracing, <1>runner, <1>list, <1>loops, <1>open, <1>collect, <1>close
       DEF MainStep

(* What happens to one agent and its container. *)
LEMMA AgentStepKeeps == ASSUME MainInv, NEW a \in Agents, AgentStep(a) PROVE MainInv'
  <1> USE DEF MainInv
  <1>remove. CASE SweepRemove(a)
    <2>types. PhaseOK' /\ AgentsOK'
      BY <1>remove DEF SweepRemove, PhaseOK, AgentsOK, mainVars, agentVars
    <2>boot. BootInv' /\ ConfigInv'
      BY <1>remove DEF SweepRemove, BootInv, ConfigInv, mainVars, secretVars
    <2>sweep. SweepInv' /\ NoOrphansServed'
      BY <1>remove DEF SweepRemove, SweepInv, NoOrphansServed, AgentsOK, mainVars
    <2>stop. StopInv'
      BY <1>remove DEF SweepRemove, StopInv, Halting, AgentsOK, mainVars, agentVars
    <2> QED
      BY <2>types, <2>boot, <2>sweep, <2>stop
  <1>skip. CASE SkipAgent(a)
    <2>types. PhaseOK' /\ AgentsOK'
      BY <1>skip DEF SkipAgent, PhaseOK, AgentsOK, mainVars, boxVars
    <2>boot. BootInv' /\ ConfigInv'
      BY <1>skip DEF SkipAgent, BootInv, ConfigInv, mainVars, secretVars
    <2>sweep. SweepInv' /\ NoOrphansServed'
      BY <1>skip DEF SkipAgent, SweepInv, NoOrphansServed, mainVars, boxVars
    <2>stop. StopInv'
      BY <1>skip DEF SkipAgent, StopInv, Halting, AgentsOK, mainVars, boxVars
    <2> QED
      BY <2>types, <2>boot, <2>sweep, <2>stop
  <1>ends. CASE ContainerEnds(a)
    <2>types. PhaseOK' /\ AgentsOK'
      BY <1>ends DEF ContainerEnds, PhaseOK, AgentsOK, mainVars, agentVars
    <2>boot. BootInv' /\ ConfigInv'
      BY <1>ends DEF ContainerEnds, BootInv, ConfigInv, mainVars, secretVars
    <2>sweep. SweepInv' /\ NoOrphansServed'
      BY <1>ends DEF ContainerEnds, SweepInv, NoOrphansServed, AgentsOK, mainVars
    <2>stop. StopInv'
      BY <1>ends DEF ContainerEnds, StopInv, Halting, AgentsOK, mainVars, agentVars
    <2> QED
      BY <2>types, <2>boot, <2>sweep, <2>stop
  <1>goto. ASSUME NEW label \in {"spawned", "registered", "gone"} \cup Stopping,
                  AgentGoto(a, label)
           PROVE  PhaseOK' /\ BootInv' /\ ConfigInv'
    BY <1>goto DEF AgentGoto, PhaseOK, BootInv, ConfigInv, mainVars, secretVars
  <1>spawn. CASE AgentSpawn(a)
    <2>types. AgentsOK'
      BY <1>spawn DEF AgentSpawn, AgentGoto, AgentsOK, mainVars
    <2>sweep. SweepInv' /\ NoOrphansServed'
      BY <1>spawn DEF AgentSpawn, AgentGoto, SweepInv, NoOrphansServed, AgentsOK, mainVars
    <2>stop. StopInv'
      BY <1>spawn DEF AgentSpawn, AgentGoto, Up, StopInv, Halting, AgentsOK, mainVars
    <2> QED
      BY <1>spawn, <1>goto, <2>types, <2>sweep, <2>stop DEF AgentSpawn
  <1>register. CASE AgentRegister(a)
    <2>types. AgentsOK'
      BY <1>register DEF AgentRegister, AgentGoto, AgentsOK, mainVars
    <2>sweep. SweepInv' /\ NoOrphansServed'
      BY <1>register DEF AgentRegister, AgentGoto, SweepInv, NoOrphansServed, mainVars
    <2>stop. StopInv'
      BY <1>register DEF AgentRegister, AgentGoto, Up, StopInv, Halting, AgentsOK, mainVars
    <2> QED
      BY <1>register, <1>goto, <2>types, <2>sweep, <2>stop DEF AgentRegister
  <1>leave. ASSUME NEW who \in Stopping, AgentRemove(a, who) PROVE MainInv'
    <2> USE <1>leave
    <2>types. AgentsOK'
      BY DEF AgentRemove, AgentGoto, AgentsOK, mainVars
    <2>sweep. SweepInv' /\ NoOrphansServed'
      BY DEF AgentRemove, AgentGoto, SweepInv, NoOrphansServed, mainVars
    <2>stop. StopInv'
      BY DEF AgentRemove, AgentGoto, Up, StopInv, Halting, Stopping, AgentsOK, mainVars
    <2> QED
      BY <1>goto, <2>types, <2>sweep, <2>stop DEF AgentRemove
  <1>stopped. CASE AgentStopped(a)
    <2>types. AgentsOK'
      BY <1>stopped DEF AgentStopped, AgentGoto, AgentsOK, mainVars
    <2>sweep. SweepInv' /\ NoOrphansServed'
      BY <1>stopped DEF AgentStopped, AgentGoto, SweepInv, NoOrphansServed, AgentsOK, mainVars
    <2>stop. StopInv'
      BY <1>stopped DEF AgentStopped, AgentGoto, Up, Stopping, StopInv, Halting, AgentsOK, mainVars
    <2> QED
      BY <1>stopped, <1>goto, <2>types, <2>sweep, <2>stop DEF AgentStopped
  <1> QED
    BY <1>remove, <1>skip, <1>ends, <1>spawn, <1>register, <1>leave, <1>stopped DEF AgentStep

(* SyncIfChanged and EnsureExists, seen from main. *)
LEMMA ManagerStepKeeps == ASSUME MainInv, SecretsOK, NEW c \in Everyone, ManagerStep(c) PROVE MainInv'
  <1>idle. ASSUME spc[Boot] = "idle" PROVE spc'[Boot] = "idle"
    BY <1>idle DEF ManagerStep, SyncStep, Lock, SyncHash, EnsureStat, Exists, Remove, Create, Cache,
       Return, Continue, SpcGoto, SecretsOK
  <1> QED
    BY <1>idle, FrameKeeps DEF ManagerStep

(* The clean-up loops' tickers, whose periods Validate has checked. *)
LEMMA TickersKeep == ASSUME MainInv, Next, ~panicked PROVE ~panicked'
  <1>jobs. ASSUME StartLoops PROVE ~panicked'
    <2>phase. phase = "loops"
      BY <1>jobs DEF StartLoops
    <2>config. cfg \in Configs /\ parseConfig(cfg)
      BY <2>phase DEF MainInv, ConfigInv
    <2>range. cfg.jobsInterval \in Int /\ cfg.jobsInterval > 0
      BY <2>config, ConfigsAssumption DEF parseConfig, Validate, ValidateJobs
    <2>positive. ~(cfg.jobsInterval <= 0)
      BY <2>range
    <2>assign. panicked' = (panicked \/ cfg.jobsInterval <= 0)
      BY <1>jobs DEF StartLoops
    <2> QED
      BY <2>positive, <2>assign, Zenon
  <1>blacklist. ASSUME BuildBlacklist PROVE ~panicked'
    <2>phase. phase = "blacklist"
      BY <1>blacklist DEF BuildBlacklist
    <2>config. cfg \in Configs /\ parseConfig(cfg)
      BY <2>phase DEF MainInv, ConfigInv
    <2>range. cfg.blacklistInterval \in Int /\ cfg.blacklistInterval > 0
      BY <2>config, ConfigsAssumption DEF parseConfig, Validate
    <2>positive. ~(cfg.blacklistInterval <= 0)
      BY <2>range
    <2>assign. \/ panicked' = (panicked \/ cfg.blacklistInterval <= 0)
               \/ panicked' = panicked
      BY <1>blacklist, Zenon DEF BuildBlacklist, Die
    <2> QED
      BY <2>positive, <2>assign, Zenon
  <1>loops. CASE StartLoops \/ BuildBlacklist
    BY <1>loops, <1>jobs, <1>blacklist
  <1>other. CASE panicked' = panicked
    BY <1>other
  <1>main. CASE MainStep
    BY <1>main, <1>loops, <1>other DEF MainStep, LoadConfig, EnsureImage, InitTracing, NewRunner,
       SweepList, SweepDone, Listen, StopLoops, CollectAgents, CloseListener, Exit, Goto, Die
  <1>agent. ASSUME NEW a \in Agents, AgentStep(a) PROVE panicked' = panicked
    BY <1>agent DEF AgentStep, SweepRemove, SkipAgent, ContainerEnds, AgentSpawn, AgentRegister,
       AgentStopped, AgentRemove, AgentGoto, mainVars
  <1>rest. CASE Start \/ Crash \/ Signal \/ HostStep \/ SecretsApi
    BY <1>rest, <1>other DEF Start, Crash, Die, Signal, Goto, HostStep, SecretsApi, mainVars
  <1>sync. ASSUME NEW c \in Everyone, ManagerStep(c) PROVE panicked' = panicked
    BY <1>sync DEF ManagerStep, mainVars
  <1>call. ASSUME NEW r \in Callers, RunArrives(r) \/ RunLeaves(r) PROVE panicked' = panicked
    BY <1>call DEF RunArrives, RunLeaves, mainVars
  <1> QED
    BY <1>main, <1>agent, <1>rest, <1>sync, <1>call, <1>other DEF Next

----------------------------------------------------------------------------
Inv == SecretsInv /\ MainInv /\ NoTickerPanic

LEMMA InvStart == Init => Inv
  <1> SUFFICES ASSUME Init PROVE Inv
    OBVIOUS
  <1>secrets. SecretsInv
    BY SecretsStart DEF Init
  <1>types. PhaseOK /\ AgentsOK
    BY BootsAssumption DEF Init, PhaseOK, AgentsOK
  <1>boot. BootInv /\ ConfigInv
    BY DEF Init, SecretsInit, BootInv, ConfigInv
  <1>rest. SweepInv /\ NoOrphansServed /\ StopInv /\ NoTickerPanic
    BY DEF Init, SweepInv, NoOrphansServed, StopInv, Halting, NoTickerPanic
  <1> QED
    BY <1>secrets, <1>types, <1>boot, <1>rest DEF Inv, MainInv

LEMMA InvStep == Inv /\ [Next]_vars => Inv'
  <1> SUFFICES ASSUME Inv, [Next]_vars PROVE Inv'
    OBVIOUS
  <1> USE DEF Inv
  <1>same. CASE UNCHANGED vars
    <2>parts. UNCHANGED <<mainVars, agentVars, boxVars>> /\ UNCHANGED secretVars
      BY <1>same DEF vars
    <2>secrets. SecretsInv'
      BY <2>parts, MoveKeeps DEF SecretsMove
    <2>main. MainInv'
      BY <2>parts, FrameKeeps DEF secretVars
    <2> QED
      BY <2>parts, <2>secrets, <2>main DEF NoTickerPanic, mainVars
  <1>next. CASE Next
    <2>secrets. SecretsInv'
      BY <1>next, StepIsMove, MoveKeeps DEF MainInv, SecretsInv
    <2>tickers. NoTickerPanic'
      BY <1>next, TickersKeep DEF NoTickerPanic
    <2>sync. ASSUME NEW c \in Everyone, ManagerStep(c) PROVE MainInv'
      BY <2>sync, ManagerStepKeeps DEF SecretsInv
    <2>call. ASSUME NEW r \in Callers, RunArrives(r) \/ RunLeaves(r) PROVE MainInv'
      <3>idle. spc'[Boot] = spc[Boot]
        BY <2>call DEF RunArrives, RunLeaves, Leave, SpcGoto, SecretsInv, SecretsOK
      <3> QED
        BY <2>call, <3>idle, FrameKeeps DEF RunArrives, RunLeaves
    <2>agent. ASSUME NEW a \in Agents, AgentStep(a) PROVE MainInv'
      BY <2>agent, AgentStepKeeps
    <2>host. ASSUME HostStep \/ SecretsApi PROVE MainInv'
      BY <2>host, FrameKeeps DEF HostStep, SecretsApi, Edit, RemoveFile, ApiDelete, ApiCreate
    <2>signal. ASSUME Signal PROVE MainInv'
      <3>types. PhaseOK' /\ AgentsOK'
        BY <2>signal DEF Signal, Goto, MainInv, PhaseOK, AgentsOK, agentVars, boxVars
      <3>boot. BootInv' /\ ConfigInv'
        BY <2>signal DEF Signal, Goto, MainInv, BootInv, ConfigInv, secretVars
      <3>rest. SweepInv' /\ NoOrphansServed' /\ StopInv'
        BY <2>signal DEF Signal, Goto, MainInv, SweepInv, NoOrphansServed, StopInv, Halting, boxVars
      <3> QED
        BY <3>types, <3>boot, <3>rest DEF MainInv
    <2>main. ASSUME Start \/ MainStep \/ Crash PROVE MainInv'
      BY <2>main, StartKeeps, MainStepKeeps, DieKeeps DEF Crash, SecretsInv
    <2>all. MainInv'
      BY <1>next, <2>sync, <2>call, <2>agent, <2>host, <2>signal, <2>main DEF Next
    <2> QED
      BY <2>secrets, <2>tickers, <2>all
  <1> QED
    BY <1>same, <1>next

(* The inductive invariant, from which the theorems below follow. *)
THEOREM Invariance == Spec => []Inv
  BY InvStart, InvStep, PTL DEF Spec

(* No accepted configuration makes a clean-up loop's ticker panic.          *)
(* config.go:557-633, job.go:238, main.go:438                               *)
THEOREM TickersRun == Spec => []NoTickerPanic
  <1> Inv => NoTickerPanic
    BY DEF Inv
  <1> QED
    BY Invariance, PTL

(* Containers of earlier starts are gone before requests are served, unless *)
(* podman failed on them.  cleanup.go:52-97                                 *)
THEOREM OrphansSwept == Spec => []NoOrphansServed
  <1> Inv => NoOrphansServed
    BY DEF Inv, MainInv
  <1> QED
    BY Invariance, PTL

(* What StopAll collected is not at work any more when the process exits,   *)
(* unless its podman client was killed or the watchdog is just stopping it. *)
(* manager.go:271-301, main.go:558-584                                      *)
THEOREM ShutdownComplete == Spec => []CollectedAgentsStopped
  <1> Inv => CollectedAgentsStopped
    BY DEF Inv, MainInv, StopInv, Halting, AgentsOK, Stopping, CollectedAgentsStopped
  <1> QED
    BY Invariance, PTL

(* A run starts with credentials no older than the file was when it locked  *)
(* the Manager.  secrets.go:194-217                                         *)
THEOREM CredentialsFresh == Spec => []FreshCredentials
  <1> Inv => FreshCredentials
    BY DEF Inv, SecretsInv, SyncedInv, FreshCredentials
  <1> QED
    BY Invariance, PTL

(* Updates of the secret exclude each other.  secrets.go:107-118            *)
THEOREM UpdatesExclude == Spec => []UpdatesDoNotClash
  <1> Inv => UpdatesDoNotClash
    BY DEF Inv, SecretsInv
  <1> QED
    BY Invariance, PTL
=============================================================================
