------------------------------- MODULE Server -------------------------------
(***************************************************************************)
(* The life of the server process (cmd/stromboli/main.go): configuration,   *)
(* start-up, serving, graceful shutdown, crash and restart, with what       *)
(* outlives it: the containers of persistent agents, and the                *)
(* credentials' secret (module Secrets).  Requests keep coming while the    *)
(* listener is open, also during the first half of the shutdown.            *)
(***************************************************************************)
EXTENDS Secrets

CONSTANTS
    Agents,      \* persistent agents, each created at most once per process
    Configs,     \* what the environment may configure
    NoConfig,    \* before config.Load
    MaxBoots     \* bound on the starts of the process

ASSUME BootsAssumption == MaxBoots \in Nat
ASSUME ConfigsAssumption ==
    \A c \in Configs : c.jobsInterval \in Int /\ c.blacklistInterval \in Int

VARIABLES
    phase, cfg, boots,   \* where main is; its configuration; starts so far
    panicked,            \* time.NewTicker was given a period that is not positive
    accepting,           \* the listener is open
    apc,                 \* per agent: its Create, and its place in the map
    ids, collected,      \* StopAll: agents still to stop; all it collected
    killed,              \* history: agents whose podman client got SIGKILL
    box, old,            \* per agent: its container; those of earlier starts
    toSweep, spared      \* start-up clean-up: containers listed; history: the
                         \* ones it could not remove

mainVars == <<phase, cfg, boots, panicked, accepting>>
agentVars == <<apc, ids, collected, killed>>
boxVars == <<box, old, toSweep, spared>>
vars == <<secretVars, mainVars, agentVars, boxVars>>

Init ==
    /\ SecretsInit
    /\ phase = "down" /\ cfg = NoConfig /\ boots = 0
    /\ panicked = FALSE /\ accepting = FALSE
    /\ apc = [a \in Agents |-> "none"]
    /\ ids = {} /\ collected = {} /\ killed = {}
    /\ box = [a \in Agents |-> "none"] /\ old = {}
    /\ toSweep = {} /\ spared = {}

----------------------------------------------------------------------------
(* Configuration *)

Unparsable == -1   \* a duration time.ParseDuration refuses; "" is 0

Durations(c) == {c.cacheTTL, c.blacklistInterval, c.accessExpiry, c.refreshExpiry,
                 c.jobsTTL, c.jobsInterval, c.buildTimeout, c.healthTimeout, c.stackTTL}

validateJWTSecret(c) == c.jwtSecret \notin {"empty", "short", "placeholder"}

(* A wrong ValidateJobs: nothing is asked of the interval. *)
ValidateJobsTTL(c) == c.jobsTTL > 0

ValidateJobs(c) == c.jobsTTL > 0 /\ c.jobsInterval > 0

Validate(c) ==
    /\ c.rateLimit => c.rate > 0 /\ c.burst > 0
    /\ c.jwtSecret # "empty" => c.accessExpiry > 0 /\ c.refreshExpiry > 0
    /\ c.auth => validateJWTSecret(c)
    /\ c.backend \in {"", "memory", "bolt"}
    /\ c.backend = "bolt" => c.boltPath # ""
    /\ c.blacklistInterval > 0 /\ ValidateJobs(c)
    /\ c.tokenCache => c.cacheTTL > 0
    /\ c.tracing => c.endpoint # ""
    /\ c.buildTimeout > 0 /\ c.healthTimeout > 0 /\ c.stackTTL > 0

parseConfig(c) == Unparsable \notin Durations(c) /\ Validate(c)

----------------------------------------------------------------------------
(* Start-up: one step per call of main that may end the process *)

Goto(p) ==
    /\ phase' = p
    /\ UNCHANGED <<cfg, boots, panicked, accepting, agentVars>>

(* os.Exit, a crash, or a signal before NotifyContext: nothing deferred     *)
(* runs and every goroutine is gone.                                        *)
Die ==
    /\ phase' = "down" /\ cfg' = NoConfig /\ accepting' = FALSE
    /\ apc' = [a \in Agents |-> "none"] /\ ids' = {}
    /\ toSweep' = {}
    /\ SecretsCrash
    /\ UNCHANGED <<boots, panicked, collected, killed, box, old, spared>>

Start ==
    /\ phase \in {"down", "exited"} /\ boots < MaxBoots
    /\ phase' = "load" /\ boots' = boots + 1 /\ cfg' = NoConfig
    /\ apc' = [a \in Agents |-> "none"] /\ ids' = {} /\ collected' = {} /\ killed' = {}
    /\ spared' = {} /\ toSweep' = {} /\ old' = {a \in Agents : box[a] # "none"}
    /\ SecretsCrash
    /\ UNCHANGED <<panicked, accepting, box>>

LoadConfig ==
    /\ phase = "load"
    /\ \E c \in Configs :
        \/ /\ parseConfig(c) /\ phase' = "image" /\ cfg' = c
           /\ UNCHANGED <<boots, panicked, accepting, agentVars,
                          secretVars, boxVars>>
        \/ ~parseConfig(c) /\ Die

(* The check or the pull of the CLI image may fail; without auto-pull a     *)
(* missing image is only logged.                                            *)
EnsureImage ==
    /\ phase = "image"
    /\ \/ Goto("tracing") /\ UNCHANGED <<secretVars, boxVars>>
       \/ cfg.mountCLI /\ Die

InitTracing ==
    /\ phase = "tracing"
    /\ \/ /\ Goto("runner") /\ SpcGoto(Boot, "lock")
          /\ UNCHANGED <<file, edits, secret, cachedHash, mu, cur, seen, doubt, boxVars>>
       \/ cfg.tracing /\ Die

(* NewPodmanRunnerFull: EnsureExists has returned. *)
NewRunner ==
    /\ phase = "runner"
    /\ \/ /\ spc[Boot] = "synced"
          /\ Goto("sweep") /\ Leave(Boot) /\ UNCHANGED boxVars
       \/ spc[Boot] = "failed" /\ Die

(* A wrong Listed: podman ps without -a. *)
ListedRunning(a) == box[a] = "running"

Listed(a) == box[a] # "none"

(* CleanupOrphanedContainers: podman ps; main goes on when it fails. *)
SweepList ==
    /\ phase = "sweep" /\ Goto("sweeping")
    /\ \/ toSweep' = {a \in Agents : Listed(a)} /\ UNCHANGED spared
       \/ toSweep' = {} /\ spared' = {a \in Agents : box[a] # "none"}
    /\ UNCHANGED <<secretVars, box, old>>

(* podman stop and podman rm -f of one container *)
SweepRemove(a) ==
    /\ phase = "sweeping" /\ a \in toSweep
    /\ toSweep' = toSweep \ {a}
    /\ \/ box' = [box EXCEPT ![a] = "none"] /\ UNCHANGED spared
       \/ spared' = spared \cup {a} /\ UNCHANGED box
    /\ UNCHANGED <<secretVars, mainVars, agentVars, old>>

SweepDone ==
    /\ phase = "sweeping" /\ toSweep = {} /\ Goto("loops")
    /\ UNCHANGED <<secretVars, boxVars>>

(* jobMgr.StartCleanup and the compose loop: both tick every jobsInterval. *)
StartLoops ==
    /\ phase = "loops" /\ phase' = "blacklist"
    /\ panicked' = (panicked \/ cfg.jobsInterval <= 0)
    /\ UNCHANGED <<cfg, boots, accepting, agentVars, secretVars, boxVars>>

(* buildBlacklist: opening the bolt file may fail. *)
BuildBlacklist ==
    /\ phase = "blacklist"
    /\ \/ /\ cfg.backend \in {"", "memory", "bolt"}
          /\ phase' = "listen" /\ panicked' = (panicked \/ cfg.blacklistInterval <= 0)
          /\ UNCHANGED <<cfg, boots, accepting, agentVars, secretVars, boxVars>>
       \/ cfg.backend \notin {"", "memory"} /\ Die

(* NotifyContext, then ListenAndServe in a goroutine, which exits the       *)
(* process if the address is taken.                                         *)
Listen ==
    /\ phase = "listen"
    /\ \/ /\ phase' = "serving" /\ accepting' = TRUE
          /\ UNCHANGED <<cfg, boots, panicked, agentVars, secretVars, boxVars>>
       \/ Die

Crash == phase \notin {"down", "exited"} /\ Die

----------------------------------------------------------------------------
(* Persistent agents: Create spawns the process before it registers it.     *)

Up == phase \notin {"down", "exited"}

Stopping == {"stopAll", "delete", "idle"}   \* who called Manager.Stop

AgentGoto(a, label) ==
    /\ Up /\ apc' = [apc EXCEPT ![a] = label]
    /\ UNCHANGED <<secretVars, mainVars, collected, toSweep, spared>>

AgentSpawn(a) ==
    /\ accepting /\ apc[a] = "none" /\ box[a] = "none" /\ AgentGoto(a, "spawned")
    /\ box' = [box EXCEPT ![a] = "running"] /\ old' = old \ {a}
    /\ UNCHANGED <<ids, killed>>

AgentRegister(a) ==
    /\ apc[a] = "spawned" /\ AgentGoto(a, "registered")
    /\ UNCHANGED <<ids, killed, box, old>>

(* Manager.Stop, first half: the agent leaves the map.  StopAll stops one   *)
(* after the other; a DELETE and the idle watchdog may come first.          *)
AgentRemove(a, who) ==
    /\ apc[a] = "registered" /\ AgentGoto(a, who)
    /\ who = "stopAll" => /\ phase = "stopAgents" /\ a \in ids
                          /\ \A b \in Agents : apc[b] # "stopAll"
    /\ who = "delete" => accepting
    /\ UNCHANGED <<ids, killed, box, old>>

(* Second half: realProcess.Stop closes stdin, sends SIGTERM and waits for  *)
(* the podman client.  Either the container has ended (ContainerEnds), or   *)
(* the client gets SIGKILL and the container is left as it is.  Stop        *)
(* removes no container: one that --rm has not removed stays.               *)
AgentStopped(a) ==
    /\ apc[a] \in Stopping /\ AgentGoto(a, "gone")
    /\ ids' = IF apc[a] = "stopAll" THEN ids \ {a} ELSE ids
    /\ \/ box[a] # "running" /\ UNCHANGED killed
       \/ killed' = killed \cup {a}
    /\ UNCHANGED <<box, old>>

----------------------------------------------------------------------------
(* Runs (/run, /run/stream, /run/async): SyncIfChanged, then podman run     *)
(* --secret.  What else they do is in Runs.                                 *)

RunArrives(r) ==
    /\ accepting /\ spc[r] = "idle" /\ SpcGoto(r, "lock")
    /\ UNCHANGED <<file, edits, secret, cachedHash, mu, cur, seen, doubt,
                   mainVars, agentVars, boxVars>>

(* The sync failed and the run with it, or the container starts. *)
RunLeaves(r) ==
    /\ Up /\ spc[r] \in {"synced", "failed"} /\ Leave(r)
    /\ UNCHANGED <<mainVars, agentVars, boxVars>>

(* A container ends by itself; --rm removes it, or fails to. *)
ContainerEnds(a) ==
    /\ box[a] = "running"
    /\ \E b \in {"none", "stopped"} : box' = [box EXCEPT ![a] = b]
    /\ UNCHANGED <<secretVars, mainVars, agentVars, old, toSweep, spared>>

----------------------------------------------------------------------------
(* Graceful shutdown *)

Signal == phase = "serving" /\ Goto("stopLoops") /\ UNCHANGED <<secretVars, boxVars>>

(* StopCleanup, the compose loop's channel and the blacklist are closed. *)
StopLoops == phase = "stopLoops" /\ Goto("collect") /\ UNCHANGED <<secretVars, boxVars>>

(* StopAll: the ids, collected once under the lock *)
CollectAgents ==
    /\ phase = "collect" /\ phase' = "stopAgents"
    /\ ids' = {a \in Agents : apc[a] = "registered"} /\ collected' = ids'
    /\ UNCHANGED <<cfg, boots, panicked, accepting, apc, killed,
                   secretVars, boxVars>>

(* m.Stop(id) of one that has left the map meanwhile: ErrAgentNotFound *)
SkipAgent(a) ==
    /\ phase = "stopAgents" /\ a \in ids /\ apc[a] \in {"delete", "idle", "gone"}
    /\ ids' = ids \ {a}
    /\ UNCHANGED <<secretVars, mainVars, apc, collected, killed, boxVars>>

(* A wrong StopAllDone: every Stop in a goroutine nobody waits for. *)
StopAllDoneAtOnce == ids \subseteq Agents

StopAllDone == ids = {}

(* srv.Shutdown closes the listener. *)
CloseListener ==
    /\ phase = "stopAgents" /\ StopAllDone
    /\ phase' = "drain" /\ accepting' = FALSE
    /\ UNCHANGED <<cfg, boots, panicked, agentVars, secretVars, boxVars>>

(* It waits for the requests in flight, but no longer than 30 s, and for no *)
(* other goroutine.  A DELETE is through by then: Manager.Stop has two      *)
(* grace periods of 5 s.                                                    *)
Exit ==
    /\ phase = "drain" /\ \A a \in Agents : apc[a] # "delete"
    /\ phase' = "exited"
    /\ UNCHANGED <<cfg, boots, panicked, accepting, agentVars,
                   secretVars, boxVars>>

----------------------------------------------------------------------------
MainStep ==
    \/ LoadConfig \/ EnsureImage \/ InitTracing \/ NewRunner
    \/ SweepList \/ SweepDone \/ StartLoops \/ BuildBlacklist \/ Listen
    \/ StopLoops \/ CollectAgents \/ CloseListener \/ Exit

AgentStep(a) ==
    \/ SweepRemove(a) \/ SkipAgent(a) \/ ContainerEnds(a)
    \/ AgentSpawn(a) \/ AgentRegister(a) \/ AgentStopped(a)
    \/ \E who \in Stopping : AgentRemove(a, who)

ManagerStep(c) ==
    /\ Up /\ SyncStep(c)
    /\ UNCHANGED <<mainVars, agentVars, boxVars>>

HostStep == (Edit \/ RemoveFile) /\ UNCHANGED <<mainVars, agentVars, boxVars>>

(* The secrets handlers, on the credentials' name *)
SecretsApi ==
    /\ accepting /\ (ApiDelete \/ ApiCreate)
    /\ UNCHANGED <<mainVars, agentVars, boxVars>>

Next ==
    \/ Start \/ MainStep \/ Crash \/ Signal \/ HostStep \/ SecretsApi
    \/ \E c \in Everyone : ManagerStep(c)
    \/ \E r \in Callers : RunArrives(r) \/ RunLeaves(r)
    \/ \E a \in Agents : AgentStep(a)

Spec == Init /\ [][Next]_vars

----------------------------------------------------------------------------
(* Properties *)

PhaseOK ==
    /\ phase \in {"down", "load", "image", "tracing", "runner", "sweep", "sweeping",
                  "loops", "blacklist", "listen", "serving", "stopLoops", "collect",
                  "stopAgents", "drain", "exited"}
    /\ cfg \in Configs \cup {NoConfig} /\ boots \in 0 .. MaxBoots

AgentsOK ==
    /\ apc \in [Agents -> {"none", "spawned", "registered", "gone"} \cup Stopping]
    /\ ids \subseteq Agents /\ collected \subseteq Agents /\ killed \subseteq Agents
    /\ box \in [Agents -> {"none", "running", "stopped"}] /\ old \subseteq Agents
    /\ toSweep \subseteq Agents /\ spared \subseteq Agents

FlagsOK == panicked \in BOOLEAN /\ accepting \in BOOLEAN /\ doubt \in BOOLEAN

(* The types of main's state and of what it shares with the outside. *)
TypeOK == SecretsOK /\ PhaseOK /\ AgentsOK /\ FlagsOK

(* No configuration that gets past config.Load makes a clean-up loop's      *)
(* time.NewTicker panic (job.go:238, main.go:438, blacklist.go): a panic in *)
(* a goroutine would take the server down after it started.                 *)
NoTickerPanic == ~panicked

(* When requests are served no container of an earlier process is left,     *)
(* running or stopped, crash or not, unless podman failed to list or remove *)
(* it at start-up (cleanup.go:52-97).                                       *)
NoOrphansServed ==
    phase \notin {"down", "load", "image", "tracing", "runner", "sweep", "sweeping"} =>
        \A a \in old : box[a] = "none" \/ a \in spared

(* After a graceful shutdown no agent that was registered when StopAll      *)
(* collected the ids is at work any more, although DELETEs and the watchdog *)
(* stop agents at the same time - unless its podman client had to be        *)
(* killed, or the watchdog had just begun to stop it and nobody waits for   *)
(* that (manager.go:271-301, main.go:558-584).  Its container may be left,  *)
(* stopped, when --rm failed: nothing in the shutdown removes it, and       *)
(* NoOrphansServed is about who does.                                       *)
CollectedAgentsStopped ==
    phase = "exited" =>
        \A a \in collected : box[a] # "running" \/ a \in killed \/ apc[a] = "idle"

(* A run whose SyncIfChanged has returned starts its container with the     *)
(* credentials the file held when it locked the mutex, or newer ones,       *)
(* whatever other runs, the host and crashes do meanwhile.  Not covered:    *)
(* after the API has touched the secret, and after an edit between          *)
(* EnsureExists' create and its hash (secrets.go:146-160).                  *)
FreshCredentials == \A c \in Callers : spc[c] = "synced" => FreshFor(c)

(* Two updates of the secret never meet: one that is about to remove it     *)
(* finds it, and one that is about to create it finds the name free, unless *)
(* the API got in between.                                                  *)
UpdatesDoNotClash ==
    \A c \in Everyone :
        /\ spc[c] = "rm" => secret # 0 \/ doubt
        /\ spc[c] = "create" => secret \in {0, API}
=============================================================================
