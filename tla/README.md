# A TLA+ verification of Stromboli

Stromboli is an HTTP server (Go, gin) that runs Claude Code in Podman
containers: one container per synchronous or asynchronous run, long-lived
"persistent agents", and compose stacks. Its own logic is not in what the
containers do but in how requests, background goroutines, child processes and
files on disk interact. That is what this project models: TLA+ modules
translated from the Go source, TLC runs on small instances, and theorems that
TLAPS proves for every instance.

Paths below are relative to the repository (`src/` in `PROJECT.json`).

## 1. Inventory

| component | state | operations | concurrency and failure | what makes it correct |
|---|---|---|---|---|
| persistent agents (`internal/agent`, `internal/api/agents.go`) | registry, status, current turn, subscribers, `done`, the line sink, the process | Create, Send, Subscribe/cancel, Stop, StopAll, dispatch, watchIdle, markExited | HTTP calls, dispatcher, watchdog, wait goroutine and two pipe readers share one record; the process dies or hangs at any time; slow clients | turns do not overlap, output belongs to its turn, channels are closed once, exit is reported truthfully, stops return |
| async jobs (`internal/job`, `internal/api/async.go`) | map of jobs | Create, Update, UpdateWithCrash, SetUsage, Cancel, cleanup | handler, run callback, cancel and cleanup loop race | the recorded verdict stands, no result is lost, nothing leaks |
| webhook (`internal/webhook`) | none | Notify (two attempts), sign, Verify | lost answers, duplicates | at most two deliveries |
| sessions (`internal/session`) | directory, init marker, flock | Create, Destroy, IsInitialized, MarkInitialized, TryAcquireInitLock | several runs and DELETEs on one session; crash between steps; half-done removal | the marker tells the truth, the lock is released |
| runner (`internal/runner`) | none of its own; one container per run, named after the session | Run, RunStream, RunAsync, DestroySession, CleanupOrphanedContainers | timeouts kill the client and not the container; name conflicts; crash of the server | init hooks run once, before anything that relies on them |
| compose (`internal/compose`, `internal/runner/compose.go`) | map of stacks, podman projects | Up, Down, Exec, health wait, clean-up loop | Ups and Downs are not serialised; health races with Down | a visible stack is usable; old ones go |
| authentication (`internal/auth`, `internal/api/auth.go`) | token blacklist (memory or bolt) | generate, refresh, validate, logout, clean-up | restart, clean-up against Add | a logged-out token stays denied until it expires |
| rate limiter (`internal/api/ratelimit.go`) | bucket per address | allow, clean-up, Stop | clean-up against a request that has just fetched its bucket | the rate is kept |
| secrets (`internal/secrets`) | cached hash, podman secret | EnsureExists, SyncIfChanged, registry | the file changes under it; runs sync at the same time; the API touches the same name | a run gets credentials as new as those it found |
| streaming (`internal/api/stream.go`, `RunStream`) | channels, pipes | run goroutine, two readers, handler | client leaves, long lines, unbuffered channels | everything ends, output is complete |
| session history (`internal/history`, `internal/api/session_history.go`) | none; reads files that a run appends to | ListMessages, GetMessage, GetTitle, AggregateUsage | the file grows, has half a line at its end, is deleted or is no longer the first match between two requests | pages put together are the conversation |
| server (`cmd/stromboli`, `internal/config`) | the process, its configuration, its clean-up loops | Load, start, sweep of orphaned containers, signal, shutdown | crash at any point, requests during the shutdown | nothing of an earlier process is left when requests are served, nothing of this one when it ends |
| images, workspaces, builders, pricing, metrics, tracing, health | none | pure functions, queries | none of their own | - |

Components interact as follows. A handler of `internal/api` calls the agent
manager, the job manager or the runner. `runAsync` creates a job and starts the
runner in a goroutine whose callback updates the job and notifies the webhook.
The runner creates the session, takes its init lock, starts a container and
marks the session. `DELETE /sessions/{id}` calls the compose manager and the
session manager, with no lock against runs. At start `cmd/stromboli/main.go`
removes orphaned containers and starts the clean-up loops; at shutdown it stops
the loops, stops all agents and then the HTTP server.

`PROJECT.json` lists every component, with its status, and under `hazards` what
in this code is hard to reach with a test, line by line.

## 2. Modules

| module | models | extends |
|---|---|---|
| `Feed` | what an agent promises to its subscribers (abstract) | |
| `Agent` | one persistent agent and everything that acts on it; implements `Feed` | instance of `Feed` |
| `AgentProofs` | theorems, the refinement among them | `Agent` |
| `MCAgent` | symmetry, claims of the documentation | `Agent` |
| `Jobs` | the job manager, the async handlers, the webhook | |
| `JobsProofs` | theorems about `Jobs` | `Jobs` |
| `Runs` | one session, the runs on it, DELETE, a crash of the server | |
| `RunsProofs`, `MCRuns` | theorems; the marker's contract | `Runs` |
| `Compose` | the compose stack of one session and everything that acts on it | |
| `ComposeProofs`, `MCCompose` | theorems; the services of the instance | `Compose` |
| `DenyList` | what logging out promises (abstract) | |
| `Auth` | tokens, middleware, logout, both blacklists, restarts; implements `DenyList` | instance of `DenyList` |
| `AuthProofs` | theorems, the refinement among them | `Auth` |
| `Stream` | one streamed run: process, pipe readers, run goroutine, SSE handler, client | |
| `StreamProofs`, `MCStream` | theorems; a claim of the source | `Stream` |
| `Secrets` | the credentials' secret, the Manager, the host's edits, the API | |
| `Server` | main: configuration, start, agents, shutdown, crash and restart, composed with `Secrets` | `Secrets` |
| `ServerProofs`, `MCServer` | theorems; the configurations of the instance | `Server` |
| `TokenBucket` | what a rate limit per address promises (abstract) | |
| `RateLimit` | the map of buckets, the middleware, the clean-up loop | |
| `History` | the session's files, their writers and the reader | |
| `Gateway` | clients that page through a history behind the limiter; implements `TokenBucket` | `RateLimit`, `History`, instance of `TokenBucket` |
| `GatewayProofs`, `MCGateway` | theorems, the refinement among them; the addresses of the instance | `Gateway` |

Operators whose comment says "a wrong X" are plausible mistakes in the operator
X that follows them. They are used nowhere; each shows, put in X's place, that
some property would notice.

### Feed and Agent

`Feed` is the specification of the event stream: a turn is new, current, ending,
over or failed; one begins only when none is current; `turn_start` is said of a
current turn, output and errors of a current or failed one, `turn_end` ends the
one that is ending; an event reaches everybody who listens, at the cost of the
oldest one that waits there when the channel is full; who parts gets no more.
Its promise is about an agent in the registry: `Retire` is DELETE or the
watchdog, after which turns are not told apart.

One agent is modelled because agents share nothing but the registry map, which
is the flag `registered`. A Send, Subscribe or Stop call is a member of
`Senders`, `Subs` or `Stoppers`; the turn id that a Send generates is the call
itself. `sendPc`, `subPc`, `exitPc` and `dispPc` are the program counters of the
calls, of the two goroutines that end an agent (`"watchdog"` is `watchIdle`,
`"waiter"` the goroutine after `cmd.Wait`) and of `dispatch`.

Granularity: one action is one region of `a.mu`, `a.subsMu` or `m.mu`, or one
channel operation. `markExited` is four actions (status, `done`, the event, the
channels), `dispatch` is a region for the status, one to read the turn, a
fan-out, a region of `completeTurn` and another fan-out.

Abstractions. A line is its kind and the prompt it answers. Time is `stale`:
the idle timeout has elapsed since `lastActivityAt`. The child process is
external: it answers each prompt with output lines and one result line, writes
to stderr, ignores stdin's end and SIGTERM if it likes, and may die at any
moment. When `cmd.Wait` returns it closes the pipes, so that any suffix of the
unread output is lost (`WaitReturns`). A line longer than `maxAgentLineBytes`
is replaced by a marker (`ForwardStdout`), which ends no turn. The prompt and
its newline are two writes, so a Stop may let the process read a prompt whose
Send fails (`SendFails`). A prompt written to a dying process disappears.

The mapping to `Feed` reads a turn's phase off the program counters
(`PhaseOf`): it is current as long as `currentTurnID` names it, ending between
`completeTurn` and the last fan-out of `dispatch`, and over when its Send has
written it, it is no longer current and `dispatch` has nothing more to publish
under its id. So `completeTurn` is `Finish`, the fan-out after it `End`, a
rollback `Fail`, and everything between two lock regions that touches neither a
channel nor the current turn is a stutter.

### Jobs

`runPc` of a job follows `runAsync` and then the goroutine of `RunAsync` with
its callback; `Create`, `Update`, `UpdateWithCrash`, `SetUsage` are the
manager's methods, each one region of `Manager.mu`. `Cancel` does not touch the
run, as in the code. The clean-up loop, `StopCleanup` and the loop's end are
actions; `age` counts clock ticks since `UpdatedAt` up to one over the TTL. A
webhook attempt can be received and still count as failed.
`Manager.Delete` has no caller and is left out.

### Runs

`pc` of a run follows `Run` (and `RunStream`, which takes the same steps on
this state): validation, `session.Create`, `TryAcquireInitLock`, the
double-check under the lock or the check of a contended run, `podman run`,
`MarkInitialized`, and the deferred `removeContainer` and lock release in the
order of Go's defers. Podman is external: it starts a container if its name is
free, runs the hooks and the command, and lets a container outlive its client.
`gen` and `inode` number the directories and lock files that have borne the
session's name: an flock is on the file that was opened, not on its name, and a
container mounts the directory it found.

`quiet` is a history variable: every removal of the session so far succeeded
and found no run in progress. It is the precondition that the comment on
`session.Destroy` (session.go:103-111) asks of its callers. The properties
about the marker and the hooks are stated under it, because without it they are
false: `runs_marker_contract` is the counterexample.

### Compose

The state of one session's stack: `tracked` is its entry in `Manager.stacks`,
`project` what podman has of the project. A `Stack` object is named by the run
whose `Up` made it, so that a run can hold a pointer to a stack that another
`Up` has replaced (`stack`). `pc` follows `runWithCompose` (and
`runStreamWithCompose`, which takes the same steps on this state) through
`GetStack`, `IsReady`, `Up` and `Exec`; `downPc` follows `Down`, called by
DestroySession or by the clean-up loop. One action is one region of the
manager's lock or one podman command: a command takes effect at one moment, or
fails and leaves a partial project. Services become healthy and unhealthy as
they like. The hooks and the marker belong to `Runs` and are here the success or
failure of `PrepareHooks`; the pipes of a streaming run are left to `Stream`.

`reliable` is a history variable: no `podman compose down` has failed so far.
`NoLeak` is stated under it because the code logs such a failure, or takes it
for success, and forgets the project. `CleanupRetried` and `OnlyOldCleaned`
state what two comments in the code claim; they are false and in no run, see
"Other disagreements". A crash of the server is not modelled:
nothing recovers from one, since `DiscoverOrphanedStacks` has no caller.

### DenyList and Auth

A member of `Tokens` is a pair of access and refresh token issued in one
answer; time is a clock that stops at `MaxTime`, and both expiries follow from
`issuedAt`. The middleware is two steps, validation and lookup, between which
time passes, clean-up runs and the server may close its blacklist; logout is
three (validate, `Add`, answer). `backend` is chosen in `Init`. The memory
clean-up is one step under its lock, bolt's is the two transactions it is in
the code. bolt ignores expired entries on lookup, the map does not. `Close` is
the moment in the shutdown sequence that closes the blacklist, before the HTTP
server stops; `Exit` is the end of the process, by shutdown or by a crash;
`Restart` opens the file and reaps it. An `Add` that fails may have been
written.

`revoked` is a history variable: the tokens whose logout was answered with 200,
by this process or, with bolt, by an earlier one. `DenyList` is the
specification of the blacklist's users: a denied token is not admitted before
it expires, entries leave only when expired, and only a list that is not
durable may be lost.

### Stream

One `GET /run/stream`. `mpc` follows `RunStream` (and `runStreamWithCompose`,
whose pipes and channels are the same code again), `rpc` its two `streamPipe`
goroutines, `hpc` the handler's two selects. A line is its pipe and its number;
`Init` chooses how many each pipe will carry, whether one of them is over the
scanner's limit, and whether the run has a timeout. `output` is the buffered
channel; `done`, `resultChan` and `errChan` are unbuffered, so a send and its
receipt are one action (`ReaderDone`, `FinalEvent`). A pipe that holds `PipeCap`
unread lines blocks the process. `WriteString` on the shared `strings.Builder`
is a load and a store, and a store over somebody else's may tear
(`StoreBuilder`): the two readers write it without a lock. A client that leaves
ends the request's context, from which the run's derives.

### Secrets and Server

`Secrets` is the Manager's two functions, one action per file access or podman
command, under `mu`. Contents are numbered as they were written, so that "not
older" is an order; the hash of a content is the content. `doubt` is a history
variable for the two windows the code leaves open: `POST` and `DELETE /secrets`
act on the same name without the Manager's lock, and `EnsureExists` hashes the
file after it has created the secret, so an edit in between is cached without
having been stored (secrets.go:146-160). `SyncIfChanged` hashes first and
caches that hash. A podman command that reports a failure may have done its
work all the same.

`Server` is `main`, one action per call that may end the process (`phase`), and
what other goroutines do to agents and credentials meanwhile. A configuration is
a record of the settings that `parseConfig` and `Validate` look at; durations
are numbers, -1 what does not parse. `Die` is every way to end without the
deferred functions. Containers (`box`) outlive the process: `old` are those of
earlier starts. `apc` follows an agent's Create and Stop; `AgentRemove` has the
three callers of `Manager.Stop` (StopAll, DELETE, watchdog). Stopping an agent
ends its podman client, or kills it; the container goes with `--rm` when it
ends, and stays, stopped, when that fails (`ContainerEnds`): nothing but the
next start's sweep removes it. An agent's container exists from the moment its
client is spawned, a simplification: podman creates it a little later. While the
listener is open, which it is until StopAll has returned, requests of every kind
arrive.

### RateLimit, History and Gateway

A request takes its bucket from the map under the lock (`getLimiter`) and a
token from it without (`Allow`), and the clean-up may come between. Time is a
tick that adds `Rate` tokens; `MaxStall` bounds how long a request stays between
those two statements and is assumed to be less than the age at which an entry
is stale (`StallAssumption`: 10 minutes). Burst and rate are any numbers:
`Validate` only wants them positive, so a bucket may be dropped before it is
full again. `TokenBucket` is the specification: a bucket per address that may be
filled up at once only when no request has come from there for longer than the
interval. `AdmittedBounded` says what that amounts to: beyond a full bucket and
what flowed in, an address gets at most what its bucket lacks after `Respite`
ticks without a request (`Forgiven`, nothing when it refills in that time), once
in every `Respite` of the window.

`History` has the files that runs append to, one per project folder, line by
line: a line is first half written (`part`), and the scanner yields that half
too, or fails when it is over its limit already (`overlong`). `ListMessages`,
`GetMessage`, `GetTitle` and `AggregateUsage` are operators on a file. `Gateway`
lets clients page: each asks for what follows what it has, asks again when
refused, and stops at the end; some fetch a message by its uuid afterwards,
others are shown a title or the usage. `torn` is a history variable: the clients
that had begun when the first match became another file.

## 3. Runs

| run | checks | bounds and why they are enough |
|---|---|---|
| `agent_turns` | `OutputCarriesItsTurn`, `OneTurnInFlight`, `TurnEndIsLast`, `KeepsPromise` | two Sends, one subscriber, two lines besides the result lines, channels of two: a second Send can meet every stage of the first, a channel holds the end of one turn and the start of the next, and the sink can fill |
| `agent_live` | `NoPanic`, `ExitedMeansReaped`, `StopReturns`, `IdleAgentReaped`, `DispatchDrains` | a Send, a subscriber, the watchdog and the waiter: a Stop and an exit race, a rollback can undo an exit; channels of one are full at once |
| `agent_stream_ends` | `StreamEnds` (violated) | one subscriber, one DELETE |
| `jobs` | `VerdictSticks`, `NoResultDropped`, `NoResurrection`, `JobsCollected` | two jobs, one with a webhook; a TTL of one tick tells "not yet" from "expired" |
| `runs` | `MarkerMeansPrepared`, `NoUseBeforeInit`, `HooksNotRepeated`, `LockReleased` | two runs with hooks and one without, one DELETE, one crash: a winner, a contended run, and a bystander that takes the container's name |
| `runs_marker_contract` | `MarkerContract` (violated) | the same |
| `compose` | `NoLeak`, `VisibleIsUsable`, `UpReturns`, `OldStackGoes` | two runs with different services, one DestroySession and the clean-up loop: two Ups overlap, each with two Downs, and an Exec can meet the other run's stack |
| `auth` | `RevokedDenied`, `EntriesReaped`, `Implements` | two pairs, one request, two logouts, four instants and an access lifetime of two: a token is valid, at its expiry and past it, and a late `Add` falls between bolt's two transactions |
| `stream` | `NoPanic`, `CompletedIsWhole`, `InOrder`, `RunReturns`, `AnswerArrives` | two pipes of up to two lines, either of which may be too long; a channel and pipes of one, so that everything that can block does |
| `stream_all_collected` | `AllCollected` (violated) | the same |
| `server` | `NoTickerPanic`, `NoOrphansServed`, `CollectedAgentsStopped`, `FreshCredentials`, `UpdatesDoNotClash` | two starts, two runs, one agent, three contents of the file: an update can begin, be overtaken by an edit and by another run, and meet a crash; configurations are a usable one and every one that differs from it in one setting |
| `gateway` | `AdmittedBounded`, `PagesAreWhole`, `ListedIsFetchable`, `OverviewCoversPages`, `BucketsAreIdeal`, `PagingEnds` | two clients on one address, one through a proxy; burst 2, one token a tick, an entry is stale after two ticks and a request may stall for one, so that a bucket is dropped half full and the bound is reached; three lines and pages of one or two: a line arrives between two pages, a page ends in half a line, a line is too long before it is finished, and an entry is dropped and made again within the paging |

`agent_turns` has 2.4 million states, `agent_live` 0.26 million, `server` 1.3
million, `gateway` 0.33 million. `gateway`'s safety properties but the
refinement also hold with two project folders (1.8 million), which takes too
long with the liveness property and is not a run. `agent_live` has no DELETE, so
`StopReturns` is about the watchdog's Stop there; it holds with a DELETE in
place of the subscriber, too (0.13 million states, not a run). Nothing takes the
agent out of the registry in `agent_turns`; `KeepsPromise` also holds with a
DELETE instead of the lines besides the results and channels of one (4 minutes,
not a run), and the theorem has any number of both.

Deadlock is checked in `gateway`, where time goes on for ever, and in no other
run: elsewhere every call ends, so a behaviour may stop. Symmetry is used in
safety runs only.

### Fairness

`Agent!Fairness` is weak fairness of each goroutine that can run, of the timers
and of time. It asks nothing of the child process except that SIGKILL ends it,
nothing of clients (a subscriber may never read), and nothing of a write to
stdin, which may block for ever on a full pipe. `agent_stream_ends` adds a
client that does read, because the claim it refutes is about such a client.
`Jobs!FairSpec` is weak fairness of handlers, callbacks, time and the clean-up
ticker; it does not assume that a run ends, so `JobsCollected` is about jobs
whose run did. `Compose!FairSpec` is weak fairness of each `Up` and of the
clean-up loop, which give every podman command a timeout, and of time; it asks
nothing of DestroySession, whose command has none, of a run's command, or of
the services. `Auth!FairSpec` is weak fairness of time and of the clean-up
ticker, and strong fairness of bolt's delete: disk errors are transient.
`Stream!Fairness` is weak fairness of each goroutine, of the process as long as
its pipe has room, of the kill that ends it and of the timeout; a client need
neither leave nor stay. `Gateway!FairSpec` is weak fairness of time and of each
client with the request it has made; nothing is asked of the writers. Two
clients on one address share a bucket and one could be refused for ever if the
other never stopped asking; `PagingEnds` holds because a file has an end and
each client asks for a finite number of pages.

### What the violations show

* `StreamEnds`: `Subscribe` does not look at the status; a subscriber that
  arrives after `markExited` has closed the others waits for ever.
* `MarkerContract`: DELETE on a session whose init hooks are running, followed
  by a new run on it, makes the first run mark a directory that was never
  prepared.
* `AllCollected`: RunStream's two readers append to one `strings.Builder`
  without a lock (runner.go:562-571, compose.go:271); a line that the client
  has seen can be missing from the completed run's output.

### Other disagreements met while modelling

Without a run of their own:

* `Send` rolls back to idle unconditionally (manager.go:228). If the process
  dies while a Send is writing, `markExited` may run before the rollback, and
  the agent, whose process is gone and whose `done` is closed, is idle again;
  docs/guides/persistent-agents.md:26-31 has no way out of `exited` but removal.
* `Cancel` neither stops the run nor survives the next `Update` (job.go:122):
  a job that DELETE /jobs/:id reported as "cancelled"
  (docs/api/endpoints.md:185-190, `{"id": "job-abc123", "status":
  "cancelled"}`) is completed or failed later, although cancelled counts as
  terminal elsewhere (job.go:260). The contract is `CancelSticks`; TLC, given
  `PROPERTY CancelSticks` in `MCJobs.cfg`, refutes it with `AsyncCreate`,
  `Cancel`, `AsyncStart`. `VerdictSticks` leaves cancelled jobs out of what the
  callback records.
* process.go:108-110 wants the last output to come before `exited`; it is in
  the sink by then, but `dispatch` may publish it after `markExited` has sent
  `exited` (and closed the channels).
* docs/guides/persistent-agents.md:121 says the `exited` event means that the
  process has stopped; `watchIdle` sends it before it calls Stop
  (manager.go:362).
* persistent-agents.md:31,39 has the record of an exited agent removed; an
  agent that exits by itself stays in the registry, since `watchIdle` ends
  without a Stop (manager.go:347-351).
* persistent-agents.md:36,91 has a starting agent answer 503; Send accepts it
  (manager.go:198).
* manager.go:271-272 calls Stop idempotent; the second call returns
  `ErrAgentNotFound` (280-281).
* manager.go:289-290 has StopAll tear agents down "so we don't leave orphan
  podman containers behind"; a Stop ends the podman client and removes nothing,
  so a container whose `--rm` failed, or whose client had to be killed, is left
  until the next start. `CollectedAgentsStopped` is therefore about what runs.
* docs/api/endpoints.md:133 has the session id of a job kept; an error empties
  it (async.go:94-98, 120).
* compose/manager.go:344 restores a stack "to Running so it can be retried
  later" after a failed Down, which has already removed it from the map: the
  restore finds nothing, and nothing retries. The claim is `CleanupRetried`;
  TLC, given it in `MCCompose.cfg`, refutes it: an Up is tracked, ages, is
  collected, `Down` takes it out of the map, its command fails, the restore
  ends with no stack in the map.
* compose/manager.go:310 has the clean-up remove "stacks older than maxAge"; it
  takes them down by session id. The claim is `OnlyOldCleaned`; it fails when
  two runs have both seen no stack, the first one's is tracked, grows old and is
  collected, and the second one's Up replaces it in the map before the Down.
* compose/manager.go:146-147 does not hold for a second Up whose failure takes
  the project down.
* compose/manager.go:146-147 has concurrent callers see only healthy stacks;
  health.go:131 takes an empty service list for healthy, so an Up whose project
  a concurrent Down has removed tracks a stack without containers.
* auth/jwt.go:27-28 has every authenticated request checked against the
  blacklist; `GET /auth/validate` and `POST /auth/refresh` do not ask it, and a
  logout does not touch the refresh token of the pair.
* main.go closes the blacklist before it drains the HTTP server: with bolt,
  requests with a JWT get 503 while the server "gracefully" shuts down.
* main.go:558-559 has StopAll run "so we don't leak podman containers after the
  API stops accepting traffic", but the listener is open until StopAll has
  returned: an agent created after its ids were collected is not stopped.
  `CollectedAgentsStopped` is therefore about the collected ones; the next start's
  sweep removes what is left (`NoOrphansServed`).
* api/ratelimit.go:123-125 drops malformed trusted proxies silently because
  "config validation surfaces them at startup"; `Validate` does not look at
  them.
* compose/manager.go:237 wraps the error of a command, and crash.go:35 does not
  unwrap: a crash in a compose environment is reported as a failure.

### Observations

* Nothing relates `Burst` to the rate: with a burst of more than 600 times the
  tokens per second a bucket is not full again when its entry is dropped after
  10 minutes, and an address that pauses that long gets tokens it has not
  waited for, up to `Forgiven` in each pause.
* A run of a session in another workdir writes its history to another project
  folder. When that folder sorts first it becomes the match, and pages, title
  and usage no longer count the other folder's messages (`torn` in `Gateway`).
* A line over the scanner's limit in a streamed run stops its reader; the
  process may then block on the full pipe until a timeout, if there is one, or
  until the client leaves (the exception in `AnswerArrives`).

## 4. Proofs

All proofs are for arbitrary constants, under the ASSUMEs of the modules: a
`NoTurn`, `NoRun`, `NoStack` or `NoToken` outside the set it is not a member of,
positive channel capacities, natural bounds.

* `AgentProofs`. `Typing` proves `TypeOK` part by part: flags, program
  counters, lines and channels each have a lemma with one step per group of
  actions (capacities rest on `PushType`). `Safety` proves `SafeInv`. It is
  needed because `NoPanic` and `ExitedMeansReaped` are not inductive: who
  may be inside `markExited` depends on `pexited`, which depends on how far the
  wait goroutine is (`ExitInv`), and a registered channel is open only because
  a subscriber is in the map exactly between its `SubAdd` and the first of
  cancel and `markExited` (`SubInv`). `NeverPanics` and `ExitedIsReaped` follow.

  The turn properties rest on `TurnInv`, which holds until the agent leaves the
  registry (a Stop closes stdin, and then a prompt whose Send is rolled back may
  still be answered). None of them is inductive. That two turns do not overlap
  (`FlightInv`) needs that `completeTurn` comes after everything of its turn,
  that is, that a result line has nothing of a turn behind it, in the process,
  its pipe, the sink or `dispatch` (`ResultInv`), which in turn needs that one
  prompt is in flight; that `dispatch`'s second and third lock region still see
  the turn that the first read needs both (`DispInv`). `TurnEndIsLast` needs
  `EndInv`: a `turn_end` in a channel is of a turn that is over, and `OverStays`
  says that no step makes such a turn speak again. `OutputOfItsTurn`, `OneTurn`
  and `TurnEndsLast` follow.

  `PromiseKept` is the refinement of `Feed`. Besides the invariants above it
  needs `LifeInv`: that a current turn's Send is at it, that none is current
  while a Send would be let in, and that the turn `dispatch` has read is the
  current one or one whose Send failed. `MoveMaps` and `SamePhases` reduce each
  action to what it does to one turn's phase, `PublishMaps` and
  `FanoutDelivers` to what it does to the channels; then each action has a
  lemma (`SendMaps`, `SubMaps`, `ExitMaps`, `WatchMaps`, `DispatchMaps`).
* `JobsProofs`. `Invariance` proves types together with the relation between
  a job's program counter, its status, its presence and the deliveries made
  (`AttemptInv`: none before the first attempt, one at most before the retry);
  a job whose callback has reported is in a terminal status (`VerdictInv`), so
  that a late Cancel is refused. `TypeCorrect`, `NoResultDropped` and the two
  action properties, `NoResurrection` and `VerdictSticks`, follow from it.
* `RunsProofs`. The invariant says who may hold the lock with `needsInit` set
  while `quiet` holds (at most one run, on the current lock file, with no
  marker), and that a run past its command has prepared the directory that
  bears the name. `MarkerIsSound`, `InitBeforeUse`, `InitOnce` and
  `LocksAreReleased` follow.
* `ComposeProofs`. `StackInv` says that a Stack is starting until its own Up
  tracks it, and that a stopping Stack still in the map is the one the clean-up
  loop has collected; from it follow `VisibleUsable` and, with the types,
  `NothingLeaks`.
* `AuthProofs`. `Kept` is the heart of the invariant: what logouts have added
  is in the store or has expired, and what bolt's clean-up has collected has
  expired. The first needs the second (the delete does not look again) and
  `Monotone` (an issued token keeps its expiry). `LogoutHolds` follows with
  `AdmittedStep`, which says that only a lookup admits. `Refinement` shows
  that each step is a step of `DenyList` or leaves its variables alone: a lookup
  is an Admit, an Add a Deny, a clean-up or a restart a Forget, the end of a
  process with the memory backend a Lose.
* `StreamProofs`. `IInv` ties the pieces of a stream together: `PcInv` says
  that the run is past its two `<-done` only when both readers are gone, and
  that the channel is closed only then (from which `NeverPanics`); `CountInv`
  that a reader is behind the process and before a line too long for it;
  `ChanInv` that the channel holds, per pipe, exactly the lines between the last one
  delivered and the last one sent, in order (`Ascending`, `Between`,
  `Gapless`), from which `DeliveredInOrder`; `WholeInv` that a reader which
  stopped while the context was good had read all it could, from which
  `CompletedWhole`.
* `ServerProofs`. `SecretsInv` says who is inside the update (`MutexInv`: the
  holder of `mu` and nobody else), that the file is never older than what was
  seen of it, and that the secret is never older than the cached hash
  (`CacheInv`), which is why a hit in the cache is safe; `MainInv` that the
  configuration behind every phase was accepted, that the sweep's list has all
  that is left (`SweepInv`), and that what StopAll collected is on its list, is
  being stopped or no longer runs (`StopInv`). Steps are first classified by what they
  do to the secret (`StepIsMove`) and then by what they do to main, so that the
  two halves are proved apart.
* `GatewayProofs`. `HeldIsCurrent` says that the bucket a request holds is the
  one in the map and that its entry is no older than the request's stall, so
  that the clean-up cannot drop it (`StallAssumption`); `FillsUp` that a bucket
  holds at least what flowed in since its entry was last accessed, less
  `MaxStall` ticks, so that what the clean-up drops lacks no more than
  `Forgiven` (`SavedStale`). `LimitStep` concludes that every step is, for the
  ideal buckets, nothing, a request that comes, a token taken, a renewal of
  quiet addresses or a tick: `LimiterIsIdeal`, the refinement, follows.
  `Balance` counts the drops of an address since the window saw its first
  request: each needs a `Respite` that no other has used (`Fits`), and with that
  `AdmissionBounded` follows.

  The other half is about the history. The reader's loop (`messagesOf`) is a
  recursive function; that it exists and is the only one with its equations
  (`LoopExists`, `LoopUnique`) is proved by taking the least element of the set
  of counter-examples (`LeastElement`, from well-foundedness of the naturals),
  so that no induction theorem is instantiated with an operator. From it:
  a longer file gives a longer list with the same beginning (`MessagesGrow`),
  and the half line at a file's end adds nothing (`HalfLineUnseen`).
  `HistoryInv` says that a file's lines are numbered in order (`FileInv`), that
  no more are half written than are still to come (`PartInv`), and that what a
  client has put together is a prefix of the list of the file that is the first
  match, with no line over the limit before it (`PagesInv`); clients that began
  before the first match was replaced are in `torn`, of which it says nothing.
  `PagesWhole`, `ListedFetchable` (nothing before a listed message stops the
  scan of `GetMessage`) and `OverviewCovers` (what was paged is counted and
  titled) follow.

Every invariant and every safety action property that a passing run checks is
thus a theorem. Only model-checked is liveness (`StopReturns`,
`IdleAgentReaped`, `DispatchDrains`, `JobsCollected`, `UpReturns`,
`OldStackGoes`, `EntriesReaped`, `RunReturns`, `AnswerArrives`, `PagingEnds`):
fairness and ENABLED are out of the prover's reach. The three properties that
the violating runs refute have, of course, no proof.

## 5. Not modelled, and the plan

Not modelled at all, because they keep no state or only ask Podman: images,
workspaces, the compose builder and validator, command builders, pricing,
metrics, tracing, health, generated API docs. Request validation is the choice
between being refused and not. Of the runner the text of the command line and
the checks of mounts are left out, of the webhook its signature.

What is left, in this order:

1. An abstract life cycle of a compose stack that `Compose` implements, and
   one of a job.
2. Consequences of the abstract specifications, proved once there and
   inherited by what implements them.
3. Pure operators over bounded inputs: compose file validation, crash
   classification, pricing.
