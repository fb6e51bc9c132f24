# Formal models of clagentic-directory

clagentic-directory is a registry service: it serves agent cards out of YAML
files, answers "who handles this intent" queries over HTTP, keeps itself in step
with a directory or a git branch, can be installed and updated by its own
`update` subcommand, and watches memory and event APIs to propose registry
changes. This directory holds TLA+ models of those parts, the TLC runs that
check them on small instances, and TLAPS proofs about every module that has a
state.

- [The system](#the-system): parts, state, operations, interactions, hazards
- [Modules](#modules): which module models what, and how it corresponds to the code
- [Runs](#runs): what each one checks and shows, bounds, fairness
- [Proofs](#proofs): what is proved, from what, and how
- [Findings and observations](#findings-and-observations)
- [What is not modelled](#what-is-not-modelled)
- [Plan](#plan)

Paths below are relative to the repository's root.

## The system

| part | source | state it keeps | operations |
| --- | --- | --- | --- |
| git-backed store | `internal/store/gitstore.go`, `gitexec.go` | served snapshot, its SHA, its clone directory, failure count; the cache directory on disk | `NewGitStore`, poll loop, `Reload`, `Close`, `SyncStatus`, queries |
| file-backed store | `internal/store/filestore.go` | served snapshot and vocabulary; fsnotify watches | `NewFileStore`, `watchLoop`, `Reload`, `Close`, queries |
| vocabulary and entry validation | `vocabulary.go`, `vocabulary_errors.go` | none | load, merge extensions, validate |
| matching and ranking | `match.go`, `bm25.go`, `querylimits.go` | none | `findByCapability`, four tiers |
| kind and sequencing queries | `store.go` | none | `FindByConversationKind`, `FindBySequencing` |
| HTTP API | `internal/api/handlers.go` | none; a request in flight | agents, agent, find, card, healthz, readyz |
| client | `client/go` | none | `Agents`, `GetAgent`, `Find*` |
| host update | `internal/update/converge.go`, `currency.go`, `deps.go` | none of its own: unit file, binary, staged binary, install record, systemd | `Converge` |
| source export, values, unit | `internal/update/git.go`, `values.go`, `valuespath.go`, `unit.go` | temporary directories | export a ref, parse and validate, render |
| source watcher | `internal/selfbuild/sourcewatch.go` | `lastSeen` per agent | `poll` |
| usage inference | `internal/selfbuild/usage.go` | none between ticks | `analyze`, `emitDrift` |
| MCP discovery | `internal/selfbuild/mcp.go` | none | `inspect` |
| proposal writer | `internal/selfbuild/writer.go` | `proposed_changes/` | `WriteProposedChange` |
| daemon, command line | `cmd/clagentic-directory/` | flags | checks its flags, opens the store, starts the goroutines above, listens; `update`, `inspect` |
| scripts, agent declarations, golden queries | `scripts`, `agentdecl.go`, `golden_*.go` | none | |

**Who runs.** The daemon's `main` opens one store and fails if its first load
fails. Then the HTTP server's goroutines read the store, the store's own
goroutine (poll loop or watcher) replaces its snapshot, and the source watcher
and the usage inference poll two remote APIs, the latter reading the store. They
share the snapshot, behind an `RWMutex` held for a swap or a read, and the
`proposed_changes` directory, behind nothing. `main` installs no signal handler
and calls neither `Close` nor `Reload`: it ends by being killed, and `Reload` and
`Close` matter to whoever uses the store as a library. `update` and `inspect` are
processes of their own, and two of them may run at once.

**What is hard.**

- A sync of the git store is a sequence of git calls on a remote that moves:
  the branch may move between `ls-remote` and `clone`, git may fail or hang, the
  commit may not load, the process may be killed and leave directories, several
  goroutines may sync, `Close` may come in at any point.
- A load of the file store reads vocabulary, directory and each file at
  different moments while people edit; events may be lost; the directory itself may be
  closed or moved away; the initial load and the watch are two steps.
- `Converge` has some fifteen steps with effects on the host and no rollback. A
  step may fail or the process be killed; the next run decides from what it
  finds. Nothing locks out a second run.
- The watcher is told the same events again and again, must not propose the same
  agent twice within its window and must not lose an agent whose proposal could
  not be written.
- The usage inference looks pairs up one by one in a registry that may be
  replaced between two lookups.
- Four matching tiers, of which only the closest may answer; sums of floats in an
  order that is random.
- `readyz` reads the agents and the count of failed syncs in two calls, and a sync
  changes them in two steps of its own. Matches, misses and errors have bodies of
  different shapes, and the client decodes a whole method into one.
- One command line is checked twice, by `update` from the values file and by the
  daemon from its flags, in two pieces of code that do not know one another. What
  only the first lets through is a service that never starts; what neither looks
  at is passed over in silence.
- `update` waits for a daemon it does not control: an old process, or another unit
  on the port, may answer for the new one; the new one may come up between two
  attempts.

**What makes each part correct.**

- *Git store*: snapshot, SHA and clone directory belong together and are valid;
  readers never go back to a commit the branch had left; `Reload` returning nil is
  as good as reading the branch; the failure count tells the truth and `readyz`
  shows a store that cannot sync; no directory is left over; the store catches up;
  `Reload` and `Close` return.
- *File store*: only whole, validated snapshots are served; once edits stop, what
  is on disk is served.
- *Update*: the record never vouches for another commit's binary; exit 0 means
  installed and running; a converged host is not touched.
- *Self-build*: at most one proposal per agent and window; none replaced; every
  edited agent proposed in the end; drift reports agree with some registry served
  meanwhile.
- *Routing and API*: the closest tier answers, whole and ranked; `readyz` says what
  was so at some moment of the request; the client reads every answer for what it is.
- *Deployment*: what `update` accepts the daemon starts with, and reads all of it;
  what `update` says of readiness is so; a daemon that failed to start comes up
  once its registry does; what runs as root was read from a file root owns.

## Modules

| module | models | composes or refines |
| --- | --- | --- |
| `SnapshotStore` | what a store that follows a remote promises its readers | abstract specification |
| `GitStore` | `gitstore.go`, `gitexec.go`, the stale threshold of `readyz` | refines `SnapshotStore` |
| `GitStoreProofs` | proofs about `GitStore` | extends `GitStore` |
| `ObservedRegistry` | what a registry in editable files promises its readers | abstract specification |
| `FileStore` | `filestore.go`, validation in `vocabulary.go` | refines `ObservedRegistry` |
| `FileStoreProofs` | proofs about `FileStore` | extends `FileStore` |
| `Converge` | `converge.go`, `currency.go`, and as much of git, systemd and the service as it relies on | |
| `ConvergeProofs` | proofs about `Converge` | extends `Converge` |
| `Deployment` | `values.go`, `valuespath.go`, `unit.go`, what `converge.go` does to units and the readiness probe, the start of `main.go`, systemd's restarts | composes `update`, systemd and the daemons of two units |
| `DeploymentProofs` | proofs about `Deployment` | extends `Deployment` |
| `SelfBuild` | `sourcewatch.go`, `usage.go`, `writer.go`, the write of `mcp.go` | the mechanisms and the directory they share |
| `SelfBuildProofs` | proofs about `SelfBuild` | extends `SelfBuild` |
| `Routing` | `match.go`, `bm25.go`: operators, no state | |
| `Api` | `handlers.go`, `client.go`, the queries of `store.go`, `querylimits.go` | uses `Routing`; composes a store, a handler and a client |
| `RoutingProofs` | proofs about the operators of `Routing` | extends `Routing` |
| `ApiProofs` | proofs about `Api` | extends `Api` and `RoutingProofs` |
| `MC*` | instances for TLC | |

Operators that end in a suffix such as `Lock_NoMutex` and are introduced as
"Mutant" are altered copies of the definition they precede. No specification
uses them. Put in the place of the original, each makes the property it is
paired with in `PROJECT.json` fail, which is how we know that the property would
notice that bug.

### GitStore

Goroutines are processes with a `pc`: `"main"` runs `NewGitStore`, `"poll"` is
`pollLoop`, each member of `Reloaders` may call `Reload`. One step is one git
call, one lock operation or one directory operation:

| label | code | actions |
| --- | --- | --- |
| `lock` | `syncRunMu.Lock`, `remoteSHA`'s `MkdirTemp` | `Lock` |
| `lsremote` | `git ls-remote`, the probe directory removed | `LsRemote`, `LsRemoteFails` |
| `compare` | SHA against `curSHA`, `cloneFresh`'s `MkdirTemp` | `Unchanged`, `Changed` |
| `clone` | `git clone --depth=1` | `Clone`, `CloneFails` |
| `revparse` | `git rev-parse HEAD` against the SHA | `RevParse`, `RevParseFails` |
| `build` | `buildSnapshot` | `Build`, `BuildFails` |
| `swap` | the four assignments under `g.mu` | `Swap` |
| `removeOld` | the directory served before is removed | `RemoveOld` |
| `record` | `recordSync`, after `syncRunMu` has been released | `RecordSync`, `Opened`, `OpenFails` |

`Close` is three steps (`Close`, `TakeDir`, `Closed`), because it waits for the
loop between cancelling and taking the directory. `Kill` ends the process
anywhere; only the cache directory `fs` outlives it, and `NewGitStore` starts by
removing what it finds there. The environment moves the branch (`Push`) to any
commit, or deletes it, and switches its trouble (`SetFault`): git fails at once,
git hangs, or directories cannot be removed. A hanging call ends because
`GitTimeout` runs out or `Close` cancels the context.

A commit stands for its whole tree; `Valid` are those `buildSnapshot` accepts.
`Dirs` are the names under the cache directory: when all exist, `MkdirTemp`
fails, as on a full disk. `streak`, `seen` and `since` are history variables, read
by the properties and by no guard.

### FileStore

`job[p]` is a load in progress: vocabulary read (`ReadVocab`), directory listed
(`ListDir`), files read one by one (`ReadEntry`), swapped (`Swap`) or given up
(`Abort`). Conflicts with the vocabulary are gathered and refuse the load at its
end; a broken file or a second file for one agent refuses it at once. People edit
files and vocabulary between any two of these steps, and the directory may be closed to the
daemon or moved away, and come back (`LoseDir`, `FindDir`, as far as `Outages` allows): listing it then
fails (`ListDirFails`), as does reading a file it listed. `Watch` puts the watches in
place after the initial load, with the outcomes the code tolerates (no watcher at
all, or none on the vocabulary's directory). `Event` is one turn of `watchLoop`.
`Close` ends the watcher and waits for no load. fsnotify and the kernel's queue
are outside the repository: `Notify` queues an event for what is watched, or drops
it. `missed` is a history variable: it is true once a change was made that the watcher has no way to hear of.

`ObservedRegistry` is the promise: a snapshot is made of one observation of every
file and of the vocabulary, each made after the snapshot before it was served,
validated as a whole and served as a whole. It knows no goroutine, lock or watcher,
and it does not promise that the observations are simultaneous, because the code
does not take them so. The refinement maps `seen` and `seenVocab` to what the load
that holds `reloadMu` has read.

### Converge

One action per step of `Converge`, in the code's order, and the systemd behaviour
it relies on: `daemon-reload`, `enable` and `disable` read unit files, `restart`
starts what is loaded. Two builds of one commit may have different bytes
(`BuildOf` maps bytes to commits), so "binary changed" is about bytes and the
record about commits. `Exit` contains the deferred removal of the staged file;
`Kill` skips it. Around the runs, the reviewed branch moves, the values file
changes, the service stops or is respawned by systemd, somebody replaces the
binary, the host reboots. The last four that need a person or a reboot happen
between runs only (`Quiet`). `CanFail` and `CanDie` say whether steps may fail and
runs may be killed. `halfway` is a history variable: a run stopped after its first
write and before its restart, and the host has not been rebooted since.

### SelfBuild

Time passes in ticks of one second, the resolution of a proposal's file name,
between any two steps. `age` is `time.Since(lastSeen[agent])`, capped at the
window. The memory API is asked without a cursor and therefore answers with old
events too (`Redelivers`, an assumption about that API). `Propose` and
`MarkSeen` are two steps because the file is written before the time is noted, and
`ProposeFails` notes nothing. `Restart` loses `lastSeen`. The usage inference
fetches (`Fetch`), looks each observed pair up in the registry served at that
moment (`LookUp`), then writes one report per actor (`Report`); `HotReload` may
come between any two lookups. Which pairs a registry registers stands for
`FindBySequencing`; the conversation kind of a pair is left out. `inspect` is a
process of its own and writes when it pleases. `mix` says which of the three are in
use, chosen once among `Mixes`: each is switched on by itself, and they meet in
nothing but the proposals directory.

### Deployment

From a values file to a serving daemon. The file is a function from the keys of
`values.go` to *forms*: the classes of text that some check tells apart (`"good"`,
`"control"`, `"relative"`, `"garbled"`, ...). `Valid` has one named conjunct per part
of `Validate`, which reports all problems at once and therefore in no order.

| part | code | actions |
| --- | --- | --- |
| reading the file | `readValuesFile`: `Lstat`, open with `O_NOFOLLOW`, `Fstat` of what was opened, read | `StatValues`, `OpenValues`, `ReadValues` |
| deciding | `Validate` | `ValidateValues` |
| before anything changes | token file, `RenderUnit`, `Export`, build | `Export` |
| the unit | unit file, `daemon-reload` | `WriteUnit`, `DaemonReload` |
| the binary | rename of the staged build | `Swap` |
| superseded units | stopped if active, disabled if enabled | `StopOthers`, `DisableOthers` |
| the service | enabled if not, restarted if something changed or it is not active | `Enable`, `Restart` |
| the record | `WriteAtomic` of the install record | `WriteRecord` |
| a step that fails, a run that is killed | the returns with `ExitApply` | `Halts` |
| waiting | `waitReady` | `Probe`, one attempt each |
| the daemon | `main` in its order: flags, store, mechanisms, listener | `ParseFlags`, `OpenStore`, `StartMechanisms`, `Bind` |
| its registry | a poll or a hot reload, as `readyz` sees it | `Refresh` |
| systemd | `Restart=on-failure`, `RestartSec=5s` of the unit | `Respawn`, `Crash` |
| the world | an operator's edits, a file put in the place of another, a registry that empties, cannot be loaded, is mended | `EditValues`, `Worsen`, `Mend` |

Every step after `Export` may fail or the run be killed there (`Halts`), and leaves what
the steps before it changed; a restart that fails may leave the service stopped. `unit` is
what the unit files say, `loaded` what systemd has read of them: a process starts with the
latter. There are two unit names, because a values file may rename the unit and list the old
name under `supersedes`, or forget to. A superseded unit that has failed and waits for
systemd to start it again is not active, so that `StopOthers` leaves it alone and it comes back.
`halfway` is a history variable: the units that a run changed and ended before restarting, and
that nothing restarted since.

A process carries why it ended: each refusal of `main` has a cause of its own, so that a command
line the daemon turns down (`"flags"`, `"mechanisms"`, `"panic"`, `"vocab"`, `"listen"`) is
not taken for trouble around it (`"store"`, `"port"`, `"crash"`). `serves` is what `readyz` would find
in it: agents, none, or a git registry whose third sync in a row has failed. A probe gets 200 only
from a daemon that has agents and is not stale, that lets the prober in, and that answers within
the client's five seconds; a `"plain"` `env_file` sets no token, a `"stale"` `token_file` holds
another one than the daemon's. `used` is what a daemon has read so far, `missed` how many attempts of
this run met a daemon that was not ready or was too slow; no guard reads either. The binary and its record,
and two updates at once, are `Converge`'s subject; here a swap says only that the binary changed.

### Routing and Api

A term is a model value, `Normal` is `normalizeIntent` as a function on terms.
Tiers 1 to 3 are set comprehensions, ranked by `RankAgents`: the arrangement of them
in the order of canonical rank and name. Tier 4 keeps what
decides order: a word weighs the same wherever it occurs, and sums are rounded to
`Digits` binary digits after every addition, in whatever order Go ranges over the
query's words. `Relation` and `Closest` say what an answer is measured against, from
each agent's own relation to the query.

`Api` has one request in flight (`at`, `request`, `response`), every handler as an
action, and a store reduced to what a handler can see: the served registry and the
count of failed syncs. `SyncSwap` and `SyncRecord` are the two steps in which a sync
changes them (`GitStore`'s `Swap` and `RecordSync`), `ReadyzAgents` and `ReadyzSync`
the two in which `readyz` reads them. A file store hot-reloads and reports no syncs.
`requireAuth` is `Refuse`. The client is `Return`, which decodes what its method
expects (`Decode`), and `GiveUp`, a broken connection or its ten-second timeout.
`moments` is a history variable: how the store has been since the `readyz` in
flight came in. One request suffices because handlers share nothing but the store,
which any number of steps may change while the request is in flight.

## Runs

Sizes are distinct states. All runs take at most a few minutes with two workers.

| run | specification | shows |
| --- | --- | --- |
| `poll` (197 120) | the daemon: poll loop, all faults, kills, restarts, Close | `TypeOK`, `ServedIntact`, `StatusAtRest`, `ClosedClean` |
| `reload` (1 356 552) | two callers of Reload beside the loop | `IInv` (the invariant of the proofs), `ReloadFresh`, `CacheClean`, refinement of `SnapshotStore` |
| `live` (208 028) | `FairSpec`, one caller of Reload, git may hang | `Converges`, `StaleShows`, `ReloadReturns`, `CloseReturns` |
| `faults` (538 880) | one updater, every failure and kill, a host that changes | `TypeOK`, `RecordTruthful`, `InstalledOnSuccess`, `ConvergedOnSuccess`, `NoOpWhenConverged` |
| `overlap` (1 375 688) | two updaters at once, nothing fails | `ManagerCurrent` |
| `rerun` | as `faults`, without kills | violates `RerunConverges` |
| `hotreload` (285 215) | `FairSpec`: edits during loads, a directory closed or moved away and back, watcher, a caller of Reload, Close | `TypeOK`, `ServedValid`, `NoEditLost`, `CatchesUp`, refinement of `ObservedRegistry` |
| `relative` | a relative `--registry-dir` | violates `CatchesUp` |
| `selfbuild` (62 968) | `FairSpec`: the watcher with failing writes and restarts; usage inference and inspect against hot reloads | `Kept`, `HeldBack`, `RateLimited`, `DriftExact`, `AgentsProposed` |
| `api` (1 362 476) | every request over every registry of three agents, among reloads and syncs | `TypeOK`, `ClosestRanked`, `ReadyHonest`, `ClientTold` |
| `ties` | the same | violates `TiesRanked` |
| `deploy` (1 021 194) | three values files, any one key edited, the file replaced, every step of an update failing, a registry in trouble, crashes | `TypeOK`, `TrustedRead`, `RenderTotal`, `AcceptedStarts`, `NothingIgnored`, `GivesUpFairly`, `SucceedsTruthfully`, `ComesUp` |

**Bounds and why they are enough.**

- *GitStore*: two valid commits tell "the one served" from "the one the branch
  moved to", a third that does not load is the refused one, and `NoCommit` is the
  deleted branch. Three directories are the served clone, one being worked on and
  one left over; with two the cache fills up after a single failed removal, and
  `reload` and `live` allow no removal to fail. `FailureCap` is 3, the threshold of `readyz`:
  counts above it are told apart by nothing. Two callers of Reload and the loop
  give three contenders for the lock. `live` has one caller and two valid
  commits, since symmetry is not sound for liveness; a deleted branch takes the
  place of the commit that does not load, and a hanging git that of an
  unreachable one. It has no failing removals because directories are finite in
  the model: real ones are not, and a store that can create none cannot catch up.
- *FileStore*: two files are needed for a second file of one agent, and for one to be read
  after another was edited. One entry that uses the one vocabulary value and one that does not load
  give every way a load can end; every edit can be told, since a file has the entry, does not load or
  is not there. Both outages are allowed in `hotreload`.
- *Converge*: two commits, two builds of one of them, a foreign binary, two unit
  texts, and a superseded unit beside the own unit in `supersedes`, which the code
  leaves out. `overlap` has one commit with two builds: with two commits
  concurrent runs mix commits up (see below), which is not what `ManagerCurrent`
  is about.
- *Deployment*: the three files are the least one, one of each registry source with nearly
  every key set, one of them renamed and superseding the default unit; `MaxEdits` 1 then gives
  every form of every key beside its neighbours set and unset, which is where a missing check
  would show, or one of the other files (another name, another source), one replacement of the
  file between two steps, or one new binary. Any number of runs follow one another.
  `MaxTrouble` 1 is a registry that empties or cannot be loaded, or a crash. The theorems lift
  these bounds. The timeouts of `Seconds` (none given: 2, given: 1, below a second: 0) give three,
  two and one attempt.
- *SelfBuild*: two agents, so that one can be skipped while the other proposes;
  a window of two ticks and three events, so that an event can fall inside the
  window, at its end and after it. The usage inference has both pairs of two
  agents and two registries. `MCMixes` has the watcher alone and the other two
  together: `Kept` is about the first, `DriftExact` about the second, and the
  watcher's own state is not touched by the others. The theorems are of any mixes.
- *Routing, Api*: seven cards cover the relations an agent can have to a term (declares it,
  declares what it is a synonym of, has it for a role, mentions it), a declared
  intent that normalization would change among them; three
  agents suffice for "closest", "ranked" and a list longer than `BM25TopN`, which
  is 2 in the model and 5 in the code. The queries have every intent alone, the
  other parameters alone and together, none, and an oversized one used or not used.
  `StaleFetchThreshold` is the code's. A git store with a token and a file store
  without one are the two `Setups`.

Deadlock is checked in every run; the environment can always move.

**Fairness.**

- *GitStore*: a goroutine that can run does. The holder of a Go mutex hands it to a
  waiter that has starved for a millisecond, hence strong fairness of `Lock`. The
  ticker fires for ever. Once `g.done` is closed, `select` picks among its ready
  cases at random, hence strong fairness of `LoopExits`. That a hanging git call
  ends is not an extra assumption but `LsRemoteFails` and `CloneFails` being
  enabled, which is what `GitTimeout` and the context do. Nothing is assumed of the
  remote, of callers, of `Close`, of a kill or of a restart.
- *FileStore*: the same for goroutines and mutex; a pending event is delivered.
- *SelfBuild*: the watcher keeps taking steps and time passes; writes for one agent
  do not fail for ever; `AgentsProposed` assumes that the daemon is not restarted
  for ever.
- *Deployment*: `Daemon(n)`, a daemon's own start-up steps and systemd's restart of it. The
  unit says `Restart=on-failure` and `RestartSec=5s`, so that systemd's start limit
  (five starts in ten seconds) is never reached and it keeps trying. Nothing is assumed
  of the registry, of edits, of crashes or of whether `update` goes on: `ComesUp` has
  `Startable` as a hypothesis, that the registry loads for good and no other unit is up.
- The safety runs of `GitStore`, `Converge` and `Api` assume no fairness.

## Proofs

Every module with a state has a proof module, and so has `Routing`. The theorems hold for all values of the
constants that satisfy the named assumptions at the head of each module; TLC
evaluates those in every run of the module.

| theorem | of | statement |
| --- | --- | --- |
| `Invariance` | all six | `Spec => []IInv` |
| `TypeCorrect` | all six | `Spec => []TypeOK` |
| `ServedIntactHolds`, `ReloadFreshHolds` | `GitStore` | `Spec => []...` |
| `StatusTrue`, `NothingAfterClose` | `GitStore` | `Reloaders = {}` implies `Spec => []StatusAtRest`, `Spec => []ClosedClean` |
| `CacheCleanHolds` | `GitStore` | `Spec /\ [](fault # "norm") => []CacheClean` |
| `Refinement` | `GitStore` | `Spec => ImplementsSnapshotStore` |
| `ServedValidHolds` | `FileStore` | `Spec => []ServedValid` |
| `NoEditLostHolds` | `FileStore` | `~RelativeDir` and `Extensions = {}` imply `Spec => []NoEditLost` |
| `Refinement` | `FileStore` | `Spec => ImplementsObservedRegistry` |
| `ManagerCurrentHolds` | `Converge` | `Spec => []ManagerCurrent`, for any number of runs |
| `RecordTruthfulHolds`, `InstalledOnSuccessHolds`, `ConvergedOnSuccessHolds`, `NoOpHolds` | `Converge` | `OneRunner => (Spec => ...)` |
| `DriftExactHolds`, `RateLimitedHolds` | `SelfBuild` | `Spec => []DriftExact`, `Spec => RateLimited` |
| `KeptHolds` | `SelfBuild` | `NamesApart => (Spec => []Kept)` |
| `HeldBackHolds`, `NothingPassedOverHolds` | `SelfBuild` | `Spec => []HeldBack`, `Spec => NothingPassedOver` |
| `TrustedReadHolds`, `RenderTotalHolds`, `AcceptedStartsHolds`, `NothingIgnoredHolds`, `GivesUpFairlyHolds`, `SucceedsTruthfullyHolds`, `ComesNearerHolds` | `Deployment` | `Spec => ...` |
| `AnswerIsClosest` | `Routing` | what `FindByCapability` answers when an agent is related to the query ranks the closest agents and no other |
| `RankAgentsRanks` | `Routing` | a ranking has all of what it ranks, each once, trusted ones first and then by name |
| `ClosestInRank` | `Routing` | both together: the closest agents, whole and in rank |
| `FallbackIsTop` | `Routing` | what tier 4 answers is ordered by some scores the additions may give, within the limit, and nobody left out outscores one of it |
| `ReadyHonestHolds`, `ClientToldHolds`, `ClosestRankedHolds` | `Api` | `Spec => ...` |

Few of the properties are inductive as they stand. For each module, what is:

**GitStore.** `IInv` is the conjunction of

- `TypeOK`, which needs `Progress`: `curSHA` and `snap` stay commits only because a
  goroutine that swaps owns a directory that holds one;
- `OneSync`: who is inside a sync holds `syncRunMu`, and only who is inside owns a
  directory. Without it two syncs could share a directory or overwrite each other;
- `Starting`: nothing else runs while `NewGitStore` does, so that a failed start has
  nothing to interfere with, and nothing is held while the process is down, so that
  removing stale directories removes none in use;
- `Serving`: what is served, which part of it `Close` may have taken, and that the
  directory `Close` is removing is not the one served. `ServedIntact` follows;
- `Progress`: what a sync has established at each label (it owns a directory, the
  directory is neither the served one nor the one `Close` removes, the clone is the
  SHA it read, that SHA is valid). `Swap` keeps `Serving` because of it;
- `Knowledge`: how the commits a sync has seen the branch have relate to those
  known for the served snapshot: `seen[p]` is contained in `since` until `p` swaps
  and contains it from then on. `ReloadFresh` and the refinement follow. This
  needs `OneSync`: a second swap in between would break it.

The two theorems about the daemon, where nothing calls `Reload`, need more of the
same kind: `Counted` says that the one sync that has returned and not been recorded
is the only difference between count and streak, `LoopGone` that nobody is left to
swap once `Close` has taken the directory. Both fail with callers of `Reload`.

`CacheClean` needs `Owned`: while the process is up, every directory in the cache is
the one served, the one `Close` is removing or one that a goroutine in a sync owns.
With `OneSync` it leaves only the served one when the lock is free. It holds as long as
directories can be removed; a removal that fails leaks one by the code's own choice, hence
the hypothesis on `fault`. Kills do not need it: `NewGitStore` clears the cache.

Each conjunct of `IInv` has a lemma with one step per action; `IInvStep` puts them
together. `Refinement` shows that `Init` maps to the abstract `Init` and that each
step is `Publish` (`Push`), `Refresh` (`Unchanged`, `Swap`), `Stop` (`Gone`) or leaves
`origin`, `snap` and `since` alone; the mapping is the identity on these three.

**FileStore.** `Locking`: whoever holds `reloadMu` is loading and nobody else is, and
nothing runs beside `NewFileStore`. `Reading`: a load has read nothing broken, and no two
files of one agent that keep to the vocabulary it read. `Swap` needs both: what it
swaps in was validated as a whole only because no conflict was found in what it
alone read. `Refinement` maps each step of the load that holds the lock to `Observe` or
`ObserveVocab`, a swap to `Serve`, an aborted load to `Forget`, an edit to `Change`;
everything else stutters. That waiting loads have read nothing (`Sound`, at the label
`lock`) is what makes taking the lock a stutter.

`NoEditLost` is the safety half of `CatchesUp`: a store that missed no change, has no
event pending and whose watcher rests serves what is on disk, or what is on disk does not load.
`Tracking` strengthens it to the states on the way there. As long as no event is
pending and the watcher is not about to take the lock (`Settled`), the load in progress,
whoever's it is, has read nothing that was edited since (`Unspoilt`); so what it swaps in is
current, and a caller of `Reload` cannot put an older observation over a newer one. An
edit during a load makes an event pending and thereby ends `Settled`. The two
hypotheses are where the code breaks the promise: see `relative`
and the dropped extensions below.

**Converge.** `Present` says what a run past each step has, and that nothing that was
there has gone; `Reloading` that whoever leaves systemd behind the unit file is about to
reload it. These hold for any number of runs, and `ManagerCurrent` follows. The rest,
`Sole`, is of one run at a time (`OneRunner`), as the code's comments reason: `RecordSound`
(the record is true of its own digest, whatever is installed, so that a foreign
binary can only make it useless), `Alone` (what a run has found out stays so until it
returns), `Settled` (unless a run stopped halfway, what runs is what is installed,
or the run in progress is the one that changed it and will restart) and `Unneeded` (a run
that finds the host converged has nothing to do). With two runs of different commits
`RecordSound` fails; see the observations.

**Deployment.** `Opened` and `Accepted`: what a run has read and validated by each
label. `Launching`: unit texts that are installed, loaded or run pass the daemon's checks
(`Launchable`, the part of `Valid` the daemon repeats), whence `AcceptedStarts` with its two
exceptions, which `Valid` lets through. `Current`: a unit that no run left halfway, and that the
run in progress is not in the middle of changing, has its installed text loaded and its process
runs that text. It is what makes `SucceedsTruthfully` true, and `halfway` is needed for it: without that
exception both are false, which is the `rerun` finding seen from here. `Done` says what a
run has established by each of its steps, of which `Current` needs that systemd has the new text
before the restart. `Consulted`: what a daemon has read at each stage, whence `NothingIgnored`.
`Probing`: attempts left and attempts missed add up to all there are, unless the probe is blind;
an attempt that met a ready daemon in time ended the run with success.
The core are two lemmas without a state: rendering an accepted file gives launchable
flags, and the checks of `main` refuse no launchable flags.
`ComesNearer` is the safety half of `ComesUp`: while the registry loads, no other
unit runs and the command line is not one of the two exceptions, each step of the daemon or of systemd reduces the `Distance` to serving by
one. It follows from `Launching` and `Current`. What is left to fairness is that
the steps are taken.

**SelfBuild.** `Watching`: the event at hand is one the poll gave. `Aging`: `lastSeen`
of an agent is no older than its last proposal, but for the one between `Propose` and
`MarkSeen`, during which nobody else proposes; `RateLimited` follows. `Analysing`: the
registry served now is among those served during the analysis. `Kept` needs `Posting` as well, and
the hypothesis `NamesApart`: it is false when two agents' names sanitize to one.
`HeldBack` and `NothingPassedOver` are the safety half of `AgentsProposed`: `lastSeen` holds
an agent back only for a proposal that was written, so that an event of an
agent without one is tried, and passed over only by a write that fails. What is
left to fairness is that polls go on and writes do not fail for ever.

**Api.** Past the first read of `readyz` the store has been ready, or a sync has emptied
it, or it still has agents and is stale; whichever the second read finds, the answer is
true of a moment. A response has the shape its route has. `TypeOK` is inductive by itself,
given what the queries answer, and `ClosestRanked` follows from it and from `Routing`'s theorems.

**Routing.** `AnswerIsClosest` does not
depend on a state: an agent is in a tier exactly when it has that relation to the terms,
so that the first tier with anybody in it holds exactly the closest. The rankings are
`CHOOSE`n arrangements, so that a theorem about them must first show that there is one
(`ArrangementExists`): in a total order of a finite set, everyone stands at one more than the number
of those before it, which is an injection of the set into `1..Cardinality` and therefore
onto. `BeforeOrder` and `OutscoresOrder` show that rank and name, and score before
them, are total orders, the latter for any scores at all. Scores are sums, added up by a recursive
function; that it has a value for every sequence, and that the value is a
number, is shown by the least length for which it would fail (`FirstFailure`, from the
well-foundedness of `Nat`), since the library's induction rule cannot be cited here.
The assumptions on constants are what the code has: finitely many agents, a trust label that is there or
not, finitely many words per term, weights that are not negative. (A weight is positive in
the code; `Nat` is enough.)

Model-checked only: liveness under fairness, which is beyond the prover:
`Converges`, `StaleShows`, `ReloadReturns`, `CloseReturns`, `CatchesUp`,
`AgentsProposed`, `ComesUp`. For the last three the safety half is proved, as above;
for the git store it is `ReloadFreshHolds` and `StatusTrue`. Every safety property that a
passing run checks has a theorem. `NothingPassedOver` and `ComesNearer`
are proved and in no run, since `AgentsProposed` and `ComesUp` check what they are for; so is `TypeOK` of `SelfBuild`. The refinement
of `SnapshotStore` is checked in the run with callers of `Reload`; the theorem is of any callers
and faults.

## Findings and observations

Three runs show that the code does not do what its own text says; each is listed
with the quotation in `PROJECT.json`.

1. `rerun`: when `daemon-reload` or the restart fails, running `update` again, as
   `docs/UPDATE.md:76` advises, finds unit and perhaps binary in place, restarts
   nothing and exits 0; the service or systemd stays on the old one until
   something else reloads or restarts it. `ConvergedOnSuccess` shows that this is the only
   way: without a run that stopped halfway, exit 0 means that what is installed
   is running.
2. `relative`: with a relative `--registry-dir`, as in the README's own example,
   `isRelevantEvent` compares an absolute path with a relative one, and no edit is
   ever noticed.
3. `ties`: tier 4 sums floats in the order of a Go map, so that agents with the
   same words may differ in the last digit and rank against the tie-break.

Observed while modelling, not listed as runs.

*Stores*

- `FileStore.Reload` loads the vocabulary without the extensions `NewFileStore`
  merged; the first reload drops them (`filestore.go:166`). The runs configure no
  extensions, and `CatchesUp` would fail with them.
- A change between the initial load and the watch (`filestore.go:68`), or one whose
  event an overflowing queue dropped (`:115` only logs), is not served until the
  next one. `NoEditLost` and `CatchesUp` say so: they promise nothing once `missed` holds.
- A registry directory that was moved away and put back, or replaced by another of its name, is not
  watched any more: `watchLoop` watches only the vocabulary's parent again (`:108`). One that was
  closed and opened again is, but the opening itself reloads nothing. Both end in `missed`.
- With callers of `Reload`, `recordSync` may run in another order than the syncs
  did, since it follows the release of `syncRunMu` (`gitstore.go:311`), and a `Reload` past
  its last git call swaps a clone in after `Close` took the directory. The daemon
  has no such callers: `StatusAtRest` and `ClosedClean` are checked and proved for the loop
  alone.
- A second `Close` closes a closed channel and panics.

*Update and daemon*

- Two concurrent updates of different commits share the staged path; one may record
  its commit with the digest of the other's binary (`converge.go:137`), against the
  comment on `current`. Nothing locks.
- A killed update leaves its staged file, which `docs/UPDATE.md:74` calls "always
  removed".
- What passes `Validate` and still cannot serve: a `daemon.listen` that is no `host:port`,
  when `readyz.url` is given (the daemon exits at the listener for ever); a
  `git_vocab` with `..` in it (the store refuses it). Both are named in `AcceptedStarts`,
  and `ComesUp` has their absence as a hypothesis.
- What passes `Validate` and still cannot be probed, so that `update` exits 5 on a healthy
  daemon: a `listen` of port 0 or of a named port without `readyz.url`; an `env_file` that carries the token
  without `readyz.token_file`, when the probe gets 401. These are `Blind`.
- A superseded unit that waits for systemd to start it again is not active: `update` does not stop it
  (`converge.go:171`), `disable` does not cancel the start, and it comes back on the port. It may
  take the new unit's place there and answer the probe. This is the other `Rival`.
- A file that renames `unit.name` and does not list the old name under `supersedes`
  leaves the old unit on the port: the new one fails to bind, and the old one answers
  the probe, so that `update` exits 0. This is `Rival`.
- `mcp_discovery`, and with it alone `self_build_base_dir`, do nothing in the daemon: discovery
  runs from `inspect` only (`Idled`). `docs/UPDATE.md:252` promises to reject ignored keys of the wrong
  mode alone, and these are of no mode.
- A registry without agents, or a git registry whose last three syncs failed, makes `readyz` answer 503, so
  that `update` exits 5 although the service runs what it was told.
- `waitReady` asks before it looks at the clock, so that a timeout below a second means one attempt,
  and a daemon that accepts and never answers may hold `update` for about (timeout + 1)
  times (client timeout + 1) seconds.

*API*

- `docs/SECURITY.md:15` calls `/readyz` "optionally unauthenticated (configurable)"; with a token set,
  `requireAuth` always asks for it there, and nothing configures that.
- The Go client sends no credential, so that every call fails on a server with a token.
- `readyz` may answer 200 although at no single moment the store was ready: a sync
  that empties the registry between the two reads also resets the count. `ReadyHonest`
  names that case (`"emptied"`) and no other.
- An agent whose name ends in `.json` cannot be reached at its own card's address.
- Queries are normalized and registered intents are not, so that an agent that
  declares `pr_opened` is no exact match for `pr_opened` (`match.go:86`).

*Self-build*

- Two actors whose names sanitize to one file name replace each other's proposal
  within a second (`writer.go:24`); so do two mechanisms that propose one agent
  within a second.
- The watcher skips events inside its window and does not gather them
  (`sourcewatch.go:104`).
- `stripDiffPrefixes` keeps removed and added lines alike, so that of a diff that replaces an
  agent's self-declaration the removed one, which comes first, is proposed with high confidence
  (`agentdecl.go:121`).

Hazards of `PROJECT.json` without a property are the outcomes recorded out of
order, an edit between load and watch, lost events, the directory that is not watched again, the
dropped extensions, the shared staged path and the unnormalized intents: in each the code plainly does what is said
above, and a property would only restate it.

## What is not modelled

- Contents: YAML decoding and field rules, the card format, unit quoting, the BM25
  formula, diff and MCP text heuristics. They are pure functions; what the
  properties tell apart of them is a set or a function on model values. Of response bodies
  only agent names, status and shape are kept.
- Environment variables and arguments of git (`gitconfig.go`): they isolate git from the user's
  configuration, hold no state and interleave with nothing.
- The MCP exchange of `inspect`, one request after the other in a process that then ends.
- Agent self-declaration (`agentdecl.go`), the helper scripts, version output, logging: single
  passes over text.
- Golden queries (`golden_*.go`): data and a recorder for tests.
- Queries of several terms: the API passes one term, and `FindByCapability` takes any set.
- A second `Close`, which panics; callers own the store.
- In `Deployment`: an `env_file` that does not exist, for which systemd does not start the unit
  (`docs/UPDATE.md:214`); a port held by another program; a daemon that crashes again and again.
  `ComesUp` says nothing about these. In `Converge`, superseded units are active or not; that one may
  wait for a restart is represented in `Deployment`.

## Plan

1. Done: all modules above and their proofs; every component with a state or an interleaving
   is covered.
2. Left to model: a file store whose extensions are dropped by a reload; two updates of
   different commits; source export's temporary directories under a kill.
3. Left to prove: `StatusAtRest` in a weaker form for callers of `Reload`; what the abstract
   specifications `SnapshotStore` and `ObservedRegistry` themselves promise in sequence (a reader
   never sees a commit again that it saw replaced); records under two concurrent updates of one commit.
