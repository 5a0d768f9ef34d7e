# Formal model of cmd_mcp

`cmd_mcp` lets an MCP client run a fixed list of commands on a server and
deploy artifacts to it. This directory holds TLA+ modules for its core, TLC
configurations that check small instances, and TLAPS proofs that hold for every
instance. Line numbers refer to `src/`; `PROJECT.json` (`map`) names the lines
of each definition.

Contents: 1 the system, 2 the modules, 3 the runs, 4 the proofs,
5 disagreements found, 6 what is not modelled, 7 the plan.

## 1. The system

An operator runs `deploy-artifact` on his machine. It opens an ssh connection
per run, ssh starts `server -commands ...` (cmd/server/main.go), and the two talk
JSON-RPC, one line per message, over stdin and stdout. So **there is one server
process per connection**, each answers **one request at a time**
(internal/mcp/stdio.go:51-76), and what several processes share is the file
system and the programs they start.

| Component | State | Operations | Called by |
|---|---|---|---|
| Artifact service, `internal/artifact/doc.go` | `sessions` in memory; files under `uploads/` and `committed/` | begin, chunk, commit, abort, deploy | MCP adapter |
| Deploy client, `cmd/deploy-artifact/main.go` | position in `runDeploy`, file offset, upload id | begin, chunks, commit, deploy, deferred abort | operator |
| MCP adapter and stdio server, `internal/mcp/` | none between requests | initialize, tools/list, tools/call | client |
| Command service, `internal/app/server.go` | none; calls audit and metrics | Execute, Explain | adapter, artifact service |
| Concurrency limiter, `internal/executor/limiter_concurrency.go` | a global channel and one per command | Execute | command service |
| Process executor, `internal/executor/process.go` | one child, its group, its pipe | Execute | limiter |
| Audit and metrics, `internal/audit`, `internal/metrics` | lines on stderr; counters under a mutex | Record, Snapshot | command service |
| Definitions, configuration, validation, argv, `internal/domain`, `internal/config` | immutable after start | Load, Validate, Build | command service |
| Deploy scripts of directories, `scripts/deploy-{mixbot,antd-pri-dev}-inner.sh` | live directories, back-ups named by the second | check, back up, install, roll back | process executor |
| Deploy scripts of services, `scripts/deploy-{bot-api,mixchat,ari-bot}-inner.sh` | application directory, back-up, service | back up, replace, restart, check, roll back | process executor |
| Health checker, `internal/health` | none | Check | nobody in the repository |
| Log readers, installers, build scripts | none of their own | run once | process executor, operator |

### What is hard

* **Several processes on one artifact root.** The mutex and the session map of
  the artifact service protect one process only. `commit` is a stat, a rename
  and two file operations on the manifest; `deploy` is a read, a stat and the
  start of a program. Every one of these calls interleaves with those of other
  processes and can fail, and a crash or a closed connection leaves the files
  as they are and loses the sessions.
* **The client works on a file that changes.** Size and digest are taken before
  the connection, the content is read again while uploading; the connection may
  break at any point, and the next run meets what the last one left behind.
* **Tokens on five paths.** The limiter takes two tokens and returns early in
  two places; a leak or a double release lasts as long as the process.
* **Result versus reality.** Timeouts, truncation, start failures, exit codes,
  refusals and audit errors are folded into one status and three records of it
  (answer, audit line, counters).
* **Deploys without a lock.** Limits hold within one process, every connection
  has its own, and a deploy goes on when its server is gone. Runs of one script
  may overlap, and a command that fails outside a condition ends a run where it
  stands.
* **Checks in one package, use in another.** The loader checks definitions and
  profiles, the validator arguments, the builder what comes of both, and the
  artifact service calls a command with a path of its own making. What one lets
  pass the next may refuse, for good.
* **Answers by position.** The client takes the next line for its answer; a line
  too many or too long ends or shifts the conversation.
* **Processes that outlive their command.** Deadline, kill, reaping, draining
  of the pipe and kill of the group are separate; services started by a
  script may hold the pipe, leave the group or run as another user.

### What makes each part correct

* Artifact service: a committed file has the digest its name announces; a
  manifest describes the file beside it; a deploy starts on the file verified
  for its profile or on none; upload files have one owner; what is committed
  stays; and, as a whole, it behaves like a registry in which artifacts appear
  at once.
* Client: it deploys the bytes it hashed; it ends; it leaves nothing behind;
  after an interrupted run the next one succeeds; who is told "committed" can
  deploy.
* Limiter: no token is lost or given twice; limits hold; releases never block.
* Command service: "rejected" means nothing was done; "success" means a whole
  success; audit and metrics agree; every call returns.
* Process executor: after a timeout nobody of the group is left; codes are the
  child's; output is whole or marked cut; every execution ends.
* Stdio session: an answer belongs to the request its reader waits for; the
  client is always answered.
* Definitions to argv: what the loader lets pass can be built; paths stay inside
  their roots in the form they are handed on; a profile that loads deploys.
* Deploy scripts: the old version is never lost; what a run found can be found again;
  success means that what it brings is in place; a roll-back restores what was found.

`PROJECT.json` (`hazards`) lists each hard spot at its line and the properties
that watch it.

## 2. The modules

| Module | Role |
|---|---|
| `ArtifactStore` | the artifact service of several processes on one file system |
| `ArtifactRegistry` | abstract specification of what it promises |
| `ArtifactStoreRefinement` | the mapping from store to registry |
| `ArtifactStoreProofs` | safety of the store, and that it implements the registry, for every instance |
| `DeployClient` | `ArtifactStore` composed with the client programs |
| `DeployClientProofs` | safety of clients and store together, for every instance |
| `LimitingExecutor` | the limiter, any number of goroutines |
| `LimitingExecutorProofs` | its safety for every instance |
| `CommandService` | command service, audit and metrics over `LimitingExecutor` |
| `CommandServiceProofs` | its safety, its counters, and that it uses the limiter as specified |
| `ProcessExecutor` | one execution of a command, with the processes it starts |
| `ProcessExecutorProofs` | its safety for any number of descendants, any output and limit |
| `Validation`, `ArgvBuilder` | the validator and the builder as operators |
| `Configuration` | every check of the loader, and the registry, on the same data |
| `ToolAdapter` | routing, the verdict on a call, the deploy's own call |
| `StdioSession` | one server process from its file to the end of its input, and its client |
| `StdioSessionProofs` | that the deploy client reads its own answers, that paths stay inside, that the loader and the builder agree, that deploys get through |
| `ServiceDeploy` | runs of the deploy scripts of services, possibly overlapping |
| `ServiceDeployProofs` | that they lose neither the old version nor the uploads, and what a run that met no other ends with |
| `DirectoryDeploy` | runs of a deploy script of directories, possibly overlapping |
| `DirectoryDeployProofs` | that no run of it loses the old version, and what a run that met no other ends with |
| `MCArtifactStore`, `MCDeployClient`, `MCCommandService`, `MCDirectoryDeploy`, `MCStdioSession`, `MCServiceDeploy` | instances for TLC |

Definitions called "Seeded bug" are mutated forms of the definition that
follows each. They are used by no specification; they exist to confirm that the
properties can tell the code from its plausible mistakes.

### ArtifactStore

* `sessions[s]` is `Service.sessions` of process `s`; `uploads`, `committed` and
  `manifests` are the three kinds of files, `Absent` when there is none. A
  manifest file is `Absent`, `Empty` (created or truncated, not yet written),
  `Torn` (does not parse), or a manifest.
* Handlers that touch shared files once (`begin`, `chunk`, `abort`) are one
  action each; as requests of one process do not overlap, their in-memory part
  needs no interleaving. `commit` and `deploy` are split at every system call:

  | `pc` | next action | code |
  |---|---|---|
  | idle | `CommitTake` (session leaves the map), `CommitRefuse` | 241-252 |
  | verify | `CommitUnreadable`, `CommitDiscard`, `CommitAlready`, `CommitVerify` | 254-278 |
  | rename | `CommitRename`, `CommitRenameFail` | 279-281 |
  | create, write | `CommitManifestOpen`, `CommitManifestWrite` and their failures | 282 |
  | undo | `CommitUndo` (removes the file at the path) | 283-284 |
  | idle | `DeployLookup`, `DeployRefuse` | 307-334 |
  | stat | `DeployStat`, `DeployMissing` | 335-337 |
  | exec | `DeployExec` | 338-346 |

  The two reads of `verify` (digest, stat of the target) form one step with the
  look at the target: the upload file is private (`OneOwner`), so only the stat
  can be affected by others.
* `ioutil.WriteFile` is two calls. When two processes write the same manifest,
  the second write may leave the tail of a longer first one: `Torn`. Profiles
  and sizes differ in length, so both outcomes are possible.
* A write that reports an error may have left the file empty, torn or, when only
  the close failed (`"close" \in Fault`), whole.
* `os.Remove` errors are ignored by the code; `Remove` leaves the file in place
  when `"remove" \in Fault`.
* `Restart` is the end of a process, between requests or, with `"crash"`, in a
  handler.
* Abstractions: names are a base and an extension with the pattern match as the
  constant `Allowed`; artifact ids too long for the id pattern are those of
  `LongBase`; digests are an injective function on contents; 12-digit prefixes
  do not collide (`ShortAssumption`). The last is an assumption the code itself
  makes: it identifies artifacts by the first 12 digits.
* What `deploy` runs is external. `DeployExec` says whether the program finds
  the file.

### DeployClient

Client `s` talks to process `s`. A request is sent and taken by the handler in
one step (`SendBegin` ...), the handler's remaining steps are those of
`ArtifactStore`, and the answer is read in another (`GotUpload` ...); line
order and the client's own alternation make messages overtake nothing, so no
queue is needed. `Start` draws the content `h` whose size is taken (main.go:140), the
hashed content `f` (144) and the uploaded content
`g`; they differ when `"edit" \in ClientFault`.
With `"read"` the file may also become unreadable between two chunks
(`Unreadable`). `Lose` breaks the connection;
the process finishes its handler, then reads the end of its input
(`Disconnect`), and a new client with a new process may take the slot.

### LimitingExecutor, CommandService

`at[c]` is the position of goroutine `c` in `LimitingExecutor.Execute`, the
channels are counters (capacity = limit; no limit when it is not positive, as in
`NewLimitingExecutor` and `perCommandLimiter`). Deferred releases run in
reverse order on every path. `CommandService` adds the stages around the
limiter, an arbitrary `Outcome` of the process behind it, the error of the audit
write that the code drops, and the recorder. The server has one caller per
process; the types are written (and tested) for concurrent callers, hence the
model is too.

### ProcessExecutor

One `Execute`: `Start`, then `Wait` in its two halves (`Reap`, `Drain`: the
exec package waits for every copy of the pipe's write end), `Kill` of the child
by the exec package at `Deadline`, and `Classify`, which looks at the context,
kills the group and limits the output. Descendants fork, redirect, detach and
end as they like; `privileged` stands for programs that run as root under sudo,
which the server cannot signal. Classification after a deadline shows two
effects worth knowing: a child that ended in time is reported as a timeout when
the deadline passes while the pipe is drained, and a clean timeout without
descendants reports the clean-up as failed (there is no group left to signal),
where the mock executor (internal/executor/doc.go:68-70) reports it completed.

### DirectoryDeploy

One run `r` of `deploy-mixbot-inner.sh` (or of `deploy-antd-pri-dev-inner.sh`,
which has the same steps on other directories):

| `pc` | next action | lines of deploy-mixbot-inner.sh |
|---|---|---|
| ready | `Refuse`, `Begin` (backup directory of this second) | 31-72 |
| look, move | `Look`, `Move`, `MoveFails`, `MkdirFails` | 85-90 |
| install, copying | `CopyBegins`, `CopyEnds`, `CopyFails`, `MkdirFails` | 92-99 |
| rollback | `Remove`, `RemoveFails` | 76-78 |
| restore, restoring | `MkdirFails`, `CopyBegins`, `CopyEnds`, `CopyFails` | 79-80 |

* A directory is a chain of *layers*: mv and cp put a directory into a target
  that exists, so the tree holds the target, the directory of the same name
  inside it, and so on. A layer knows its version and whether it is whole. This
  is what two runs at once make of each other's directories.
* The application and its backups are on one file system (both under
  /var/www/html): mv is a rename, one step.
* A copy takes two steps, and anything may happen in between. It writes by path:
  what it finds there at its end may be another run's (`Spoilt`).
* A run that begins in the second of an unfinished one may share its backup
  directory; a run that begins when no other is under way reads a later second
  (extraction and staging come first).
* The server cannot kill the script, which runs as root; `Killed` is the machine
  or an administrator.
* Staging, per run and in a directory of its own, and checks are `Refuse` or part
  of `Begin`: until the backup directory is made nothing shared is touched.

### ServiceDeploy

One module for three scripts, chosen by `script`, because they share the shape
and the interest lies in where they differ:

| | bot-api | mixchat | ari-bot |
|---|---|---|---|
| staged | before the backup (`Stage`, 156-159) | in /tmp | after it (92-94) |
| backup | mv (`MoveAway`, 173) | mv if there is one (160-162) | cp -a (`CopyAway`, 86-90) |
| in place | mv (`MoveInPlace`, 174) | cp -a, then storage/ is moved back (`CopyBegins` ... `TakeStorage`, 172-182) | mv -f (106) |
| restart | stop, start -d (`Stop`, `Start`, 176-184) | docker restart, a failure is a warning (`Restart`, 206-209); migrations (`Migrate`, 211-219) | manage.sh (109-113) |
| check | status or pid file (`Verify`, 87-109) | none | manage.sh status (115-120) |
| roll-back | remove, copy, stop, start (161-171) | rescue storage/, remove, copy; each h5 directory (137-157) | install, restart (96-104) |
| h5 part | - | backup (`MakeBackup`, `MoveDirAway`, 163-170), installation (`CopyDirBegins`, `CopyDirEnds`, 183-190), roll-back (`RemoveDir`, 148-156) | - |

* A copy of the application is its version, whether it is whole, and where
  mixchat's storage/ comes from. Directories nested by mv or cp are left out:
  no script looks inside them (`DirectoryDeploy` keeps them).
* A run of mixchat deploys the application, some of the directories `Dir` of the h5
  part, or both (`brings`). Each loop over the directories is one or two steps per
  directory; `todo` holds those it has still to go through.
* `serving` is the version of the application the running process has loaded. A
  process started on a half or missing copy does not serve; one that did not stop
  keeps what it has; one that is running may end by itself at any time (`Dies`), and
  only the scripts start it again. What the h5 container serves is left out.
* `Verify` and `Restart` are as credulous as the scripts. bot-api takes any output of
  the status command without "connect to server fail" for a running server
  (`"status"` in `Fault`), so it may exit 0 with nothing serving; `docker restart` may
  exit 0 with nothing running.
* Commands that can fail, and their member of `Fault`: mkdir (mixchat 152, 164), mv
  (bot-api 173, 174, mixchat 141, 161, 167, 178, ari-bot 106), cp and install
  (bot-api 158, 165, mixchat 145, 153, 174, 185, ari-bot 88, 93, 99), rm -rf
  (bot-api 157, 163, 168, mixchat 143, 150, 177, and the removal in ari-bot 99), stop,
  start or restart, status, migrate. A copy or a removal that fails may have been done in
  part. Commands up to the making of the backup directory (bot-api 150, mixchat 135, 159, ari-bot 84), and
  bot-api's stat of the owner (153), change nothing that is shared and fail as `Refuse`
  does. Failures the scripts ignore (chown,
  `|| true`, `rm -f` at the very end) need no step. Where `set -e` ends the script the
  run is `stuck` or, before anything was changed, just failed.
* `met`, `stuck`, `unsure`, `found` and `foundH5` are history for the properties.

### Validation, ArgvBuilder, Configuration, ToolAdapter

These are the pure parts, written on one representation of definitions, so that
the loader, the validator and the builder judge the same thing. A string is the
sequence of its pieces between slashes, which is all that paths, names and shell
tokens need; patterns are the sets of strings they match. `Clean` is
filepath.Abs and filepath.Clean, `Verdict` is `CommandService.Execute` up to the
executor, `DeployArguments` what `deploy` calls it with. Errors are their codes.
Items of a list are not lists themselves. Of profile ids and patterns, of risk
and access only matters whether the loader takes them.

### StdioSession

`Load` reads the file; the loop (`Take` and the actions on it) handles one line at
a time; every branch of `handle` and `handleToolCall` is there, a running command
is a state of its own (`running`), and a panic, a line over 1 MiB, the end of the
input or a write to a lost connection ends the process. The client is either
`deploy-artifact` (`SendInitialize`, `SendInitialized`, `SendCall`, `Read`,
`Close`), or a free one that writes any line at any time (`FreeSend`). What the
artifact tools do is `ArtifactStore`'s part; here they return any result. The
sizes of chunk lines are computed: 4/3 of the chunk and an envelope.

## 3. The runs

Each property is defined, with a comment, in the module of its component.

| Run | Instance | Properties |
|---|---|---|
| `store_race` | 2 processes, 2 uploads, 2 profiles, 1 artifact; manifest, close and remove faults, crashes | `TypeOK`, `OneOwner`, `ContentAddressed`, `ManifestTruthful`, `DeployUsesCommitted` |
| `store_registry` | 2 processes, 2 uploads, one base with two extensions, crashes, every fault but the close; `Orderly` clients | `AcknowledgedBytes`, `ImplementsRegistry` |
| `client_pair` | 2 clients, 2 contents of one length, rename and command faults, crashes, lost connections, edited and unreadable files | `ClientTypeOK`, `DeploysItsOwnFile`, `ManifestHasFile`, `CommittedStays`, `NothingLeftBehind` |
| `client_alone` | clients one after the other, 2 profiles that share no name, 3 bases, 3 contents of two lengths, lost connections, edited files | `CommittedIsDeployable`, `SoundRunDeploys`, `RunEnds` |
| `command_service` | 3 goroutines, 3 calls, global limit 2, one command limited to 1, audit failures | `ServiceTypeOK`, `TokensAccounted`, `LimitsRespected`, `ReleaseNeverBlocks`, `SuccessIsReal`, `CountersAgree`, `EveryCallReturns` |
| `process` | 2 descendants, 2 bytes written, limit of 1 | `TypeOK`, `GroupGone`, `ExitIsTheChilds`, `OutputWhole`, `EveryRunEnds` |
| `deploy_dirs` | 2 runs, 3 directories (as in the code), 2 seconds, every fault, kills | `TypeOK`, `OldVersionKept`, `SuccessMeansNew`, `FailureRestores` |
| `session` | 64 files (one like those shipped, and one change each), deploy and free client, 30 values per parameter | `NextAnswerIsMine`, `PathStaysInside`, `BuildRefusalsExplained`, `ProfileDeploys`, `DeployClientIsAnswered` |
| `deploy_service` | 2 runs of each script, 2 h5 directories (1 where runs overlap), 2 seconds, every fault, kills | `NothingLost`, `FoundKept`, `SuccessMeansNew`, `FailureRestores` |
| `deploy_overlap` | 2 runs, 2 directories, no fault | `OneVersionServed` is violated |
| `client_crash` | 1 client, crashes | `CommittedIsDeployable` is violated |
| `client_shared` | 1 client at a time, three of the five profiles of the shipped configuration | `CommittedIsDeployable` is violated |

### Bounds and why they are enough

* Two processes: every interference in the code is between two holders of one
  path, one manifest or one upload file; two uploads let both be in flight on
  one artifact. The safety results that do not need a fault restriction are
  proved for any number besides.
* Contents of one to two units with `MaxChunk` 1 or 2: a first, a last and a
  middle chunk; a file that shrank, grew or changed in place; sizes at, below and above
  `MaxUpload`. `MaxFile` bounds what failed writes append.
* `LossBound` bounds lost connections: each may leave an upload file for good
  (nothing in the code collects them), so with finitely many ids `begin` would
  come to a halt that the real 96-bit ids never reach.
* Three callers against limits of two and one: both refusals occur, and both
  together with a running call. `MaxCalls` bounds the counters.
* Two runs of a script: one that fails or is killed and one after it, or two that
  overlap at any pair of steps, in one second or two. `MaxStamp` bounds the
  seconds. Runs of a service that do
  not overlap may bring two h5 directories, so that a loop fails with one done and
  one to go; where runs overlap each brings one at most (`Bounded`, the `CONSTRAINT`
  of `deploy_service`): the properties that speak of h5 directories say nothing of
  those runs, and the loop ends after one round. The proofs are for any set of
  directories.
* `MCStdioSession` varies one file of the shipped shape in one place at a time:
  each loader error once, each parameter type and template form once, each way
  a root can lie about the store. Checks of the loader are independent of each
  other, so pairs of changes add nothing. `MaxSent` lets the deploy client
  initialise and make three calls and the free client write two lines, enough for
  one line to wait behind a running command; the handlers keep no state between
  requests.
* `CHECK_DEADLOCK FALSE` in `command_service`, which stops after `MaxCalls`, in
  `session`, where a connection ends, in `process`, which stops when `Execute` has returned, and in
  `deploy_dirs`, `deploy_overlap` and `deploy_service`, which stop when the runs are
  over.
* Symmetry is used in runs without liveness only.

### Restrictions that are part of the claim

* `store_registry` has the constraint `Orderly`, in two parts. Without
  `NoDuplicateCommit` the store does not implement the registry: of two
  processes that commit the same artifact for two profiles, the second renames
  over the first and rewrites its manifest, so a published entry changes. Without
  `OneExtension` neither: the id leaves the extension out, so one content under
  `app.zip` and `app.tar.gz` is two files with one manifest, which the second
  commit rewrites. Content stays right all the same, which `store_race` checks
  without the constraint.
* `store_registry` and the clients leave out `"close"`: a manifest whose close
  fails may be whole on disk, and a deploy may read it before the code removes
  the file it stands for. `store_race` has this fault.
* `SuccessMeansNew` and `FailureRestores` speak of runs that met no other;
  `deploy_overlap` shows what becomes of the others. `FailureRestores` speaks of
  runs that reached their roll-back: a mv or mkdir that fails ends the script
  without it (deploy-mixbot-inner.sh:79, 87, 88, 94), and then only
  `OldVersionKept` holds.
* `ServiceDeploy!FailureRestores` excepts the runs that a command ended, under
  `set -e` and without a roll-back, after the replacement had begun: bot-api's second
  mv (174); mixchat's mkdir and mv of the h5 directories (164, 167), when something
  was moved away before, its rm -rf of storage/ (177) and its migrations (213); and
  the commands of the roll-backs themselves (bot-api 163, 165, 168, mixchat 141, 143,
  145, 150, 152, 153, ari-bot 99). Such a run leaves no application, the new one, or
  part of either. `FoundKept` has no such exception: whatever ended the run, what it
  found is in place or in its own backup.
* `ServiceDeploy!SuccessMeansNew` is about what is in place; of what is served it says
  only that it is no other version. A script may exit 0 with nothing serving: bot-api
  for the reason given in section 5, mixchat because it checks nothing
  after docker restart. After a service that did not stop or restart when told to
  (`unsure`) the old version may go on being served; the scripts go on or warn there.
* `NothingLost` speaks of ari-bot and of mixchat's uploads for runs that do not
  overlap; section 5 says why.
* Both deploy modules let a run that begins when no other is under way read a later
  second than those before it. The scripts do not enforce this: a run that fails or is
  killed within the second it began in, followed by another in the same second, would
  share its backup directory. Extraction and staging make that unlikely, not
  impossible; what such a pair leaves is not claimed. Runs that overlap may share a
  second.
* `DeployClientIsAnswered` excludes files with a flag whose condition is a list
  (the server panics), `ProfileDeploys` profiles whose command needs more than
  the artifact or whose roots do not hold the store (the loader does not ask). It
  speaks of calls that reach the artifact service: with the store disabled, a
  command may be called `deploy_artifact` (the proof needed this said).
* `NothingLeftBehind` is about steps: no step makes an upload file ownerless but
  a failed rename and the end of a process; those files stay, nothing collects them.
* `client_pair` leaves out manifest faults for `CommittedStays` and
  `ManifestHasFile`: when a manifest cannot be written, the code removes the
  path, which may by then be another process's committed artifact.
  `store_race` has these faults.
* `client_alone` has one client at a time and profiles that share no name, the
  conditions under which "told committed, then refused" cannot happen;
  `client_crash` and `client_shared` show it without them. Two clients that
  race for one artifact meet it too: the second is told "already committed"
  between the first one's rename and its manifest.

### Fairness

* `ClientFairness`: weak fairness of `Progress(s)`, which is "the process
  continues its handler, or the client sends its next request or reads the
  answer". Both are sequential programs that only wait for each other, and ssh
  and the pipes deliver. Nothing is assumed of `Start`, `Lose`, `Crash` or
  `Disconnect`.
* `StdioSession!FairSpec`: weak fairness of `ServerStep`, one goroutine that goes
  on whenever it can (`CommandEnds` included, see `EveryRunEnds`), and of `Read`,
  a client blocked on its input. Nothing is assumed of what clients send.
* `FairServiceSpec`: weak fairness of each goroutine's next step. It includes
  `ProcessEnds`, that is `EveryRunEnds` of `ProcessExecutor`.
* `ProcessExecutor!FairSpec`: the Go runtime goes on (`Start`, `Deadline`,
  `Kill`, `Reap`, `Drain`, `Classify`), holders of the pipe end in the end, and
  a privileged child ends by itself. The last two are real assumptions: without
  them the request, and with it the single-threaded server, waits for ever. The
  scripts know about the first (scripts/deploy-bot-api-inner.sh:13-15). An
  unprivileged child needs no assumption: it is killed.

## 4. The proofs

All theorems are over arbitrary sets of processes, uploads, profiles, names,
callers and commands, under the named assumptions of the modules.

**ArtifactStoreProofs.** The properties are not inductive by themselves: the
digest is checked one step before the rename, so `ContentAddressed` needs that
nobody touches the file in between (`Verified`), which needs that upload files
have one owner among *all* processes (`OneOwner`), which rests on O_EXCL in
`begin` and on the session leaving the map before the commit goes on.
`ManifestTruthful` and `DeployUsesCommitted` need `ManifestsFiled`: manifests,
on disk or read by a deploy, are filed under the id of the artifact they
describe. The inductive invariant is

    IInv == TypeOK /\ HandlerState /\ OneOwner /\ SessionsAllowed /\ Verified
            /\ ContentAddressed /\ ManifestsFiled

with one lemma per conjunct (`TypeStep`, `HandlerStep`, `OwnerStep`,
`SessionsStep`, `VerifiedStep`, `CommittedStep`, `ManifestsStep`) and one case
per action. From `Invariance` follow `Typing`, `Ownership`, `Addressing`,
`Truthfulness` and `DeploySafety`; the last two combine it with
`ShortAssumption`, by which a path determines the digest.

The step lemmas are about `[StoreNext]_vars`, which is `[Next]_vars` without
the bound on requests and with every client parameter, so that
`DeployClientProofs` can use them for a client's calls. `Acknowledgement` is
`AcknowledgedBytes` without the bounds of `store_registry`: a chunk grows the
session and the file by the same length, and everything else that touches an
upload file first removes the session. Two results have hypotheses, written in
the theorems:

* `FileBehindManifest` (`ManifestHasFile`) needs that manifests can be written
  and closed (`ManifestsWork`). Then no commit reaches `undo`, the only remover
  of committed files (`NoUndo`), so a file that was renamed is still there when
  its manifest is written (`Renamed`).
* `CommittedForGood` (`CommittedStays`) needs also that the contents involved do not
  collide under the digest (`CollisionFree`): a rename over a committed file
  then puts the same content there, by `Verified` and `ContentAddressed`.

`store_race` has the faults the hypotheses exclude; there neither holds, for the
reason given under "Restrictions".

`Implementation` is the refinement: `Spec /\ []Orderly => ImplementsRegistry`,
when `"close"` is no fault. The mapping shows a manifest once it parses, with the
file it describes, and a deploy while its command starts. `StoreSimulates` takes
each handler step to a step of the registry: the write of a manifest publishes
(`WritePublishes`), the stat of a deploy starts the command on a published entry
(`StatStarts`), the start ends it (`ExecEnds`), and everything else stutters,
for which the entry of an artifact must not move under it. That is `RInv`: while a
commit is between its rename and its manifest, the artifact is not published
(`Unpublished`) and its file is there (`Renamed`); a manifest has its file;
and a manifest a deploy has read is still the published one (`ReadPublished`). The
undo of a commit is the reason for `Unpublished`: it removes the file at the path,
and only a path nobody has published may lose its file.

**DeployClientProofs.** `CInv` is the store's `IInv`, the client's types and,
for each client, one formula that ties its position to what its process holds
(`ClientAt`): before `begin` answers nothing, while it
uploads a session on which nobody else works, whose size and digest are those
the client took from its file and whose bytes so far are a prefix of what it
reads now; while its commit or deploy is under way, the upload or the
path in hand; after the commit, the path of the digest. `StepOnly` and
`OthersUntouched` say that a step of one connection leaves the others' part
alone, and `ClientIsStoreNext` that every step is a step of the store or leaves
it alone; so the store's theorems hold of the composition without being proved
again (`ClientFileBehindManifest`, `ClientCommittedForGood`). `OwnFile`
(`DeploysItsOwnFile`) follows from the digest the commit has checked, not from
the file the client reads, which may have changed. `NothingLeft` is the action
property `NothingLeftBehind`, under `Tidy`: removals and reads of upload files
work (a commit that cannot read or remove its upload leaves it, doc.go:254-266).

`ToldCanDeploy` is `[]CommittedIsDeployable`, from `[]OneClientPerArtifact`: open
connections are for different artifacts. `DInv` adds to `CInv` and `Kept` that a
committed file has its manifest or a commit is about to write it
(`FilesDescribed`), that a client told "committed", by either answer, has one
(`ToldAt`), and that a deploy that got so far has its file (`HasAt`). A client
that is told "already committed" finds no writer on its artifact but itself, so
the manifest is there; that it names the client's own profile is `ProfilesApart`.
The hypotheses are what the counterexamples need: `Uncut` (manifests are written,
no process dies in a handler) excludes `client_crash`, `ProfilesApart` excludes
`client_shared`. A connection that breaks is no hypothesis: its process finishes
the handler. `OneAfterTheOther` is the case of `client_alone`, where
`OneClientPerArtifact` is nothing to assume.

**LimitingExecutorProofs.** `LInv` is the type invariant, `TokensAccounted` and
`WithinCapacity`; the step adds or removes one caller from `InGlobal` or
`InCommand(k)` and counts with `FS_AddElement` and `FS_RemoveElement`. `Limits`
follows because running callers are among the holders, `NoBlockedRelease`
because a holder makes the count positive.

**CommandServiceProofs.** `SInv` ties stage, position in the limiter, outcome
and result together (`InExecutor`, `Answered`, `Explained`); `RejectionSafety`
(`RejectedNeverRan`, which is proved only and checked by no run) and `SuccessSafety`
(`SuccessIsReal`) follow. `ServiceUsesLimiter` shows that every step of the
service is a step of the limiter or leaves it alone, so the limiter's theorems
apply to the service: `ServiceWithinLimits` uses them. `OneStory`
(`CountersAgree`) compares each counter with a number of finished calls; a call
records its answer once, at one stage, and leaves that stage in the same step
(`RecordStep`), so both sides grow together, and no other step touches either
(`QuietStep`). `ServiceTyping` needs it: the counters are numbers because they
count.

**ProcessExecutorProofs.** `PInv` adds to the three properties what the pieces of
an execution know of each other: a child that is running or reaped has a known
end (`ChildKnown`), nobody is killed before the deadline (`KilledLate`), and the
output is final once the pipe has no writer (`PipeClosed`). `ProgramsOnlyLeave`
says that what descendants do by themselves never brings a process into the
group after `Classify` has emptied it, which is `NobodyLeft`. The kill of the
group and the limit on the output are `Classify`; `LimitedKeeps` says that a cut
output is a prefix and marked. For any set of descendants, any output length
and any limit.

**DirectoryDeployProofs.** `NothingLost` is `Spec => []OldVersionKept` for any
number of runs and directories. The invariant adds `PastBackedUp`: a run past
the backup of a directory has the old version in *some* backup, its own or an
earlier one. It holds because a run only passes a directory by moving it or by
finding it missing, which `OldVersionKept` turns into a backup that exists
already; backups only grow (`BackupsGrow`), also when one is moved into
another; and only runs past the backup loop write to the application
(`LiveTouched`). `ReadyAtFirst` starts the loops. It is the argument why the
rm -rf of the roll-back is harmless however runs overlap.

`SuccessIsNew` and `RollbackRestores` are about a run that met no other. `SInv`
says where such a run is in its course: what it found (`had`, the live tree at
its begin), which parts are in its backup and which still live, which are
installed; and that its second is its own. `BeginSolo` establishes it from
`AloneNow`, `OwnStep` has one case per action of the run, and `OthersStep` says
what others can still do: only refuse, for any other step would have made the
two meet. `OnCourse` is the invariant as a theorem.

**StdioSessionProofs.** `OneUnderWay` says where the client's one request is:
nowhere, in the queue (behind the notification perhaps), being run, answered, or
lost. Each action of the server moves it one place on (`ServerKeeps`: `Taken`
says that a line that leaves the queue is the request or the notification,
`Answering` that its answer is alone on the line), each of the client starts or
ends it (`ClientKeeps`). `AnswersMatch` is what remains of it at a `Read`.

The other three theorems are about data: what the loader, the validator and the
builder make of one call. `Served` is all the state they need: a server that
reads lines has a usable file, and what the lines bring is JSON (`ServedStep`;
`FilesAssumption` and `LinesAssumption` say that files and free clients keep to
it). The rest is about `Walk` and `FlattenSeq`, which are recursive functions.
An induction theorem over operators is of no use to the prover, one over a *set*
of positions is: `Induction` says that a set with 0 and every successor up to n
has them all, from the well-founded order on the naturals; `Iteration` that a
function given step by step exists, which a CHOOSE needs before anything can be
said of it; `WalkSteps`, `FlattenSteps` are the two instances.

* `PathsInside`: a walk has plain names only (`WalkNames`), so an accepted path
  is normalised to plain descent (`BelowDescends`, `PathNormal`), also as an item
  of a list (`NormalInside`) or when it is a default.
* `RefusalsExplained`: the names of a normalised path, and the pieces of a
  rendered list, come from what was given (`PathPieces`, `ItemPieces`,
  `RepeatPieces`), so shell syntax in an argument was in a text of the caller, a
  default or the working directory; the loader has looked at literals and names
  of parameters (`LoadedParts`). `PartExplained` has one case per form of a part.
* `DeploysGetThrough`: the path of an artifact is a walk of its own
  (`WalkOfPath`, `WalkAppend`), so the validator leaves it as it is and finds it
  below the roots that hold the store (`ArtifactAccepted`); a profile that loaded
  has its command (`LoadedProfile`); and what a part renders is in the argument
  list (`FlattenHas`).

The last two need that numbers hold no shell token (`PlainNumbers`): they are of
digits and a sign.

**ServiceDeployProofs.** `KeepsOldAndUploads` is `Spec => []NothingLost` for any
number of runs, seconds and h5 directories and every choice of faults. The invariant is

    IInv == TypeOK /\ DirTypeOK /\ OwnPlaces /\ Loops /\ Alone /\ SavedBySome
            /\ BackupFound /\ OldKept /\ DirsKept /\ UploadsKept

`OwnPlaces` keeps each script, and a run of mixchat what it brings, to its own places;
`Loops` says that a loop over the h5 directories has one in hand and that the next one
starts with all of them. `Alone` says that while no
runs have overlapped each has a second of its own and at most one is active;
`SavedBySome` and `BackupFound` tie backups to the runs that made them, so the
backup a run is about to make is not there yet (`NoBackupYet`). For the old
version, `OldKept`: some backup has it whole, or it is live, there are no backups
and no run is past its backup; backups stay and keep their version
(`BackupSteps`) unless ari-bot copies over one, which takes two runs of one
second. `DirsKept` says the same of each h5 directory, where it needs no exception:
a directory is moved, never copied, to its backup (`DirBackupStays`). For the
uploads, `UploadsApart` says for each place of a run where they
are not: never in `live` from `install` to `take` nor at `remove`, and its backup has no
storage/ while `live` has them after that. The one action at a time that
`UploadsStep` looks at is enough, for the others have ended (`OthersApart`).

`FoundIsKept` (`FoundKept`), `SuccessIsNew` (`SuccessMeansNew`) and `FailureIsOld`
(`FailureRestores`) go the same way as for directories, with the three scripts side by
side. `Course` says of a run that met no other what is live, backed up, staged and
served at each of its places, in three parts. `AppCourse` is for a run that brings an
application (`FoundAt`, `BeforeAt`, `InstallingAt`, `InstalledAt`, `ServingAt`,
`RestoringAt`), `SpareCourse` for one that brings none, `DirsCourse` for each h5
directory, where what is true depends on whether the loop has passed it (`DirCourse`).
There is one lemma per group of actions (`StagesOnCourse` ... `RestoresOnCourse`,
`SparesOnCourse`, `DirsOnCourse`); the steps of the application leave the
directories alone and the other way round (`AppSparesDirs`, `DirsSpareApp`), and
`OwnStep` puts them together. Nothing in it says that a check that was passed means
a service that is up: `ServingAt` allows for none. `Keeps` reads off the course that
what was found can be found again, and `KeepsFound` carries it over the step into an
end, roll-back or not. `OthersRefuse` is why it lasts: once such a run has begun,
a later one would meet it unless it has ended, and an earlier one has ended, so
while it is the last begun others can only be refused; then, as when the service
dies, it stays where it was (`StaysOnCourse`). Two parts were added after TLC
refused smaller forms: that a backup is there only if something was found, and that a
run not yet begun is recorded nowhere (`Unseen`).

**Left to TLC**

* Liveness and everything with ENABLED: `RunEnds`, `SoundRunDeploys`,
  `EveryCallReturns`, `EveryRunEnds`, `DeployClientIsAnswered`. The prover has
  no rules for them.

## 5. Disagreements found

1. **An artifact that is committed and cannot be deployed, for good**
   (`client_crash`). `commit` renames (doc.go:279) and then writes the manifest
   (282), and recognises a committed artifact by the file alone (269). A crash
   in between leaves a file without manifest: each later commit answers
   "artifact is already committed.", each deploy "artifact manifest is missing
   or invalid.", and no tool repairs it.
2. **Overlapping profiles** (`client_shared`). Id and path of an artifact do not
   contain the profile, and there is one manifest per id. With the shipped
   patterns a mixchat archive also matches mixbot's; whoever commits second is
   told "already committed" and refused the deploy.
3. **Overlapping deploys** (`deploy_overlap`). `per_command_limit: 1` is kept per
   process and each connection has one; the script takes no lock. When two runs
   overlap, `cp -a` works inside the other run's directories and succeeds: both
   runs report "deployed", and the application has directories of both.
Observations made while modelling, each outside what a property claims or an
exception of it:

* Limiter: a refusal ("policy_denied", limiter_concurrency.go:72) is reported as
  failed / execution_failed (server.go:217-221), although server.go:68 declares
  the category. A stdio server handles one request at a time, so it never gets
  there.
* Metrics and audit: `Recorder.Begin` is never called, the in-flight gauge stays
  at zero; refusals of the artifact tools are not audited.
* Definitions: `enabled: false` is read and never looked at, so a disabled command
  runs; `global_limit`, `must_exist` and `path_mode` are never looked at either.
  An allowed root "/" admits "/" alone. tools/list offers no arguments for
  commands outside the built-in list. A command named like an artifact tool loads
  and is never reached while the store is enabled.
* Templates: a flag conditioned on an integer never appears (an int is compared
  with JSON's float64); one conditioned on a list panics when the argument is
  given; values of flags, conditions and prefixes are not checked at loading.
* Profiles: a profile loads although its command requires more arguments than
  the artifact, or its roots do not hold the store; every deploy is refused.
* bot-api: the head of deploy-bot-api-inner.sh says that the restart is verified with
  server status and the old App restored if that fails (10-11). `server_verify`
  ignores the exit code of the status command and takes any output without "connect to
  server fail" for a running server (92): an error of PHP, from an App that cannot be
  loaded, is such an output. The script then exits 0 with the new App in place and
  nothing serving. `Verify` lets the status command report anything, so
  `SuccessMeansNew` claims no more than that no other version is served. A second mv that fails (174) leaves no application and no roll-back;
  after a stop that failed the old version may be what answers the check.
* mixchat: a mkdir or mv of the h5 directories that fails (164, 167) leaves the
  application moved away and no roll-back, an rm -rf of storage/ that fails (177) the
  new one without the uploads; a failed restart is a warning and skips the migrations,
  with exit 0, and a docker restart that exits 0 is not checked, so the script may exit 0
  with nothing serving; a failed migration exits 1 on the new version; the roll-back
  of one of two overlapping runs can remove the uploads the other has put in place;
  after a kill in between, the uploads stay in the older backup.
* ari-bot: two runs that begin in one second write the same backup.

## 6. Not modelled

The health checker (pure, called by nobody); log readers, which change nothing;
installers and build scripts, run once by hand; `Explain`, which no program
calls. Of modelled components: JSON decoding and the texts of answers, schemas of
tools/list, lists of lists, regular expressions beyond membership, environment
and working directory of commands, the servers file and ssh options of the client,
unpacking and the checks of archives in the scripts, chown, durations and
logging.

## 7. Plan

1. *Done*: all components but those of section 6; the proofs of section 4, which
   state every safety property of the passing runs.
2. Left: liveness, which stays with TLC; the health checker, which nobody calls.
