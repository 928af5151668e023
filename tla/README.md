# Verification of yafe

yafe ("yet another flow executor") runs flows - YAML files with shell steps -
either directly from the command line or through a daemon, `yafe serve`, which
queues jobs in files, executes them with one worker, and triggers them on
schedules. This directory holds TLA+ models of the daemon's core, the TLC runs
that check them on small instances, and theorems about them that TLAPS proves
for every value of the constants. Paths below are relative to `src/`.

## 1. Inventory

| Component | State it keeps | Operations | Interacts with |
|---|---|---|---|
| Job queue, `internal/queue/queue.go` | one JSON file per job in `pending/`, `running/`, `done/`, `failed/`; one log file per job in `logs/`; no lock but a `flock` on a pending file | Enqueue, Dequeue (tryClaimJob, moveJob), MarkDone, MarkFailed, GetJob, GetJobLogs, ListJobs, DeleteJob, RunCleanup | registry (does the flow exist?); called by the API, the cron callbacks, the worker |
| Worker, `internal/queue/worker.go` | the job in hand; one goroutine, plus one for the cleanup | Run, drainQueue, processNext, runCleanup | queue, registry, engine; stops with the daemon's context |
| HTTP server, `internal/server/server.go` | none of its own; one goroutine per request | jobs, flows, schedules, profile endpoints; graceful shutdown | queue, registry, scheduler, auth |
| Daemon, `cmd/yafe/main.go` (`serve`) | the context canceled by SIGINT/SIGTERM | start, stop (requests, then cron, then worker) | all of them |
| Scheduler, `internal/scheduler/scheduler.go` | `entries`: name -> cron entry (RWMutex); the cron library's own entries | Start, Stop, Create, Update, Delete, Enable, Disable, the cron callback scheduleJob, UpdateFlowReferences | store, queue, registry; called by the API and by cron goroutines |
| Schedule store, `internal/scheduler/store.go` | one JSON file per schedule (RWMutex per call) | Exists, List, Get, Save, Delete | - |
| Flow registry, `internal/registry/registry.go` | one YAML file per flow, no lock | Exists, List, Get, Add, Delete, Rename | a rename makes the server rewrite the schedules |
| Engine, `internal/engine` (core, state, step_shell) | the state directory of a run, outputs of steps | LoadFromFile, Run, one process per step | parser, templates, secrets, tools |
| Parser, templates, secrets, `internal/engine` | none | Parse, Validate, Render, Resolve | - |
| Tool cache, `internal/engine/tool.go` | binaries and metadata files in the state directory | Resolve, download, saveMeta | the network |
| Auth, `internal/auth` | users read once at the start | Authenticate, RequireRole | HTTP server |
| Client and command line, `internal/client`, `cmd/yafe` | none (each call one request) | one method per endpoint; `schedules update` = get, merge, put | HTTP server |
| Frontend, `internal/frontend` | none that matters here | forms and tables over the API | HTTP server |

What is hard in them, and what makes them correct:

* **Queue and worker.** Four directories without a lock stand for a state
  machine per job. Every operation is a series of file-system calls that the
  worker, the cleanup, any number of requests and a second daemon on the same
  directory interleave with, and a daemon may die between any two of them.
  Correct means: a job is executed at most once and by one worker; it gets one
  verdict; it is never lost; a search never misses it while it moves; deletion
  and expiry are final; the oldest job goes first; every job settles; a stop
  comes to an end and abandons nothing.
* **Scheduler.** The store's lock is held per call, the `entries` lock per map
  access: every operation is a read-modify-write over a file, a map and the cron
  library. Correct means: an enabled schedule has exactly one cron entry, a
  disabled or deleted one has none, and a callback does not undo an operation. The
  code gives this to a schedule that one operation at a time is about, under the
  name it was created with; what it does otherwise is in section 4.
* **Registry.** Stat-then-write without a lock. Correct means: no flow is lost
  or overwritten unasked, and schedules follow a rename.
* **Engine.** Correct means: steps run in order, a step sees the outputs of the
  earlier ones only, the state directory is gone afterwards, and a template that
  validation accepted is rendered.
* **Tool cache.** Correct means: what is executed is a complete download of the
  URL the flow names.
* **Auth.** Correct means: a route is answered only to users that have its role.

The list of hazards, each with its line and the properties that cover it, is in
`PROJECT.json`.

## 2. Plan

Done (sections 3 to 6):

1. `JobQueue` - queue, worker, cleanup, job endpoints, daemon life cycle;
   `JobLifecycle`, the abstract life of a job, and `JobQueueRefines`, the mapping;
   `JobQueueInv` with theorems about all safety properties, and the proof that the
   queue implements `JobLifecycle`.
2. `Schedules` - scheduler, store, cron callbacks, schedule endpoints and the
   rename of a flow; `ScheduleBook`, what the scheduler promises, and
   `SchedulesRefines`, the mapping; `SchedulesInv` with theorems about all safety
   properties, and the proof that the scheduler implements `ScheduleBook`.
3. `Access` and `FlowRegistry` - who may call what, and the flow endpoints and the
   registry at file-system granularity, with the jobs whose flow is created,
   renamed or deleted under them; `FlowRegistryInv` and `FlowRegistryProofs`.
4. `FlowDefs`, `Tools` and `FlowRun` - what a flow must be, the cache of tools, and
   the execution of a flow from its state directory to the clean-up;
   `FlowRunInv`, `FlowRunProofs` about the directories and the cache,
   `FlowRunOutputsProofs` about the outputs of the steps and their commands, and
   `TemplatesProofs` about the resolution of references.

Nothing of the plan is left. What stays with TLC is named at the end of section
5, and what is not modelled in section 6.

## 3. Modules

| Module | What it holds |
|---|---|
| `JobQueue` | the detailed specification and its properties |
| `JobLifecycle` | what the queue promises of each job |
| `JobQueueRefines` | the files seen as the life of each job (`AbstractStatus`, `AbstractRunner`) |
| `JobQueueInv` | the inductive invariants: `IInv`, `CalmInv` for a queue without faults, `Expired` for the refinement |
| `JobQueueProofs` | the theorems that hold with faults and crashes, and those about a queue where nothing fails |
| `JobQueueRefinesProofs` | the proof that `JobQueue` implements `JobLifecycle` |
| `MCJobQueue` | the instances for TLC |
| `Schedules` | the scheduler with its store and callbacks, and its properties |
| `ScheduleBook` | what the scheduler promises of one schedule: its page in a book |
| `SchedulesRefines` | the files, cron entries and calls of one schedule seen as its page |
| `SchedulesInv` | the inductive invariant `IInv` |
| `SchedulesProofs` | the theorems about it and the safety properties |
| `SchedulesRefinesProofs` | the proof that `Schedules` implements `ScheduleBook` |
| `MCSchedules` | the instances for TLC |
| `Access` | users, authentication and the role of each route |
| `FlowRegistry` | the registry behind the flow endpoints, extending `Access` |
| `FlowRegistryInv` | the inductive invariant `IInv` |
| `FlowRegistryProofs` | the theorems about registry and access |
| `MCFlowRegistry` | the instance for TLC |
| `FlowDefs` | validation of flows, references in commands, secrets |
| `Tools` | the cache of tools, extending `FlowDefs` |
| `FlowRun` | the execution of flows, extending `Tools`, and its properties |
| `FlowRunInv` | the inductive invariant `IInv`, of the caches (`CacheInv`), of the outputs (`OutputInv`) and of the commands (`CommandInv`) |
| `FlowRunProofs` | the theorems about a run and its cache |
| `FlowRunOutputsProofs` | the theorems about the outputs of its steps and their commands |
| `TemplatesProofs` | what the operators of `FlowDefs` compute, by induction over commands |
| `MCFlowRun` | the flows of the instance and the instance for TLC |

### JobQueue

`dir` maps each status to the jobs with a file in that directory and `log` is the
set of jobs with a log file. A job **is** its file name: Enqueue forms it from the
time stamp and a random ID, and listings are sorted by it, so job numbers
`1, 2, ...` stand for the names in their order (`next` is the clock). This assumes
that no two Enqueue calls read the same nanosecond out of order. Creation of a
temporary file and its rename are one step: no code looks at a name that ends
in `.tmp`, and a leftover one has no effect.

Each process has a program counter and the locals that live across a call:

* **Worker** of daemon `w` (`wpc`, `wlist`, `wjob`, `wout`): `Tick` wakes it,
  `DrainStop` and `ReadPendingDir` are the head of drainQueue's loop and Dequeue's
  ReadDir, `OpenNextEntry`, `Flock`, `StatPending`, `ReadPending`, `ClaimWrite` and
  `ClaimRemove` are tryClaimJob call by call, `LoadFlow`, `CreateLog` and
  `EngineReturns` are processNext, `MarkWrite` and `MarkRemove` are MarkDone and
  MarkFailed. The lock is not a variable: worker `w` holds the lock of job `j`'s
  file exactly while it is between Flock and the return of tryClaimJob (`Claiming`).
* **Handlers** (`hpc`, `hop`, `hjob`, `hdir`, `hsnap`, `hseen`): one request, or one
  enqueue of a cron callback. `StampJob` and `WriteJob` are Enqueue; `ScanDir` with
  `ReadJob`, `ReadLog`, `DeleteFile`, `DeleteLog` are GetJob, GetJobLogs and
  DeleteJob, which search the four directories in turn; `ListDir`, `ListEntry` and
  `ListNextDir` are handleListJobs.
* **Cleanup** of daemon `d` (`cpc`, `cdir`, `clist`, `cjob`): `CleanStart` to
  `CleanNext`. Whether a job has passed its retention is a free choice.
* **Daemon** (`up`, `ends`): `Stop` cancels the context, `Exit` is the end of serve
  after requests, callbacks, worker and cleanup are through, `Crash` is any other
  end of the process, and `Start` is a restart, which recovers nothing.

`accepted`, `removed`, `ran` and `hknown` are history variables for the properties.
`Faults` names the calls that may fail: `"write"` (create or rename of a job's
file, creation of a log) and `"remove"`. Failures of reads and of directory
listings are left out, except for a file that has gone. The bounds are `MaxJobs`
(jobs ever created) and `MaxEnds` (stops and crashes in one behaviour).

A request that the server accepts in the instant between the cancellation and
`Shutdown` is represented by one accepted just before. handleListJobs is modelled
for all statuses, the default.

### JobLifecycle and JobQueueRefines

`JobLifecycle` has one status and one runner per job and the steps Accept, Claim,
Finish, Orphan and Expire. `JobQueueRefines` reads a job's status off its files,
a job with two files being where its claim began and, then, what its verdict says,
and its runner off the workers. The refinement is claimed without deletes (a delete during a run brings the job back, see
section 4) and without failing removes. `0` is the runner of a job that nobody runs,
and no daemon's name (`NobodyAssumption`).

### Schedules

A schedule is in three places: its file (`file`), an entry of the cron library
that triggers it (`cron`), and the scheduler's map from its name to that entry
(`entries`). The store has one lock, the map another and the library a third, and
each is held for one call only. A call is one action:

* **Handlers** (`hpc`, `hop`, `hname`, `hval`, `hid`): Create is `CheckFlow`,
  `StatSchedule`, `SaveSchedule`, `AddFunc`, `MapEntry`; Update is `CheckFlow`,
  `GetSchedule`, `RemoveEntry`, `SaveSchedule`, `AddFunc`, `MapEntry`; Delete is
  `RemoveEntry`, `DeleteSchedule`; Enable is `GetSchedule`, `SaveSchedule`, `AddFunc`,
  `MapEntry`; Disable is `GetSchedule`, `RemoveEntry`, `SaveSchedule`. `FirstCall` and
  `AfterGet` hold where they differ.
* **Renames** (`hfrom`, `hto`, `hlist`): `CheckRename`, `WriteFlow` and `RemoveFlow` are
  the registry's Rename, `ListSchedules` and `RewriteSchedule` are
  UpdateFlowReferences. The code rewrites in the order of names, the model in any.
* **Callbacks** (`bpc`, `bname`, `bval`): `Fire` is the cron library running an entry
  on a goroutine, `Reload`, `EnqueueJob` and `SaveLastRun` are scheduleJob.
* **Daemon** (`up`, `ends`): `Stop` cancels the context (no new requests), `StopCron`
  follows when the requests are through, `Exit` when the callbacks are, `Crash` is
  any other end, and `Start` rebuilds map and cron entries from the files before
  the server listens.

A schedule is its flow, its expression (type and expression, a model value) and
whether it is enabled; inputs and time stamps are left out, so that the write of
the last run is visible only when it writes back something stale. Flows are a
set that requests add to and delete from. `damaged` is a history variable: the
schedules whose last save or removal failed. `EntryIds` bounds the identifiers
of the cron entries one schedule can have at a time: identifiers are unique in
the library, of which the code uses only that those of one schedule are.

**Names.** `Names` and `Flows` are names as requests spell them, and `Trim` takes the
blanks around one away. The store's Get and Delete use the trimmed name; the
path of a file that Create and Update write, the map, the cron entries and the
store's Exists use the name as it is (`GetSchedule`, `DeleteSchedule`, `RemoveEntry`,
`Saved`). The name a schedule is read under stands in its file, so that Enable and
Disable save under the trimmed one. The registry trims flow names but in Exists;
UpdateFlowReferences compares and writes them as they are, and Enqueue trims again,
so that a schedule whose new flow name has blanks still finds its flow.

**Orderly schedules.** The code serialises neither requests nor callbacks, and takes
names as they come. Both do go wrong: two creations leave an entry nobody can
remove, a callback that saves after a delete brings the schedule back, and a
disable, delete or update under the name with blanks does half of its work. The
history `raced` has the schedules that operations have overlapped on, or that a
request or a callback has called by a name with blanks, since the daemon started;
`Start`, which rebuilds everything from the files, forgets it. The properties are
about the others (`Orderly`), in the same daemon and at the same time, whatever is
done to the rest. Nothing is assumed of the environment: with `Overlap = TRUE`
requests and callbacks begin whenever they like, which is what the code allows.
`Overlap = FALSE` is a bound of `SchedulesFair`: a request waits until nothing else
is about its schedule, a rename until nothing is about any, and cron fires
between the requests on its schedule. `EntryIds` bounds requests as well: one is
made only while there are identifiers for the entry it may add (`Room`).

### ScheduleBook and SchedulesRefines

`ScheduleBook` is the page of one schedule, and knows no files, entries, maps or
locks. A request is accepted or refused (`Accept`, `Refuse`), takes effect at one
moment (`Write`, `Erase`, `Switch`, `Complete`) and is answered (`Reply`). In that
moment the schedule gets its new value and the alarm that belongs to it: the one of
its expression if it is enabled, none if it is not. A refusal leaves the schedule
alone and needs a reason or a mishap. The one thing that may happen before the
effect is `Disarm`, an alarm taken away by an update, delete or disable; if that
operation then fails, the alarm is gone with the schedule enabled, which the code
does indeed do. A bell (`Ring`) makes a job only of a schedule that is there, is
enabled and has a flow at that moment (`CreateJob`), and leaves no trace on the page:
that it writes the schedule back must be a step that changes nothing. A rename
publishes the flow, retires its old name and moves the schedule; it succeeds with
the schedule left behind only if writes fail or if the schedule spells the flow
otherwise than the request. `Crash` cuts requests and bells short and keeps what
has taken effect, and `Start` sets the alarm anew.

`SchedulesRefines` says, of any schedule (`Watched`), at which call each of this
happens. The schedule is its file. What has become of a request is read off the call
it makes next (`StageAt`): it takes effect with the save or the removal of the file.
The cron entry comes later, so that a request about to call AddFunc counts as the
alarm it will set (`Awaits`); a schedule with two entries, or with one of an old
expression, would show as alarms the page does not have. A bell has made its job
once the callback is about to save. What is done to other schedules does not show.
`ImplementsBook` claims the steps up to which the schedule is orderly, and again
from the next start on; the callback that brings a deleted schedule back
(section 4) is a step no book takes.

### Access and FlowRegistry

`Access` has no variables: the users are read once when the daemon starts, and
whether a request is served is a function of the configuration (`config`), the
transport, the key and the route. A bcrypt hash is the key it is the hash of, a
line of the auth file is a name, a hash and a set of roles, and `Starts` says
which configurations serve accepts. `RequiredRole` is the table of the routes.

In `FlowRegistry`, `file` and `tmp` map a name to what `name.yaml` and
`name.yaml.tmp` hold: a content that was added, nothing yet (`"empty"`), a mixture or
a part (`"torn"`), or no file. A request (`hpc`, `req`, `hdata`) that `Ask` lets
through goes call by call: `Get`; `StatOld`, `RemoveFlow` for Delete; `OpenTmp`,
`WriteTmp`, `RenameTmp`, with `DiscardTmp` if the rename fails, for Add; `StatOld`,
`StatNew`, `ReadOld`, then the calls of Add, then `RemoveOld` for Rename. An open file
does not follow its name: `fd` says where the file a writer has open is by now -
the temporary one, one that has become the flow, or one without a name - so
that a writer whose file is renamed by another goes on writing into the flow.
`CheckExists`, `CreateJob` and `LoadFlow` are the ends of the queue that touch the
registry: Enqueue looks for the flow, the worker reads it later. `Faults` lets
writes and removes fail; `Crash` ends all requests and keeps the files.

Three histories serve the properties: `before`, the files as a request that
writes found them; `shared`, the names that two requests have written at a time,
and those their flows were moved to; `gone`, whether the flow of the job has been
removed since Enqueue looked. `OpsAfter` is a bound: once two writers have
overlapped only these requests are made.

### FlowDefs, Tools and FlowRun

A command, an output and a secret are sequences of tokens: pieces of text, and
references to outputs and secrets. `ResolveTemplates` works on them as the code
does, reference by reference, so that an output that looks like a reference to a
secret is replaced in turn; `ParseFlow` and the `Valid...` operators are the checks a
flow must pass. `FlowFile` maps a flow to what its file holds.

`Tools` holds one tools directory per state directory: `bin` and `meta` are the
binary and its metadata, a binary being known by the URL it is from, how much of
it is there (`"part"`, `"full"`, or something `"other"` than what the checksum is
of) and whether it can be executed. `Declared` are the tools that flows declare. `Fetch` creates or truncates it - in its place,
or as the temporary file of an `archive` - and `Copy`, `Verify`, `Extract`, `Unpack`,
`Chmod`, `TruncateMeta` and `SaveMeta` are the calls that follow; `AttemptFails`
counts the `tries`. A tool in PATH is only looked up.

`FlowRun` is Engine.Run: `MkBase` and `MkOuts` (Initialize), `MkTools` to `ToolsDone`,
`LoadFlowSecrets`, and for each step `NextStep` (cancelled?, secrets, references),
`PrepareStep`, `StartScript`, `LaunchScript`, `ScriptWrites`, `ScriptExits`,
`CollectOutputs`; `Cleanup` is the deferred one that every way out passes, except that of Initialize. A run
that names no state directory has one of its own (`Dir`). Scripts write any of
their declared outputs with any of `Values`, and end well or badly, or never. The
command looks at the context before it starts the process (`StartScript`), the process
begins later (`LaunchScript`), also if the run has been cancelled in between, and is
killed from then on (`ScriptKilled`), unless it has ended first. Standard output is
the log file itself, so that a killed script is waited for and its children are not.
`Cancel` comes at any time, and `Crash` is the death of the process, after which flows are run again
over what is left. An output is a line of the step's own `outfile` or a file at a path
in the directory, where `files` knows the run that wrote it, `"old"` once that is over;
all that a step declares must be there, and of two declarations of one name, which
the parser accepts, the later counts (`LastNamed`).

Histories: `wrote`, the variables that the scripts of a run have written; `mixed`, the runs that
have shared their state directory with another; `soiled` and `cut`, the directories
a process has died in, and those where the metadata were wrong about the binary
(`Broken`: not of their URL, not complete, not executable, or not of the checksum
they give) or two runs were at work when it died. Bounds: `First` and `Together` say which runs
begin alone and which flows run at one time, `Bounded` adds that they do so in a
directory nobody has died in, and that flows with a directory of their own are
not run again over the leftovers of others, which they do not see.

## 4. Runs

Every property of a passing run is violated when a plausible slip is put into
the code's model; these mutants are listed in `PROJECT.json` and stand beside
the definitions they change. The runs `JobQueue...` use `MCJobQueue`, `Schedules...`
`MCSchedules`, and the last two the module of their name.

| Run | Instance | Checks |
|---|---|---|
| `JobQueueClaims` | 2 jobs, 2 workers, 1 request, a crash, failing writes, failed jobs of one daemon expire | `TypeOK`, `IInv`, `ExclusiveExecution`, `OneVerdict`, `DoneHasLog`, `AtMostOnce`, `ImplementsLifecycle` |
| `JobQueueRequests` | 1 job, 2 requests of every kind, cleanup, a stop and restart | `CalmInv`, `NoOrphanLog`, `RunningIsHeld`, `NotFoundIsTrue`, `ListMissesNothing`, `NoResurrection` |
| `JobQueueOrder` | 2 jobs, 2 workers, 2 enqueues, a stop, fairness | `FifoClaim`, `EveryJobSettles`, `StopCompletes` |
| `JobQueueFaults` | 1 job, 2 requests, writes and removes fail, done jobs expire, a crash | `NoJobLost` |
| `JobQueueDeleted` (violation) | 1 job, create and delete, no fault | `DeletedIsGone` |
| `JobQueueGet` (violation) | 1 job, create and get, no fault | `GetNeverFails` |
| `Schedules` | 1 schedule with its name and that with blanks, 2 flows, a request of any kind and a callback that overlap, writes and removes fail, a stop or crash and a restart | `IInv`, `ReplyIsTrue`, `RenameCarries`, `FiresOnlyEnabled`, `ImplementsBook` |
| `SchedulesFair` | 2 schedules, 2 requests, a callback, one operation at a time on a schedule, faults, a stop or crash and a restart, fairness | `Triggered`, `EnabledFires`, `StopCompletes` |
| `SchedulesDeleted` (violation) | 1 schedule, 1 request, a callback, no fault, operations overlap | `DeletedIsGone` |
| `SchedulesDisabled` (violation) | 1 schedule, 1 request that may spell its name with blanks, no callback, no fault | `DisabledIsSilent` |
| `FlowRegistry` | 2 flows, 2 contents, 2 requests of any kind, 1 job at a time, writes and removes fail, any number of crashes, 5 configurations of which serve refuses 3 | `IInv`, `WholeFlows`, `FailsCleanly`, `SucceedsTruly`, `JobFindsFlow`, `OnlyEntitled`, `NothingVanishes` |
| `FlowRun` | 306 flows (9 of them refused for one fault each) one at a time, one of them also twice at a time, downloads, writes and directories fail, runs are cancelled, scripts may not end, any number of crashes, fairness | `IInv`, `AcceptedResolves`, `RendersAsWritten`, `OutputsOfThisRun`, `ToolsReady`, `LeavesNothing`, `RunEnds`, `CancelEnds` |

`IInv` has `TypeOK` as a conjunct in every module.

Why the bounds are enough. In the queue, a protocol error of the claim needs two
workers and one file; order and listings need a second job. Two requests let one
meet another; one crash or stop with a restart gives every recovery. `Retention`
is chosen per daemon and status, so that a job that expires and one that stays
are both there. In the scheduler, one name with and without blanks gives a schedule
and its double, which map, files and cron library may mistake for each other or
not; a request and a callback are what can overlap on it without adding to each
other; two flows are a rename, and an update that changes the flow stands for one
that changes the expression. Two schedules with a request on each interleave in
`SchedulesFair`. Two requests that overlap on one schedule, and flow names with
blanks, are too many states for TLC together with the rest: they are covered by the
proofs alone. In `JobQueueOrder` the cleanup has nothing to remove, so that its part
in `StopCompletes` is that it notices the stop. In the registry, two names and two contents are what a rename
and an overwriting need, and two requests and a job are all that meet at one
flow; crashes are not bounded. In a run, two steps are enough for a reference to
be forward, backward, missing or to the step itself, and for a secret to be
overridden; a script may write plain text, a reference to a secret and a
reference to an output; three flows of one state directory, with outputs of the same name and a
tool of different URLs, or of one with and without a checksum, are what a leftover
can be mistaken for. What no bound covers is proved (section 5).

### Disagreements with the documentation

* `DELETE /api/v1/jobs/{id}` "deletes a job from the queue regardless of its
  current status" (`_doc/openapi.yaml:160`). DeleteJob removes the one file it
  finds. If the worker is running the job, MarkDone or MarkFailed writes it again:
  the deleted job is back as done or failed (`JobQueueDeleted`). What does hold is
  `NoResurrection`: once no worker has read the job, it stays away.
* GetJob means to go on searching if a file moves between its listing and its
  read (`internal/queue/queue.go:263-264`), but `os.IsNotExist` does not see
  through the error that readJob wraps with `%w`; the request ends in an internal
  error (`JobQueueGet`). What does hold is `NotFoundIsTrue`: a 404 is never wrong.
* `DELETE /api/v1/schedules/{name}` "removes a schedule and stops any pending
  triggers" (`_doc/openapi.yaml:590`). A callback under way is not stopped: it
  saves the schedule it has read (`internal/scheduler/scheduler.go:325`), and the
  deleted schedule is back (`SchedulesDeleted`), enabled, with no trigger until a
  restart gives it one. The same save undoes a Disable or an Update, and Enable
  then returns early because the file says enabled.
* `POST /api/v1/schedules/{name}/disable` "disables a schedule so it will no longer
  trigger jobs" (`_doc/openapi.yaml:674`). With blanks around the name the store
  finds the schedule (`internal/scheduler/store.go:100`) and the map does not
  (`internal/scheduler/scheduler.go:217`): the schedule is disabled on disk, the
  trigger stays (`SchedulesDisabled`), and the callback, which does not look at
  Enabled, goes on creating jobs. A delete leaves the trigger in the same way, and an
  update writes a second file and leaves the schedule as it was.

Seen on the way and not a run of its own:

* Add and Rename write "using atomic pattern" (`internal/registry/registry.go:190`),
  but two requests that write one flow share the temporary file: a part of the
  one's content, or an empty file, may become the flow, and a rename onto a name
  that is being added can end with its content nowhere. The properties of
  `FlowRegistry` exempt flows whose writers have overlapped (`shared`), and hold of
  all others.
* A tool is replaced in place while the old metadata stay. If the process dies
  then, a flow that asks for the old tool again takes the part for it (the
  exemption `cut` of `ToolsReady`). It need not be a part: if a flow with the same
  URL and no checksum replaces a binary that was checked, metadata that give the
  checksum stand beside a binary nobody has checked.
* Runs of flows that name one state directory at a time remove it under each
  other (`mixed`). They still end and leave nothing behind.
* A secret that stands in the output of a step is put in as well, since secrets
  are looked for in what the outputs have made of the command. And each reference
  replaces what then is its first occurrence: if an output that looks like a
  reference to an output comes before that reference, it takes the value in its
  place, and what the author wrote is left unresolved. `RendersAsWritten` therefore
  asks that no output looks like a reference (`Plain`); TLC finds the state if it
  asks it only of secrets.
* `POST /api/v1/flows/{name}/rename` "renames an existing flow and updates all
  schedules that reference it" (`_doc/openapi.yaml:381`). The registry strips blanks
  from the name, the search for schedules does not (`internal/server/server.go:679`,
  `internal/scheduler/scheduler.go:380`): with blanks around it the flow moves and its
  schedules keep the old name. `RenameCarries` speaks of the name as the request
  spells it.
* In the scheduler, if the save of an Update or Disable fails, the schedule stays
  enabled on disk without a trigger until a restart (`Triggered` allows it for a
  damaged schedule and nothing else).

### Fairness

In the queue, `FairSpec` assumes that the ticker goes on and every call of a
worker returns, which includes that an engine run ends (a step without timeout
may of course hang: then the job stays running, and so does a stop); that a
request or a cleanup pass once begun is carried through; and that serve reaches
its end when nothing keeps it. All of it is weak fairness of a goroutine that is
never blocked by another. Nothing is assumed of `CleanStart`, `Stop`, `Crash`,
`Start` or of requests being made. `JobQueueOrder` is free of faults: a failing
write of a verdict leaves a job in running, which `JobLifecycle!Orphan` shows.

In the scheduler, `FairSpec` assumes weak fairness of each request and callback
once begun and of the two steps of serve, for the same reason; and that cron
triggers each schedule that has an entry. That is strong fairness of `Fire`: an
expression that is validated comes due again and again, the library starts a
goroutine for it at any load, and only the model has a bound on callbacks and
waits for requests. `EnabledFires` is about a schedule that is left alone, in a
daemon that stays up.

In a run, `FairSpec` assumes that it goes on (weak fairness of its own steps, of
which one is always possible until it is over, but while a script runs), and that
the server of a download answers or fails. The code gives downloads no time limit,
and a cancellation does not reach them; without the assumption neither property
holds there. Nothing is assumed of scripts (`ScriptStep`), which have no time limit
either: they may hang. `RunEnds` then says that retries, failures, cancellations and
other runs in the directory cannot keep a run going, only a script that does not
end can; `CancelEnds` that a cancelled run ends in any case, wherever the
cancellation meets it.

## 5. Proofs

`JobQueueProofs`, for any number of jobs, daemons and handlers:

| Theorem | Says | Assumes |
|---|---|---|
| `TypeCorrect` | `Spec => []TypeOK` | nothing |
| `Invariance` | `Spec => []IInv` | removes do not fail |
| `MutualExclusion` | `Spec => []ExclusiveExecution` | removes do not fail |
| `NoSecondRun` | `Spec => AtMostOnce` | removes do not fail |
| `SingleVerdict` | `Spec => []OneVerdict` | removes do not fail |
| `NothingLost` | `Spec => []NoJobLost` | removes do not fail |
| `LogsAvailable` | `Spec => []DoneHasLog` | removes do not fail |
| `HonestNotFound` | `Spec => []NotFoundIsTrue` | removes do not fail |
| `CompleteListing` | `Spec => []ListMissesNothing` | removes do not fail |
| `GoneForGood` | `Spec => NoResurrection` | nothing |

Deletes, crashes, restarts, graceful stops, expiry and failing writes are all in.
The assumption on removes is not a weakness of the proof: if the remove at the
end of a claim fails, the code only logs it, the job still has a pending file,
and it is claimed and executed a second time.

None of these invariants is inductive. `IInv` adds to typing: which jobs a writer,
a worker or a request can know (`Allocated`); that a claim is exclusive
(`Claimed`); that a job that has been started has no pending file and is not
being claimed (`RunOnce`); that a job has one of the two verdicts, and the worker
that is about to write one finds none (`Judged`); the presence of an accepted
job (`Kept`); its log (`Logged`); for a search, that the job is still ahead
of it or has been removed (`Searched`); and for a listing, that a job that was
there when it began is ahead of it, in hand or listed (`Listed`: jobs move from
an earlier directory to a later one, in the order in which they are listed). A claim is exclusive for two reasons, one
after the other: while it is made, by the lock on the pending file, which the
Stat after it ties to the file still in the directory; once it is made, because
the pending file is gone, so that no other worker gets past that Stat. The proof
of each step has a case per action; steps that only move a program counter are
handled by one lemma.

Also in `JobQueueProofs`, for any number of jobs, daemons and handlers, if no
file-system call fails and no daemon crashes (stops and restarts are in):

| Theorem | Says |
|---|---|
| `CalmInvariance` | `Spec => []CalmInv`, with `TypeOK` and `Allocated` |
| `ClaimsInOrder` | `Spec => []FifoClaim` |
| `RunningJobsHeld` | `Spec => []RunningIsHeld` |
| `LogsGoWithJobs` | `Spec => []NoOrphanLog` |

The assumptions are needed: a daemon that dies leaves a job in running that nobody
works on, and a verdict or a log that cannot be written or removed leaves the like.
`CalmInv` says that each file has its owner: a job in running the worker that runs
it, a log its job or the worker or request that is about to remove it
(`LogsOwned`), and that a worker has passed over no job that still waits but those
another one was claiming (`Passed`).

`JobQueueRefinesProofs`:

| Theorem | Says | Assumes |
|---|---|---|
| `QueueImplementsLifecycle` | `Spec => ImplementsLifecycle` | removes do not fail, no request deletes a job |

Status and runner of a job are functions of the files and of the workers; one
lemma (`StatusIs`, `RunnerIs`) turns them into what the steps speak of. A step then
either leaves both alone for every job (`Stutter`), or changes the status of one
(`OneStatus`), or its runner too (`OneRunner`), and one lemma per process says which
for each of its steps. Besides `IInv` it needs `Expired`: only settled jobs have been
removed, and the file of a claim stays until its worker removes it. A job has two
files while it moves, so the order in which `AbstractStatus` looks at the
directories decides at which call a claim and a verdict take effect.

`SchedulesProofs`, for any number of schedules, flows, requests and callbacks,
any faults, stops and crashes:

| Theorem | Says |
|---|---|
| `TypeCorrect` | `Spec => []TypeOK` |
| `EntriesAlive` | `Spec => []LiveEntries` |
| `Invariance` | `Spec => []IInv` |
| `PlacesAgree` | `Spec => []Triggered` |
| `HonestReply` | `Spec => []ReplyIsTrue` |
| `RenameComplete` | `Spec => []RenameCarries` |
| `JobsWanted` | `Spec => FiresOnlyEnabled` |

They assume nothing of the environment: requests and callbacks overlap as they like
and spell names as they like. What the last four claim is about orderly schedules.

`LiveEntries` needs `Mapped`: a request about to map an entry holds one that cron
has and that nobody else can name, since RemoveEntry removes only what is in the
map. For the others, `InOrder(n)` says of one orderly schedule that a single
operation is about it and calls it by its name (`ApartAt`), what the places look
like in the middle of it (`HalfwayOf`: the trigger is gone before the file changes
and comes back after), that they agree when nobody works on it (`AgreedAt`), that
what the operation has found out still holds (`InformedOf`), that a callback knows
what the file says (`CallbackAt`, by which the write of the last run changes nothing
else), and whether a rename has it still to rewrite (`RenameAt`). The proof fixes the
schedule and asks of each step whether it is about it. If it is not, then its file,
its entries and the operations on it stay (`ElsewhereKept` and the lemmas around
it) - also where a request works on a name with blanks, whose file and entries are
other ones, or has made the schedule disorderly, when nothing is left to show. A
rename is the one operation that is about all schedules at a time, and `Start`
makes all of them orderly again and settles each.

`SchedulesRefinesProofs`, for any schedule among any number of schedules, flows,
requests and callbacks, any faults, stops and crashes, with nothing assumed:

| Theorem | Says |
|---|---|
| `SchedulesImplementBook` | `Spec => ImplementsBook` |

The book lets an operation take effect only where it makes sense at that moment: a
creation of what is not there, a deletion of what is. The code finds out with a
call of its own and acts later, so the invariant had to say what an operation
has found out and still holds (`InformedOf`). The proof takes one step and a schedule
that is orderly after it, and names the step of the page: there is a lemma for each
call of a request on the schedule, for those of a rename, for the callbacks and
for the daemon, and one for the steps that are about something else. That the map
and the cron library agree is used where an entry is removed: removing the one that
is mapped silences the schedule.

`FlowRegistryProofs`, for any number of flows, contents and requests, any faults,
crashes and configurations, with nothing assumed:

| Theorem | Says |
|---|---|
| `TypeCorrect` | `Spec => []TypeOK` |
| `Invariance` | `Spec => []IInv` |
| `ReadersFindWholeFlows` | `Spec => []WholeFlows` |
| `ErrorsLeaveNothing` | `Spec => []FailsCleanly` |
| `SuccessesAreTrue` | `Spec => []SucceedsTruly` |
| `JobsFindTheirFlows` | `Spec => []JobFindsFlow` |
| `ContentsSurvive` | `Spec => NothingVanishes` |
| `ServedAreEntitled` | `Spec => []OnlyEntitled` |

The invariant has a part for each thing a request relies on between two calls: at
which call each operation can be (`Asking`); that two requests that write one flow
at a time are known to (`OneWriter`); that the file a writer has open is the
temporary one of its flow, unless another has moved it (`OpenFiles`), and what it
will write there is a flow (`Drafts`); and that the flows of a lone writer are as it
found them, until it changes them itself (`Untouched`, `Renaming`). The step of one
request is first described as the others see it (`OnlyOwn`: it changes no flow but
its own and those that are `shared` already), so that each part is shown for the
request that moves and carried over for the others. `ServedAreEntitled` is a
statement about every configuration and the routes in `Ops` (flows and jobs) and
needs no step at all.

`FlowRunProofs` and `FlowRunOutputsProofs`, for any number of flows, tools, runs and
directories, commands and values of any length, any faults, cancellations and
crashes, with nothing assumed:

| Theorem | Says |
|---|---|
| `TypeCorrect` | `Spec => []TypeOK` |
| `CacheInvariance`, `Invariance` | `Spec => []CacheInv`, `Spec => []IInv` |
| `ToolsAreReady` | `Spec => []ToolsReady` |
| `NothingIsLeft` | `Spec => []LeavesNothing` |
| `OutputsAreOwn` | `Spec => []OutputsOfThisRun` |
| `ReferencesAreCollected` | `Spec => []NoOutputMissing`, the half of `AcceptedResolves` about outputs, in shared directories too |
| `AcceptedReferencesResolve` | `Spec => []AcceptedResolves` |
| `RenderedAsWritten` | `Spec => []RendersAsWritten` |

`ToolsReady` looks at a cache that other runs have filled, in other versions of the
flow, so the invariant speaks of the caches nobody works on as well: their metadata
tell the truth (`CachesTrue`). A run that shares its directory with nobody
(`Alone`) knows that this is so of all tools but the one it is downloading
(`OthersTrue`), that the tools it has passed are what the flow asks for
(`EarlierGood`), and at each call what the binary in hand is (`Fetched`). `Placed` says
which calls belong to which tool and step, `Apart` that runs that share a directory
are known to, and `Covered` that every directory has a run that will remove it or
has been left. A step of a run changes only what is its own (`Own`): the others that
are alone in their directories do not notice it (`UnseenKeeps`), so that per action
only the run's own part is left. The attempt showed that `Broken` had forgotten the
checksum (see the end of the section on disagreements); TLC finds the state in the
instance since a flow without the checksum is in it.

`OutputsOfThisRun` compares what was collected with what the scripts wrote, so
`OutputInv` follows the files: a mark is only in the directory of the run it names
(`Marked`), a directory that does not exist has no files (`Housed`), and an old file is
only where a process has died (`Fresh`) - with `Covered`, for a directory that has been
left by nobody is not there when a run begins. The output file of a step holds
nothing before its script and then what the script wrote (`Written`), because
`PrepareStep` truncates it. That later steps do not disturb the outputs of earlier
ones (`Collected`) rests on the check of step names: they are unique where there are
outputs. `Known`, which holds of runs that share a directory as well, gives with the
check of the references that no output is missing. The attempt showed that the
model had not always taken the later of two outputs of one name (the parser accepts
them); a step of the instance now declares two.

`RendersAsWritten` compares a command that was resolved at one step with what the
run knows at a later one, so `CommandInv` says that nothing it was resolved from has
changed since (`Ready`: other runs, cancellations and the preparation of the output
file leave outputs, secrets and command alone), and that outputs are what scripts
may write or the places of files (`Worded`). The rest is about operators: that the
references found are those of the command and all of them (`ReferencesAre`,
`ReferencesHas`), that a declaration of the step wins over that of the flow
(`StepSecretsAre`, from `LoadIs`),
that what comes out of a replacement has no tokens but those of the command and
of the values (`SubstituteWithin`, by which a secret nobody declares can only come
from an output), and `ResolvedAtOnce`: the loop of the code, which replaces the first
occurrence of one reference after the other and looks for secrets only then, does
what replacing all references at once would do. `TemplatesProofs` proves these for
commands of any length. The library's induction theorems have an operator
as a parameter; an induction is therefore over a set of numbers, of which the
smallest that is missing is looked at (`Smallest`, `FiniteInduct`), and the folds and
recursive functions are first shown to be the sequences of their intermediate results
(`FoldExists`, `RecursionExists`, `SubstituteFold`, `FlattenFold`). The attempt showed
that `RendersAsWritten` had asked too little of the outputs (see the end of the
section on disagreements), and the instance now has a value that shows it.

The assumptions on the constants (`FlowsAssumption`, `StepsAssumption`,
`TextsAssumption`, `ConfigsAssumption` and the like) only say what kind of values they
are: that the tools of a flow and the tokens of a command are sequences, that a
number of retries is a number, that a reference names a step and an output.

Only model-checked: the liveness properties (`EveryJobSettles`, `StopCompletes`,
`EnabledFires`, `RunEnds`, `CancelEnds`), which rest on fairness and `ENABLED`, out of the provers'
reach. Every safety invariant, action property and refinement that a passing run
checks is a theorem.

## 6. Not modelled

* Queue and scheduler: the contents of jobs and malformed files (one unreadable
  pending file stops every drain at its place in the order); the inputs and time
  stamps of schedules; read and listing errors; the filter of a job listing.
* Registry and server: the validation of names, the listing of flows (which also
  shows files that end in `.yml`, which no other operation finds), the profile,
  routing, headers and encodings. In `FlowRegistry` a rename ends with the registry;
  its schedules are in `Schedules`.
* Flows: the order in which validation reports errors; the syntax of references,
  and with it a reference that is formed only by putting a value into a command;
  the environment and the log of a script; the masking of secrets in errors; a
  script that outlives its shell or the daemon; RemoveAll as anything but one
  successful step; files left in the temporary directory by a crash.
* The client and the command line do one request per call and keep no state. The
  exception is `schedules update`, a get and a put whose lost update is in the
  list of hazards. The frontend has forms and tables over the API.
