# A verification of stack-deploy

stack-deploy is a Go server that deploys *stacks*, YAML maps of applications with
dependencies, on Mesos through Marathon. This directory holds TLA+ models of its
parts, TLC runs that check them on small instances, and TLAPS proofs of the
properties that matter most. `PROJECT.json` maps every definition to the source
lines it models.

## The system

| Part | Source | State | Operations |
|---|---|---|---|
| Stack run | `framework/server.go`, `framework/stack.go`, `framework/state_storage.go` | `runningApps`, the status channel, one goroutine per application, stored statuses | `RunHandler`, `runStack`, `Stack.Run`, `markSkippedApps`, `runApplications`, `SaveStackStatus`, `SaveApplicationStatus`, `SaveStackVariables` |
| Application run | `framework/application.go`, `framework/variables.go` | the texts of the application, variables of the run, script files, the application in Marathon | `Application.Run` and what it calls, `Variables.Get`, `All`, `SetStackVariable` |
| Task runners | `runners/*.go` | the tasks in the schedulers of other frameworks | `FillContext` and `RunTask` of nine runners |
| Run-once applications | `mesosrunners/*.go`, `framework/scheduler.go` | contexts by application, tasks with their last state, status channels | `StageApplication`, `ResourceOffer`, `StatusUpdate` |
| Constraints | `constraints/constraints.go`, `framework/application.go` | none | `Matches`, `calculateAllInstances` |
| Stack storage | `framework/storage.go`, `framework/layer.go`, `Stack.Merge` | tables of stacks and layers, a lock | `StoreStack`, `RemoveStack`, `GetStack`, `GetLayersStack` |
| Cron scheduling | `framework/scheduler.go`, `mesosrunners/time_scheduler.go`, the vendored `cron.go` | cron entries, list of scheduled tasks | `RunApplication`, `ScheduleApplication`, `RemoveScheduled`, `AddFunc`, `DeleteJob` |
| Server start | `command/server.go`, `framework/framework_storage.go` | stored framework id and bootstrap context, what was deployed | `Run`, `Bootstrap`, `Save`, `Load`, `Registered` |
| Users | `framework/user_storage.go`, `Auth`, `Admin` | table of users, keys on their way to a client | `Init`, `CreateUser`, `RefreshToken`, `CheckKey`, `IsAdmin` |
| CLI, client, Docker | `command/*.go`, `framework/client.go`, `framework/docker.go` | none | one request each |

How they meet: a request is handled in a goroutine of the HTTP server, reads the
stack from the storage, merges layers, and runs it. `Stack.Run` starts one goroutine
per application whose dependencies are running, and hears of it through a buffered
channel. `Application.Run` deploys through Marathon, or stages a run-once application,
whose outcome comes from the callbacks of the Mesos driver. A task runner then starts
the tasks of the deployed framework and publishes variables for the dependents. An
application with a time schedule is handed to the cron goroutine instead, whose jobs
stage it. The server command brings all of it up: it loads what an earlier server
stored, may run a bootstrap stack, creates the first user, and starts the driver, whose
first callback stores the framework id.

What is hard in it: goroutines that outlive the run that started them; sends on
channels nobody may receive from, one of them under two locks; concurrent runs that
share status rows, script files and, in developer mode, the stack itself; status
updates that are retried, late or for an earlier staging; removals that consist of
many queries; answers that are lost after the call took effect; variables that
appear while texts are being resolved; keys and roles that are read and written by
separate queries; a slice that several goroutines change; a server that is killed at any
moment of its start. `PROJECT.json` lists these hazards with their
lines and the properties that cover them.

## Modules

| Module | Models |
|---|---|
| `StackRun` | a run from `RunHandler` to its answer; several runs of one stack share the stored statuses |
| `Deployment` | what running a stack promises, without channels, storage and goroutines |
| `ApplicationRun`, `TaskRunners` | `Application.Run` and the task runners; several runs and applications at once |
| `RunOnce`, `Constraints` | the run-once runner between the Mesos driver and the goroutines waiting for it; constraints |
| `StackStore`, `StackMerge` | the Cassandra storage, query by query; merging of parents, stack and layers |
| `Schedule` | time-scheduled applications: the cron goroutine and the list of tasks |
| `Users` | the table of users and the requests that write it, query by query |
| `ServerStart` | the life of a server, over `Users`: start, bootstrap, registration, kill, restart |
| `StackRunProofs`, `StackRunOutcomes`, `ApplicationRunProofs`, `ApplicationRunOutcomes`, `RunOnceProofs`, `StackStoreProofs`, `ServerStartProofs`, `ScheduleProofs` | the proofs; an `Outcomes` module continues the `Proofs` module it extends, and `ServerStartProofs` holds the proofs about `Users` too |
| `MCStackRun`, `MCApplicationRun`, `MCRunOnce`, `MCStackStore`, `MCServerStart`, `MCSchedule` | instances for TLC |

### StackRun

`pc` is the position of a handler in `RunHandler`/`runStack`/`Stack.Run`. Each call to
the storage, each receive and each send is a step. `runningApps`, `statuses`, `closed`
and `current` are the local variables of `Stack.Run`; `goroutine` is the state of the
goroutine of each application, which runs, holds its outcome until the channel takes
it, and ends. `stackState` and `appState` are the rows of the state storage;
`stateStorage`, which never changes, says whether they are in Cassandra or in memory,
where `SaveStackStatus` refuses to overwrite; both runs check both. A dependency graph is any function from
applications to sets of names, a skip flag the set of applications it matches. IDs of
applications are taken to be distinct. `Application.Run` is abstracted to its outcome.
A crash ends all handlers and goroutines; with the in-memory storage it also empties
the rows.

### ApplicationRun and TaskRunners

A job is one call of `Application.Run`. Its steps are: resolve and check a text; open,
write, execute and remove a script; create the application; check once whether it is
up; fill the context; one call of a task runner. A job starts when the applications it
depends on are through, or are skipped by the request: `markSkippedApps` marks them as
running without running anything. `text` keeps for each reference in a text the value that
was put in, told by its kind and its run; that is all the properties tell apart. `files`,
`marathon` and `nodes` are outside the server and shared by the runs. A script file is
truncated when it is opened and written afterwards, so that it may hold the commands of a
run, or `Part`: less than that, or a mix of two runs'. `shared` and `foreign` are history:
the scripts whose file two runs had at the same time, and those that executed other
commands than the run's own.

`TaskRunners` gives the calls that each runner makes, in order, and the answers it accepts.
With `Faults`, every call may fail before or after its effect, and may be answered with
something that is not JSON. An answer in JSON is taken to be in the format of its framework.
`trace` is history, too: the scripts, the launch and the tasks a job has performed;
`Documented` is the order in which they are documented. `DependenciesPublish` is about the
step that stops a run at an unresolved variable: later the texts may change again, in
developer mode even by another run.

### RunOnce and Constraints

`StageApplication`, `ResourceOffer` and `StatusUpdate` hold the lock of the runner
throughout and are one step each. Tasks move on in Mesos by themselves; an update is
delivered again until it is acknowledged, also after the staging it belongs to was
replaced by a later one of the same application. The constraints are pure operators. The
attributes of the tasks placed before, a slice in the code, are a function on the positions
of the tasks, of which those that do not count are left out: the constraints look at the
first of them and at how often a value occurs, which is the same.

### StackStore and StackMerge

Writers hold a lock; a forced removal is a stack of frames, one per level of the
recursion, and one query per step. Readers take no lock and follow parents query by
query. A request is `quiet` as long as no row was deleted since it began. `Faults` chooses
among queries that return an error, a children query that fails half way without anybody
looking at its error ("unread": it returns any part of the children), and a crash.
`Resolved` says what inheritance means without merging: of the settings that `Merge`
overrides, the nearest ancestor that has one decides; of those it leaves alone, the topmost
ancestor that has the application.

### Schedule

`entries` is what the cron goroutine keeps; it serves `AddFunc` and `DeleteJob` one at a
time. `list` is `scheduledTasks`, a Go slice that is read and stored without a lock.
`LoadList` and `RangeList` read it, `AppendTask` and `RemoveTask` store it. A goroutine
that stores it while another is between the two is a data race, and Go promises nothing of
the slice from then on: the list is `Garbled`, and a removal may find its task, miss it or
panic. The job of a start time adds a second, nested entry for the schedule; a job that
stages the application changes nothing here, see `RunOnce`. A time is absent, a cron
expression or a text that does not parse; when it comes is left open.

### Users and ServerStart

Every query of `CreateUser`, `RefreshToken`, `Init`, `Auth` and `Admin` is a step. A key
is the number of the UUID and how often it was hashed, so that storing a key and storing
its hash differ. With `Faults` a query fails, and an INSERT fails before or after it was
applied. `told` and `lost` are history: the keys clients have, and the stored ones
nobody will ever have; `past` keeps what was overwritten, and `raced` the names that two
creations found free at the same time.

`ServerStart` extends `Users`: `main` is the position of the server command, `driver`
that of the Mesos driver and of `Registered`. A kill, a panic and `log.Fatal` are the same
`Ends`: local state is gone, and the server is launched again. The persistent storage is
a file, which is truncated and then written, or a ZooKeeper node. The bootstrap stack is
reduced to what decides the fate of the server: whether Marathon takes an application,
and the save of the first status. Framework ids are numbered in the order Mesos
assigns them.

## Runs

Passing runs (the cfg of a run is named after its MC module and the second half of its
name):

| Run | Checks | Instance |
|---|---|---|
| `stackrun_two` | `SuccessMeansDeployed`, `StoredAppsTruthful`, `ImplementsDeployment` | 2 runs, 2 applications, every acyclic graph, both state storages, failures, crash |
| `stackrun_live` | `TypeOK`, `DependenciesFirst`, `SendersNeverStuck`, `StoredStackComplete`, `RunReturns`, `GoroutinesEnd` | 1 run, 3 applications, every acyclic graph, up to two skip flags, both state storages, failures, crash, fair |
| `apprun_runs` | `TypeOK`, `DocumentedOrder`, `TasksStarted`, `NothingUnresolvedRuns`, `DependenciesPublish`, `RunReturns` | Cassandra with all scripts and two tasks, Elasticsearch that needs it, a run-once job: one run of all three, one that skips the dependency, or two runs of one application; both stack storages, failures, fair |
| `runonce_two` | `TypeOK`, `SuccessMeansOver`, `NeverTooManyTasks`, `SendNeverBlocks`, `FailureMeansFailed` | 2 stagings of one application, 2 hosts, failures, crash |
| `runonce_placed` | `ConstraintsRespected`, `StagedAnswered` | 1 staging, 3 hosts in 2 racks, constraints of every kind, fair |
| `stackstore_tree` | `TypeOK`, `ParentsExist`, `NoCycles`, `QuietReads`, `ForcedRemovalExact` | 3 names, 4 stores, one reader, errors, crash |
| `server_life` | `TypeOK`, `OneFramework`, `StoredKeysHeld`, `KeysLast`, `OnlyAdminsWrite`, `RolesFixed`, `ComesUp` | 2 names, 2 requests, with and without bootstrap, file and ZooKeeper, first start and later one, a failure, a kill, fair |
| `schedule_list` | `TypeOK`, `RemovedNeverFires`, `ListExact` | 3 applications with every kind of schedule, 2 removals, 2 firings |

Runs that end in a violation show where the code and what is written about it
disagree; `PROJECT.json` quotes the lines.

| Run | Shows |
|---|---|
| `stackstore_zone` | `runStack` merges the stack over its zone, so that the settings of the stack win; `layer.go` says that lower layers are merged into the stack |
| `apprun_tasks` | a task is run with unresolved variables, since the check does not look into it |
| `server_bootstrap` | a server with `--bootstrap` never serves: `Bootstrap` gives `Stack.Run` a state storage without the stack, so that the first save of a status fails, the server exits, and Marathon refuses the application of the next start |
| `schedule_cancel` | a task with a start time and a schedule goes on after it was cancelled, since the id of the second entry is dropped |

Limits of the passing runs, each for a reason in the code:

- skip flags match different applications. Two that match the same ones overfill the
  channel before anybody receives (`framework/stack.go:189`);
- dependency graphs are acyclic. `Validate` lets a cycle pass (`framework/stack.go:111`,
  a TODO), and a run of one waits for ever;
- `apprun_runs` has no Exhibitor, whose `AwaitZookeeperRunning` has no bound
  (`runners/exhibitor_task_runner.go:191`);
- `StoredStackComplete` is checked with one run. With two it does not hold: one fails and
  stores an application as failed, while the other, which skips it, stores the stack as
  running. `StoredAppsTruthful` says, with two runs, that a stored status is the outcome
  of some run;
- `SuccessMeansDeployed` says nothing of a run answered with an error. In developer mode
  every run is: the second save of a stack status is refused, although the stack is
  deployed (`framework/state_storage.go:155`);
- `FailureMeansFailed` speaks of the application, not of the staging. An update finds its
  staging by the name of the application (`mesosrunners/run_once_runner.go:84`), so that a
  late failure of an earlier staging fails a later one;
- children are read without an unnoticed error. `remove` never closes its iterator, and a
  read that fails half way makes it delete a stack that has children
  (`framework/storage.go:224`). With the fault "unread" neither `ParentsExist` nor
  `ForcedRemovalExact` holds, and no run has it;
- `QuietReads` says nothing of a read that a deletion overlaps: it follows parents without
  the lock and may mix rows of before and after (`framework/storage.go:95`). Nor does it
  say how a stack and its zone are combined, for which see `stackstore_zone`;
- a script may execute commands of another run, or parts of some, when both have its file
  at the same time (`framework/application.go:266`); `DocumentedOrder` rules it out
  otherwise. The values of one run stay in the next in developer mode, where the storage
  hands out the stored stack itself (`framework/storage.go:300`);
- `DependenciesPublish` says nothing of variables that only a skipped dependency would have
  published: the dependents are started without them (`framework/stack.go:188`);
- `KeysLast`, `RolesFixed` and `OnlyAdminsWrite` except names that two requests have
  created at the same time: both are given a key, and the later INSERT wins
  (`framework/user_storage.go:67`). `KeysLast` lets any refresh void a key; of two that
  overlap, the one applied last wins, which need not be the one answered last.
  `StoredKeysHeld` counts lost keys; when the first
  key is one, nobody can ever log in (`command/server.go:169`);
- `OneFramework` excepts ids that slipped: a server that ended before `Registered` had
  stored its id, a failed save, which nobody looks at, and a failed load, which is taken
  for an empty storage (`framework/framework_storage.go:50`, `:55`);
- `ComesUp` excepts a file that a kill has left truncated, since `Load` panics at it, and
  a bootstrap that has not been stored, for which see `server_bootstrap`;
- `ListExact` holds until there is a data race on the slice (`framework/scheduler.go:241`).
  It compares with the entries that are not nested; a nested one is in no list, and stays
  when its task is removed, for which see `schedule_cancel`. A text that is no schedule is
  listed with the id -1 and answered as a success (`mesosrunners/time_scheduler.go:38`);
- `runonce_placed` stages an application once. Staging it again replaces the context, and
  the first waiter is not answered (`mesosrunners/run_once_runner.go:53`). Tasks do not
  report `TASK_STARTING`, which hides them from constraints
  (`mesosrunners/run_once_application_context.go:202`). `CLUSTER` and `UNIQUE` are not
  combined: `calculateAllInstances` may then count on another cluster than the first
  offer chooses (`framework/application.go:427`).

### Bounds

Two runs are enough for every way in which runs meet, since they meet in rows
and objects, which are written whole, and in script files, where a third run could add
nothing to what two may leave in one. Three applications give every shape of
dependency (chain, fork, join, independent) that `runApplications` tells apart, and let
a third application report while a dependency is still coming up; two tasks give a first and a last. `MaxWait` of 1 gives a first and a last check. Two
stagings are enough for a stale update; three hosts in two racks make each constraint
choose. Three names give a chain of three and a fork; `MaxStores` bounds how often a
stack is stored, and 4 lets one be removed and stored again. Two requests and two names
give every pair of writes to one row or two, with the start of the server as a third
writer that comes first; `MaxCrashes` and `MaxFailures` of 1 put one kill and one failed
call anywhere in the life of a server, together with what an earlier one left behind. Three
scheduled applications let a task be removed from the front, the middle and the end of the
list while another is appended; two removals may aim at the same task; two firings let a
start time fire twice. The applications, and the removals, are alike, so that the run takes
their permutations as a symmetry. The proofs have none of these bounds.

### Deadlock and fairness

The systems really stop: when all requests are answered nothing is left to do, so
deadlock is not checked; that nobody waits for ever is stated by `RunReturns`,
`GoroutinesEnd`, `StagedAnswered`, `ComesUp`, `SendersNeverStuck` and
`SendNeverBlocks` instead.

- `StackRun`: weak fairness of each handler and of each goroutine, as the Go scheduler
  gives. It includes that `Application.Run` returns, which is `RunReturns` of
  `ApplicationRun`.
- `ApplicationRun`: weak fairness of each job: it is scheduled and the calls it makes
  return. Nothing is assumed of Marathon or of the tasks.
- `RunOnce`: offers go on coming, tasks go on until they end, and updates are retried
  until they are acknowledged, as Mesos promises.
- `ServerStart`: weak fairness of the server command and of the driver. It includes that
  Marathon launches a server that has ended, as it does with one of `marathon.json`.
  Nothing is assumed of the requests.
- `StackStore` and `Schedule` have safety properties only, and no fairness.

## Proofs

Proved by TLAPS for every number of runs, applications, tasks, variables,
stagings, hosts and names:

| Theorem | States |
|---|---|
| `StackRunProofs!TypeCorrect` | `TypeOK` |
| `StackRunProofs!Invariance` | `Inv` of `StackRun` |
| `StackRunProofs!DependenciesAlwaysFirst` | `DependenciesFirst`, for any graph |
| `StackRunProofs!SuccessIsGenuine` | `SuccessMeansDeployed` |
| `StackRunProofs!StoredStatusesGenuine` | `StoredAppsTruthful` |
| `StackRunProofs!SendersAlwaysFree` | `SendersNeverStuck`, if no application is matched by two skip flags (`DisjointSkips`) |
| `StackRunOutcomes!StoredStackIsComplete` | `StoredStackComplete`, for a single run (`SingleRun`) |
| `StackRunOutcomes!Refinement` | `ImplementsDeployment` |
| `ApplicationRunProofs!ControlInvariance` | `ControlInv` |
| `ApplicationRunProofs!ResolvedBeforeUse` | `NothingUnresolvedRuns`, with both stack storages |
| `ApplicationRunProofs!SuccessMeansStarted` | `TasksStarted`, for all nine task runners |
| `ApplicationRunProofs!ApplicationTypes` | `TypeOK` |
| `ApplicationRunOutcomes!DependenciesAlwaysPublish` | `DependenciesPublish`, with both stack storages |
| `ApplicationRunOutcomes!OrderAsDocumented` | `DocumentedOrder` |
| `RunOnceProofs!RunnerTypes` | `TypeOK` |
| `RunOnceProofs!Invariance` | `Inv` of `RunOnce` |
| `RunOnceProofs!SuccessIsNeverEarly` | `SuccessMeansOver` |
| `RunOnceProofs!TasksAreBounded` | `NeverTooManyTasks` |
| `RunOnceProofs!CallbackNeverHangs` | `SendNeverBlocks` |
| `RunOnceProofs!FailureIsGenuine` | `FailureMeansFailed` |
| `RunOnceProofs!PlacementRespected` | `ConstraintsRespected`, if no task reports `TASK_STARTING` (`NeverStarting`) |
| `StackStoreProofs!StoreTypes` | `TypeOK` |
| `StackStoreProofs!ParentsAlwaysExist` | `ParentsExist`, if no children query fails unnoticed (`QueriesSucceed`) |
| `StackStoreProofs!NeverCyclic` | `NoCycles`, under the same assumption |
| `StackStoreProofs!ForcedRemovalsExact` | `ForcedRemovalExact`, under the same assumption |
| `StackStoreProofs!QuietRequestsReadTheChain`, `QuietRequestsMissNothing` | a quiet read gets the rows of the stack and its ancestors, in order; and, under the same assumption, never misses one |
| `StackStoreProofs!QuietReadsResolve` | `QuietReads`, under the same assumption |
| `ServerStartProofs!UsersInvariance` | `UsersInv` |
| `ServerStartProofs!KeysAreHeld`, `HandedOutKeysLast`, `WritersAreAdmins` | `StoredKeysHeld`, `KeysLast`, `OnlyAdminsWrite` |
| `ServerStartProofs!RolesNeverChange` | `RolesFixed` |
| `ServerStartProofs!ServerImplementsUsers` | `Spec` of `ServerStart` implies `UsersSpec`; so the theorems above hold of the server (`ServerKeepsUsers`, `ServerKeepsKeys`) |
| `ServerStartProofs!ServerTypes`, `ServerIsOneFramework` | `TypeOK`, `OneFramework` |
| `ScheduleProofs!RemovedStaysRemoved` | `RemovedNeverFires`, data race or not |
| `ScheduleProofs!ListAlwaysExact` | `ListExact` |

So every invariant and every action property that a passing run checks is also proved (the
type invariant of `Schedule` as the lemmas `TypeStart` and `TypeStep`), and so is the
refinement. `QueriesSucceed` is there because `remove` ignores the error of its
iterator, `DisjointSkips` because overlapping flags overfill the channel, `NeverStarting`
because a starting task is hidden from constraints (see the limits above). `SingleRun` is
needed since two runs overwrite each other's rows: one fails and stores an application as
failed, while the other, which skips it, stores the stack as running. The inductive
invariants below were checked by TLC in the instances of the runs before they were proved.

The assumptions on constants say what the data is and nothing of its size, apart from
`Apps` of `StackRun` and `Runs` and `Removals` of `Schedule`, which are finite: dependencies are
applications, published variables are variables, the marker of an unresolved reference is
no value (`VarsAssumption`), a file of a stack is a map of applications, each a record whose
scheduler flags are a map (`ContentsAssumption`), constraints are of the five kinds
(`ConstraintsAssumption`), scheduling and removing goroutines are different ones.

A leaf that names `SMTT(30)` or `ZenonT(30)` takes the prover that closes it, and more time
than the default, so that the proofs also go through on a slow or busy machine.

**StackRun.** `DependenciesFirst` is not inductive: `IsDependencySatisfied` looks at
`runningApps`, while the property speaks of goroutines and of what they reported. `Inv`
adds that the map never runs ahead of the goroutines (`MapAgrees`), that a status in
the channel or in the hands of `Stack.Run` is the outcome of its application
(`ChannelGenuine`, `CurrentGenuine`), and that nothing is launched before the skips are
through. `StoredAppsTruthful` then follows from what is being saved, `SuccessMeansDeployed`
from `VerdictGenuine`. For `SendersAlwaysFree` the channel holds at most one status of an
application (`ChannelDistinct`), and none of one whose goroutine has yet to send, so the
number of statuses is below the number of applications, its capacity.

`StoredStackComplete` is about the end of a run, after which statuses may be left in the
channel: `Stack.Run` returns as soon as `runningApps` says that all applications run, and
skipped ones say so before their status was received. `SkippedFirst` says that the statuses
of skipped applications come before all others, so that none of them is left once a
deployed application was heard of; `SavedOrDue` that while a run goes well each application
marked as running is stored as such, or its save is still to come; `StoredAtEnd` that
Running is stored last and nothing changes after it.

**Refinement.** The mapping takes the goroutines that were started and the applications
in place; `Skip`, `Start`, `ComeUp` and `Answer` of `Deployment` are `SkipApplication`,
`RunFirstApplications`/`RunMoreApplications`, `SendStatus` and the two ends of `runStack`.
All other steps are invisible.

**ApplicationRun.** `ControlInv` says which section, task and call go with each phase
(`Fits`). `NothingUnresolvedRuns` is not inductive: the launch is checked with the first
script and used after it, while in developer mode other runs change the same texts.
`TextInv` adds that the launch stays resolved in between and that runs in developer mode
see the same texts; a value that was put in is never replaced. `TasksStarted` speaks of the
end of a run only; `TaskInv` says of every moment that the tasks a job is through with
(`Through`), and its own once a start of it was accepted, are started. It rests on three
facts of the runners: no reply takes a task back, a start is accepted only if it took
effect (`StartAccepted`), and every runner whose last call can be accepted calls start
(`LastCall`).

`DependenciesPublish`: what a job has published where it is (`Announced`) is among the
variables of its run, and a job that was started has its dependencies behind it
(`PublishInv`), except the skipped ones; a text is resolved against all variables of its
run, so what is still unresolved was published by none that was run. `DocumentedOrder`: `Performed` is the number of
commands a job has performed where it is, counted from the section, the task and the
phase; `OrderInv` says that the trace has that length and agrees with `Documented`, so
that the next command is the one at the next position. The tasks come in rounds of the same
length; that the command in hand is the right one of its round is arithmetic with
remainders. That a script is the run's own unless its file was shared is `ScriptInv`: a job
that nobody shares its file with finds it empty when it writes and has its own commands in
it when it executes. `TypeOK` needs that only a last check exceeds `MaxWait` (`TriesInv`). A step
moves one job (`Mover`, `OneMoves`), which gives most facts about the others.

**RunOnce.** The runner's list of tasks and the tasks in Mesos are different state; `Inv`
relates them: the same tasks in the same order (`SameTasks`), no ending recorded that did
not happen (`EndsAreReal`), and nothing before a staging (`NothingBefore`).
`FailureMeansFailed` follows since a failure that was heard of is the last state of its
task. For `ConstraintsRespected`, `PlacementInv` says that every task counts for the
constraints and has their attributes, that tasks under a `CLUSTER` with a value have that
one, and that as long as a `GROUP_BY` has groups to open each has one task: a matching
offer then keeps the groups even.

**StackStore.** A forced removal deletes children before the parent over many steps; `Inv`
says that each frame still covers all children of its stack that are stored
(`CallsCover`), so that the row deleted at the end has none left. `RemovalInv` adds that
rows only go while the lock is held, and that what went, and what the frames have yet to
remove, is in the family of the stack, which gives `ForcedRemovalExact`.

`QuietReads` is proved without induction over the length of the chain, in three parts. The
rows that were read are a path through the table (`RowsRead`, a step of a read extends it).
What inheritance promises (`Resolved`) of a stack is the merge of its own row into what it
promises of the parent (one step of `Unwind`). And in a table without cycles, every set of
stacks of which a claim is false has one whose parent is not in the set; so a claim that is
passed on from parent to child holds of all. `Merge` is shown to keep the nearest setting
and the scheduler flags as `Resolved` states them.

**Users.** None of the properties is inductive, since what a request saves was checked or
drawn queries earlier. `UsersInv` adds that UUIDs in use were drawn (`KeysDrawn`), that a
key about to be saved is nobody else's (`SavesFresh`), that what `userExist` and `GetUser`
found is still so unless the name has raced (`SavesAgree`, which gives `RolesFixed`), that
rows never go away (`RowsStay`), and that a key about to be handed out is as good as one
that was (`RepliesLast`). Most steps leave the table alone and are covered by one lemma
(`QuietStep`); `DrawStep` and `InsertStep` are the others.

**ServerStart.** Every step of the server is a step of the users or leaves them alone,
without any invariant. `IdInv` says that the one id that was assigned is in memory, or
stored and yet to be loaded; it needs that the driver runs only in a server that serves,
so that the two savers of the storage never overlap. The assumption on `FirstSaved` says
that an id found at first is the only one assigned so far.

**Schedule.** `IdInv`: ids are drawn in sequence, so that an entry added later, also by a
job that was under way during the removal, has another id than the removed one. (In the
code they are random 63-bit numbers, taken to be distinct.) It holds whatever becomes of the
list. `ListExact` counts what is listed under an id against what was scheduled and what
removals have found (`Counted`), which an append and a removal change by one on both sides,
since tasks are listed once (`ListedOnce`). The comparison with the entries is made when
nobody is at work; in between, an entry may be there before its task is listed and a task be
listed after its entry was deleted, and `EntriesListed` says which pending append or removal
accounts for it.

Only model-checked: the liveness properties (`RunReturns` twice, `GoroutinesEnd`,
`StagedAnswered`, `ComesUp`), since the prover handles neither fairness nor
`ENABLED`; and what the four violations show, which needs one behaviour and no proof.

## Not modelled

The CLI and the HTTP client make one request and hold no state. (The client takes every
status but 200 for an error, and `CreateUserHandler` answers 201, so that `adduser`
reports a user that was created as a failure.) `docker.go` and the body of
`createApplication` copy settings field by field. Parameters of API calls and the wording
of errors are data no property depends on. Storing and removing stacks in developer mode
changes a map without a lock; the Go memory model says nothing of overlapping requests
there, and without overlap it is `StackStore` without its checks of parents. The same
holds of the unsynchronised reads of the variables maps (`framework/variables.go:91`),
whose worst outcome, the end of the process, is a crash of `StackRun`. Offers have no
identity, and amounts of resources and ports are left out of `RunOnce`. Schedules are not
stored and are gone after a restart, so that `Schedule` covers the life of one process.

## Plan

1. Done: `StackRun` with `Deployment`, `RunOnce` with `Constraints`, `StackStore` with
   `StackMerge`, `ApplicationRun` with `TaskRunners`, `Schedule`, and `ServerStart` over
   `Users`; proofs for each of them.
2. Composition: `StackRun` with `ApplicationRun` in place of its abstract outcome, and
   `Schedule` with `RunOnce` for what its jobs stage.
3. Proofs: weaker assumptions where the code allows them (several runs one after the other
   in `StoredStackIsComplete`).
4. Offers with an identity and resources, and the driver that loses and regains its
   connection.
