------------------------------ MODULE StackRun ------------------------------
(***************************************************************************)
(* Running a stack: RunHandler and runStack of framework/server.go,        *)
(* Stack.Run of framework/stack.go with the goroutine it starts for each   *)
(* application, and the state storage of framework/state_storage.go.       *)
(*                                                                         *)
(* Every request runs in an HTTP handler of its own, so several runs of    *)
(* one stack in one zone share the row the state storage keeps for it.     *)
(* What Application.Run does is abstracted to its outcome.  Applications   *)
(* are named by their ID, the key of runningApps; the IDs of a stack are   *)
(* distinct.                                                               *)
(***************************************************************************)
EXTENDS Integers, Sequences, FiniteSets

CONSTANTS
  Runs,          \* the run requests, all for one stack name and zone
  Apps,          \* the applications of the stack
  Stacks,        \* the dependencies the stack may be stored with
  SkipChoices,   \* the --skip flags a request may carry
  NoApp,         \* no application
  StateStorages, \* "cassandra", and "memory" for developer mode
  Faults         \* may calls to Marathon, Mesos and Cassandra fail?

ASSUME AppsAssumption == IsFiniteSet(Apps) /\ NoApp \notin Apps
ASSUME StacksAssumption == \A s \in Stacks : DOMAIN s = Apps

(* A skip flag is the set of applications its regular expression matches;  *)
(* one that does not compile stands apart.                                 *)
BadPattern == {NoApp}
Patterns == SUBSET Apps \cup {BadPattern}

ASSUME SkipAssumption == SkipChoices \subseteq Seq(Patterns)
ASSUME ModeAssumption == StateStorages \subseteq {"cassandra", "memory"} /\ Faults \in BOOLEAN

VARIABLES
  stateStorage, \* the state storage the server was started with
  pc,           \* how far the handler of each run has come
  deps,         \* the dependencies each run reads from the stack storage
  skips,        \* skip patterns still to apply, each as the set it matches
  runningApps,  \* the map of that name in Stack.Run, with "absent"
  statuses,     \* the channel of application statuses
  closed,       \* whether that channel is closed
  current,      \* the application whose status Stack.Run is processing
  goroutine,    \* the goroutine of each application
  result,       \* what the client was told
  stackState,   \* the stored status of the stack
  appState      \* the stored statuses of its applications

locals == <<deps, skips, runningApps, statuses, closed, current, goroutine>>
vars == <<stateStorage, pc, deps, skips, runningApps, statuses, closed, current, goroutine,
          result, stackState, appState>>

-----------------------------------------------------------------------------
Phases == {"idle", "stage", "start", "skip", "await", "saveApp", "saveVars",
           "saveFailedApp", "failed", "succeeded", "done", "dead"}
Over == {"idle", "done", "dead"}

(* A goroutine runs Application.Run, holds its outcome until the channel   *)
(* takes it, and ends.  A crash of the server takes it away.               *)
Unreported == {"running", "ok", "error"}
GoroutineStates == Unreported \cup {"none", "reportedOk", "reportedError", "lost"}

Outcomes == {"ok", "error"}
Status == [app : Apps, outcome : Outcomes]

TypeOK ==
  /\ stateStorage \in StateStorages
  /\ pc \in [Runs -> Phases]
  /\ deps \in [Runs -> Stacks]
  /\ skips \in [Runs -> Seq(Patterns)]
  /\ runningApps \in [Runs -> [Apps -> {"absent", "Staging", "Running"}]]
  /\ statuses \in [Runs -> Seq(Status)]
  /\ closed \in [Runs -> BOOLEAN]
  /\ current \in [Runs -> Apps \cup {NoApp}]
  /\ goroutine \in [Runs -> [Apps -> GoroutineStates]]
  /\ result \in [Runs -> {"none", "ok", "error"}]
  /\ stackState \in {"absent", "Staging", "Running", "Failed"}
  /\ appState \in [Apps -> {"absent", "Running", "Failed"}]

Init ==
  /\ stateStorage \in StateStorages
  /\ pc = [r \in Runs |-> "idle"]
  /\ deps \in [Runs -> Stacks]
  /\ skips \in [Runs -> SkipChoices]
  /\ runningApps = [r \in Runs |-> [a \in Apps |-> "absent"]]
  /\ statuses = [r \in Runs |-> <<>>]
  /\ closed = [r \in Runs |-> FALSE]
  /\ current = [r \in Runs |-> NoApp]
  /\ goroutine = [r \in Runs |-> [a \in Apps |-> "none"]]
  /\ result = [r \in Runs |-> "none"]
  /\ stackState = "absent"
  /\ appState = [a \in Apps |-> "absent"]
-----------------------------------------------------------------------------
(* The state storage.  Cassandra overwrites, and a write that reports an   *)
(* error may still have been applied; the in-memory storage refuses a      *)
(* second SaveStackStatus and any other write before the first.            *)

CassandraSaveStackStatus(status, ok) ==
  \/ ok /\ stackState' = status
  \/ Faults /\ ~ok /\ stackState' \in {status, stackState}

InMemorySaveStackStatus(status, ok) ==
  /\ ok = (stackState = "absent")
  /\ stackState' = IF ok THEN status ELSE stackState

SaveStackStatus(status, ok) ==
  /\ \/ stateStorage = "cassandra" /\ CassandraSaveStackStatus(status, ok)
     \/ stateStorage = "memory" /\ InMemorySaveStackStatus(status, ok)
  /\ UNCHANGED appState

CassandraSaveApplicationStatus(a, status, ok) ==
  \/ ok /\ appState' = [appState EXCEPT ![a] = status]
  \/ Faults /\ ~ok /\ appState' \in {[appState EXCEPT ![a] = status], appState}

InMemorySaveApplicationStatus(a, status, ok) ==
  /\ ok = (stackState # "absent")
  /\ appState' = IF ok THEN [appState EXCEPT ![a] = status] ELSE appState

SaveApplicationStatus(a, status, ok) ==
  /\ \/ stateStorage = "cassandra" /\ CassandraSaveApplicationStatus(a, status, ok)
     \/ stateStorage = "memory" /\ InMemorySaveApplicationStatus(a, status, ok)
  /\ UNCHANGED stackState

(* The variables of a run are not modelled, only whether saving them works:*)
(* one row after the other in Cassandra, until one fails.                  *)
CassandraSaveStackVariables(ok) == ok \/ Faults
InMemorySaveStackVariables(ok) == ok = (stackState # "absent")

SaveStackVariables(ok) ==
  /\ \/ stateStorage = "cassandra" /\ CassandraSaveStackVariables(ok)
     \/ stateStorage = "memory" /\ InMemorySaveStackVariables(ok)
  /\ UNCHANGED <<stackState, appState>>

-----------------------------------------------------------------------------
(* Stack.Run                                                               *)

Goto(r, phase) == pc' = [pc EXCEPT ![r] = phase]

Return(r, verdict) ==
  /\ Goto(r, "done")
  /\ result' = [result EXCEPT ![r] = verdict]

(* Mutant: the channel has room for one status only. *)
CanSendOne(r) == Len(statuses[r]) < 1

(* A send blocks while the channel holds one status per application.       *)
CanSend(r) == Len(statuses[r]) < Cardinality(Apps)
Send(r, a, outcome) ==
  /\ CanSend(r)
  /\ statuses' = [statuses EXCEPT ![r] = Append(@, [app |-> a, outcome |-> outcome])]

(* Mutant: a dependency that was started counts as satisfied. *)
IsDependencyStarted(r, a) ==
  \A d \in deps[r][a] : d \in Apps /\ runningApps[r][d] # "absent"

IsDependencySatisfied(r, a) ==
  \A d \in deps[r][a] : d \in Apps /\ runningApps[r][d] = "Running"

Ready(r) ==
  {a \in Apps : runningApps[r][a] = "absent" /\ IsDependencySatisfied(r, a)}

RunApplications(r) ==
  /\ runningApps' = [runningApps EXCEPT ![r] =
       [a \in Apps |-> IF a \in Ready(r) THEN "Staging" ELSE @[a]]]
  /\ goroutine' = [goroutine EXCEPT ![r] =
       [a \in Apps |-> IF a \in Ready(r) THEN "running" ELSE @[a]]]

(* Mutant: the run counts the applications, whatever their status. *)
AllApplicationsStarted(r) == \A a \in Apps : runningApps[r][a] # "absent"

AllApplicationsRunning(r) == \A a \in Apps : runningApps[r][a] = "Running"

-----------------------------------------------------------------------------
(* RunHandler: the Mesos state is refreshed and the stack read, with its   *)
(* layers; any failure is the answer to the client.                        *)
AcceptRequest(r) ==
  /\ pc[r] = "idle"
  /\ Goto(r, "stage")
  /\ UNCHANGED <<locals, result, stackState, appState>>

RejectRequest(r) ==
  /\ pc[r] = "idle" /\ Faults
  /\ Return(r, "error")
  /\ UNCHANGED <<locals, stackState, appState>>

SaveStaging(r) ==
  /\ pc[r] = "stage"
  /\ \/ /\ SaveStackStatus("Staging", TRUE)
        /\ Goto(r, "start")
        /\ UNCHANGED result
     \/ /\ SaveStackStatus("Staging", FALSE)
        /\ Return(r, "error")
  /\ UNCHANGED locals

(* Validate, and Marathon.Info. *)
StartRun(r) ==
  /\ pc[r] = "start"
  /\ \/ Goto(r, "skip")
     \/ Faults /\ Goto(r, "failed")
  /\ UNCHANGED <<locals, result, stackState, appState>>
-----------------------------------------------------------------------------
(* markSkippedApps sends in the goroutine that will receive: nothing is    *)
(* received before it returns.                                             *)
SkipApplication(r, a) ==
  /\ pc[r] = "skip" /\ skips[r] # <<>>
  /\ Head(skips[r]) # BadPattern /\ a \in Head(skips[r])
  /\ runningApps' = [runningApps EXCEPT ![r][a] = "Running"]
  /\ Send(r, a, "ok")
  /\ skips' = [skips EXCEPT ![r][1] = @ \ {a}]
  /\ UNCHANGED <<pc, deps, closed, current, goroutine, result, stackState, appState>>

PatternDoesNotCompile(r) ==
  /\ pc[r] = "skip" /\ skips[r] # <<>> /\ Head(skips[r]) = BadPattern
  /\ Goto(r, "failed")
  /\ UNCHANGED <<locals, result, stackState, appState>>

NextPattern(r) ==
  /\ pc[r] = "skip" /\ skips[r] # <<>> /\ Head(skips[r]) = {}
  /\ skips' = [skips EXCEPT ![r] = Tail(@)]
  /\ UNCHANGED <<pc, deps, runningApps, statuses, closed, current, goroutine,
                 result, stackState, appState>>

RunFirstApplications(r) ==
  /\ pc[r] = "skip" /\ skips[r] = <<>>
  /\ RunApplications(r)
  /\ Goto(r, "await")
  /\ UNCHANGED <<deps, skips, statuses, closed, current, result, stackState, appState>>

(* One iteration of "for status := range statuses" receives a status and   *)
(* saves it.                                                               *)
Receive(r, outcome) ==
  /\ pc[r] = "await" /\ statuses[r] # <<>> /\ Head(statuses[r]).outcome = outcome
  /\ statuses' = [statuses EXCEPT ![r] = Tail(@)]
  /\ current' = [current EXCEPT ![r] = Head(statuses[r]).app]

ReceiveRunning(r) ==
  /\ Receive(r, "ok")
  /\ runningApps' = [runningApps EXCEPT ![r][Head(statuses[r]).app] = "Running"]
  /\ Goto(r, "saveApp")
  /\ UNCHANGED <<deps, skips, closed, goroutine, result, stackState, appState>>

ReceiveFailed(r) ==
  /\ Receive(r, "error")
  /\ Goto(r, "saveFailedApp")
  /\ UNCHANGED <<deps, skips, runningApps, closed, goroutine, result, stackState, appState>>

(* Mutants: the wrong status is stored for an application that failed. *)
SaveApplicationFailedAsRunning(r) ==
  /\ pc[r] = "saveFailedApp"
  /\ \E ok \in BOOLEAN : SaveApplicationStatus(current[r], "Running", ok)
  /\ Goto(r, "failed")
  /\ UNCHANGED <<locals, result>>

SaveApplicationFailedAsStaging(r) ==
  /\ pc[r] = "saveFailedApp"
  /\ \E ok \in BOOLEAN : SaveApplicationStatus(current[r], "Staging", ok)
  /\ Goto(r, "failed")
  /\ UNCHANGED <<locals, result>>

SaveApplicationFailed(r) ==
  /\ pc[r] = "saveFailedApp"
  /\ \E ok \in BOOLEAN : SaveApplicationStatus(current[r], "Failed", ok)
  /\ Goto(r, "failed")
  /\ UNCHANGED <<locals, result>>

SaveApplicationRunning(r) ==
  /\ pc[r] = "saveApp"
  /\ \E ok \in BOOLEAN :
       /\ SaveApplicationStatus(current[r], "Running", ok)
       /\ Goto(r, IF ok THEN "saveVars" ELSE "failed")
  /\ UNCHANGED <<locals, result>>

SaveVariablesFails(r) ==
  /\ pc[r] = "saveVars"
  /\ SaveStackVariables(FALSE)
  /\ Goto(r, "failed")
  /\ UNCHANGED <<locals, result>>

(* After a saved status the run is over, or more applications may start.   *)
CloseStatuses(r) ==
  /\ pc[r] = "saveVars" /\ AllApplicationsRunning(r)
  /\ SaveStackVariables(TRUE)
  /\ closed' = [closed EXCEPT ![r] = TRUE]
  /\ Goto(r, "succeeded")
  /\ UNCHANGED <<deps, skips, runningApps, statuses, current, goroutine, result>>

RunMoreApplications(r) ==
  /\ pc[r] = "saveVars" /\ ~AllApplicationsRunning(r)
  /\ SaveStackVariables(TRUE)
  /\ RunApplications(r)
  /\ Goto(r, "await")
  /\ UNCHANGED <<deps, skips, statuses, closed, current, result>>

(* runStack saves the outcome; only a lost success is reported. *)
SaveFailed(r) ==
  /\ pc[r] = "failed"
  /\ \E ok \in BOOLEAN : SaveStackStatus("Failed", ok)
  /\ Return(r, "error")
  /\ UNCHANGED locals

SaveRunning(r) ==
  /\ pc[r] = "succeeded"
  /\ \E ok \in BOOLEAN :
       /\ SaveStackStatus("Running", ok)
       /\ Return(r, IF ok THEN "ok" ELSE "error")
  /\ UNCHANGED locals

-----------------------------------------------------------------------------
(* runApplication: Application.Run returns, then the status is sent.       *)
ApplicationRunReturns(r, a) ==
  /\ goroutine[r][a] = "running"
  /\ \E outcome \in Outcomes :
       goroutine' = [goroutine EXCEPT ![r][a] = outcome]
  /\ UNCHANGED <<pc, deps, skips, runningApps, statuses, closed, current,
                 result, stackState, appState>>

SendStatus(r, a) ==
  /\ goroutine[r][a] \in Outcomes
  /\ Send(r, a, goroutine[r][a])
  /\ goroutine' = [goroutine EXCEPT ![r][a] =
       IF @ = "ok" THEN "reportedOk" ELSE "reportedError"]
  /\ UNCHANGED <<pc, deps, skips, runningApps, closed, current, result,
                 stackState, appState>>

(* The server stops: handlers, goroutines and channels are gone, and so is *)
(* what developer mode stored.  Requests still to come reach the next one. *)
Crash ==
  /\ \E r \in Runs : pc[r] \notin Over \/ \E a \in Apps : goroutine[r][a] \in Unreported
  /\ pc' = [r \in Runs |-> IF pc[r] \in Over THEN pc[r] ELSE "dead"]
  /\ goroutine' = [r \in Runs |-> [a \in Apps |->
       IF goroutine[r][a] \in Unreported THEN "lost" ELSE goroutine[r][a]]]
  /\ statuses' = [r \in Runs |-> <<>>]
  /\ \/ stateStorage = "cassandra" /\ UNCHANGED <<stackState, appState>>
     \/ /\ stateStorage = "memory"
        /\ stackState' = "absent"
        /\ appState' = [a \in Apps |-> "absent"]
  /\ UNCHANGED <<deps, skips, runningApps, closed, current, result>>

-----------------------------------------------------------------------------
RunStep(r) ==
  \/ SaveStaging(r) \/ StartRun(r)
  \/ \E a \in Apps : SkipApplication(r, a)
  \/ PatternDoesNotCompile(r) \/ NextPattern(r) \/ RunFirstApplications(r)
  \/ ReceiveRunning(r) \/ SaveApplicationRunning(r) \/ SaveVariablesFails(r)
  \/ CloseStatuses(r) \/ RunMoreApplications(r) \/ SaveRunning(r)
  \/ ReceiveFailed(r) \/ SaveApplicationFailed(r) \/ SaveFailed(r)

GoroutineStep(r, a) == ApplicationRunReturns(r, a) \/ SendStatus(r, a)

Next ==
  /\ \/ \E r \in Runs : AcceptRequest(r) \/ RejectRequest(r) \/ RunStep(r)
     \/ \E r \in Runs, a \in Apps : GoroutineStep(r, a)
     \/ Crash
  /\ UNCHANGED stateStorage

Spec == Init /\ [][Next]_vars

(* Handlers and goroutines are scheduled, and Application.Run returns.     *)
Fairness ==
  /\ \A r \in Runs : WF_vars(RunStep(r) /\ UNCHANGED stateStorage)
  /\ \A r \in Runs, a \in Apps : WF_vars(GoroutineStep(r, a) /\ UNCHANGED stateStorage)

FairSpec == Spec /\ Fairness
-----------------------------------------------------------------------------
(* Properties                                                              *)

Deployed(r, a) == goroutine[r][a] = "reportedOk"
Skipped(r, a) == goroutine[r][a] = "none" /\ runningApps[r][a] = "Running"
InPlace(r, a) == Deployed(r, a) \/ Skipped(r, a)

(* Stack.Run starts the goroutine of an application only when every        *)
(* dependency is an application of the stack that this run skipped or that *)
(* it deployed and heard of; a failed or silent dependency holds it back.  *)
DependenciesFirst ==
  \A r \in Runs, a \in Apps : goroutine[r][a] # "none" =>
    \A d \in deps[r][a] : d \in Apps /\ InPlace(r, d)

(* A goroutine of runApplication never sends on a closed channel, which    *)
(* would panic, nor blocks on a full one after Stack.Run has returned and  *)
(* nobody receives: the channel is open and has room for its status.       *)
SendersNeverStuck ==
  \A r \in Runs, a \in Apps :
    goroutine[r][a] \in Unreported => ~closed[r] /\ CanSend(r)

(* RunHandler answers 200 only when each application of the stack was      *)
(* skipped, or was deployed by this very run without an error.             *)
SuccessMeansDeployed ==
  \A r \in Runs : result[r] = "ok" => \A a \in Apps : InPlace(r, a)

(* The stored status of an application is the outcome some run really had: *)
(* no interleaving of runs, storage errors and crashes stores Running for  *)
(* an application that no run deployed or skipped, or Failed for one whose *)
(* Application.Run never failed.                                           *)
StoredAppsTruthful ==
  \A a \in Apps :
    /\ appState[a] = "Running" => \E r \in Runs : InPlace(r, a)
    /\ appState[a] = "Failed" => \E r \in Runs : goroutine[r][a] = "reportedError"

(* With one run at a time, a stack stored as Running has every application *)
(* stored as Running.  (When all applications are skipped Stack.Run returns*)
(* after the first status and stores only that one.)                       *)
StoredStackComplete ==
  \A r \in Runs : stackState = "Running" /\ (\E a \in Apps : Deployed(r, a)) =>
    \A a \in Apps : appState[a] = "Running"

(* A request that was accepted is answered, unless the server stops.       *)
RunReturns ==
  \A r \in Runs : pc[r] # "idle" ~> pc[r] \in {"done", "dead"}

(* No goroutine leaks: each one that was started reports its status, also  *)
(* after Stack.Run has returned, unless the server stops.                  *)
GoroutinesEnd ==
  \A r \in Runs, a \in Apps :
    goroutine[r][a] = "running" ~> goroutine[r][a] \notin Unreported

(* Running a stack does what Deployment promises: whatever the channels,   *)
(* storage errors, crashes and other runs do, a step of Stack.Run, of a    *)
(* goroutine or of the handler is one of Deployment's steps or invisible.  *)
StartedApps == [r \in Runs |-> {a \in Apps : goroutine[r][a] # "none"}]
AppsInPlace == [r \in Runs |-> {a \in Apps : InPlace(r, a)}]
Abstract == INSTANCE Deployment WITH
  needs <- deps, started <- StartedApps, inPlace <- AppsInPlace, verdict <- result
ImplementsDeployment == Abstract!Spec
-----------------------------------------------------------------------------
(* The inductive invariant behind the safety properties.                   *)

(* runningApps never runs ahead of the goroutines. *)
MapAgrees ==
  \A r \in Runs, a \in Apps :
    /\ runningApps[r][a] = "absent" => goroutine[r][a] = "none"
    /\ runningApps[r][a] = "Staging" => goroutine[r][a] # "none"
    /\ runningApps[r][a] = "Running" => goroutine[r][a] \in {"none", "reportedOk"}

NothingLaunchedEarly ==
  \A r \in Runs, a \in Apps :
    pc[r] \in {"idle", "stage", "start", "skip"} => goroutine[r][a] = "none"

(* A status, in the channel or being processed, is the outcome of its      *)
(* application.                                                            *)
Genuine(r, a, outcome) ==
  IF outcome = "ok" THEN InPlace(r, a) ELSE goroutine[r][a] = "reportedError"

ChannelGenuine ==
  \A r \in Runs : \A i \in 1..Len(statuses[r]) :
    Genuine(r, statuses[r][i].app, statuses[r][i].outcome)

CurrentOk(r) ==
  /\ pc[r] = "saveApp" => current[r] \in Apps /\ Genuine(r, current[r], "ok")
  /\ pc[r] = "saveFailedApp" => current[r] \in Apps /\ Genuine(r, current[r], "error")
CurrentGenuine == \A r \in Runs : CurrentOk(r)

VerdictGenuine ==
  \A r \in Runs : pc[r] = "succeeded" \/ closed[r] \/ result[r] = "ok" =>
    \A a \in Apps : InPlace(r, a)

(* A handler that has answered is done. *)
VerdictAtEnd == \A r \in Runs : result[r] # "none" => pc[r] = "done"

Inv ==
  /\ TypeOK /\ MapAgrees /\ NothingLaunchedEarly /\ ChannelGenuine
  /\ CurrentGenuine /\ VerdictGenuine /\ DependenciesFirst /\ StoredAppsTruthful

(* What keeps the statuses in a channel distinct: no application is        *)
(* matched by two skip flags, and one in the channel is not matched by a   *)
(* flag still to be applied.                                               *)
Disjoint(s) == \A i, j \in DOMAIN s : i # j => s[i] \cap s[j] = {}
DisjointSkips == \A s \in SkipChoices : Disjoint(s)

ChannelDistinct ==
  \A r \in Runs :
    /\ \A i, j \in 1..Len(statuses[r]) :
         statuses[r][i].app = statuses[r][j].app => i = j
    /\ pc[r] \in {"idle", "stage", "start"} => statuses[r] = <<>>
    /\ pc[r] \in {"idle", "stage", "start", "skip"} =>
         /\ Disjoint(skips[r])
         /\ \A i \in 1..Len(statuses[r]), j \in DOMAIN skips[r] :
              statuses[r][i].app \notin skips[r][j]

(* The statuses of skipped applications come before all others: none is    *)
(* left in the channel once a status of another one was received.          *)
ChannelSkipped(r, i) == goroutine[r][statuses[r][i].app] = "none"
SkippedFirst ==
  \A r \in Runs :
    /\ \A i, j \in 1..Len(statuses[r]) :
         i < j /\ ChannelSkipped(r, j) => ChannelSkipped(r, i)
    /\ (\E a \in Apps : runningApps[r][a] = "Running" /\ goroutine[r][a] # "none") =>
         \A i \in 1..Len(statuses[r]) : ~ChannelSkipped(r, i)

(* With a single run: while it goes well an application in place is        *)
(* stored, or about to be.                                                 *)
SingleRun == \A r, q \in Runs : r = q
InChannel(r, a) == \E i \in 1..Len(statuses[r]) : statuses[r][i].app = a
Due(r, a) ==
  \/ goroutine[r][a] = "none" /\ InChannel(r, a)
  \/ pc[r] = "saveApp" /\ current[r] = a
GoingWell == Phases \ {"saveFailedApp", "failed", "done", "dead"}
Kept(r, a) ==
  /\ pc[r] \in {"idle", "stage", "start"} => runningApps[r][a] # "Running"
  /\ pc[r] \in GoingWell /\ runningApps[r][a] = "Running" =>
       Due(r, a) \/ appState[a] = "Running"
SavedOrDue == \A r \in Runs, a \in Apps : Kept(r, a)

(* Running is stored last, and only after all applications were. *)
StoredAtEnd ==
  \A r \in Runs :
    /\ pc[r] = "succeeded" => closed[r]
    /\ stackState = "Running" => pc[r] = "done" /\ closed[r]
    /\ pc[r] = "succeeded" \/ stackState = "Running" =>
         \A a, b \in Apps : Deployed(r, a) => appState[b] = "Running"
=============================================================================
