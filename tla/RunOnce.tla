------------------------------ MODULE RunOnce ------------------------------
(***************************************************************************)
(* Run-once applications: RunOnceRunner and RunOnceApplicationContext of   *)
(* mesosrunners, the callbacks of framework/scheduler.go that feed them,   *)
(* and Application.runMesos, which waits for the outcome.                  *)
(*                                                                         *)
(* An application is staged by a goroutine that then waits on the status   *)
(* channel of its context.  Offers launch its tasks one by one, and the    *)
(* status updates of Mesos decide the outcome.  The runner finds a context *)
(* by the application ID in the task ID, so a later staging of the same    *)
(* application takes over from an earlier one.                             *)
(***************************************************************************)
EXTENDS Constraints

CONSTANTS
  Stagings,        \* the calls of StageApplication
  Apps,            \* application IDs
  AppOf,           \* the application each call stages
  Nobody,          \* no staging
  Instances,       \* the instances an application may ask for
  ConstraintSets,  \* the constraints an application may have
  Hosts,           \* the slaves that make offers
  Attributes,      \* the attributes of each host
  MesosStates,     \* what the Mesos state may hold: slaves, and how many are activated
  Reports,         \* the task states Mesos reports
  Faults           \* may LaunchTasks fail, and the server stop?

Terminal == {"FINISHED", "FAILED", "KILLED", "LOST", "ERROR"}
TaskStates == {"STAGING", "STARTING", "RUNNING"} \cup Terminal

(* "instances: all", as Validate refuses numbers below one. *)
AllSlaves == 0

(* The attributes of a list of hosts. *)
AttributesOf(hosts) == [i \in DOMAIN hosts |-> Attributes[hosts[i]]]

GetInstances(n, cs, mesos) ==
  IF n = AllSlaves
  THEN CalculateAllInstances(cs, AttributesOf(mesos.slaves), mesos.activated)
  ELSE n

ASSUME AppOfAssumption == AppOf \in [Stagings -> Apps] /\ Nobody \notin Stagings
ASSUME ConstraintsAssumption ==
  \A cs \in ConstraintSets : \A c \in cs :
    /\ c.kind \in {"LIKE", "UNLIKE", "UNIQUE", "CLUSTER", "GROUP_BY"}
    /\ c.kind = "GROUP_BY" => c.arg \in Int
ASSUME ReportsAssumption == Reports \subseteq TaskStates \ {"STAGING"} /\ Faults \in BOOLEAN

(* Instances are counted in natural numbers. *)
ASSUME InstancesAssumption ==
  \A n \in Instances, cs \in ConstraintSets, mesos \in MesosStates :
    GetInstances(n, cs, mesos) \in Nat

VARIABLES
  waiter,        \* the goroutine that staged: waiting, or with its outcome
  applications,  \* the map of that name in RunOnceRunner
  wanted,        \* the instances each staging asked for
  constraints,   \* and under which constraints
  left,          \* InstancesLeftToRun
  tasks,         \* the tasks of each context, as it knows them
  real,          \* what became of those tasks in Mesos
  updates        \* the updates of each task that are still to be acknowledged

vars == <<waiter, applications, wanted, constraints, left, tasks, real, updates>>

Task == [host : Hosts, state : TaskStates]

TypeOK ==
  /\ waiter \in [Stagings -> {"idle", "waiting", "ok", "error", "dead"}]
  /\ applications \in [Apps -> Stagings \cup {Nobody}]
  /\ wanted \in [Stagings -> Nat]
  /\ constraints \in [Stagings -> ConstraintSets \cup {{}}]
  /\ left \in [Stagings -> Nat]
  /\ tasks \in [Stagings -> Seq(Task)]
  /\ real \in [Stagings -> Seq(TaskStates \cup {"NEVER"})]
  /\ updates \in [Stagings -> Seq(Seq(TaskStates))]

Init ==
  /\ waiter = [s \in Stagings |-> "idle"]
  /\ applications = [a \in Apps |-> Nobody]
  /\ wanted = [s \in Stagings |-> 0]
  /\ constraints = [s \in Stagings |-> {}]
  /\ left = [s \in Stagings |-> 0]
  /\ tasks = [s \in Stagings |-> <<>>]
  /\ real = [s \in Stagings |-> <<>>]
  /\ updates = [s \in Stagings |-> <<>>]

-----------------------------------------------------------------------------
(* Nothing to run is a success; otherwise a new context replaces any other *)
(* of the application.                                                     *)
StageApplication(s, n, cs, mesos) ==
  /\ waiter[s] = "idle"
  /\ wanted' = [wanted EXCEPT ![s] = GetInstances(n, cs, mesos)]
  /\ constraints' = [constraints EXCEPT ![s] = cs]
  /\ \/ /\ GetInstances(n, cs, mesos) = 0
        /\ waiter' = [waiter EXCEPT ![s] = "ok"]
        /\ UNCHANGED <<applications, left>>
     \/ /\ GetInstances(n, cs, mesos) # 0
        /\ waiter' = [waiter EXCEPT ![s] = "waiting"]
        /\ applications' = [applications EXCEPT ![AppOf[s]] = s]
        /\ left' = [left EXCEPT ![s] = GetInstances(n, cs, mesos)]
  /\ UNCHANGED <<tasks, real, updates>>

(* Mutant: only running tasks count for the constraints. *)
RunningTasksAttributes(s) ==
  [i \in {i \in DOMAIN tasks[s] : tasks[s][i].state = "RUNNING"} |-> Attributes[tasks[s][i].host]]

(* The tasks that count for the constraints: those that are starting do not. *)
OtherTasksAttributes(s) ==
  [i \in {i \in DOMAIN tasks[s] : tasks[s][i].state # "STARTING"} |-> Attributes[tasks[s][i].host]]

(* Mutant: the instances left are not looked at. *)
OfferMatchesAlways(s, h) ==
  AllMatch(constraints[s], Attributes[h], OtherTasksAttributes(s))

(* An offer of a host, with resources enough, matches a context. *)
OfferMatches(s, h) ==
  /\ left[s] # 0
  /\ AllMatch(constraints[s], Attributes[h], OtherTasksAttributes(s))

(* Mutant: a launch that fails is not counted. *)
ResourceOfferUncounted(s, h) ==
  /\ applications[AppOf[s]] = s /\ OfferMatches(s, h)
  /\ tasks' = [tasks EXCEPT ![s] = Append(@, [host |-> h, state |-> "STAGING"])]
  /\ \E outcome \in {"STAGING"} \cup (IF Faults THEN {"NEVER"} ELSE {}) :
       /\ real' = [real EXCEPT ![s] = Append(@, outcome)]
       /\ left' = [left EXCEPT ![s] = IF outcome = "NEVER" THEN @ ELSE @ - 1]
  /\ updates' = [updates EXCEPT ![s] = Append(@, <<>>)]
  /\ UNCHANGED <<waiter, applications, wanted, constraints>>

(* LaunchTask counts the instance before it asks the driver, and keeps it  *)
(* when the driver fails.  Which of several matching contexts is taken     *)
(* depends on the order of the map.                                        *)
ResourceOffer(s, h) ==
  /\ applications[AppOf[s]] = s /\ OfferMatches(s, h)
  /\ left' = [left EXCEPT ![s] = @ - 1]
  /\ tasks' = [tasks EXCEPT ![s] = Append(@, [host |-> h, state |-> "STAGING"])]
  /\ \E outcome \in {"STAGING"} \cup (IF Faults THEN {"NEVER"} ELSE {}) :
       real' = [real EXCEPT ![s] = Append(@, outcome)]
  /\ updates' = [updates EXCEPT ![s] = Append(@, <<>>)]
  /\ UNCHANGED <<waiter, applications, wanted, constraints>>

-----------------------------------------------------------------------------
(* Mesos moves a task forward and reports it; an executor may leave out    *)
(* the states before the last.                                             *)
Follows(state) ==
  CASE state = "STAGING" -> {"STARTING", "RUNNING"} \cup Terminal
    [] state = "STARTING" -> {"RUNNING"} \cup Terminal
    [] state = "RUNNING" -> Terminal
    [] OTHER -> {}

TaskMoves(s, i) ==
  /\ \E state \in Follows(real[s][i]) \cap Reports :
       /\ real' = [real EXCEPT ![s][i] = state]
       /\ updates' = [updates EXCEPT ![s][i] = Append(@, state)]
  /\ UNCHANGED <<waiter, applications, wanted, constraints, left, tasks>>

(* The context that handles an update of a task of staging s: the latest   *)
(* one of its application.                                                 *)
Handler(s) == applications[AppOf[s]]

(* updateTaskState: a context knows only its own tasks.                    *)
UpdateTaskState(s, i, state) ==
  tasks' = IF Handler(s) = s THEN [tasks EXCEPT ![s][i].state = state] ELSE tasks

(* Mutant: a task that was killed fails the application. *)
FailedOrKilled == {"LOST", "FAILED", "ERROR", "KILLED"}

Failed == {"LOST", "FAILED", "ERROR"}
Ended == {"FINISHED", "KILLED"}

(* Mutant: instances still to be launched are forgotten. *)
KnownTasksFinished(s, seen) ==
  \A i \in DOMAIN seen : seen[i].state \in Ended

AllTasksFinished(s, seen) ==
  left[s] = 0 /\ \A i \in DOMAIN seen : seen[i].state \in Ended

(* Mutants: the context is kept, or dropped without a word. *)
ReportAndKeep(s, outcome) ==
  /\ waiter' = [waiter EXCEPT ![s] = outcome]
  /\ UNCHANGED applications

ReportNothing(s, outcome) ==
  /\ applications' = [applications EXCEPT ![AppOf[s]] = Nobody]
  /\ UNCHANGED waiter

(* The outcome goes to the waiter of the context, which is then dropped.   *)
Report(s, outcome) ==
  /\ waiter' = [waiter EXCEPT ![s] = outcome]
  /\ applications' = [applications EXCEPT ![AppOf[s]] = Nobody]

(* Updates of a task arrive in order, each until it is acknowledged: one   *)
(* whose acknowledgement is lost is delivered again.                       *)
Acknowledge(s, i, acknowledged) ==
  updates' = IF acknowledged THEN [updates EXCEPT ![s][i] = Tail(@)] ELSE updates

HandleUpdate(s, i, state) ==
  LET c == Handler(s) IN
  /\ c # Nobody
  /\ UpdateTaskState(s, i, state)
  /\ \/ state \in Failed /\ Report(c, "error")
     \/ state \in Ended /\ AllTasksFinished(c, tasks'[c]) /\ Report(c, "ok")
     \/ /\ state \notin Failed
        /\ ~(state \in Ended /\ AllTasksFinished(c, tasks'[c]))
        /\ UNCHANGED <<waiter, applications>>

StatusUpdate(s, i, acknowledged) ==
  /\ updates[s][i] # <<>>
  /\ Acknowledge(s, i, acknowledged)
  /\ \/ HandleUpdate(s, i, Head(updates[s][i]))
     \/ Handler(s) = Nobody /\ UNCHANGED <<waiter, applications, tasks>>
  /\ UNCHANGED <<wanted, constraints, left, real>>

(* The server stops.  Its contexts and waiters are gone; the tasks go on.  *)
Crash ==
  /\ Faults /\ \E s \in Stagings : waiter[s] = "waiting"
  /\ waiter' = [s \in Stagings |-> IF waiter[s] = "waiting" THEN "dead" ELSE waiter[s]]
  /\ applications' = [a \in Apps |-> Nobody]
  /\ UNCHANGED <<wanted, constraints, left, tasks, real, updates>>

-----------------------------------------------------------------------------
Next ==
  \/ \E s \in Stagings, n \in Instances, cs \in ConstraintSets, mesos \in MesosStates :
       StageApplication(s, n, cs, mesos)
  \/ \E s \in Stagings, h \in Hosts : ResourceOffer(s, h)
  \/ \E s \in Stagings : \E i \in DOMAIN real[s] :
       TaskMoves(s, i) \/ \E acknowledged \in BOOLEAN : StatusUpdate(s, i, acknowledged)
  \/ Crash

Spec == Init /\ [][Next]_vars

(* Every slave goes on making offers, tasks end, and updates are retried   *)
(* until they are acknowledged.                                            *)
Fairness ==
  /\ \A s \in Stagings, h \in Hosts : WF_vars(ResourceOffer(s, h))
  /\ \A s \in Stagings : \A i \in 1..Cardinality(Hosts) :
       /\ WF_vars(i \in DOMAIN real[s] /\ TaskMoves(s, i))
       /\ WF_vars(i \in DOMAIN real[s] /\ StatusUpdate(s, i, TRUE))

FairSpec == Spec /\ Fairness
-----------------------------------------------------------------------------
(* A success is never claimed early: all instances the application asked   *)
(* for were launched, and each of them is over in Mesos without a failure. *)
SuccessMeansOver ==
  \A s \in Stagings : waiter[s] = "ok" =>
    /\ Len(real[s]) = wanted[s]
    /\ \A i \in DOMAIN real[s] : real[s][i] \in Ended

(* "Run-once tasks are run exactly once": offers, repeated updates and     *)
(* failed launches never lead to more tasks than instances.                *)
NeverTooManyTasks ==
  \A s \in Stagings : Len(tasks[s]) + left[s] = wanted[s]

(* StatusUpdate sends on an unbuffered channel while it holds the locks of *)
(* the runner and the context, in the driver's callback.  The context it   *)
(* sends for always has its goroutine waiting, so no callback hangs.       *)
SendNeverBlocks ==
  \A a \in Apps : applications[a] # Nobody =>
    AppOf[applications[a]] = a /\ waiter[applications[a]] = "waiting"

(* What a constraint asks of the tasks of one application.                 *)
Placed(s, attr) == [i \in DOMAIN tasks[s] |-> Attributes[tasks[s][i].host][attr]]
Respected(c, values) ==
  CASE c.kind = "UNIQUE" -> IsInjective(values)
    [] c.kind = "CLUSTER" -> \A v, w \in Range(values) : v = w
    [] c.kind = "GROUP_BY" ->
         \A v, w \in Range(values) : CountOf(values, v) <= CountOf(values, w) + 1
    [] c.kind = "LIKE" -> Range(values) \subseteq c.arg
    [] c.kind = "UNLIKE" -> Range(values) \cap c.arg = {}

(* The tasks of an application satisfy its constraints together: whatever  *)
(* the order of offers and updates, UNIQUE values differ, a CLUSTER has    *)
(* one, and groups are balanced.                                           *)
ConstraintsRespected ==
  \A s \in Stagings : \A c \in constraints[s] : Respected(c, Placed(s, c.attr))

(* A failure is never made up: an application is reported as failed only   *)
(* when a task of it really failed or was lost in Mesos, in this staging   *)
(* or in an earlier one whose late updates the later one is handed.        *)
FailureMeansFailed ==
  \A s \in Stagings : waiter[s] = "error" =>
    \E t \in Stagings : AppOf[t] = AppOf[s] /\
      \E i \in DOMAIN real[t] : real[t][i] \in {"LOST", "FAILED", "ERROR"}

(* Whoever staged an application gets its outcome, unless the server       *)
(* stops.                                                                  *)
StagedAnswered ==
  \A s \in Stagings : waiter[s] = "waiting" ~> waiter[s] # "waiting"
-----------------------------------------------------------------------------
(* The parts of the invariant that makes the safety properties inductive.  *)

(* The lists of tasks, outcomes and updates grow together. *)
SameTasks ==
  \A s \in Stagings : Len(real[s]) = Len(tasks[s]) /\ Len(updates[s]) = Len(tasks[s])

(* A staging has nothing before StageApplication. *)
NothingBefore ==
  \A s \in Stagings : waiter[s] = "idle" => tasks[s] = <<>> /\ left[s] = 0

(* An end that a context has recorded, or that is on its way to it, is the *)
(* end the task came to.                                                   *)
IsReal(s, i, state) == state \in Terminal => real[s][i] = state
EndsAreReal ==
  \A s \in Stagings : \A i \in DOMAIN tasks[s] :
    /\ IsReal(s, i, tasks[s][i].state)
    /\ \A k \in DOMAIN updates[s][i] : IsReal(s, i, updates[s][i][k])

(* All of it: what holds of contexts, tasks and waiters after every        *)
(* callback of the driver, in whatever order they come.                    *)
Inv ==
  /\ TypeOK
  /\ SameTasks
  /\ NothingBefore
  /\ EndsAreReal
  /\ SendNeverBlocks
  /\ NeverTooManyTasks
  /\ SuccessMeansOver

-----------------------------------------------------------------------------
(* The invariant of placement, for executors that never report STARTING:   *)
(* every task counts for the constraints, and has their attributes.        *)
NeverStarting == "STARTING" \notin Reports

AllCount ==
  \A s \in Stagings : \A i \in DOMAIN tasks[s] :
    /\ tasks[s][i].state # "STARTING"
    /\ \A k \in DOMAIN updates[s][i] : updates[s][i][k] # "STARTING"
    /\ \A c \in constraints[s] : Attributes[tasks[s][i].host][c.attr] # NoValue

(* What makes Respected inductive: a CLUSTER with a value has that one, and *)
(* as long as a GROUP_BY has groups to open, each of them has one task.    *)
Placing(c, values) ==
  /\ Respected(c, values)
  /\ c.kind = "CLUSTER" /\ c.arg # NoValue => Range(values) \subseteq {c.arg}
  /\ c.kind = "GROUP_BY" /\ Cardinality(Range(values)) < c.arg => IsInjective(values)

PlacementInv ==
  AllCount /\ \A s \in Stagings : \A c \in constraints[s] : Placing(c, Placed(s, c.attr))
=============================================================================
