--------------------------- MODULE ApplicationRun ---------------------------
(***************************************************************************)
(* Application.Run of framework/application.go: variables are resolved,    *)
(* shell commands run, the application is deployed and awaited, and its    *)
(* tasks are started through a task runner.                                *)
(*                                                                         *)
(* A job is one call of Application.Run, in a goroutine of its own.  The   *)
(* jobs of one run share the variables of its context.  The jobs of one    *)
(* application, in different runs, share the application in Marathon, the  *)
(* script files in the working directory and the tasks of its scheduler.   *)
(* How Stack.Run starts the jobs is in StackRun, and how run-once          *)
(* applications get their outcome in RunOnce.                              *)
(***************************************************************************)
EXTENDS TaskRunners

CONSTANTS
  Runs,          \* the runs of a stack
  Apps,          \* the applications of the stack
  Application,   \* their descriptions
  Vars,          \* names of variables
  RunRequests,   \* what the runs may be requested with
  MaxWait,       \* --max.wait
  StackStorages, \* "cassandra", and "memory" for developer mode
  Faults,        \* may what is outside the server fail?
  Unset,         \* no value
  NoFile,        \* no script file
  Part           \* a script file without the whole commands of a run

(* The texts of an application in which variables are resolved.            *)
Scripts == {"beforeScheduler", "afterScheduler", "beforeTask", "afterTask", "afterTasks"}
Sections == Scripts \cup {"launch", "task"}

Types == Runners \cup {"run-once", "marathon"}
HasRunner(a) == Application[a].type \in Runners
Calls(a) == RunTaskCalls[Application[a].type]

(* Validate refuses tasks without a task runner. *)
ASSUME ApplicationAssumption ==
  \A a \in Apps :
    /\ Application[a].type \in Types
    /\ Application[a].tasks \in Nat
    /\ Application[a].tasks > 0 => HasRunner(a)
    /\ Application[a].scripts \subseteq Scripts
    /\ Application[a].dependencies \subseteq Apps
    /\ Application[a].publishes \subseteq Vars /\ Application[a].connects \subseteq Vars

ASSUME ModeAssumption ==
  StackStorages \subseteq {"cassandra", "memory"} /\ Faults \in BOOLEAN /\ MaxWait \in Nat

(* A variable is global, arbitrary (given with the request) or set while   *)
(* the stack runs; its value is told by that and by the run.               *)
Kinds == {"global", "arbitrary", "stack"}
Value == [kind : Kinds, run : Runs]

(* A request comes with variables and with the applications to skip.       *)
Request == [variables : [Kinds -> SUBSET Vars], skip : SUBSET Apps]

ASSUME VarsAssumption == RunRequests \subseteq [Runs -> Request] /\ Unset \notin Value
ASSUME FilesAssumption == NoFile \notin Runs \cup {Part} /\ Part \notin Runs

Jobs == Runs \X Apps

VARIABLES
  storage,    \* the stack storage the server was started with
  skipped,    \* the applications each run skips
  pc,         \* where each job is
  section,    \* the text it is working on
  task,       \* the task it is running
  call,       \* the call RunTask makes for it
  tries,      \* the checks awaitRunningAndHealthy has made
  variables,  \* the names set in each run, by kind
  text,       \* the references in each text, with the values put in
  files,      \* whose commands each script file holds
  shared,     \* the jobs and scripts whose file another run had as well
  foreign,    \* those that executed other commands than their own
  marathon,   \* the applications in Marathon
  nodes,      \* the tasks in the schedulers of the applications
  trace       \* what each job has done

control == <<pc, section, task, call, tries>>
vars == <<storage, skipped, pc, section, task, call, tries, variables, text, files, shared,
          foreign, marathon, nodes, trace>>
outside == <<files, shared, foreign, marathon, nodes>>

Ended == {"ok", "unresolved", "error"}
Phases == {"idle", "resolve", "open", "write", "exec", "removeOk", "removeFailed",
           "deploy", "await", "fill", "call"} \cup Ended

(* A task that was started may get to serve. *)
NodeStates == {"absent", "added", "started", "serving"}

TypeOK ==
  /\ storage \in StackStorages
  /\ skipped \in [Runs -> SUBSET Apps]
  /\ pc \in [Jobs -> Phases]
  /\ section \in [Jobs -> Sections]
  /\ task \in [Jobs -> Nat]
  /\ call \in [Jobs -> Nat]
  /\ tries \in [Jobs -> 0..MaxWait + 1]
  /\ variables \in [Runs -> [Kinds -> SUBSET Vars]]
  /\ \A j \in Jobs, s \in Sections :
       text[j][s] \in [Application[j[2]].refs[s] -> Value \cup {Unset}]
  /\ files \in [Apps -> [Scripts -> Runs \cup {NoFile, Part}]]
  /\ shared \subseteq Jobs \X Scripts /\ foreign \subseteq Jobs \X Scripts
  /\ marathon \in [Apps -> {"absent", "deployed", "running", "healthy"}]
  /\ \A a \in Apps : nodes[a] \in [1..Application[a].tasks -> NodeStates]
  /\ trace \in [Jobs -> Seq(Sections)]

Init ==
  /\ storage \in StackStorages
  /\ pc = [j \in Jobs |-> "idle"]
  /\ section = [j \in Jobs |-> "beforeScheduler"]
  /\ task = [j \in Jobs |-> 0]
  /\ call = [j \in Jobs |-> 0]
  /\ tries = [j \in Jobs |-> 0]
  /\ \E request \in RunRequests :
       /\ variables = [r \in Runs |-> request[r].variables]
       /\ skipped = [r \in Runs |-> request[r].skip]
  /\ text = [j \in Jobs |-> [s \in Sections |-> [v \in Application[j[2]].refs[s] |-> Unset]]]
  /\ files = [a \in Apps |-> [s \in Scripts |-> NoFile]]
  /\ shared = {} /\ foreign = {}
  /\ marathon = [a \in Apps |-> "absent"]
  /\ nodes = [a \in Apps |-> [t \in 1..Application[a].tasks |-> "absent"]]
  /\ trace = [j \in Jobs |-> <<>>]

-----------------------------------------------------------------------------
(* Variables.Get and All: a stack variable hides an arbitrary one, and     *)
(* that a global one.                                                      *)
Lookup(r, v) ==
  CASE v \in variables[r]["stack"] -> [kind |-> "stack", run |-> r]
    [] v \in variables[r]["arbitrary"] \ variables[r]["stack"] ->
         [kind |-> "arbitrary", run |-> r]
    [] v \in variables[r]["global"] \ (variables[r]["arbitrary"] \cup variables[r]["stack"]) ->
         [kind |-> "global", run |-> r]
    [] OTHER -> Unset

SetStackVariables(r, names) ==
  variables' = [variables EXCEPT ![r]["stack"] = @ \cup names]

(* resolveVariables puts values into all texts of the application.  What   *)
(* was put in stays.  Developer mode hands out the stored stack itself, so *)
(* that the runs of one application change the same texts.                 *)
Substitute(j) ==
  [s \in Sections |-> [v \in DOMAIN text[j][s] |->
     IF text[j][s][v] = Unset THEN Lookup(j[1], v) ELSE text[j][s][v]]]

SameObject(j, k) == k = j \/ (storage = "memory" /\ k[2] = j[2])

ResolveVariables(j) ==
  text' = [k \in Jobs |-> IF SameObject(j, k) THEN Substitute(j) ELSE text[k]]

Resolved(t, s) == \A v \in DOMAIN t[s] : t[s][v] # Unset

(* Mutant: only the launch command is checked. *)
ChecksLaunchOnly(s) == {"launch"}

(* What ensureVariablesResolved checks before a script.  A task is handed  *)
(* to it as a yaml.MapItem, a type it does not look into.                  *)
Checked(s) == IF s = "beforeScheduler" THEN {"beforeScheduler", "launch"} ELSE {s}

-----------------------------------------------------------------------------
Goto(j, phase) ==
  /\ pc' = [pc EXCEPT ![j] = phase]
  /\ UNCHANGED <<section, task, call, tries>>

(* The next text to resolve. *)
Begin(j, s, t) ==
  /\ pc' = [pc EXCEPT ![j] = "resolve"]
  /\ section' = [section EXCEPT ![j] = s]
  /\ task' = [task EXCEPT ![j] = t]
  /\ call' = [call EXCEPT ![j] = 0]
  /\ UNCHANGED tries

(* The first or the next task, or the commands after all tasks. *)
BeginTask(j) ==
  IF task[j] < Application[j[2]].tasks
  THEN Begin(j, "beforeTask", task[j] + 1)
  ELSE Begin(j, "afterTasks", task[j])

(* Where Run goes when the commands of a section are through. *)
AfterScript(j) ==
  CASE section[j] = "beforeScheduler" -> Goto(j, "deploy")
    [] section[j] = "afterScheduler" ->
         IF HasRunner(j[2]) THEN Goto(j, "fill") ELSE Begin(j, "afterTasks", 0)
    [] section[j] = "beforeTask" ->
         /\ pc' = [pc EXCEPT ![j] = "call"]
         /\ call' = [call EXCEPT ![j] = 1]
         /\ UNCHANGED <<section, task, tries>>
    [] section[j] = "afterTask" -> BeginTask(j)
    [] section[j] = "afterTasks" -> Goto(j, "ok")

(* Something is done: a script, the launch or a task. *)
Did(j, s) == trace' = [trace EXCEPT ![j] = Append(@, s)]

-----------------------------------------------------------------------------
(* Mutant: the dependencies are not waited for. *)
StartAtOnce(j) ==
  /\ pc[j] = "idle" /\ j[2] \notin skipped[j[1]]
  /\ Goto(j, "resolve")
  /\ UNCHANGED <<variables, text, outside, trace>>

(* Stack.Run starts an application when its dependencies are running.  One *)
(* that is skipped counts as running, though nothing was run.              *)
Start(j) ==
  /\ pc[j] = "idle" /\ j[2] \notin skipped[j[1]]
  /\ \A d \in Application[j[2]].dependencies \ skipped[j[1]] : pc[<<j[1], d>>] = "ok"
  /\ Goto(j, "resolve")
  /\ UNCHANGED <<variables, text, outside, trace>>

(* Variables are resolved and checked; without commands no file is made.   *)
Resolve(j) ==
  /\ pc[j] = "resolve"
  /\ ResolveVariables(j)
  /\ LET resolved == \A s \in Checked(section[j]) : Resolved(text'[j], s) IN
       \/ ~resolved /\ Goto(j, "unresolved")
       \/ resolved /\ section[j] \in Application[j[2]].scripts /\ Goto(j, "open")
       \/ resolved /\ section[j] \notin Application[j[2]].scripts /\ AfterScript(j)
  /\ UNCHANGED <<variables, outside, trace>>

(* executeCommands: a file named after the application and the section is  *)
(* written, run and removed, by every run of the application.              *)
File(j) == files[j[2]][section[j]]
SetFile(j, content) == files' = [files EXCEPT ![j[2]][section[j]] = content]

(* The other jobs that are between opening this file and removing it. *)
Scripting == {"write", "exec", "removeOk", "removeFailed"}
Sharers(j) == {k \in Jobs \ {j} : k[2] = j[2] /\ section[k] = section[j] /\ pc[k] \in Scripting}
Shares(j) == <<j, section[j]>> \in shared

(* Mutant: a file that is there is not truncated. *)
OpenScriptAsItIs(j) ==
  /\ pc[j] = "open"
  /\ \/ /\ IF File(j) = NoFile THEN SetFile(j, Part) ELSE UNCHANGED files
        /\ shared' = shared \cup
             (IF Sharers(j) = {} THEN {} ELSE {<<k, section[j]>> : k \in Sharers(j) \cup {j}})
        /\ Goto(j, "write")
     \/ Faults /\ Goto(j, "error") /\ UNCHANGED <<files, shared>>
  /\ UNCHANGED <<variables, text, foreign, marathon, nodes, trace>>

(* WriteFile makes the file, or truncates the one that is there. *)
OpenScript(j) ==
  /\ pc[j] = "open"
  /\ \/ /\ SetFile(j, Part)
        /\ shared' = shared \cup
             (IF Sharers(j) = {} THEN {} ELSE {<<k, section[j]>> : k \in Sharers(j) \cup {j}})
        /\ Goto(j, "write")
     \/ Faults /\ Goto(j, "error") /\ UNCHANGED <<files, shared>>
  /\ UNCHANGED <<variables, text, foreign, marathon, nodes, trace>>

(* It then writes the commands.  What is written over other commands may   *)
(* be mixed with them; when two runs share the file, a text may also go to *)
(* a file whose name the other one has removed.                            *)
WriteScript(j) ==
  /\ pc[j] = "write"
  /\ \/ /\ File(j) # NoFile
        /\ SetFile(j, j[1]) \/ ((Shares(j) \/ File(j) # Part) /\ SetFile(j, Part))
        /\ Goto(j, "exec") \/ (Faults /\ Goto(j, "error"))
     \/ Shares(j) /\ Goto(j, "exec") /\ UNCHANGED files
     \/ Faults /\ Goto(j, "error") /\ UNCHANGED files
  /\ UNCHANGED <<variables, text, shared, foreign, marathon, nodes, trace>>

(* The shell executes what it finds in the file, whoever wrote it, and may *)
(* find parts of several runs' commands while the file is shared.          *)
ExecScript(j) ==
  /\ pc[j] = "exec"
  /\ \/ /\ File(j) # NoFile
        /\ \E content \in {File(j)} \cup (IF Shares(j) THEN {Part} ELSE {}) :
             /\ foreign' = foreign \cup (IF content = j[1] THEN {} ELSE {<<j, section[j]>>})
             /\ Goto(j, "removeOk") \/ ((Faults \/ content = Part) /\ Goto(j, "removeFailed"))
        /\ Did(j, section[j])
     \/ /\ File(j) = NoFile
        /\ Goto(j, "removeFailed")
        /\ UNCHANGED <<foreign, trace>>
  /\ UNCHANGED <<variables, text, files, shared, marathon, nodes>>

RemoveScript(j) ==
  /\ SetFile(j, NoFile)
  /\ \/ pc[j] = "removeOk" /\ AfterScript(j)
     \/ pc[j] = "removeFailed" /\ Goto(j, "error")
  /\ UNCHANGED <<variables, text, shared, foreign, marathon, nodes, trace>>

-----------------------------------------------------------------------------
(* runMesos: the run-once runner reports the outcome. *)
RunMesos(j) ==
  /\ pc[j] = "deploy" /\ Application[j[2]].type = "run-once"
  /\ \/ Did(j, "launch") /\ Begin(j, "afterScheduler", 0)
     \/ Faults /\ Goto(j, "error") /\ UNCHANGED trace
  /\ UNCHANGED <<variables, text, outside>>

(* runMarathon: Marathon refuses an application that exists. *)
CreateApplication(j) ==
  /\ pc[j] = "deploy" /\ Application[j[2]].type # "run-once"
  /\ \/ /\ marathon[j[2]] = "absent"
        /\ marathon' = [marathon EXCEPT ![j[2]] = "deployed"]
        /\ Goto(j, "await") \/ (Faults /\ Goto(j, "error"))
     \/ /\ marathon[j[2]] # "absent" \/ Faults
        /\ Goto(j, "error") /\ UNCHANGED marathon
  /\ UNCHANGED <<variables, text, files, shared, foreign, nodes, trace>>

Up(a) == marathon[a] = "healthy" \/ (marathon[a] = "running" /\ ~Application[a].healthcheck)

(* Mutants: one check too many, and checks that are not counted. *)
CheckOnceMore(j) ==
  /\ pc[j] = "await"
  /\ \/ Up(j[2]) /\ Did(j, "launch") /\ Begin(j, "afterScheduler", 0)
     \/ /\ ~Up(j[2]) \/ Faults
        /\ tries' = [tries EXCEPT ![j] = @ + 1]
        /\ pc' = [pc EXCEPT ![j] = IF tries[j] <= MaxWait THEN @ ELSE "error"]
        /\ UNCHANGED <<section, task, call, trace>>
  /\ UNCHANGED <<variables, text, outside>>

CheckForever(j) ==
  /\ pc[j] = "await"
  /\ \/ Up(j[2]) /\ Did(j, "launch") /\ Begin(j, "afterScheduler", 0)
     \/ (~Up(j[2]) \/ Faults) /\ UNCHANGED <<control, trace>>
  /\ UNCHANGED <<variables, text, outside>>

(* One check of awaitRunningAndHealthy; the one after MaxWait is the last. *)
CheckRunningAndHealthy(j) ==
  /\ pc[j] = "await"
  /\ \/ Up(j[2]) /\ Did(j, "launch") /\ Begin(j, "afterScheduler", 0)
     \/ /\ ~Up(j[2]) \/ Faults
        /\ tries' = [tries EXCEPT ![j] = @ + 1]
        /\ pc' = [pc EXCEPT ![j] = IF tries[j] < MaxWait THEN @ ELSE "error"]
        /\ UNCHANGED <<section, task, call, trace>>
  /\ UNCHANGED <<variables, text, outside>>

(* Marathon brings an application up, and loses it again. *)
MarathonMoves(a) ==
  /\ marathon[a] # "absent"
  /\ \E state \in {"running", "healthy"} \cup (IF Faults THEN {"deployed"} ELSE {}) :
       marathon' = [marathon EXCEPT ![a] = state]
  /\ UNCHANGED <<control, variables, text, files, shared, foreign, nodes, trace>>

-----------------------------------------------------------------------------
(* fillContext: the variables a deployed application publishes.  The       *)
(* runner of Elasticsearch then awaits its tasks and publishes where they  *)
(* are, or gives up.                                                       *)
FillContext(j) ==
  /\ pc[j] = "fill"
  /\ LET a == Application[j[2]] IN
       \/ /\ marathon[j[2]] # "absent"
          /\ a.type # "elasticsearch"
          /\ SetStackVariables(j[1], a.publishes)
          /\ BeginTask(j)
       \/ /\ marathon[j[2]] # "absent"
          /\ a.type = "elasticsearch"
          /\ \/ SetStackVariables(j[1], a.publishes \cup a.connects) /\ BeginTask(j)
             \/ SetStackVariables(j[1], a.publishes) /\ Goto(j, "error")
       \/ /\ marathon[j[2]] \notin {"running", "healthy"} \/ Faults
          /\ Goto(j, "error") /\ UNCHANGED variables
  /\ UNCHANGED <<text, outside, trace>>

(* What a call does to the task in the scheduler, and the answers to it. A *)
(* call whose answer is lost may have had its effect.                      *)
Effect(c, node) ==
  CASE c \in {"add", "update"} /\ node = "absent" -> "added"
    [] c = "start" /\ node = "added" -> "started"
    [] OTHER -> node

(* AwaitZookeeperRunning asks again and again, without a bound, until what *)
(* was started serves.                                                     *)
Answers(c, node) ==
  CASE c = "add" /\ node # "absent" -> {"duplicate"}
    [] c = "addCluster" -> {"ok", "duplicate"}
    [] c = "start" /\ node = "absent" -> {"error"}
    [] c = "await" /\ node = "started" -> {}
    [] c = "unsupported" -> {"error"}
    [] OTHER -> {"ok"}

Replies(c, node) ==
  {<<answer, Effect(c, node)>> : answer \in Answers(c, node)} \cup
  (IF Faults THEN {"error", "garbage"} \X {node, Effect(c, node)} ELSE {})

NodeServes(a, t) ==
  /\ nodes[a][t] = "started"
  /\ nodes' = [nodes EXCEPT ![a][t] = "serving"]
  /\ UNCHANGED <<control, variables, text, files, shared, foreign, marathon, trace>>

(* RunTask: one call after the other, until one is not accepted. *)
RunTask(j) ==
  /\ pc[j] = "call"
  /\ LET a == j[2]
         c == Calls(a)[call[j]]
     IN  \E reply \in Replies(c, nodes[a][task[j]]) :
           /\ nodes' = [nodes EXCEPT ![a][task[j]] = reply[2]]
           /\ \/ /\ ~Accepts(Application[a].type, c, reply[1])
                 /\ Goto(j, "error") /\ UNCHANGED <<variables, trace>>
              \/ /\ Accepts(Application[a].type, c, reply[1])
                 /\ SetStackVariables(j[1],
                      IF c = "start" /\ Application[a].type \in PublishOnStart
                      THEN Application[a].connects ELSE {})
                 /\ \/ /\ call[j] < Len(Calls(a))
                       /\ call' = [call EXCEPT ![j] = @ + 1]
                       /\ UNCHANGED <<pc, section, task, tries, trace>>
                    \/ /\ call[j] = Len(Calls(a))
                       /\ Did(j, "task") /\ Begin(j, "afterTask", task[j])
  /\ UNCHANGED <<text, files, shared, foreign, marathon>>

-----------------------------------------------------------------------------
Step(j) ==
  /\ \/ Resolve(j) \/ OpenScript(j) \/ WriteScript(j) \/ ExecScript(j) \/ RemoveScript(j)
     \/ RunMesos(j) \/ CreateApplication(j) \/ CheckRunningAndHealthy(j)
     \/ FillContext(j) \/ RunTask(j)
  /\ UNCHANGED <<storage, skipped>>

Next ==
  /\ \/ \E j \in Jobs : Start(j) \/ Step(j)
     \/ \E a \in Apps : MarathonMoves(a)
     \/ \E a \in Apps : \E t \in DOMAIN nodes[a] : NodeServes(a, t)
  /\ UNCHANGED <<storage, skipped>>

Spec == Init /\ [][Next]_vars

(* The goroutines are scheduled, and the calls they make return.           *)
Fairness == \A j \in Jobs : WF_vars(Step(j))

FairSpec == Spec /\ Fairness
-----------------------------------------------------------------------------
(* What Run is documented to do for an application, in order.              *)
Commands(a, s) == IF s \in Application[a].scripts THEN <<s>> ELSE <<>>
TaskRound(a) == Commands(a, "beforeTask") \o <<"task">> \o Commands(a, "afterTask")
Rounds(a) ==
  LET n == Len(TaskRound(a))
  IN  [i \in 1..Application[a].tasks * n |-> TaskRound(a)[((i - 1) % n) + 1]]
Documented == [a \in Apps |->
  Commands(a, "beforeScheduler") \o <<"launch">> \o Commands(a, "afterScheduler")
    \o Rounds(a) \o Commands(a, "afterTasks")]

(* Whatever fails, Run executes its scripts, the launch and the tasks in   *)
(* the documented order, none twice, and a Run that succeeds has executed  *)
(* them all.  A script is Run's own commands, all of them, whatever files  *)
(* failed runs have left behind; only where another run of the application *)
(* had the file at the same time may the commands of that run, or a part   *)
(* of some, have been executed in their place.                             *)
DocumentedOrder ==
  \A j \in Jobs :
    LET done == Len(trace[j]) IN
      /\ done <= Len(Documented[j[2]])
      /\ \A i \in 1..done : trace[j][i] = Documented[j[2]][i]
      /\ pc[j] = "ok" => done = Len(Documented[j[2]])
      /\ \A s \in Scripts : <<j, s>> \in foreign => <<j, s>> \in shared

(* When Run succeeds every task of the application was started by its      *)
(* scheduler, also when answers were lost or could not be read.            *)
TasksStarted ==
  \A j \in Jobs : pc[j] = "ok" =>
    \A t \in DOMAIN nodes[j[2]] : nodes[j[2]][t] \in {"started", "serving"}

(* No script is run, and no application launched, with a variable that was *)
(* not resolved.                                                           *)
NothingUnresolvedRuns ==
  \A j \in Jobs :
    /\ pc[j] \in {"open", "write", "exec"} => Resolved(text[j], section[j])
    /\ pc[j] \in {"deploy", "await"} => Resolved(text[j], "launch")

(* No task is run with a variable that was not resolved. *)
NoUnresolvedTasks ==
  \A j \in Jobs : pc[j] = "call" => Resolved(text[j], "task")

(* Dependent applications find the variables of the ones they depend on: a *)
(* Run that stops because a text it has to check is not resolved lacks a   *)
(* variable that no dependency publishes, or only one that was skipped.    *)
Publishes(a) ==
  (IF HasRunner(a) THEN Application[a].publishes ELSE {}) \cup
  (IF \/ Application[a].type \in PublishOnStart /\ Application[a].tasks > 0
      \/ Application[a].type = "elasticsearch"
   THEN Application[a].connects ELSE {})
Provided(j) == UNION {Publishes(d) : d \in Application[j[2]].dependencies \ skipped[j[1]]}
DependenciesPublish ==
  [][\A j \in Jobs : pc[j] # "unresolved" /\ pc'[j] = "unresolved" =>
       \E s \in Checked(section[j]) : \E v \in DOMAIN text'[j][s] :
         text'[j][s][v] = Unset /\ v \notin Provided(j)]_vars

(* Every Run that was started returns, also when Marathon never brings the *)
(* application up or loses it again: the wait is bounded by MaxWait.       *)
RunReturns == <>[](\A j \in Jobs : pc[j] \in {"idle"} \cup Ended)

-----------------------------------------------------------------------------
(* The invariants that make them inductive.                                *)

(* Where a job is tells which text, which task and which call it works on. *)
Fits(a, phase, s, t, c) ==
  /\ s \in {"beforeScheduler", "afterScheduler"} => t = 0
  /\ s \in {"beforeTask", "afterTask"} => t \in 1..Application[a].tasks
  /\ s = "afterTasks" => t = Application[a].tasks
  /\ phase \in {"deploy", "await"} => s = "beforeScheduler"
  /\ phase = "fill" => s = "afterScheduler"
  /\ phase = "call" => s = "beforeTask" /\ c \in 1..Len(Calls(a))
  /\ phase = "ok" => s = "afterTasks"

(* The types of the control variables, and that every job fits. *)
ControlInv ==
  /\ pc \in [Jobs -> Phases] /\ section \in [Jobs -> Scripts]
  /\ task \in [Jobs -> Nat] /\ call \in [Jobs -> Nat]
  /\ \A j \in Jobs : Fits(j[2], pc[j], section[j], task[j], call[j])

(* A job is through with the tasks before its own, and with its own when   *)
(* the start of it was accepted.                                           *)
Through(a, phase, s, t, c) ==
  {u \in 1..Application[a].tasks :
     \/ u < t
     \/ u = t /\ s # "beforeTask"
     \/ u = t /\ phase = "call" /\ \E i \in 1..c - 1 : Calls(a)[i] = "start"}

(* What a job is through with is started in its scheduler. *)
TaskInv ==
  /\ DOMAIN nodes = Apps
  /\ \A a \in Apps : nodes[a] \in [1..Application[a].tasks -> NodeStates]
  /\ \A j \in Jobs : \A u \in Through(j[2], pc[j], section[j], task[j], call[j]) :
       nodes[j[2]][u] \in {"started", "serving"}

(* What was resolved stays so, also in the hands of another run.           *)
TextInv ==
  /\ storage = "memory" => \A j, k \in Jobs : j[2] = k[2] => text[j] = text[k]
  /\ \A j \in Jobs : section[j] = "beforeScheduler" /\
       pc[j] \in {"open", "write", "exec", "removeOk"} => Resolved(text[j], "launch")
  /\ NothingUnresolvedRuns

(* How much of what is documented is done before section s of task t.      *)
Count(a, s) == Len(Commands(a, s))
DoneBefore(a, s, t) ==
  LET launched == Count(a, "beforeScheduler") + 1
      prepared == launched + Count(a, "afterScheduler")
      round == Len(TaskRound(a))
  IN  CASE s = "beforeScheduler" -> 0
        [] s = "afterScheduler" -> launched
        [] s = "beforeTask" -> prepared + (t - 1) * round
        [] s = "afterTask" -> prepared + (t - 1) * round + Count(a, "beforeTask") + 1
        [] s = "afterTasks" -> prepared + t * round

(* And how much when the section has come to this phase. *)
Performed(a, phase, s, t) ==
  DoneBefore(a, s, t) +
    (IF phase \in {"removeOk", "deploy", "await", "fill", "call", "ok"}
     THEN Count(a, s) ELSE 0)

(* A job that did what is in done and is here keeps to the order. *)
Ordered(a, done, phase, s, t) ==
  /\ Len(done) <= Len(Documented[a])
  /\ \A i \in 1..Len(done) : done[i] = Documented[a][i]
  /\ phase \in {"open", "write", "exec", "removeOk"} => s \in Application[a].scripts
  /\ phase \notin {"removeFailed", "error", "unresolved"} =>
       Len(done) = Performed(a, phase, s, t)

OrderInv == \A j \in Jobs : Ordered(j[2], trace[j], pc[j], section[j], task[j])

(* A job that has a script file for itself finds its own commands in it. *)
ScriptInv ==
  /\ foreign \subseteq shared
  /\ \A j \in Jobs : pc[j] \in Scripting /\ ~Shares(j) => Sharers(j) = {}
  /\ \A j \in Jobs : ~Shares(j) =>
       /\ pc[j] = "write" => File(j) = Part
       /\ pc[j] = "exec" => File(j) = j[1]

(* Only the check that is the last makes more than MaxWait of them. *)
TriesInv ==
  /\ tries \in [Jobs -> 0..MaxWait + 1]
  /\ \A j \in Jobs : pc[j] # "error" => tries[j] <= MaxWait

(* What a job has published where it is: on the way from the scheduler to  *)
(* the tasks, and with the first start that was accepted.                  *)
Announced(a, phase, s, t, c) ==
  (IF HasRunner(a) /\ s \notin {"beforeScheduler", "afterScheduler"}
   THEN Application[a].publishes \cup
        (IF Application[a].type = "elasticsearch" THEN Application[a].connects ELSE {})
   ELSE {}) \cup
  (IF Application[a].type \in PublishOnStart /\ Through(a, phase, s, t, c) # {}
   THEN Application[a].connects ELSE {})

(* What was published stays set, and a job that was started has its        *)
(* dependencies behind it.                                                 *)
PublishInv ==
  /\ \A j \in Jobs : Announced(j[2], pc[j], section[j], task[j], call[j]) \subseteq
       variables[j[1]]["stack"]
  /\ \A j \in Jobs : pc[j] # "idle" =>
       \A d \in Application[j[2]].dependencies \ skipped[j[1]] : pc[<<j[1], d>>] = "ok"
=============================================================================
