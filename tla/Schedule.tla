------------------------------ MODULE Schedule ------------------------------
(***************************************************************************)
(* Time-scheduled applications: the scheduling half of RunApplication and  *)
(* RemoveScheduled of framework/scheduler.go, mesosrunners/time_scheduler.go *)
(* and the cron goroutine of vendor/github.com/yanzay/cron/cron.go.        *)
(*                                                                         *)
(* Applications are scheduled, and tasks removed, by goroutines of their   *)
(* own.  The cron goroutine serves them one at a time, but the slice       *)
(* scheduledTasks is read and written without a lock.  What the jobs stage *)
(* when their time has come is in RunOnce; here a job matters that adds    *)
(* another entry.                                                          *)
(***************************************************************************)
EXTENDS Integers, Sequences, FiniteSets

CONSTANTS
  Runs,       \* the calls of RunApplication, for an application each
  Removals,   \* the requests to /scheduled/delete
  Schedules,  \* the start times and time schedules an application may have
  NoTask,     \* nil
  Garbled,    \* scheduledTasks after a data race: anything
  MaxFirings  \* bound: how often jobs that add an entry are started

(* A time is not given, a cron expression, or text that is not one.        *)
Times == {"none", "cron", "bad"}

(* An entry of the cron goroutine starts a job that stages an application, *)
(* or one that adds another entry, which is then nested.                   *)
Entry == [id : Nat, run : Runs, job : {"stage", "add"}, nested : BOOLEAN]
Task == [id : Int, run : Runs]

ASSUME ScheduleAssumption ==
  /\ IsFiniteSet(Runs) /\ IsFiniteSet(Removals) /\ Runs \cap Removals = {}
  /\ Schedules \subseteq {s \in [start : Times, schedule : Times] :
                            s.start # "none" \/ s.schedule # "none"}
  /\ Garbled \notin Seq(Task) /\ NoTask \notin Task
  /\ MaxFirings \in Nat

VARIABLES
  spec,      \* when each application is to run
  entries,   \* the entries of the cron goroutine
  ids,       \* how many ids it has drawn
  list,      \* scheduledTasks
  run,       \* where each RunApplication is
  id,        \* the id ScheduleApplication has returned to it
  removal,   \* where each RemoveScheduled is
  target,    \* the id it removes
  fired,     \* how many jobs that add an entry were started
  adding     \* how many of them still have to, for each application

cronVars == <<entries, ids>>
removalVars == <<removal, target>>
jobVars == <<fired, adding>>
vars == <<spec, cronVars, list, run, id, removalVars, jobVars>>

(* Among others, that no slot of the list is nil: the loop of              *)
(* RemoveScheduled reads the id of every task.                             *)
TypeOK ==
  /\ spec \in [Runs -> Schedules]
  /\ entries \subseteq Entry
  /\ ids \in Nat
  /\ list \in Seq(Task) \cup {Garbled}
  /\ run \in [Runs -> {"idle", "append", "store", "done"}]
  /\ id \in [Runs -> Int]
  /\ removal \in [Removals -> {"idle", "range", "scan", "found", "notFound", "panic"}]
  /\ target \in [Removals -> Int]
  /\ fired \in Nat
  /\ adding \in [Runs -> Nat]

Init ==
  /\ spec \in [Runs -> Schedules]
  /\ entries = {} /\ ids = 0
  /\ list = <<>>
  /\ run = [r \in Runs |-> "idle"]
  /\ id = [r \in Runs |-> 0]
  /\ removal = [d \in Removals |-> "idle"]
  /\ target = [d \in Removals |-> 0]
  /\ fired = 0
  /\ adding = [r \in Runs |-> 0]

-----------------------------------------------------------------------------
(* AddFunc draws an id and hands the entry to the cron goroutine, unless   *)
(* the time does not parse; the callers ignore that.                       *)
AddFunc(time, r, job, nested) ==
  \/ /\ time = "cron"
     /\ ids' = ids + 1
     /\ entries' = entries \cup {[id |-> ids + 1, run |-> r, job |-> job, nested |-> nested]}
  \/ time = "bad" /\ UNCHANGED cronVars

(* ScheduleApplication: StartWithSchedule, StartOnly or ScheduleOnly.      *)
Both(r) == spec[r].start # "none" /\ spec[r].schedule # "none"

ScheduleApplication(r) ==
  /\ run[r] = "idle"
  /\ LET time == IF spec[r].start # "none" THEN spec[r].start ELSE spec[r].schedule
     IN /\ AddFunc(time, r, IF Both(r) THEN "add" ELSE "stage", FALSE)
        /\ id' = [id EXCEPT ![r] = IF time = "cron" THEN ids + 1 ELSE -1]
  /\ run' = [run EXCEPT ![r] = "append"]
  /\ UNCHANGED <<spec, list, removalVars, jobVars>>

(* The goroutines that have read scheduledTasks and go on with what they   *)
(* have read.                                                              *)
Using == {r \in Runs : run[r] = "store"} \cup {d \in Removals : removal[d] = "scan"}

(* Storing the slice while another goroutine uses what it has read is a    *)
(* data race: tasks are lost, listed twice or seen half written, and       *)
(* nothing is known of the list from then on.                              *)
Store(p, tasks) == list' = IF list = Garbled \/ Using \ {p} # {} THEN Garbled ELSE tasks

(* RunApplication appends the task to the slice it reads. *)
LoadList(r) ==
  /\ run[r] = "append"
  /\ run' = [run EXCEPT ![r] = "store"]
  /\ UNCHANGED <<spec, cronVars, list, id, removalVars, jobVars>>

AppendTask(r) ==
  /\ run[r] = "store"
  /\ Store(r, Append(list, [id |-> id[r], run |-> r]))
  /\ run' = [run EXCEPT ![r] = "done"]
  /\ UNCHANGED <<spec, cronVars, id, removalVars, jobVars>>

-----------------------------------------------------------------------------
(* A request removes a task that was scheduled, or one there never was.    *)
Targets == {id[r] : r \in {q \in Runs : run[q] = "done"}} \cup {0}

(* Mutant: what is not in the list is not deleted. *)
DeleteListedJob(d) ==
  /\ removal[d] = "idle"
  /\ \E n \in Targets :
       /\ target' = [target EXCEPT ![d] = n]
       /\ entries' = {e \in entries :
            e.id # n \/ list = Garbled \/ \A i \in DOMAIN list : list[i].id # n}
  /\ removal' = [removal EXCEPT ![d] = "range"]
  /\ UNCHANGED <<spec, ids, list, run, id, jobVars>>

(* RemoveScheduled: the cron goroutine deletes the entry first, whether    *)
(* the task is in the list or not.                                         *)
DeleteJob(d) ==
  /\ removal[d] = "idle"
  /\ \E n \in Targets :
       /\ target' = [target EXCEPT ![d] = n]
       /\ entries' = {e \in entries : e.id # n}
  /\ removal' = [removal EXCEPT ![d] = "range"]
  /\ UNCHANGED <<spec, ids, list, run, id, jobVars>>

RangeList(d) ==
  /\ removal[d] = "range"
  /\ removal' = [removal EXCEPT ![d] = "scan"]
  /\ UNCHANGED <<spec, cronVars, list, run, id, target, jobVars>>

Answer(d, answer) == removal' = [removal EXCEPT ![d] = answer]

(* The first task with the id. *)
FirstAt(i, n) == list[i].id = n /\ \A j \in 1..i - 1 : list[j].id # n

(* The tasks behind it are moved up. *)
Without(tasks, i) == [j \in 1..Len(tasks) - 1 |-> IF j < i THEN tasks[j] ELSE tasks[j + 1]]

(* Mutants: the last task is cut off, and the slot is set to nil. *)
CutList(d) ==
  /\ removal[d] = "scan" /\ list # Garbled
  /\ \E i \in DOMAIN list :
       FirstAt(i, target[d]) /\ Store(d, SubSeq(list, 1, Len(list) - 1))
  /\ Answer(d, "found")
  /\ UNCHANGED <<spec, cronVars, run, id, target, jobVars>>

BlankTask(d) ==
  /\ removal[d] = "scan" /\ list # Garbled
  /\ \E i \in DOMAIN list :
       FirstAt(i, target[d]) /\ Store(d, [list EXCEPT ![i] = NoTask])
  /\ Answer(d, "found")
  /\ UNCHANGED <<spec, cronVars, run, id, target, jobVars>>

(* The loop comes to a task with the id, ... *)
RemoveTask(d) ==
  /\ removal[d] = "scan" /\ list # Garbled
  /\ \E i \in DOMAIN list :
       FirstAt(i, target[d]) /\ Store(d, Without(list, i))
  /\ Answer(d, "found")
  /\ UNCHANGED <<spec, cronVars, run, id, target, jobVars>>

(* ... or to the end. *)
MissTask(d) ==
  /\ removal[d] = "scan" /\ list # Garbled
  /\ \A i \in DOMAIN list : list[i].id # target[d]
  /\ Answer(d, "notFound")
  /\ UNCHANGED <<spec, cronVars, list, run, id, target, jobVars>>

(* In a list that is garbled it may find the task or not, or find it where *)
(* the slice, which is read again, does not reach.                         *)
SearchGarbled(d) ==
  /\ removal[d] = "scan" /\ list = Garbled
  /\ \E answer \in {"found", "notFound", "panic"} : Answer(d, answer)
  /\ UNCHANGED <<spec, cronVars, list, run, id, target, jobVars>>

-----------------------------------------------------------------------------
(* The cron goroutine starts a goroutine for a job whose time has come, a  *)
(* start time as well as a schedule again and again.  A job that stages an *)
(* application changes nothing here.                                       *)
Fire(e) ==
  /\ e.job = "add" /\ fired < MaxFirings
  /\ fired' = fired + 1
  /\ adding' = [adding EXCEPT ![e.run] = @ + 1]
  /\ UNCHANGED <<spec, cronVars, list, run, id, removalVars>>

(* The job of StartWithSchedule; nobody keeps the id. *)
AddSchedule(r) ==
  /\ adding[r] > 0
  /\ AddFunc(spec[r].schedule, r, "stage", TRUE)
  /\ adding' = [adding EXCEPT ![r] = @ - 1]
  /\ UNCHANGED <<spec, list, run, id, removalVars, fired>>

-----------------------------------------------------------------------------
RunStep(r) == ScheduleApplication(r) \/ LoadList(r) \/ AppendTask(r) \/ AddSchedule(r)
RemovalStep(d) == RangeList(d) \/ RemoveTask(d) \/ MissTask(d) \/ SearchGarbled(d)

Next ==
  \/ \E r \in Runs : RunStep(r)
  \/ \E d \in Removals : DeleteJob(d) \/ RemovalStep(d)
  \/ \E e \in entries : Fire(e)

Spec == Init /\ [][Next]_vars

-----------------------------------------------------------------------------
(* Properties                                                              *)

Answered(d) == removal[d] \in {"found", "notFound", "panic"}

(* A removal is effective whatever it answers, also when a data race has   *)
(* made the list lose the task: the cron goroutine no longer starts the    *)
(* job with that id.  Nor does it start any other job for the application, *)
(* unless it has both a start time and a schedule: the entry which the job *)
(* of its start time has added stays (see CancelledForGood).               *)
RemovedNeverFires ==
  \A d \in Removals : Answered(d) =>
    \A e \in entries :
      e.id # target[d] /\ (id[e.run] = target[d] /\ target[d] # -1 => e.nested /\ Both(e.run))

(* The applications a list shows under an id, those that were scheduled    *)
(* under it, and the removals of it that have answered true.               *)
Listed(n) == {list[i].run : i \in {j \in DOMAIN list : list[j].id = n}}
Scheduled(n) == {r \in Runs : run[r] = "done" /\ id[r] = n}
Found(n) == {d \in Removals : removal[d] = "found" /\ target[d] = n}

Quiet ==
  /\ \A r \in Runs : run[r] \in {"idle", "done"}
  /\ \A d \in Removals : removal[d] = "idle" \/ Answered(d)

(* Until there is a data race, RemoveScheduled and the list are exact: no  *)
(* task is listed twice, and as many are listed under an id as were        *)
(* scheduled under it, less one for every removal that has answered true.  *)
(* So of the removals of a task one answers true, and of the tasks whose   *)
(* times do not parse, which all have the id -1, each takes a removal.     *)
(* While no request is under way the other tasks are those whose entries   *)
(* the cron goroutine has, not counting the nested ones, whose ids nobody  *)
(* has.                                                                    *)
ListExact ==
  list # Garbled =>
    /\ \A i, j \in DOMAIN list : list[i].run = list[j].run => i = j
    /\ \A r \in Runs :
         Cardinality(Listed(id[r])) + Cardinality(Found(id[r])) = Cardinality(Scheduled(id[r]))
    /\ Quiet => {list[i].id : i \in DOMAIN list} \ {-1} = {e.id : e \in {x \in entries : ~x.nested}}

(* "You can cancel any time-scheduled task": after RemoveScheduled has     *)
(* found and removed a task, the cron goroutine has no entry for its       *)
(* application.                                                            *)
CancelledForGood ==
  \A d \in Removals, r \in Runs :
    removal[d] = "found" /\ target[d] = id[r] /\ id[r] # -1 =>
      \A e \in entries : e.run # r
-----------------------------------------------------------------------------
(* The invariants that make them inductive.                                *)

(* AddFunc gives every application that was scheduled an id of its own,    *)
(* and never draws one again that is in an entry or that a removal has.    *)
IdInv ==
  /\ \A e \in entries : e.id \in 1..ids
  /\ \A e \in entries :
       IF e.nested THEN Both(e.run) ELSE run[e.run] # "idle" /\ id[e.run] = e.id
  /\ \A e \in entries : e.job = "add" => Both(e.run)
  /\ \A r \in Runs : adding[r] > 0 => Both(r)
  /\ \A r \in Runs : run[r] # "idle" => id[r] = -1 \/ id[r] \in 1..ids
  /\ \A r, q \in Runs :
       run[r] # "idle" /\ run[q] # "idle" /\ id[r] = id[q] /\ id[r] # -1 => r = q
  /\ \A d \in Removals : target[d] <= ids
  /\ \A d \in Removals : removal[d] # "idle" => \A e \in entries : e.id # target[d]

(* The list holds the tasks of applications that were appended, one each.  *)
ListedOnce ==
  /\ \A i \in DOMAIN list : run[list[i].run] = "done" /\ list[i].id = id[list[i].run]
  /\ \A i, j \in DOMAIN list : list[i].run = list[j].run => i = j

Counted ==
  \A n \in Int : Cardinality(Listed(n)) + Cardinality(Found(n)) = Cardinality(Scheduled(n))

(* Who has an entry is in the list or about to be appended; who is in the  *)
(* list has an entry, or a removal that has deleted it is on its way.      *)
HasEntry(n) == \E e \in entries : ~e.nested /\ e.id = n
Removing(d) == removal[d] \in {"range", "scan"}
EntriesListed ==
  /\ \A e \in entries : ~e.nested /\ run[e.run] = "done" =>
       \E i \in DOMAIN list : list[i].run = e.run
  /\ \A r \in Runs : run[r] \in {"append", "store"} /\ id[r] # -1 => HasEntry(id[r])
  /\ \A i \in DOMAIN list : list[i].id # -1 =>
       HasEntry(list[i].id) \/ \E d \in Removals : Removing(d) /\ target[d] = list[i].id

ListInv == list # Garbled => ListedOnce /\ Counted /\ EntriesListed
=============================================================================
