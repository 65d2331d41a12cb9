--------------------------- MODULE ScheduleProofs ---------------------------
(***************************************************************************)
(* Proofs about Schedule, for any number of applications, removals and     *)
(* firings: what RemoveScheduled has deleted is not started again, and the *)
(* list of scheduled tasks is exact until there is a data race.            *)
(***************************************************************************)
EXTENDS Schedule, FiniteSetTheorems, TLAPS

-----------------------------------------------------------------------------
(* Types. *)
LEMMA TypeStart == Init => TypeOK
BY DEF Init, TypeOK

(* An entry is added, or the time does not parse. *)
LEMMA AddFuncTyped ==
  ASSUME TypeOK, NEW time, NEW r \in Runs, NEW job \in {"stage", "add"}, NEW nested \in BOOLEAN,
         AddFunc(time, r, job, nested)
  PROVE  ids' \in Nat /\ entries' \subseteq Entry /\ ids <= ids'
<1>1. CASE UNCHANGED cronVars
  BY <1>1 DEF cronVars, TypeOK
<1>2. CASE /\ ids' = ids + 1
           /\ entries' = entries \cup {[id |-> ids + 1, run |-> r, job |-> job, nested |-> nested]}
  <2>1. [id |-> ids + 1, run |-> r, job |-> job, nested |-> nested] \in Entry
    BY DEF Entry, TypeOK
  <2> QED BY <1>2, <2>1 DEF TypeOK
<1> QED BY <1>1, <1>2 DEF AddFunc

(* The steps of ScheduleApplication, with the time and the job named. *)
LEMMA ScheduleShape ==
  ASSUME TypeOK, NEW r \in Runs, ScheduleApplication(r)
  PROVE  \E time, job :
           /\ job \in {"stage", "add"} /\ (job = "add" <=> Both(r))
           /\ AddFunc(time, r, job, FALSE)
           /\ id' = [id EXCEPT ![r] = IF time = "cron" THEN ids + 1 ELSE -1]
           /\ run[r] = "idle" /\ run' = [run EXCEPT ![r] = "append"]
           /\ UNCHANGED <<spec, list, removal, target, fired, adding>>
<1> DEFINE time == IF spec[r].start # "none" THEN spec[r].start ELSE spec[r].schedule
           job == IF Both(r) THEN "add" ELSE "stage"
<1>1. /\ AddFunc(time, r, job, FALSE)
      /\ id' = [id EXCEPT ![r] = IF time = "cron" THEN ids + 1 ELSE -1]
      /\ run[r] = "idle" /\ run' = [run EXCEPT ![r] = "append"]
      /\ UNCHANGED <<spec, list, removal, target, fired, adding>>
  BY ZenonT(30) DEF ScheduleApplication, removalVars, jobVars
<1>2. job \in {"stage", "add"} /\ (job = "add" <=> Both(r))
  OBVIOUS
<1> QED BY ZenonT(30), <1>1, <1>2

(* Moving the tasks behind up. *)
LEMMA ShiftTyped ==
  ASSUME NEW s \in Seq(Task), NEW i \in DOMAIN s
  PROVE  Without(s, i) \in Seq(Task) /\ DOMAIN Without(s, i) = 1..Len(s) - 1
<1> DEFINE t == [j \in 1..Len(s) - 1 |-> IF j < i THEN s[j] ELSE s[j + 1]]
<1>1. Len(s) \in Nat /\ i \in 1..Len(s) /\ Len(s) - 1 \in Nat
  OBVIOUS
<1>2. \A j \in 1..Len(s) - 1 : (IF j < i THEN s[j] ELSE s[j + 1]) \in Task
  BY <1>1
<1>3. t \in [1..Len(s) - 1 -> Task]
  BY <1>2
<1> QED BY <1>1, <1>3 DEF Without

(* Every step keeps the types. *)
LEMMA TypeStep == TypeOK /\ [Next]_vars => TypeOK'
<1> SUFFICES ASSUME TypeOK, [Next]_vars PROVE TypeOK'
  OBVIOUS
<1>1. ASSUME NEW r \in Runs, ScheduleApplication(r) PROVE TypeOK'
  <2>1. PICK time, job :
           /\ job \in {"stage", "add"} /\ (job = "add" <=> Both(r))
           /\ AddFunc(time, r, job, FALSE)
           /\ id' = [id EXCEPT ![r] = IF time = "cron" THEN ids + 1 ELSE -1]
           /\ run[r] = "idle" /\ run' = [run EXCEPT ![r] = "append"]
           /\ UNCHANGED <<spec, list, removal, target, fired, adding>>
    BY <1>1, ScheduleShape
  <2>2. ids' \in Nat /\ entries' \subseteq Entry
    BY <2>1, AddFuncTyped
  <2>3. id' \in [Runs -> Int]
    BY <2>1 DEF TypeOK
  <2> QED BY <2>1, <2>2, <2>3 DEF TypeOK
<1>2. ASSUME NEW r \in Runs, LoadList(r) PROVE TypeOK'
  BY <1>2 DEF LoadList, TypeOK, cronVars, removalVars, jobVars
<1>3. ASSUME NEW r \in Runs, AppendTask(r) PROVE TypeOK'
  <2>1. [id |-> id[r], run |-> r] \in Task
    BY DEF Task, TypeOK
  <2>2. list' \in Seq(Task) \cup {Garbled}
    BY <1>3, <2>1 DEF AppendTask, Store, TypeOK
  <2> QED BY <1>3, <2>2 DEF AppendTask, TypeOK, cronVars, removalVars, jobVars
<1>4. ASSUME NEW r \in Runs, AddSchedule(r) PROVE TypeOK'
  <2>1. ids' \in Nat /\ entries' \subseteq Entry
    BY <1>4, AddFuncTyped DEF AddSchedule
  <2> QED BY <1>4, <2>1 DEF AddSchedule, TypeOK, removalVars
<1>5. ASSUME NEW d \in Removals, DeleteJob(d) PROVE TypeOK'
  <2>1. PICK n \in Targets : /\ target' = [target EXCEPT ![d] = n]
                             /\ entries' = {e \in entries : e.id # n}
    BY <1>5 DEF DeleteJob
  <2>2. n \in Int
    BY <2>1 DEF Targets, TypeOK
  <2> QED BY <1>5, <2>1, <2>2 DEF DeleteJob, TypeOK, jobVars
<1>6. ASSUME NEW d \in Removals, RangeList(d) \/ MissTask(d) \/ SearchGarbled(d) PROVE TypeOK'
  BY <1>6 DEF RangeList, MissTask, SearchGarbled, Answer, TypeOK, cronVars, jobVars
<1>7. ASSUME NEW d \in Removals, RemoveTask(d) PROVE TypeOK'
  <2>1. list' \in Seq(Task) \cup {Garbled}
    <3>1. PICK i \in DOMAIN list : list # Garbled /\ Store(d, Without(list, i))
      BY <1>7 DEF RemoveTask
    <3>2. list \in Seq(Task)
      BY <3>1 DEF TypeOK
    <3> QED BY <3>1, <3>2, ShiftTyped DEF Store
  <2> QED BY <1>7, <2>1 DEF RemoveTask, Answer, TypeOK, cronVars, jobVars
<1>8. ASSUME NEW e \in entries, Fire(e) PROVE TypeOK'
  <2>1. e.run \in Runs
    BY DEF TypeOK, Entry
  <2> QED BY <1>8, <2>1 DEF Fire, TypeOK, cronVars, removalVars
<1>9. CASE UNCHANGED vars
  BY <1>9 DEF TypeOK, vars, cronVars, removalVars, jobVars
<1> QED BY <1>1, <1>2, <1>3, <1>4, <1>5, <1>6, <1>7, <1>8, <1>9 DEF Next, RunStep, RemovalStep

-----------------------------------------------------------------------------
(* Ids. *)
LEMMA IdStart == Init => IdInv
BY ScheduleAssumption DEF Init, IdInv

(* A step that neither adds nor deletes entries. *)
LEMMA IdOthers ==
  ASSUME TypeOK, IdInv, UNCHANGED <<spec, entries, ids, id, target, adding>>,
         \A r \in Runs : run'[r] = "idle" <=> run[r] = "idle",
         \A d \in Removals : removal'[d] = "idle" <=> removal[d] = "idle"
  PROVE  IdInv'
BY DEF IdInv, Both, TypeOK, Entry

(* One that adds one. *)
LEMMA IdAdded ==
  ASSUME TypeOK, IdInv, NEW time, NEW r \in Runs, NEW job \in {"stage", "add"},
         NEW nested \in BOOLEAN, AddFunc(time, r, job, nested), UNCHANGED <<spec, removal, target>>,
         job = "add" => Both(r), nested => Both(r),
         ~nested => /\ run[r] = "idle" /\ run' = [run EXCEPT ![r] = "append"]
                    /\ id' = [id EXCEPT ![r] = IF time = "cron" THEN ids + 1 ELSE -1],
         nested => UNCHANGED <<run, id>>,
         \A q \in Runs : adding'[q] > 0 => Both(q)
  PROVE  IdInv'
<1>1. /\ ids \in Nat /\ run \in [Runs -> {"idle", "append", "store", "done"}]
      /\ id \in [Runs -> Int] /\ target \in [Removals -> Int]
      /\ \A e \in entries : e.run \in Runs /\ e.id \in Nat
  BY DEF TypeOK, Entry
<1> DEFINE new == [id |-> ids + 1, run |-> r, job |-> job, nested |-> nested]
<1>2. \/ time = "cron" /\ ids' = ids + 1 /\ entries' = entries \cup {new}
      \/ time = "bad" /\ ids' = ids /\ entries' = entries
  BY DEF AddFunc, cronVars
<1>3. \A e \in entries' : e \in entries \/ (e = new /\ time = "cron" /\ ids' = ids + 1)
  BY <1>2
<1>4. new.id = ids + 1 /\ new.run = r /\ new.job = job /\ new.nested = nested
  OBVIOUS
<1> HIDE DEF new
<1>5. /\ ids' \in Nat /\ ids <= ids' /\ \A q \in Runs : Both(q)' = Both(q)
  BY <1>1, <1>2 DEF Both
<1>6. /\ \A q \in Runs : q # r => run'[q] = run[q] /\ id'[q] = id[q]
      /\ ~nested => /\ run'[r] = "append" /\ run[r] = "idle"
                    /\ id'[r] = IF time = "cron" THEN ids + 1 ELSE -1
      /\ nested => run'[r] = run[r] /\ id'[r] = id[r]
  BY <1>1
<1>7. ASSUME NEW e \in entries'
      PROVE  /\ e.id \in 1..ids'
             /\ IF e.nested THEN Both(e.run)' ELSE run'[e.run] # "idle" /\ id'[e.run] = e.id
             /\ e.job = "add" => Both(e.run)'
  <2>1. CASE e \in entries
    <3>1. e.id \in 1..ids' /\ e.run \in Runs
      BY <1>1, <1>5, <2>1 DEF IdInv
    <3>2. e.nested => Both(e.run)'
      BY <1>5, <2>1, <3>1 DEF IdInv
    <3>3. ~e.nested => run'[e.run] # "idle" /\ id'[e.run] = e.id
      BY <1>6, <2>1, <3>1 DEF IdInv
    <3>4. e.job = "add" => Both(e.run)'
      BY <1>5, <2>1, <3>1 DEF IdInv
    <3> QED BY <3>1, <3>2, <3>3, <3>4
  <2>2. CASE e = new /\ time = "cron" /\ ids' = ids + 1
    BY <1>1, <1>4, <1>5, <1>6, <2>2
  <2> QED BY <1>3, <2>1, <2>2
<1>8. \A q \in Runs : run'[q] # "idle" => id'[q] = -1 \/ id'[q] \in 1..ids'
  BY <1>1, <1>2, <1>5, <1>6 DEF IdInv
<1>9. ASSUME NEW p \in Runs, NEW q \in Runs, run'[p] # "idle", run'[q] # "idle",
             id'[p] = id'[q], id'[p] # -1
      PROVE  p = q
  BY <1>1, <1>6, <1>9 DEF IdInv
<1>10. \A d \in Removals : target'[d] <= ids'
  BY <1>1, <1>5 DEF IdInv
<1>11. ASSUME NEW d \in Removals, removal'[d] # "idle", NEW e \in entries' PROVE e.id # target'[d]
  BY <1>1, <1>3, <1>4, <1>11 DEF IdInv
<1>12. \A q \in Runs : adding'[q] > 0 => Both(q)'
  BY <1>5
<1> QED BY <1>7, <1>8, <1>9, <1>10, <1>11, <1>12 DEF IdInv

LEMMA IdStep == TypeOK /\ IdInv /\ [Next]_vars => IdInv'
<1> SUFFICES ASSUME TypeOK, IdInv, [Next]_vars PROVE IdInv'
  OBVIOUS
<1>1. ASSUME NEW r \in Runs, ScheduleApplication(r) PROVE IdInv'
  <2>1. PICK time, job :
           /\ job \in {"stage", "add"} /\ (job = "add" <=> Both(r))
           /\ AddFunc(time, r, job, FALSE)
           /\ id' = [id EXCEPT ![r] = IF time = "cron" THEN ids + 1 ELSE -1]
           /\ run[r] = "idle" /\ run' = [run EXCEPT ![r] = "append"]
           /\ UNCHANGED <<spec, list, removal, target, fired, adding>>
    BY <1>1, ScheduleShape
  <2>2. \A q \in Runs : adding'[q] > 0 => Both(q)
    BY <2>1 DEF IdInv
  <2> QED BY <2>1, <2>2, IdAdded
<1>2. ASSUME NEW r \in Runs, LoadList(r) \/ AppendTask(r) PROVE IdInv'
  <2>1. /\ UNCHANGED <<spec, entries, ids, id, target, adding, removal>>
        /\ run[r] # "idle" /\ \E x \in {"store", "done"} : run' = [run EXCEPT ![r] = x]
    BY <1>2 DEF LoadList, AppendTask, cronVars, removalVars, jobVars
  <2>2. \A q \in Runs : run'[q] = "idle" <=> run[q] = "idle"
    BY <2>1 DEF TypeOK
  <2> QED BY <2>1, <2>2, IdOthers
<1>3. ASSUME NEW r \in Runs, AddSchedule(r) PROVE IdInv'
  <2>1. /\ AddFunc(spec[r].schedule, r, "stage", TRUE) /\ UNCHANGED <<spec, removal, target, run, id>>
        /\ adding[r] > 0 /\ adding' = [adding EXCEPT ![r] = @ - 1]
    BY <1>3 DEF AddSchedule, removalVars
  <2>2. Both(r) /\ \A q \in Runs : adding'[q] > 0 => Both(q)
    BY <2>1 DEF IdInv, TypeOK
  <2> QED BY <2>1, <2>2, IdAdded
<1>4. ASSUME NEW d \in Removals, DeleteJob(d) PROVE IdInv'
  <2>1. PICK n \in Targets : /\ target' = [target EXCEPT ![d] = n]
                             /\ entries' = {e \in entries : e.id # n}
    BY <1>4 DEF DeleteJob
  <2>2. /\ removal' = [removal EXCEPT ![d] = "range"] /\ removal[d] = "idle"
        /\ UNCHANGED <<spec, ids, run, id, adding>>
    BY <1>4 DEF DeleteJob, jobVars
  <2>3. n \in Int /\ n <= ids
    <3>1. ids \in Nat /\ id \in [Runs -> Int]
      BY DEF TypeOK
    <3>2. n = 0 \/ \E r \in Runs : run[r] = "done" /\ n = id[r]
      BY <2>1 DEF Targets
    <3>3. CASE n = 0
      BY <3>1, <3>3
    <3>4. ASSUME NEW r \in Runs, run[r] = "done", n = id[r] PROVE n \in Int /\ n <= ids
      <4>1. id[r] = -1 \/ id[r] \in 1..ids
        BY <3>4 DEF IdInv
      <4> QED BY <3>1, <3>4, <4>1
    <3> QED BY <3>2, <3>3, <3>4
  <2>4. /\ target'[d] = n
        /\ \A c \in Removals : c # d => target'[c] = target[c] /\ removal'[c] = removal[c]
    BY <2>1, <2>2 DEF TypeOK
  <2>5. \A e \in entries' : e \in entries /\ e.id # n
    BY <2>1
  <2>6. \A c \in Removals : target'[c] <= ids'
    BY <2>2, <2>3, <2>4 DEF IdInv
  <2>7. \A c \in Removals : removal'[c] # "idle" => \A e \in entries' : e.id # target'[c]
    BY <2>4, <2>5 DEF IdInv
  <2>8. \A q \in Runs : Both(q)' = Both(q)
    BY <2>2 DEF Both
  <2>9. \A e \in entries' : /\ e.id \in 1..ids'
                            /\ IF e.nested THEN Both(e.run)' ELSE run'[e.run] # "idle" /\ id'[e.run] = e.id
                            /\ e.job = "add" => Both(e.run)'
    <3>1. \A e \in entries' : e.run \in Runs
      BY <2>5 DEF TypeOK, Entry
    <3> QED BY <2>2, <2>5, <2>8, <3>1 DEF IdInv
  <2>10. /\ \A r \in Runs : adding'[r] > 0 => Both(r)'
         /\ \A r \in Runs : run'[r] # "idle" => id'[r] = -1 \/ id'[r] \in 1..ids'
         /\ \A r, q \in Runs :
              run'[r] # "idle" /\ run'[q] # "idle" /\ id'[r] = id'[q] /\ id'[r] # -1 => r = q
    BY <2>2, <2>8 DEF IdInv
  <2> QED BY <2>6, <2>7, <2>9, <2>10 DEF IdInv
<1>5. ASSUME NEW d \in Removals, RemovalStep(d) PROVE IdInv'
  <2>1. /\ UNCHANGED <<spec, entries, ids, id, target, adding, run>> /\ removal[d] # "idle"
        /\ \E x : x # "idle" /\ removal' = [removal EXCEPT ![d] = x]
    BY <1>5 DEF RemovalStep, RangeList, RemoveTask, MissTask, SearchGarbled, Answer, cronVars, jobVars
  <2>2. \A c \in Removals : removal'[c] = "idle" <=> removal[c] = "idle"
    BY <2>1 DEF TypeOK
  <2> QED BY <2>1, <2>2, IdOthers
<1>6. ASSUME NEW e \in entries, Fire(e) PROVE IdInv'
  <2>1. e.run \in Runs /\ Both(e.run) /\ UNCHANGED <<spec, entries, ids, id, target, run, removal>>
        /\ adding' = [adding EXCEPT ![e.run] = @ + 1]
    BY <1>6 DEF Fire, TypeOK, Entry, IdInv, cronVars, removalVars
  <2>2. \A r \in Runs : Both(r)' = Both(r) /\ (adding'[r] > 0 => Both(r))
    BY <2>1 DEF TypeOK, IdInv, Both
  <2>3. \A x \in entries : x.run \in Runs
    BY DEF TypeOK, Entry
  <2> QED BY <2>1, <2>2, <2>3 DEF IdInv
<1>7. CASE UNCHANGED vars
  BY <1>7, IdOthers DEF vars, cronVars, removalVars, jobVars
<1> QED BY <1>1, <1>2, <1>3, <1>4, <1>5, <1>6, <1>7 DEF Next, RunStep

(* The job RemoveScheduled has deleted is not started again, nor any other *)
(* job of the application that is not the nested one of a start time: for  *)
(* any number of applications, removals and firings, and in whatever order *)
(* RunApplication, RemoveScheduled and the jobs that add entries use the   *)
(* cron goroutine.                                                         *)
THEOREM RemovedStaysRemoved == Spec => []RemovedNeverFires
<1>1. TypeOK /\ IdInv => RemovedNeverFires
  <2> SUFFICES ASSUME TypeOK, IdInv, NEW d \in Removals, Answered(d), NEW e \in entries
               PROVE  /\ e.id # target[d]
                      /\ id[e.run] = target[d] /\ target[d] # -1 => e.nested /\ Both(e.run)
    BY DEF RemovedNeverFires
  <2>1. e.id # target[d]
    BY DEF IdInv, Answered
  <2>2. IF e.nested THEN Both(e.run) ELSE id[e.run] = e.id
    BY DEF IdInv
  <2>3. e.nested \in BOOLEAN
    BY DEF TypeOK, Entry
  <2> QED BY <2>1, <2>2, <2>3
<1> QED BY <1>1, TypeStart, TypeStep, IdStart, IdStep, PTL DEF Spec
-----------------------------------------------------------------------------
(* The list. *)
LEMMA ListStart == Init => ListInv
<1> SUFFICES ASSUME Init PROVE ListedOnce /\ Counted /\ EntriesListed
  BY DEF ListInv
<1>1. DOMAIN list = {} /\ entries = {} /\ \A r \in Runs : run[r] = "idle"
  BY DEF Init
<1>2. \A d \in Removals : removal[d] = "idle"
  BY DEF Init
<1>3. ASSUME NEW n \in Int PROVE Listed(n) = {} /\ Found(n) = {} /\ Scheduled(n) = {}
  BY <1>1, <1>2 DEF Listed, Found, Scheduled
<1>4. Counted
  BY <1>3, FS_EmptySet DEF Counted
<1> QED BY <1>1, <1>4 DEF ListedOnce, EntriesListed

(* HasEntry(n) after the step. *)
HasEntryNext(n) == \E e \in entries' : ~e.nested /\ e.id = n

(* What the counts are of is finite. *)
LEMMA CountedFinite ==
  ASSUME TypeOK, list \in Seq(Task), NEW n
  PROVE  /\ IsFiniteSet(Listed(n)) /\ Listed(n) \subseteq Runs
         /\ IsFiniteSet(Found(n)) /\ IsFiniteSet(Scheduled(n))
<1>a. \A i \in DOMAIN list : list[i] \in Task
  OBVIOUS
<1>0. \A i \in DOMAIN list : list[i].run \in Runs
  BY <1>a DEF Task
<1>1. Listed(n) \subseteq Runs
  BY <1>0 DEF Listed
<1>2. Found(n) \subseteq Removals /\ Scheduled(n) \subseteq Runs
  BY DEF Found, Scheduled
<1> QED BY <1>1, <1>2, ScheduleAssumption, FS_Subset

(* A step that does not change the list keeps the counts, unless a task is *)
(* appended or found.                                                      *)
LEMMA CountedKept ==
  ASSUME Counted, list' = list,
         \A r \in Runs : (run[r] = "done" <=> run'[r] = "done") /\ (run[r] = "done" => id'[r] = id[r]),
         \A d \in Removals : /\ removal[d] = "found" <=> removal'[d] = "found"
                             /\ removal[d] = "found" => target'[d] = target[d]
  PROVE  Counted'
<1>1. ASSUME NEW n \in Int
      PROVE  Listed(n)' = Listed(n) /\ Found(n)' = Found(n) /\ Scheduled(n)' = Scheduled(n)
  BY DEF Listed, Found, Scheduled
<1> QED BY <1>1 DEF Counted

(* It keeps the tasks, too. *)
LEMMA ListedKept ==
  ASSUME TypeOK, list \in Seq(Task), ListedOnce, list' = list,
         \A r \in Runs : run[r] = "done" => run'[r] = "done" /\ id'[r] = id[r]
  PROVE  ListedOnce'
<1>0. \A i \in DOMAIN list : list[i] \in Task
  OBVIOUS
<1>1. \A i \in DOMAIN list : list[i].run \in Runs
  BY <1>0 DEF Task
<1> QED BY <1>1 DEF ListedOnce

LEMMA ListSchedule ==
  ASSUME TypeOK, IdInv, list \in Seq(Task), ListedOnce, Counted, EntriesListed,
         NEW r \in Runs, ScheduleApplication(r)
  PROVE  ListedOnce' /\ Counted' /\ EntriesListed'
<1>1. PICK time, job :
         /\ job \in {"stage", "add"} /\ (job = "add" <=> Both(r))
         /\ AddFunc(time, r, job, FALSE)
         /\ id' = [id EXCEPT ![r] = IF time = "cron" THEN ids + 1 ELSE -1]
         /\ run[r] = "idle" /\ run' = [run EXCEPT ![r] = "append"]
         /\ UNCHANGED <<spec, list, removal, target, fired, adding>>
  BY ScheduleShape
<1>2. /\ run'[r] = "append" /\ id'[r] = IF time = "cron" THEN ids + 1 ELSE -1
      /\ \A q \in Runs : q # r => run'[q] = run[q] /\ id'[q] = id[q]
  BY <1>1 DEF TypeOK
<1>3. ListedOnce' /\ Counted'
  BY <1>1, <1>2, ListedKept, CountedKept
<1> DEFINE new == [id |-> ids + 1, run |-> r, job |-> job, nested |-> FALSE]
<1>4. \/ time = "cron" /\ entries' = entries \cup {new}
      \/ time # "cron" /\ entries' = entries
  BY <1>1 DEF AddFunc, cronVars
<1>5. entries \subseteq entries' /\ \A e \in entries' : e \in entries \/ e.run = r
  BY <1>4
<1>6. time = "cron" => HasEntryNext(ids + 1)
  <2>1. ~new.nested /\ new.id = ids + 1
    OBVIOUS
  <2> HIDE DEF new
  <2> QED BY <1>4, <2>1 DEF HasEntryNext
<1>7. \A n : HasEntry(n) => HasEntryNext(n)
  BY <1>5 DEF HasEntry, HasEntryNext
<1>8. \A e \in entries : e.run \in Runs
  BY DEF TypeOK, Entry
<1>9. \A e \in entries' : ~e.nested /\ run'[e.run] = "done" =>
        \E i \in DOMAIN list' : list'[i].run = e.run
  BY <1>1, <1>2, <1>5, <1>8 DEF EntriesListed
<1>10. \A q \in Runs : run'[q] \in {"append", "store"} /\ id'[q] # -1 => HasEntryNext(id'[q])
  <2>1. ASSUME NEW q \in Runs, run'[q] \in {"append", "store"}, id'[q] # -1
        PROVE  HasEntryNext(id'[q])
    <3>1. CASE q = r
      BY <1>2, <1>6, <2>1, <3>1
    <3>2. CASE q # r
      BY <1>2, <1>7, <2>1, <3>2 DEF EntriesListed
    <3> QED BY <3>1, <3>2
  <2> QED BY <2>1
<1>11. \A i \in DOMAIN list' : list'[i].id # -1 =>
         HasEntryNext(list'[i].id) \/ \E d \in Removals : Removing(d)' /\ target'[d] = list'[i].id
  BY <1>1, <1>7 DEF EntriesListed, Removing
<1> QED BY <1>3, <1>9, <1>10, <1>11 DEF EntriesListed, HasEntry, HasEntryNext

(* Steps that change neither ids nor targets nor the list, and no entry    *)
(* but nested ones.                                                        *)
LEMMA ListOthers ==
  ASSUME TypeOK, list \in Seq(Task), ListedOnce, Counted, EntriesListed,
         UNCHANGED <<list, id, target>>,
         \A e : ~e.nested => (e \in entries <=> e \in entries'),
         \A r \in Runs : \/ run'[r] = run[r]
                         \/ run[r] = "append" /\ run'[r] = "store",
         \A d \in Removals : \/ removal'[d] = removal[d]
                             \/ removal[d] = "range" /\ removal'[d] = "scan"
  PROVE  ListedOnce' /\ Counted' /\ EntriesListed'
<1>1. \A r \in Runs : (run[r] = "done" <=> run'[r] = "done")
  OBVIOUS
<1>2. \A d \in Removals : (removal[d] = "found" <=> removal'[d] = "found")
                          /\ (Removing(d) <=> Removing(d)')
  BY DEF Removing
<1>3. ListedOnce' /\ Counted'
  BY <1>1, <1>2, ListedKept, CountedKept
<1>4. \A n : HasEntry(n) => HasEntryNext(n)
  BY DEF HasEntry, HasEntryNext
<1>5. \A e \in entries : e.run \in Runs
  BY DEF TypeOK, Entry
<1>6. \A e \in entries' : ~e.nested /\ run'[e.run] = "done" =>
        \E i \in DOMAIN list' : list'[i].run = e.run
  BY <1>1, <1>5 DEF EntriesListed
<1>7. \A q \in Runs : run'[q] \in {"append", "store"} /\ id'[q] # -1 => HasEntryNext(id[q])
  BY <1>4 DEF EntriesListed
<1>8. \A i \in DOMAIN list' : list'[i].id # -1 =>
        HasEntryNext(list[i].id) \/ \E d \in Removals : Removing(d)' /\ target'[d] = list'[i].id
  BY <1>2, <1>4 DEF EntriesListed
<1> QED BY <1>3, <1>6, <1>7, <1>8 DEF EntriesListed, HasEntry, HasEntryNext

LEMMA ListDelete ==
  ASSUME TypeOK, IdInv, list \in Seq(Task), ListedOnce, Counted, EntriesListed,
         NEW d \in Removals, DeleteJob(d)
  PROVE  ListedOnce' /\ Counted' /\ EntriesListed'
<1>1. PICK n \in Targets : /\ target' = [target EXCEPT ![d] = n]
                           /\ entries' = {e \in entries : e.id # n}
  BY DEF DeleteJob
<1>2. /\ removal[d] = "idle" /\ removal' = [removal EXCEPT ![d] = "range"]
      /\ UNCHANGED <<list, run, id>>
  BY DEF DeleteJob
<1>3. /\ target'[d] = n /\ removal'[d] = "range"
      /\ \A c \in Removals : c # d => target'[c] = target[c] /\ removal'[c] = removal[c]
  BY <1>1, <1>2 DEF TypeOK
<1>4. ListedOnce' /\ Counted'
  BY <1>2, <1>3, ListedKept, CountedKept
<1>5. \A m : HasEntry(m) /\ m # n => HasEntryNext(m)
  BY <1>1 DEF HasEntry, HasEntryNext
<1>6. \A e \in entries' : ~e.nested /\ run'[e.run] = "done" =>
        \E i \in DOMAIN list' : list'[i].run = e.run
  BY <1>1, <1>2 DEF EntriesListed
<1>7. ASSUME NEW q \in Runs, run[q] \in {"append", "store"}, id[q] # -1 PROVE HasEntryNext(id[q])
  <2>1. id[q] \in 1..ids /\ ids \in Nat
    BY <1>7 DEF IdInv, TypeOK
  <2>2. n = 0 \/ \E r \in Runs : run[r] = "done" /\ n = id[r]
    BY <1>1 DEF Targets
  <2>3. n # id[q]
    BY <1>7, <2>1, <2>2 DEF IdInv
  <2> QED BY <1>5, <1>7, <2>3 DEF EntriesListed
<1>8. ASSUME NEW i \in DOMAIN list, list[i].id # -1
      PROVE  HasEntryNext(list[i].id) \/ \E c \in Removals : Removing(c)' /\ target'[c] = list[i].id
  <2>1. CASE list[i].id = n
    BY <1>3, <2>1 DEF Removing
  <2>2. CASE list[i].id # n /\ HasEntry(list[i].id)
    BY <1>5, <2>2
  <2>3. ASSUME NEW c \in Removals, Removing(c), target[c] = list[i].id
        PROVE  Removing(c)' /\ target'[c] = list[i].id
    BY <1>2, <1>3, <2>3 DEF Removing
  <2> QED BY <1>8, <2>1, <2>2, <2>3 DEF EntriesListed
<1> QED BY <1>2, <1>4, <1>6, <1>7, <1>8 DEF EntriesListed, HasEntry, HasEntryNext

LEMMA ListAppend ==
  ASSUME TypeOK, IdInv, list \in Seq(Task), ListedOnce, Counted, EntriesListed,
         NEW r \in Runs, AppendTask(r), list' # Garbled
  PROVE  ListedOnce' /\ Counted' /\ EntriesListed'
<1> DEFINE task == [id |-> id[r], run |-> r]
<1>1. /\ run[r] = "store" /\ run' = [run EXCEPT ![r] = "done"] /\ list' = Append(list, task)
      /\ UNCHANGED <<entries, id, removal, target>>
  BY DEF AppendTask, Store, cronVars, removalVars
<1>2. run'[r] = "done" /\ \A q \in Runs : q # r => run'[q] = run[q]
  BY <1>1 DEF TypeOK
<1>3. task \in Task /\ task.id = id[r] /\ task.run = r /\ id[r] \in Int
  BY DEF Task, TypeOK
<1> HIDE DEF task
<1> DEFINE m == Len(list)
<1>4. /\ m \in Nat /\ DOMAIN list = 1..m /\ DOMAIN list' = 1..(m + 1) /\ list'[m + 1] = task
      /\ \A i \in 1..m : list'[i] = list[i] /\ list[i] \in Task
      /\ list' \in Seq(Task)
  BY <1>1, <1>3
<1> HIDE DEF m
<1>5. \A i \in 1..m : list[i].run \in Runs /\ list[i].run # r
  BY <1>1, <1>4 DEF ListedOnce, Task
<1>6. ListedOnce'
  <2>1. \A i \in 1..(m + 1) : run'[list'[i].run] = "done" /\ list'[i].id = id'[list'[i].run]
    BY <1>1, <1>2, <1>3, <1>4, <1>5 DEF ListedOnce
  <2>2. ASSUME NEW i \in 1..(m + 1), NEW j \in 1..(m + 1), list'[i].run = list'[j].run
        PROVE  i = j
    <3>1. CASE i \in 1..m /\ j \in 1..m
      BY <1>4, <2>2, <3>1 DEF ListedOnce
    <3>2. CASE i = m + 1 \/ j = m + 1
      BY <1>3, <1>4, <1>5, <2>2, <3>2
    <3> QED BY <1>4, <3>1, <3>2
  <2> QED BY <1>4, <2>1, <2>2 DEF ListedOnce
<1>7. Counted'
  <2>1. ASSUME NEW n \in Int
        PROVE  Cardinality(Listed(n)') + Cardinality(Found(n)') = Cardinality(Scheduled(n)')
    <3>1. /\ IsFiniteSet(Listed(n)) /\ IsFiniteSet(Found(n)) /\ IsFiniteSet(Scheduled(n))
          /\ Cardinality(Listed(n)) + Cardinality(Found(n)) = Cardinality(Scheduled(n))
      BY CountedFinite DEF Counted
    <3>2. Found(n)' = Found(n) /\ r \notin Listed(n) /\ r \notin Scheduled(n)
      BY <1>1, <1>4, <1>5 DEF Found, Listed, Scheduled
    <3>3. CASE n = id[r]
      <4>1. Listed(n)' = Listed(n) \cup {r}
        <5>1. ASSUME NEW x \in Listed(n)' PROVE x \in Listed(n) \cup {r}
          BY <1>3, <1>4, <5>1 DEF Listed
        <5>2. ASSUME NEW x \in Listed(n) PROVE x \in Listed(n)'
          BY <1>4, <5>2 DEF Listed
        <5>3. r \in Listed(n)'
          <6>1. m + 1 \in DOMAIN list' /\ list'[m + 1].id = n /\ list'[m + 1].run = r
            BY <1>3, <1>4, <3>3
          <6> QED BY <6>1 DEF Listed
        <5> QED BY <5>1, <5>2, <5>3
      <4>2. Scheduled(n)' = Scheduled(n) \cup {r}
        BY <1>1, <1>2, <3>3 DEF Scheduled
      <4>3. /\ Cardinality(Listed(n)') = Cardinality(Listed(n)) + 1
            /\ Cardinality(Scheduled(n)') = Cardinality(Scheduled(n)) + 1
        BY <3>1, <3>2, <4>1, <4>2, FS_AddElement
      <4>4. /\ Cardinality(Listed(n)) \in Nat /\ Cardinality(Found(n)) \in Nat
            /\ Cardinality(Scheduled(n)) \in Nat
        BY <3>1, FS_CardinalityType
      <4> QED BY <3>1, <3>2, <4>3, <4>4
    <3>4. CASE n # id[r]
      <4>1. Listed(n)' = Listed(n)
        <5>1. ASSUME NEW x \in Listed(n)' PROVE x \in Listed(n)
          BY <1>3, <1>4, <3>4, <5>1 DEF Listed
        <5>2. ASSUME NEW x \in Listed(n) PROVE x \in Listed(n)'
          BY <1>4, <5>2 DEF Listed
        <5> QED BY <5>1, <5>2
      <4>2. Scheduled(n)' = Scheduled(n)
        BY <1>1, <1>2, <3>4 DEF Scheduled
      <4> QED BY <3>1, <3>2, <4>1, <4>2
    <3> QED BY <3>3, <3>4
  <2> QED BY <2>1 DEF Counted
<1>8. EntriesListed'
  <2>1. \A e \in entries : e.run \in Runs
    BY DEF TypeOK, Entry
  <2>2. ASSUME NEW e \in entries, ~e.nested, run'[e.run] = "done"
        PROVE  \E i \in 1..(m + 1) : list'[i].run = e.run
    <3>1. CASE e.run = r
      BY <1>3, <1>4, <3>1
    <3>2. CASE e.run # r
      <4>1. PICK i \in 1..m : list[i].run = e.run
        BY <1>2, <1>4, <2>1, <2>2, <3>2 DEF EntriesListed
      <4> QED BY <1>4, <4>1
    <3> QED BY <3>1, <3>2
  <2>3. \A q \in Runs : run'[q] \in {"append", "store"} /\ id[q] # -1 => HasEntry(id[q])
    BY <1>2 DEF EntriesListed
  <2>4. ASSUME NEW i \in 1..(m + 1), list'[i].id # -1
        PROVE  HasEntry(list'[i].id) \/ \E d \in Removals : Removing(d) /\ target[d] = list'[i].id
    <3>1. CASE i \in 1..m
      BY <1>4, <2>4, <3>1 DEF EntriesListed
    <3>2. CASE i = m + 1
      BY <1>1, <1>3, <1>4, <2>4, <3>2 DEF EntriesListed
    <3> QED BY <1>4, <3>1, <3>2
  <2> QED BY <1>1, <1>4, <2>2, <2>3, <2>4 DEF EntriesListed, HasEntry, HasEntryNext, Removing
<1> QED BY <1>6, <1>7, <1>8

(* Where the tasks are after the one at i is taken out. *)
Places(s, i, t) ==
  /\ \A j \in DOMAIN t :
       \E k \in DOMAIN s : k = (IF j < i THEN j ELSE j + 1) /\ k # i /\ t[j] = s[k]
  /\ \A k \in DOMAIN s : k # i => \E j \in DOMAIN t : t[j] = s[k]

LEMMA Shifted ==
  ASSUME NEW s \in Seq(Task), NEW i \in DOMAIN s
  PROVE  Places(s, i, Without(s, i))
<1> DEFINE t == [j \in 1..Len(s) - 1 |-> IF j < i THEN s[j] ELSE s[j + 1]]
<1>1. /\ Len(s) \in Nat /\ i \in 1..Len(s) /\ DOMAIN s = 1..Len(s)
      /\ DOMAIN t = 1..Len(s) - 1
  OBVIOUS
<1>2. ASSUME NEW j \in 1..Len(s) - 1
      PROVE  \E k \in 1..Len(s) : k = (IF j < i THEN j ELSE j + 1) /\ k # i /\ t[j] = s[k]
  BY <1>1
<1>3. ASSUME NEW k \in 1..Len(s), k # i PROVE \E j \in 1..Len(s) - 1 : t[j] = s[k]
  <2>1. CASE k < i
    <3>1. k \in 1..Len(s) - 1 /\ t[k] = s[k]
      BY <1>1, <2>1
    <3> QED BY <3>1
  <2>2. CASE k > i
    <3>1. k - 1 \in 1..Len(s) - 1 /\ ~(k - 1 < i) /\ (k - 1) + 1 = k
      BY <1>1, <2>2
    <3>2. t[k - 1] = s[k]
      BY <3>1
    <3> QED BY <3>1, <3>2
  <2> QED BY <1>1, <1>3, <2>1, <2>2
<1> HIDE DEF t
<1>4. Places(s, i, t)
  BY ZenonT(30), <1>1, <1>2, <1>3 DEF Places
<1> QED BY <1>4 DEF t, Without

LEMMA ListRemove ==
  ASSUME TypeOK, IdInv, list \in Seq(Task), ListedOnce, Counted, EntriesListed,
         NEW d \in Removals, RemoveTask(d), list' # Garbled
  PROVE  ListedOnce' /\ Counted' /\ EntriesListed'
<1>1. PICK i \in DOMAIN list :
        /\ FirstAt(i, target[d])
        /\ Store(d, Without(list, i))
  BY DEF RemoveTask
<1>2. /\ removal[d] = "scan" /\ removal' = [removal EXCEPT ![d] = "found"]
      /\ UNCHANGED <<entries, run, id, target>>
  BY DEF RemoveTask, Answer, cronVars
<1>3. /\ removal'[d] = "found" /\ \A c \in Removals : c # d => removal'[c] = removal[c]
  BY <1>2 DEF TypeOK
<1>4. /\ list' = Without(list, i)
      /\ list[i].id = target[d]
  BY <1>1 DEF Store, FirstAt
<1>5. /\ \A j \in DOMAIN list' : \E k \in DOMAIN list :
           k = (IF j < i THEN j ELSE j + 1) /\ k # i /\ list'[j] = list[k]
      /\ \A k \in DOMAIN list : k # i => \E j \in DOMAIN list' : list'[j] = list[k]
  <2>1. Places(list, i, list')
    BY <1>4, Shifted
  <2> QED BY <2>1 DEF Places
<1>6. list' \in Seq(Task) /\ DOMAIN list' = 1..Len(list) - 1 /\ Len(list) \in Nat /\ i \in Nat
  BY <1>4, ShiftTyped
<1> DEFINE r == list[i].run
<1>7. \A k \in DOMAIN list : list[k] \in Task
  OBVIOUS
<1>8. /\ r \in Runs /\ run[r] = "done" /\ id[r] = target[d] /\ target[d] \in Int
      /\ \A k \in DOMAIN list : list[k].run \in Runs /\ (k # i => list[k].run # r)
  BY <1>4, <1>7 DEF Task, ListedOnce, TypeOK
<1> HIDE DEF r
<1>9. ListedOnce'
  <2>1. \A j \in DOMAIN list' : run'[list'[j].run] = "done" /\ list'[j].id = id'[list'[j].run]
    BY <1>2, <1>5 DEF ListedOnce
  <2>2. ASSUME NEW j \in DOMAIN list', NEW l \in DOMAIN list', list'[j].run = list'[l].run
        PROVE  j = l
    <3>1. (IF j < i THEN j ELSE j + 1) = (IF l < i THEN l ELSE l + 1)
      BY <1>5, <2>2 DEF ListedOnce
    <3>2. j \in Nat /\ l \in Nat
      BY <1>6
    <3> QED BY <1>6, <3>1, <3>2
  <2> QED BY <2>1, <2>2 DEF ListedOnce
<1>10. Counted'
  <2>1. ASSUME NEW n \in Int
        PROVE  Cardinality(Listed(n)') + Cardinality(Found(n)') = Cardinality(Scheduled(n)')
    <3>1. /\ IsFiniteSet(Listed(n)) /\ IsFiniteSet(Found(n)) /\ IsFiniteSet(Scheduled(n))
          /\ Cardinality(Listed(n)) + Cardinality(Found(n)) = Cardinality(Scheduled(n))
      BY CountedFinite DEF Counted
    <3>2. Scheduled(n)' = Scheduled(n) /\ d \notin Found(n)
      BY <1>2 DEF Found, Scheduled
    <3>3. Listed(n)' = Listed(n) \ {r}
      <4>1. ASSUME NEW x \in Listed(n)' PROVE x \in Listed(n) /\ x # r
        <5>1. PICK j \in DOMAIN list' : list'[j].id = n /\ list'[j].run = x
          BY <4>1 DEF Listed
        <5>2. PICK k \in DOMAIN list : k # i /\ list'[j] = list[k]
          BY <1>5, <5>1
        <5> QED BY <1>8, <5>1, <5>2 DEF Listed
      <4>2. ASSUME NEW x \in Listed(n), x # r PROVE x \in Listed(n)'
        <5>1. PICK k \in DOMAIN list : list[k].id = n /\ list[k].run = x
          BY <4>2 DEF Listed
        <5>2. k # i
          BY <4>2, <5>1 DEF r
        <5>3. PICK j \in DOMAIN list' : list'[j] = list[k]
          BY <1>5, <5>1, <5>2
        <5> QED BY <5>1, <5>3 DEF Listed
      <4> QED BY <4>1, <4>2
    <3>4. CASE n = target[d]
      <4>1. r \in Listed(n)
        BY <1>4, <3>4 DEF Listed, r
      <4>2. Found(n)' = Found(n) \cup {d}
        BY <1>2, <1>3, <3>4 DEF Found
      <4>3. /\ Cardinality(Listed(n)') = Cardinality(Listed(n)) - 1
            /\ Cardinality(Found(n)') = Cardinality(Found(n)) + 1
        <5>1. Cardinality(Listed(n) \ {r}) = Cardinality(Listed(n)) - 1
          BY ZenonT(30), <3>1, <4>1, FS_RemoveElement
        <5>2. Cardinality(Found(n) \cup {d}) = Cardinality(Found(n)) + 1
          BY <3>1, <3>2, FS_AddElement
        <5> QED BY <3>3, <4>2, <5>1, <5>2
      <4>4. /\ Cardinality(Listed(n)) \in Nat /\ Cardinality(Found(n)) \in Nat
            /\ Cardinality(Scheduled(n)) \in Nat
        BY <3>1, FS_CardinalityType
      <4> QED BY <3>1, <3>2, <4>3, <4>4
    <3>5. CASE n # target[d]
      <4>1. r \notin Listed(n)
        <5>1. ASSUME NEW k \in DOMAIN list, list[k].run = r PROVE list[k].id # n
          BY <1>4, <1>8, <3>5, <5>1
        <5> QED BY <5>1 DEF Listed
      <4>2. Found(n)' = Found(n)
        BY <1>2, <1>3, <3>5 DEF Found
      <4>3. Listed(n)' = Listed(n)
        BY <3>3, <4>1
      <4> QED BY <3>1, <3>2, <4>2, <4>3
    <3> QED BY <3>4, <3>5
  <2> QED BY <2>1 DEF Counted
<1>11. EntriesListed'
  <2>1. ASSUME NEW e \in entries, ~e.nested, run[e.run] = "done"
        PROVE  \E j \in DOMAIN list' : list'[j].run = e.run
    <3>1. PICK k \in DOMAIN list : list[k].run = e.run
      BY <2>1 DEF EntriesListed
    <3>2. e.id # target[d] /\ id[e.run] = e.id
      BY <1>2, <2>1 DEF IdInv
    <3>3. k # i
      BY <1>8, <3>1, <3>2 DEF r
    <3>4. PICK j \in DOMAIN list' : list'[j] = list[k]
      BY <1>5, <3>3
    <3> QED BY <3>1, <3>4
  <2>2. ASSUME NEW j \in DOMAIN list', list'[j].id # -1
        PROVE  HasEntry(list'[j].id) \/
               \E c \in Removals : removal'[c] \in {"range", "scan"} /\ target[c] = list'[j].id
    <3>1. PICK k \in DOMAIN list : k # i /\ list'[j] = list[k]
      BY <1>5
    <3>2. run[list[k].run] = "done" /\ list[k].id = id[list[k].run] /\ list[k].run \in Runs
      BY <1>8 DEF ListedOnce
    <3>3. list[k].id # target[d]
      BY <1>8, <2>2, <3>1, <3>2 DEF IdInv
    <3>4. HasEntry(list[k].id) \/ \E c \in Removals : Removing(c) /\ target[c] = list[k].id
      BY <2>2, <3>1 DEF EntriesListed
    <3> QED BY <1>3, <3>1, <3>3, <3>4 DEF Removing
  <2> QED BY <1>2, <2>1, <2>2 DEF EntriesListed, HasEntry, Removing
<1> QED BY <1>9, <1>10, <1>11
(* Every step keeps ListInv. *)
LEMMA ListStep == TypeOK /\ IdInv /\ ListInv /\ [Next]_vars => ListInv'
<1> SUFFICES ASSUME TypeOK, IdInv, ListInv, [Next]_vars, list' # Garbled
             PROVE  ListedOnce' /\ Counted' /\ EntriesListed'
  BY DEF ListInv
<1>0. list # Garbled
  BY DEF Next, RunStep, RemovalStep, ScheduleApplication, LoadList, AppendTask, AddSchedule,
         DeleteJob, RangeList, RemoveTask, MissTask, SearchGarbled, Fire, Store, vars
<1>1. list \in Seq(Task) /\ ListedOnce /\ Counted /\ EntriesListed
  BY <1>0 DEF TypeOK, ListInv
<1> DEFINE Kept == ListedOnce' /\ Counted' /\ EntriesListed'
<1> HIDE DEF Kept
<1>2. ASSUME NEW r \in Runs, ScheduleApplication(r) PROVE Kept
  BY <1>1, <1>2, ListSchedule DEF Kept
<1>3. ASSUME NEW r \in Runs, LoadList(r) PROVE Kept
  <2>1. /\ UNCHANGED <<entries, list, id, target, removal>>
        /\ run[r] = "append" /\ run' = [run EXCEPT ![r] = "store"]
    BY <1>3 DEF LoadList, cronVars, removalVars
  <2>2. \A q \in Runs : run'[q] = run[q] \/ (run[q] = "append" /\ run'[q] = "store")
    BY <2>1 DEF TypeOK
  <2> QED BY <1>1, <2>1, <2>2, ListOthers DEF Kept
<1>4. ASSUME NEW r \in Runs, AppendTask(r) PROVE Kept
  BY <1>1, <1>4, ListAppend DEF Kept
<1>5. ASSUME NEW r \in Runs, AddSchedule(r) PROVE Kept
  <2>1. /\ UNCHANGED <<list, run, id, target, removal>>
        /\ AddFunc(spec[r].schedule, r, "stage", TRUE)
    BY <1>5 DEF AddSchedule, removalVars
  <2>2. \A e : ~e.nested => (e \in entries <=> e \in entries')
    BY <2>1 DEF AddFunc, cronVars
  <2> QED BY <1>1, <2>1, <2>2, ListOthers DEF Kept
<1>6. ASSUME NEW d \in Removals, DeleteJob(d) PROVE Kept
  BY <1>1, <1>6, ListDelete DEF Kept
<1>7. ASSUME NEW d \in Removals, RangeList(d) PROVE Kept
  <2>1. /\ UNCHANGED <<entries, list, id, target, run>>
        /\ removal[d] = "range" /\ removal' = [removal EXCEPT ![d] = "scan"]
    BY <1>7 DEF RangeList, cronVars
  <2>2. \A c \in Removals :
          removal'[c] = removal[c] \/ (removal[c] = "range" /\ removal'[c] = "scan")
    BY <2>1 DEF TypeOK
  <2> QED BY <1>1, <2>1, <2>2, ListOthers DEF Kept
<1>8. ASSUME NEW d \in Removals, RemoveTask(d) PROVE Kept
  BY <1>1, <1>8, ListRemove DEF Kept
<1>9. ASSUME NEW d \in Removals, MissTask(d) PROVE Kept
  <2>1. /\ UNCHANGED <<entries, list, id, target, run>> /\ removal[d] = "scan"
        /\ removal' = [removal EXCEPT ![d] = "notFound"]
        /\ \A i \in DOMAIN list : list[i].id # target[d]
    BY <1>9 DEF MissTask, Answer, cronVars
  <2>2. /\ removal'[d] = "notFound" /\ \A c \in Removals : c # d => removal'[c] = removal[c]
    BY <2>1 DEF TypeOK
  <2>3. ListedOnce' /\ Counted'
    BY <1>1, <2>1, <2>2, ListedKept, CountedKept
  <2>4. ASSUME NEW i \in DOMAIN list, NEW c \in Removals, Removing(c), target[c] = list[i].id
        PROVE  Removing(c)'
    BY <2>1, <2>2, <2>4 DEF Removing
  <2>5. EntriesListed'
    BY <1>1, <2>1, <2>4 DEF EntriesListed, HasEntry
  <2> QED BY <2>3, <2>5 DEF Kept
<1>10. ASSUME NEW d \in Removals, SearchGarbled(d) PROVE Kept
  BY <1>0, <1>10 DEF SearchGarbled
<1>11. ASSUME NEW e \in entries, Fire(e) PROVE Kept
  <2>1. UNCHANGED <<entries, list, id, target, run, removal>>
    BY <1>11 DEF Fire, cronVars, removalVars
  <2> QED BY <1>1, <2>1, ListOthers DEF Kept
<1>12. ASSUME UNCHANGED vars PROVE Kept
  <2>1. UNCHANGED <<entries, list, id, target, run, removal>>
    BY <1>12 DEF vars, cronVars, removalVars
  <2> QED BY <1>1, <2>1, ListOthers DEF Kept
<1>13. Kept
  BY <1>2, <1>3, <1>4, <1>5, <1>6, <1>7, <1>8, <1>9, <1>10, <1>11, <1>12
     DEF Next, RunStep, RemovalStep
<1> QED BY <1>13 DEF Kept

(* While no request is under way the tasks are those that have an entry.   *)
LEMMA QuietIds ==
  ASSUME TypeOK, IdInv, list \in Seq(Task), ListedOnce, EntriesListed, Quiet
  PROVE  {list[i].id : i \in DOMAIN list} \ {-1} = {e.id : e \in {x \in entries : ~x.nested}}
<1>1. ASSUME NEW i \in DOMAIN list, list[i].id # -1
      PROVE  \E e \in entries : ~e.nested /\ e.id = list[i].id
  <2>1. \A d \in Removals : ~Removing(d)
    BY DEF Quiet, Removing, Answered
  <2> QED BY <1>1, <2>1 DEF EntriesListed, HasEntry
<1>2. ASSUME NEW e \in entries, ~e.nested
      PROVE  e.id # -1 /\ \E i \in DOMAIN list : list[i].id = e.id
  <2>1. e.run \in Runs /\ run[e.run] # "idle" /\ id[e.run] = e.id /\ e.id \in 1..ids
    BY <1>2 DEF TypeOK, Entry, IdInv
  <2>2. run[e.run] = "done"
    BY <2>1 DEF Quiet
  <2>3. PICK i \in DOMAIN list : list[i].run = e.run
    BY <1>2, <2>2 DEF EntriesListed
  <2>4. list[i].id = e.id
    BY <2>1, <2>3 DEF ListedOnce
  <2>5. e.id # -1
    BY <2>1 DEF TypeOK
  <2> QED BY <2>4, <2>5
<1> QED BY <1>1, <1>2

(* The list of scheduled tasks is exact, for any number of applications    *)
(* and removals, until a goroutine stores it while another one uses it:    *)
(* each task is listed once, as many under an id as were scheduled and not *)
(* removed, and in quiet times they are what the cron goroutine has        *)
(* entries for.                                                            *)
THEOREM ListAlwaysExact == Spec => []ListExact
<1>1. TypeOK /\ IdInv /\ ListInv => ListExact
  <2> SUFFICES ASSUME TypeOK, IdInv, ListInv, list # Garbled
               PROVE  /\ \A i, j \in DOMAIN list : list[i].run = list[j].run => i = j
                      /\ \A r \in Runs : Cardinality(Listed(id[r])) + Cardinality(Found(id[r])) =
                                         Cardinality(Scheduled(id[r]))
                      /\ Quiet => {list[i].id : i \in DOMAIN list} \ {-1} =
                                  {e.id : e \in {x \in entries : ~x.nested}}
    BY DEF ListExact
  <2>1. list \in Seq(Task) /\ ListedOnce /\ Counted /\ EntriesListed
    BY DEF TypeOK, ListInv
  <2>2. \A r \in Runs : id[r] \in Int
    BY DEF TypeOK
  <2>3. \A i, j \in DOMAIN list : list[i].run = list[j].run => i = j
    BY <2>1 DEF ListedOnce
  <2>4. \A r \in Runs : Cardinality(Listed(id[r])) + Cardinality(Found(id[r])) =
                        Cardinality(Scheduled(id[r]))
    BY <2>1, <2>2 DEF Counted
  <2> QED BY <2>1, <2>3, <2>4, QuietIds
<1> QED BY <1>1, TypeStart, TypeStep, IdStart, IdStep, ListStart, ListStep, PTL DEF Spec
=============================================================================
