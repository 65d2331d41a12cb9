----------------------- MODULE ApplicationRunOutcomes -----------------------
(***************************************************************************)
(* More about ApplicationRun, for any runs, applications, tasks and either *)
(* storage: what a Run publishes for its dependents, and that it performs  *)
(* what is documented, in the documented order.                            *)
(***************************************************************************)
EXTENDS ApplicationRunProofs

-----------------------------------------------------------------------------
(* Published variables. *)
Announces(j, p, s, t, c) == Announced(j[2], p, s, t, c) \subseteq variables'[j[1]]["stack"]

(* What was announced stays set, and what a step does not announce was     *)
(* announced before it.                                                    *)
LEMMA NoMoreAnnounced ==
  ASSUME ControlInv, TypeOK, PublishInv, [Next]_vars, NEW j \in Jobs,
         NEW p, NEW s, NEW t, NEW c,
         \/ s \in {"beforeScheduler", "afterScheduler"}
         \/ ~HasRunner(j[2])
         \/ section[j] \notin {"beforeScheduler", "afterScheduler"},
         Through(j[2], p, s, t, c) \subseteq
           Through(j[2], pc[j], section[j], task[j], call[j])
  PROVE  Announces(j, p, s, t, c)
<1>1. Announced(j[2], p, s, t, c) \subseteq
        Announced(j[2], pc[j], section[j], task[j], call[j])
  BY DEF Announced
<1>2. Announced(j[2], pc[j], section[j], task[j], call[j]) \subseteq variables[j[1]]["stack"]
  BY DEF PublishInv
<1>3. variables[j[1]]["stack"] \subseteq variables'[j[1]]["stack"]
  BY VariablesStep, JobFacts
<1> QED BY <1>1, <1>2, <1>3 DEF Announces

LEMMA AnnounceGoto ==
  ASSUME ControlInv, TypeOK, PublishInv, [Next]_vars, NEW j \in Jobs, NEW p, p # "call" \/ p = pc[j]
  PROVE  Announces(j, p, section[j], task[j], call[j])
<1>1. Through(j[2], p, section[j], task[j], call[j]) \subseteq
        Through(j[2], pc[j], section[j], task[j], call[j])
  BY DEF Through
<1> QED BY <1>1, NoMoreAnnounced

LEMMA AnnounceAfterScheduler ==
  ASSUME ControlInv, TypeOK, PublishInv, [Next]_vars, NEW j \in Jobs
  PROVE  Announces(j, "resolve", "afterScheduler", 0, 0)
<1>1. Through(j[2], "resolve", "afterScheduler", 0, 0) = {}
  BY SMTT(30), JobFacts DEF Through
<1> QED BY <1>1, NoMoreAnnounced

LEMMA AnnounceAfterScript ==
  ASSUME ControlInv, TypeOK, PublishInv, [Next]_vars, NEW j \in Jobs, AfterScript(j)
  PROVE  \E p, s, t, c : Move(j, p, s, t, c) /\ Announces(j, p, s, t, c)
<1> DEFINE Old == Through(j[2], pc[j], section[j], task[j], call[j])
<1>1. CASE \E p \in {"deploy", "fill", "ok"} : Move(j, p, section[j], task[j], call[j])
  BY <1>1, AnnounceGoto
<1>2. CASE ~HasRunner(j[2]) /\ Move(j, "resolve", "afterTasks", 0, 0)
  <2>1. Through(j[2], "resolve", "afterTasks", 0, 0) \subseteq Old
    BY SMTT(30), <1>2, JobFacts DEF Through
  <2> QED BY <1>2, <2>1, NoMoreAnnounced
<1>3. CASE section[j] = "beforeTask" /\ Move(j, "call", section[j], task[j], 1)
  <2>1. Through(j[2], "call", section[j], task[j], 1) \subseteq Old
    BY <1>3 DEF Through
  <2>2. Announces(j, "call", section[j], task[j], 1)
    BY <1>3, <2>1, NoMoreAnnounced
  <2> QED BY <1>3, <2>2
<1>4. CASE section[j] = "afterTask" /\ Move(j, "resolve", "beforeTask", task[j] + 1, 0)
  <2>1. \A u \in 1..Application[j[2]].tasks : u < task[j] + 1 => u < task[j] \/ u = task[j]
    BY SMTT(30), JobFacts
  <2>2. Through(j[2], "resolve", "beforeTask", task[j] + 1, 0) \subseteq Old
    BY <1>4, <2>1 DEF Through
  <2>3. Announces(j, "resolve", "beforeTask", task[j] + 1, 0)
    BY <1>4, <2>2, NoMoreAnnounced
  <2> QED BY <1>4, <2>3
<1>5. CASE section[j] = "afterTask" /\ Move(j, "resolve", "afterTasks", task[j], 0)
  <2>1. Through(j[2], "resolve", "afterTasks", task[j], 0) \subseteq Old
    BY SMTT(30), <1>5 DEF Through
  <2>2. Announces(j, "resolve", "afterTasks", task[j], 0)
    BY <1>5, <2>1, NoMoreAnnounced
  <2> QED BY <1>5, <2>2
<1> QED BY ZenonT(30), <1>1, <1>2, <1>3, <1>4, <1>5, AfterScriptMoves

(* fillContext publishes before the tasks. *)
LEMMA AnnounceFill ==
  ASSUME ControlInv, TypeOK, PublishInv, [Next]_vars, NEW j \in Jobs, FillContext(j)
  PROVE  \E p, s, t, c : Move(j, p, s, t, c) /\ Announces(j, p, s, t, c)
<1> DEFINE a == Application[j[2]]
<1>1. /\ pc[j] = "fill" /\ section[j] = "afterScheduler" /\ task[j] = 0 /\ a.tasks \in Nat
      /\ j[1] \in Runs
  <2>1. pc[j] = "fill"
    BY ZenonT(30) DEF FillContext
  <2> QED BY <2>1, JobFacts DEF Fits
<1>2. CASE Goto(j, "error")
  BY <1>2, GotoMoves, AnnounceGoto
<1>3. ASSUME BeginTask(j), NEW names, SetStackVariables(j[1], names), a.publishes \subseteq names,
             a.type = "elasticsearch" => a.connects \subseteq names
      PROVE  \E p, s, t, c : Move(j, p, s, t, c) /\ Announces(j, p, s, t, c)
  <2>1. names \subseteq variables'[j[1]]["stack"]
    <3>1. variables \in [Runs -> [Kinds -> SUBSET Vars]] /\ "stack" \in Kinds
      BY DEF TypeOK, Kinds
    <3>2. variables'[j[1]]["stack"] = variables[j[1]]["stack"] \cup names
      BY <1>1, <1>3, <3>1 DEF SetStackVariables
    <3> QED BY <3>2
  <2>2. ASSUME NEW s, NEW t, Through(j[2], "resolve", s, t, 0) = {}
        PROVE  Announces(j, "resolve", s, t, 0)
    BY <1>3, <2>1, <2>2 DEF Announces, Announced
  <2>3. CASE task[j] < a.tasks
    <3>1. Move(j, "resolve", "beforeTask", task[j] + 1, 0)
      BY <1>3, <2>3, BeginMoves DEF BeginTask
    <3>2. Through(j[2], "resolve", "beforeTask", task[j] + 1, 0) = {}
      BY <1>1 DEF Through
    <3> QED BY <2>2, <3>1, <3>2
  <2>4. CASE ~(task[j] < a.tasks)
    <3>1. Move(j, "resolve", "afterTasks", task[j], 0)
      BY <1>3, <2>4, BeginMoves DEF BeginTask
    <3>2. Through(j[2], "resolve", "afterTasks", task[j], 0) = {}
      BY <1>1, <2>4 DEF Through
    <3> QED BY <2>2, <3>1, <3>2
  <2> QED BY <2>3, <2>4
<1>4. \/ Goto(j, "error")
      \/ BeginTask(j) /\ a.type # "elasticsearch" /\ SetStackVariables(j[1], a.publishes)
      \/ BeginTask(j) /\ SetStackVariables(j[1], a.publishes \cup a.connects)
  BY ZenonT(30) DEF FillContext
<1> HIDE DEF a
<1> QED BY ZenonT(30), <1>2, <1>3, <1>4

(* The task runners publish with the first start that is accepted. *)
LEMMA AnnounceRunTask ==
  ASSUME ControlInv, TaskInv, TypeOK, PublishInv, [Next]_vars, NEW j \in Jobs, RunTask(j)
  PROVE  \E p, s, t, c : Move(j, p, s, t, c) /\ Announces(j, p, s, t, c)
<1> DEFINE a == j[2]
           c == Calls(a)[call[j]]
           node == nodes[a][task[j]]
           old == Through(a, pc[j], section[j], task[j], call[j])
           Starts == c = "start" /\ Application[a].type \in PublishOnStart
<1>1. /\ pc[j] = "call" /\ section[j] = "beforeTask" /\ a \in Apps /\ j[1] \in Runs
      /\ task[j] \in 1..Application[a].tasks /\ call[j] \in 1..Len(Calls(a))
      /\ HasRunner(a) /\ call[j] \in Nat /\ task[j] \in Nat /\ Application[a].tasks \in Nat
  <2>1. pc[j] = "call"
    BY SMTT(30) DEF RunTask
  <2> QED BY SMTT(30), <2>1, JobFacts DEF Fits
<1>2. node \in NodeStates
  BY ZenonT(30), <1>1 DEF TaskInv
<1>3. PICK reply \in Replies(c, node) :
        \/ Goto(j, "error")
        \/ /\ Accepts(Application[a].type, c, reply[1])
           /\ SetStackVariables(j[1], IF Starts THEN Application[a].connects ELSE {})
           /\ \/ /\ call' = [call EXCEPT ![j] = @ + 1]
                 /\ UNCHANGED <<pc, section, task>>
              \/ call[j] = Len(Calls(a)) /\ Begin(j, "afterTask", task[j])
  BY ZenonT(30) DEF RunTask
<1>4. CASE Goto(j, "error")
  BY <1>4, GotoMoves, AnnounceGoto
<1>5. ASSUME Starts, SetStackVariables(j[1], IF Starts THEN Application[a].connects ELSE {})
      PROVE  Application[a].connects \subseteq variables'[j[1]]["stack"]
  <2>1. variables \in [Runs -> [Kinds -> SUBSET Vars]] /\ "stack" \in Kinds
    BY DEF TypeOK, Kinds
  <2>2. SetStackVariables(j[1], Application[a].connects)
    BY <1>5
  <2>3. variables'[j[1]]["stack"] = variables[j[1]]["stack"] \cup Application[a].connects
    BY <1>1, <2>1, <2>2 DEF SetStackVariables
  <2> QED BY <2>3
<1>6. ASSUME NEW p, NEW s \in {"beforeTask", "afterTask"}, NEW x,
             SetStackVariables(j[1], IF Starts THEN Application[a].connects ELSE {}),
             Through(a, p, s, task[j], x) # {} => c = "start" \/ old # {}
      PROVE  Announces(j, p, s, task[j], x)
  <2>1. Announced(a, pc[j], section[j], task[j], call[j]) \subseteq variables'[j[1]]["stack"]
    <3>1. Announced(a, pc[j], section[j], task[j], call[j]) \subseteq variables[j[1]]["stack"]
      BY DEF PublishInv
    <3>2. variables[j[1]]["stack"] \subseteq variables'[j[1]]["stack"]
      BY VariablesStep, <1>1
    <3> QED BY <3>1, <3>2
  <2>2. Announced(a, p, s, task[j], x) \subseteq
          Announced(a, pc[j], section[j], task[j], call[j]) \cup
          (IF Starts THEN Application[a].connects ELSE {})
    BY <1>1, <1>6 DEF Announced
  <2> QED BY <1>5, <1>6, <2>1, <2>2 DEF Announces
<1>7. ASSUME \E i \in 1..call[j] : Calls(a)[i] = "start" PROVE c = "start" \/ old # {}
  <2>1. CASE c # "start"
    <3>1. \E i \in 1..call[j] - 1 : Calls(a)[i] = "start"
      BY SMTT(30), <1>1, <1>7, <2>1
    <3>2. task[j] \in old
      BY SMTT(30), <1>1, <3>1 DEF Through
    <3> QED BY <3>2
  <2> QED BY <2>1
<1>8. CASE /\ SetStackVariables(j[1], IF Starts THEN Application[a].connects ELSE {})
           /\ call' = [call EXCEPT ![j] = @ + 1]
           /\ UNCHANGED <<pc, section, task>>
  <2>1. Move(j, pc[j], section[j], task[j], call[j] + 1)
    BY SMTT(30), <1>8 DEF Move, ControlInv
  <2>2. ASSUME NEW u \in Through(a, pc[j], section[j], task[j], call[j] + 1)
        PROVE  c = "start" \/ old # {}
    <3>1. CASE u = task[j]
      <4>1. ~(u < task[j]) /\ section[j] = "beforeTask"
        BY <1>1, <3>1
      <4>2. \E i \in 1..(call[j] + 1) - 1 : Calls(a)[i] = "start"
        BY ZenonT(30), <2>2, <4>1 DEF Through
      <4>3. (call[j] + 1) - 1 = call[j]
        BY SMTT(30), <1>1
      <4> QED BY ZenonT(30), <1>7, <4>2, <4>3
    <3>2. CASE u # task[j]
      <4>1. u \in old
        BY SMTT(30), <2>2, <3>2 DEF Through
      <4> QED BY <4>1
    <3> QED BY SMTT(30), <3>1, <3>2
  <2>3. Announces(j, pc[j], section[j], task[j], call[j] + 1)
    BY ZenonT(30), <1>1, <1>6, <1>8, <2>2
  <2> QED BY <2>1, <2>3
<1>9. CASE /\ SetStackVariables(j[1], IF Starts THEN Application[a].connects ELSE {})
           /\ Accepts(Application[a].type, c, reply[1])
           /\ call[j] = Len(Calls(a)) /\ Begin(j, "afterTask", task[j])
  <2>1. \E i \in 1..Len(Calls(a)) : Calls(a)[i] = "start"
    BY ZenonT(30), <1>1, <1>2, <1>9, LastCall
  <2>2. c = "start" \/ old # {}
    BY <1>7, <1>9, <2>1
  <2>3. Announces(j, "resolve", "afterTask", task[j], 0)
    BY <1>6, <1>9, <2>2
  <2> QED BY <1>9, <2>3, BeginMoves
<1> QED BY ZenonT(30), <1>3, <1>4, <1>8, <1>9

LEMMA PublishInit == Init => PublishInv
<1> SUFFICES ASSUME Init, NEW j \in Jobs
             PROVE  Announced(j[2], pc[j], section[j], task[j], call[j]) = {} /\ pc[j] = "idle"
  BY DEF PublishInv
<1>1. /\ pc[j] = "idle" /\ section[j] = "beforeScheduler" /\ task[j] = 0
      /\ Application[j[2]].tasks \in Nat
  BY ApplicationAssumption DEF Init, Jobs
<1>2. Through(j[2], pc[j], section[j], task[j], call[j]) = {}
  BY SMTT(30), <1>1 DEF Through
<1> QED BY <1>1, <1>2 DEF Announced

(* Every step keeps PublishInv. *)
LEMMA PublishStep ==
  ControlInv /\ TaskInv /\ TypeOK /\ PublishInv /\ [Next]_vars => PublishInv'
<1> SUFFICES ASSUME ControlInv, TaskInv, TypeOK, PublishInv, [Next]_vars PROVE PublishInv'
  OBVIOUS
<1> DEFINE Moves(j) == \E p, s, t, c : Move(j, p, s, t, c) /\ Announces(j, p, s, t, c)
           Keeps == \A k \in Jobs : Announces(k, pc'[k], section'[k], task'[k], call'[k])
<1>a. ASSUME NEW k \in Jobs PROVE Announces(k, pc[k], section[k], task[k], call[k])
  BY AnnounceGoto
<1>b. ASSUME NEW j \in Jobs, Moves(j) PROVE Keeps
  <2>1. PICK p, s, t, c : Move(j, p, s, t, c) /\ Announces(j, p, s, t, c)
    BY <1>b
  <2>2. ASSUME NEW k \in Jobs PROVE Announces(k, pc'[k], section'[k], task'[k], call'[k])
    <3>1. CASE k = j
      <4>1. pc'[k] = p /\ section'[k] = s /\ task'[k] = t /\ call'[k] = c
        BY <2>1, <3>1 DEF Move, ControlInv
      <4> QED BY <2>1, <3>1, <4>1
    <3>2. CASE k # j
      <4>1. /\ pc'[k] = pc[k] /\ section'[k] = section[k]
            /\ task'[k] = task[k] /\ call'[k] = call[k]
        BY <2>1, <3>2 DEF Move, ControlInv
      <4> QED BY <1>a, <4>1
    <3> QED BY <3>1, <3>2
  <2> QED BY <2>2
<1>c. ASSUME UNCHANGED <<pc, section, task, call>> PROVE Keeps
  BY <1>a, <1>c
<1>d. ASSUME NEW j \in Jobs, NEW p, p # "call", Goto(j, p) PROVE Moves(j)
  BY <1>d, GotoMoves, AnnounceGoto
<1>e. ASSUME NEW j \in Jobs, Begin(j, "afterScheduler", 0) PROVE Moves(j)
  BY <1>e, BeginMoves, AnnounceAfterScheduler
<1>f. ASSUME NEW j \in Jobs, AfterScript(j) PROVE Moves(j)
  BY <1>f, AnnounceAfterScript
<1>1. ASSUME NEW j \in Jobs, Start(j) PROVE Moves(j)
  BY <1>1, <1>d DEF Start
<1>2. ASSUME NEW j \in Jobs, Resolve(j) PROVE Moves(j)
  <2>1. Goto(j, "unresolved") \/ Goto(j, "open") \/ AfterScript(j)
    BY <1>2 DEF Resolve
  <2> HIDE DEF Moves
  <2> QED BY <2>1, <1>d, <1>f
<1>3. ASSUME NEW j \in Jobs, OpenScript(j) \/ WriteScript(j) PROVE Moves(j)
  <2>1. Goto(j, "write") \/ Goto(j, "exec") \/ Goto(j, "error")
    BY <1>3 DEF OpenScript, WriteScript
  <2> HIDE DEF Moves
  <2> QED BY <2>1, <1>d
<1>4. ASSUME NEW j \in Jobs, ExecScript(j) PROVE Moves(j)
  <2>1. Goto(j, "removeOk") \/ Goto(j, "removeFailed")
    BY <1>4 DEF ExecScript
  <2> HIDE DEF Moves
  <2> QED BY <2>1, <1>d
<1>5. ASSUME NEW j \in Jobs, RemoveScript(j) PROVE Moves(j)
  <2>1. AfterScript(j) \/ Goto(j, "error")
    BY <1>5 DEF RemoveScript
  <2> HIDE DEF Moves
  <2> QED BY <2>1, <1>d, <1>f
<1>6. ASSUME NEW j \in Jobs, RunMesos(j) PROVE Moves(j)
  <2>1. Begin(j, "afterScheduler", 0) \/ Goto(j, "error")
    BY <1>6 DEF RunMesos
  <2> HIDE DEF Moves
  <2> QED BY <2>1, <1>d, <1>e
<1>7. ASSUME NEW j \in Jobs, CreateApplication(j) PROVE Moves(j)
  <2>1. Goto(j, "await") \/ Goto(j, "error")
    BY <1>7 DEF CreateApplication
  <2> HIDE DEF Moves
  <2> QED BY <2>1, <1>d
<1>8. ASSUME NEW j \in Jobs, CheckRunningAndHealthy(j) PROVE Moves(j)
  <2>1. CASE Begin(j, "afterScheduler", 0)
    BY <1>e, <2>1
  <2>2. CASE /\ pc' = [pc EXCEPT ![j] = IF tries[j] < MaxWait THEN @ ELSE "error"]
             /\ UNCHANGED <<section, task, call>>
    <3>1. PICK p \in {pc[j], "error"} : Move(j, p, section[j], task[j], call[j])
      BY ZenonT(30), <2>2 DEF Move, ControlInv
    <3>2. Announces(j, p, section[j], task[j], call[j])
      BY <3>1, AnnounceGoto
    <3> QED BY <3>1, <3>2
  <2> QED BY <1>8, <2>1, <2>2 DEF CheckRunningAndHealthy
<1>9. ASSUME NEW j \in Jobs, FillContext(j) PROVE Moves(j)
  BY <1>9, AnnounceFill
<1>10. ASSUME NEW j \in Jobs, RunTask(j) PROVE Moves(j)
  BY <1>10, AnnounceRunTask
<1>11. ASSUME NEW a \in Apps, MarathonMoves(a) PROVE Keeps
  BY <1>c, <1>11 DEF MarathonMoves, control
<1>12. ASSUME NEW a \in Apps, NEW t, NodeServes(a, t) PROVE Keeps
  BY <1>c, <1>12 DEF NodeServes, control
<1>13. ASSUME UNCHANGED vars PROVE Keeps
  BY <1>c, <1>13 DEF vars
<1>14. Keeps
  <2> HIDE DEF Moves, Keeps
  <2> QED
    BY <1>b, <1>1, <1>2, <1>3, <1>4, <1>5, <1>6, <1>7, <1>8, <1>9, <1>10, <1>11, <1>12, <1>13
       DEF Next, Step
<1>s. skipped' = skipped
  BY DEF Next, Step, vars
<1>15. ASSUME NEW k \in Jobs, pc'[k] # "idle",
              NEW d \in Application[k[2]].dependencies \ skipped[k[1]]
       PROVE  pc'[<<k[1], d>>] = "ok"
  <2>1. <<k[1], d>> \in Jobs
    BY ApplicationAssumption DEF Jobs
  <2>2. pc[<<k[1], d>>] = "ok"
    <3>1. CASE pc[k] = "idle"
      BY <1>15, <3>1, OwnMoves DEF Start
    <3>2. CASE pc[k] # "idle"
      BY <3>2 DEF PublishInv
    <3> QED BY <3>1, <3>2
  <2> QED BY <2>1, <2>2, OwnMoves DEF Ended
<1> QED BY <1>14, <1>15, <1>s DEF PublishInv, Announces, Announced, Through, Calls, HasRunner

(* A Run that succeeded has published all it publishes. *)
LEMMA SuccessPublishes ==
  ASSUME ControlInv, PublishInv, NEW j \in Jobs, pc[j] = "ok"
  PROVE  Publishes(j[2]) \subseteq variables[j[1]]["stack"]
<1> DEFINE a == j[2]
<1>1. /\ section[j] = "afterTasks" /\ task[j] = Application[a].tasks
      /\ Application[a].tasks \in Nat
  BY SMTT(30), JobFacts DEF Fits
<1>2. Application[a].tasks > 0 => Through(a, pc[j], section[j], task[j], call[j]) # {}
  <2>1. Application[a].tasks > 0 =>
          Application[a].tasks \in Through(a, pc[j], section[j], task[j], call[j])
    BY <1>1 DEF Through
  <2> QED BY <2>1
<1>3. Application[a].type = "elasticsearch" => HasRunner(a)
  BY DEF HasRunner, Runners, RunTaskCalls
<1>4. Publishes(a) \subseteq Announced(a, pc[j], section[j], task[j], call[j])
  BY <1>1, <1>2, <1>3 DEF Publishes, Announced
<1>5. Announced(a, pc[j], section[j], task[j], call[j]) \subseteq variables[j[1]]["stack"]
  BY DEF PublishInv
<1> QED BY <1>4, <1>5

(* A variable that stays unset has no value in the run. *)
LEMMA UnsetIsNotPublished ==
  ASSUME NEW r \in Runs, NEW v, Lookup(r, v) = Unset
  PROVE  v \notin variables[r]["stack"]
<1> SUFFICES ASSUME v \in variables[r]["stack"] PROVE FALSE
  OBVIOUS
<1>1. Lookup(r, v) = [kind |-> "stack", run |-> r]
  BY DEF Lookup
<1>2. [kind |-> "stack", run |-> r] \in Value
  BY DEF Value, Kinds
<1> QED BY <1>1, <1>2, VarsAssumption

LEMMA StopsForOthers ==
  ASSUME ControlInv, TypeOK, PublishInv, [Next]_vars, NEW j \in Jobs,
         pc[j] # "unresolved", pc'[j] = "unresolved"
  PROVE  \E s \in Checked(section[j]) : \E v \in DOMAIN text'[j][s] :
           text'[j][s][v] = Unset /\ v \notin Provided(j)
<1>1. Resolve(j) /\ \E s \in Checked(section[j]) : ~Resolved(text'[j], s)
  BY OwnMoves
<1>2. PICK s \in Checked(section[j]) : ~Resolved(text'[j], s)
  BY <1>1
<1>3. s \in Sections /\ j[1] \in Runs /\ pc[j] = "resolve"
  BY <1>1, <1>2, JobFacts DEF Checked, Sections, Resolve
<1>4. PICK v \in DOMAIN text'[j][s] : text'[j][s][v] = Unset
  BY <1>2 DEF Resolved
<1>5. text'[j][s] = [x \in DOMAIN text[j][s] |->
         IF text[j][s][x] = Unset THEN Lookup(j[1], x) ELSE text[j][s][x]]
  BY <1>1, <1>3 DEF Resolve, ResolveVariables, SameObject, Substitute
<1>6. Lookup(j[1], v) = Unset
  BY <1>4, <1>5
<1>7. v \notin variables[j[1]]["stack"]
  BY <1>3, <1>6, UnsetIsNotPublished
<1>8. ASSUME NEW d \in Application[j[2]].dependencies \ skipped[j[1]] PROVE v \notin Publishes(d)
  <2>1. <<j[1], d>> \in Jobs
    BY ApplicationAssumption DEF Jobs
  <2>2. pc[<<j[1], d>>] = "ok"
    BY <1>3 DEF PublishInv
  <2>3. Publishes(d) \subseteq variables[j[1]]["stack"]
    BY <2>1, <2>2, SuccessPublishes
  <2> QED BY <1>7, <2>3
<1> QED BY <1>2, <1>4, <1>8 DEF Provided

-----------------------------------------------------------------------------
(* The documented order. *)
LEMMA Joined ==
  ASSUME NEW x \in Seq(Sections), NEW y \in Seq(Sections)
  PROVE  /\ x \o y \in Seq(Sections) /\ Len(x \o y) = Len(x) + Len(y)
         /\ \A i \in 1..Len(x) : (x \o y)[i] = x[i]
         /\ \A i \in 1..Len(y) : (x \o y)[Len(x) + i] = y[i]
OBVIOUS

LEMMA CommandsFacts ==
  ASSUME NEW a, NEW s \in Scripts
  PROVE  /\ Commands(a, s) \in Seq(Sections) /\ Count(a, s) = Len(Commands(a, s))
         /\ Count(a, s) = IF s \in Application[a].scripts THEN 1 ELSE 0
         /\ Count(a, s) \in {0, 1}
         /\ Count(a, s) = 1 => Commands(a, s)[1] = s
<1>1. Count(a, s) = Len(Commands(a, s)) /\ s \in Sections
  BY DEF Count, Sections
<1>2. CASE s \in Application[a].scripts
  <2>1. Commands(a, s) = <<s>>
    BY <1>2 DEF Commands
  <2> QED BY <1>1, <1>2, <2>1
<1>3. CASE s \notin Application[a].scripts
  <2>1. Commands(a, s) = <<>>
    BY <1>3 DEF Commands
  <2> QED BY <1>1, <1>3, <2>1
<1> QED BY <1>2, <1>3

LEMMA RoundFacts ==
  ASSUME NEW a
  PROVE  /\ TaskRound(a) \in Seq(Sections)
         /\ Len(TaskRound(a)) = Count(a, "beforeTask") + 1 + Count(a, "afterTask")
         /\ Len(TaskRound(a)) \in {1, 2, 3}
         /\ Count(a, "beforeTask") = 1 => TaskRound(a)[1] = "beforeTask"
         /\ TaskRound(a)[Count(a, "beforeTask") + 1] = "task"
         /\ Count(a, "afterTask") = 1 => TaskRound(a)[Count(a, "beforeTask") + 2] = "afterTask"
<1> DEFINE b == Commands(a, "beforeTask")
           m == <<"task">>
           c == Commands(a, "afterTask")
<1>1. /\ b \in Seq(Sections) /\ Len(b) \in {0, 1} /\ Count(a, "beforeTask") = Len(b)
      /\ Len(b) = 1 => b[1] = "beforeTask"
  <2>1. "beforeTask" \in Scripts
    BY DEF Scripts
  <2>2. b \in Seq(Sections) /\ Count(a, "beforeTask") = Len(b)
    BY <2>1, CommandsFacts, Zenon
  <2>3. Count(a, "beforeTask") \in {0, 1} /\ (Count(a, "beforeTask") = 1 => b[1] = "beforeTask")
    BY <2>1, CommandsFacts, Zenon
  <2> QED BY ZenonT(30), <2>2, <2>3
<1>2. /\ c \in Seq(Sections) /\ Len(c) \in {0, 1} /\ Count(a, "afterTask") = Len(c)
      /\ Len(c) = 1 => c[1] = "afterTask"
  <2>1. "afterTask" \in Scripts
    BY DEF Scripts
  <2>2. c \in Seq(Sections) /\ Count(a, "afterTask") = Len(c)
    BY <2>1, CommandsFacts, Zenon
  <2>3. Count(a, "afterTask") \in {0, 1} /\ (Count(a, "afterTask") = 1 => c[1] = "afterTask")
    BY <2>1, CommandsFacts, Zenon
  <2> QED BY ZenonT(30), <2>2, <2>3
<1>3. m \in Seq(Sections) /\ Len(m) = 1 /\ m[1] = "task"
  BY DEF Sections
<1>4. TaskRound(a) = (b \o m) \o c
  BY DEF TaskRound
<1> HIDE DEF b, m, c
<1>5. /\ b \o m \in Seq(Sections) /\ Len(b \o m) = Len(b) + 1
      /\ (b \o m)[Len(b) + 1] = "task"
      /\ Len(b) = 1 => (b \o m)[1] = "beforeTask"
  <2>1. /\ b \o m \in Seq(Sections) /\ Len(b \o m) = Len(b) + Len(m)
        /\ \A i \in 1..Len(b) : (b \o m)[i] = b[i]
        /\ \A i \in 1..Len(m) : (b \o m)[Len(b) + i] = m[i]
    BY <1>1, <1>3, Joined, Zenon
  <2> QED BY <1>1, <1>3, <2>1
<1> DEFINE d == b \o m
<1> HIDE DEF d
<1>6. /\ d \o c \in Seq(Sections) /\ Len(d \o c) = Len(d) + Len(c)
      /\ \A i \in 1..Len(d) : (d \o c)[i] = d[i]
      /\ Len(c) = 1 => (d \o c)[Len(d) + 1] = c[1]
  BY <1>2, <1>5 DEF d
<1>7. TaskRound(a) = d \o c /\ Len(d) = Len(b) + 1
  BY <1>4, <1>5 DEF d
<1>8. TaskRound(a)[Len(b) + 1] = "task" /\ (Len(b) = 1 => TaskRound(a)[1] = "beforeTask")
  BY <1>1, <1>5, <1>6, <1>7 DEF d
<1>9. Len(c) = 1 => TaskRound(a)[Len(b) + 2] = "afterTask"
  BY <1>1, <1>2, <1>6, <1>7
<1>10. TaskRound(a) \in Seq(Sections) /\ Len(TaskRound(a)) = Len(b) + 1 + Len(c)
  BY ZenonT(30), <1>6, <1>7
<1>11. Len(b) + 1 + Len(c) \in {1, 2, 3}
  BY <1>1, <1>2
<1> QED BY ZenonT(30), <1>1, <1>2, <1>8, <1>9, <1>10, <1>11

(* The rounds of the tasks, one after the other. *)
LEMMA RoundsFacts ==
  ASSUME NEW a \in Apps
  PROVE  LET n == Len(TaskRound(a)) IN
           /\ Rounds(a) \in Seq(Sections) /\ Len(Rounds(a)) = Application[a].tasks * n
           /\ \A t \in 1..Application[a].tasks : \A k \in 1..n :
                /\ (t - 1) * n + k \in 1..Application[a].tasks * n
                /\ Rounds(a)[(t - 1) * n + k] = TaskRound(a)[k]
<1> DEFINE n == Len(TaskRound(a))
           T == Application[a].tasks
           R == TaskRound(a)
<1>1. T \in Nat /\ R \in Seq(Sections) /\ n \in {1, 2, 3}
  BY ApplicationAssumption, RoundFacts
<1>2. Rounds(a) = [i \in 1..T * n |-> R[((i - 1) % n) + 1]]
  BY DEF Rounds
<1>3. T * n \in Nat
  BY <1>1
<1>4. \A i \in 1..T * n : ((i - 1) % n) + 1 \in 1..n
  BY <1>1
<1>5. \A i \in 1..n : R[i] \in Sections
  BY <1>1
<1>6. Rounds(a) \in Seq(Sections) /\ Len(Rounds(a)) = T * n
  BY <1>2, <1>3, <1>4, <1>5
<1>7. ASSUME NEW t \in 1..T, NEW k \in 1..n
      PROVE  (t - 1) * n + k \in 1..T * n /\ ((((t - 1) * n + k) - 1) % n) + 1 = k
  <2>1. CASE n = 1
    BY <1>1, <2>1
  <2>2. CASE n = 2
    BY <1>1, <2>2
  <2>3. CASE n = 3
    BY <1>1, <2>3
  <2> QED BY <1>1, <2>1, <2>2, <2>3
<1>8. ASSUME NEW t \in 1..T, NEW k \in 1..n PROVE Rounds(a)[(t - 1) * n + k] = R[k]
  <2> DEFINE i == (t - 1) * n + k
  <2>1. i \in 1..T * n /\ ((i - 1) % n) + 1 = k
    BY ZenonT(30), <1>7
  <2> HIDE DEF i
  <2>2. Rounds(a)[i] = R[((i - 1) % n) + 1]
    BY ZenonT(30), <1>2, <2>1
  <2> QED BY ZenonT(30), <2>1, <2>2 DEF i
<1> QED BY ZenonT(30), <1>6, <1>7, <1>8

(* The launch comes after the first commands, the rounds of the tasks      *)
(* after the second ones.                                                  *)
Launch(a) == Count(a, "beforeScheduler") + 1
Preparation(a) == Launch(a) + Count(a, "afterScheduler")
AllRounds(a) == Application[a].tasks * Len(TaskRound(a))

LEMMA Positions ==
  ASSUME NEW a \in Apps
  PROVE  /\ \A s \in Scripts : Count(a, s) \in {0, 1}
         /\ \A s \in Scripts : Count(a, s) = 1 <=> s \in Application[a].scripts
         /\ Launch(a) \in Nat /\ Preparation(a) \in Nat /\ AllRounds(a) \in Nat
<1>1. /\ \A s \in Scripts : Count(a, s) \in {0, 1}
      /\ \A s \in Scripts : Count(a, s) = 1 <=> s \in Application[a].scripts
  BY CommandsFacts
<1>2. Count(a, "beforeScheduler") \in {0, 1} /\ Count(a, "afterScheduler") \in {0, 1}
  BY <1>1 DEF Scripts
<1>3. Application[a].tasks \in Nat /\ Len(TaskRound(a)) \in {1, 2, 3}
  BY ApplicationAssumption, RoundFacts
<1>4. Application[a].tasks * Len(TaskRound(a)) \in Nat
  BY <1>3
<1> QED BY <1>1, <1>2, <1>4 DEF Launch, Preparation, AllRounds

LEMMA DocumentedFacts ==
  ASSUME NEW a \in Apps
  PROVE  LET D == Documented[a] IN
           /\ D \in Seq(Sections)
           /\ Len(D) = Preparation(a) + AllRounds(a) + Count(a, "afterTasks")
           /\ Count(a, "beforeScheduler") = 1 => D[1] = "beforeScheduler"
           /\ D[Launch(a)] = "launch"
           /\ Count(a, "afterScheduler") = 1 => D[Launch(a) + 1] = "afterScheduler"
           /\ \A i \in 1..AllRounds(a) : D[Preparation(a) + i] = Rounds(a)[i]
           /\ Count(a, "afterTasks") = 1 => D[Preparation(a) + AllRounds(a) + 1] = "afterTasks"
<1> DEFINE B == Commands(a, "beforeScheduler")
           L == <<"launch">>
           A == Commands(a, "afterScheduler")
           R == Rounds(a)
           F == Commands(a, "afterTasks")
           P1 == B \o L
           P2 == P1 \o A
           P3 == P2 \o R
           D == P3 \o F
<1>0. Documented[a] = D
  BY DEF Documented
<1>1. ASSUME NEW s \in Scripts
      PROVE  /\ Commands(a, s) \in Seq(Sections) /\ Len(Commands(a, s)) = Count(a, s)
             /\ Count(a, s) \in {0, 1}
             /\ Count(a, s) = 1 => Commands(a, s)[1] = s
  BY CommandsFacts, Zenon
<1>2. "beforeScheduler" \in Scripts /\ "afterScheduler" \in Scripts /\ "afterTasks" \in Scripts
  BY DEF Scripts
<1>3. /\ B \in Seq(Sections) /\ Len(B) = Count(a, "beforeScheduler")
      /\ Count(a, "beforeScheduler") = 1 => B[1] = "beforeScheduler"
  BY <1>1, <1>2, Zenon
<1>4. /\ A \in Seq(Sections) /\ Len(A) = Count(a, "afterScheduler")
      /\ Count(a, "afterScheduler") = 1 => A[1] = "afterScheduler"
  BY <1>1, <1>2, Zenon
<1>5. /\ F \in Seq(Sections) /\ Len(F) = Count(a, "afterTasks")
      /\ Count(a, "afterTasks") = 1 => F[1] = "afterTasks"
  BY <1>1, <1>2, Zenon
<1>6. R \in Seq(Sections) /\ Len(R) = AllRounds(a)
  BY RoundsFacts DEF AllRounds
<1>7. L \in Seq(Sections) /\ Len(L) = 1 /\ L[1] = "launch"
  BY DEF Sections
<1>8. /\ Count(a, "beforeScheduler") \in {0, 1} /\ Count(a, "afterScheduler") \in {0, 1}
      /\ Count(a, "afterTasks") \in {0, 1} /\ AllRounds(a) \in Nat
  BY <1>1, <1>2, Positions
<1> HIDE DEF B, L, A, R, F
<1>11. /\ P1 \in Seq(Sections) /\ Len(P1) = Len(B) + Len(L)
       /\ \A i \in 1..Len(B) : P1[i] = B[i]
       /\ \A i \in 1..Len(L) : P1[Len(B) + i] = L[i]
  BY <1>3, <1>7, Joined, Zenon
<1> HIDE DEF P1
<1>12. /\ P2 \in Seq(Sections) /\ Len(P2) = Len(P1) + Len(A)
       /\ \A i \in 1..Len(P1) : P2[i] = P1[i]
       /\ \A i \in 1..Len(A) : P2[Len(P1) + i] = A[i]
  BY <1>4, <1>11, Joined, Zenon
<1> HIDE DEF P2
<1>13. /\ P3 \in Seq(Sections) /\ Len(P3) = Len(P2) + Len(R)
       /\ \A i \in 1..Len(P2) : P3[i] = P2[i]
       /\ \A i \in 1..Len(R) : P3[Len(P2) + i] = R[i]
  BY <1>6, <1>12, Joined, Zenon
<1> HIDE DEF P3
<1>14. /\ D \in Seq(Sections) /\ Len(D) = Len(P3) + Len(F)
       /\ \A i \in 1..Len(P3) : D[i] = P3[i]
       /\ \A i \in 1..Len(F) : D[Len(P3) + i] = F[i]
  BY <1>5, <1>13, Joined, Zenon
<1> HIDE DEF D
<1>15. /\ Len(P1) = Launch(a) /\ Len(P2) = Preparation(a)
       /\ Len(P3) = Preparation(a) + AllRounds(a)
       /\ Len(D) = Preparation(a) + AllRounds(a) + Count(a, "afterTasks")
  BY <1>3, <1>4, <1>5, <1>6, <1>7, <1>8, <1>11, <1>12, <1>13, <1>14 DEF Launch, Preparation
<1>16. \A i \in 1..Len(P1) : D[i] = P1[i]
  BY <1>8, <1>11, <1>12, <1>13, <1>14, <1>15 DEF Launch, Preparation
<1>17. ASSUME NEW i \in 1..Len(P2) PROVE D[i] = P2[i]
  <2>1. Len(P2) \in Nat /\ Len(R) \in Nat /\ Len(P3) = Len(P2) + Len(R)
    BY <1>6, <1>12, <1>13
  <2>2. i \in 1..Len(P3)
    BY <2>1
  <2> QED BY <1>13, <1>14, <2>2, Zenon
<1>18. Count(a, "beforeScheduler") = 1 => D[1] = "beforeScheduler"
  BY <1>3, <1>7, <1>11, <1>16
<1>19. D[Launch(a)] = "launch"
  BY <1>3, <1>7, <1>8, <1>11, <1>15, <1>16 DEF Launch
<1>20. Count(a, "afterScheduler") = 1 => D[Launch(a) + 1] = "afterScheduler"
  BY <1>4, <1>8, <1>12, <1>15, <1>17 DEF Launch, Preparation
<1>21. ASSUME NEW i \in 1..AllRounds(a) PROVE D[Preparation(a) + i] = R[i]
  <2>1. Preparation(a) + i \in 1..Len(P3)
    BY <1>8, <1>15 DEF Launch, Preparation
  <2> QED BY ZenonT(30), <1>6, <1>13, <1>14, <1>15, <2>1
<1>22. Count(a, "afterTasks") = 1 => D[Preparation(a) + AllRounds(a) + 1] = "afterTasks"
  BY <1>5, <1>14, <1>15
<1> QED BY <1>0, <1>14, <1>15, <1>18, <1>19, <1>20, <1>21, <1>22 DEF R

(* How much is done at each place. *)
LEMMA DoneBeforeCases ==
  ASSUME NEW a \in Apps, NEW t
  PROVE  LET n == Len(TaskRound(a)) IN
           /\ DoneBefore(a, "beforeScheduler", t) = 0
           /\ DoneBefore(a, "afterScheduler", t) = Launch(a)
           /\ DoneBefore(a, "beforeTask", t) = Preparation(a) + (t - 1) * n
           /\ DoneBefore(a, "afterTask", t) =
                Preparation(a) + (t - 1) * n + Count(a, "beforeTask") + 1
           /\ DoneBefore(a, "afterTasks", t) = Preparation(a) + t * n
BY DEF DoneBefore, Launch, Preparation

(* What is documented next: the commands of a section that has some, ...   *)
LEMMA ScriptNext ==
  ASSUME NEW a \in Apps, NEW s \in Application[a].scripts, NEW t \in Nat,
         s \in {"beforeTask", "afterTask"} => t \in 1..Application[a].tasks,
         s = "afterTasks" => t = Application[a].tasks
  PROVE  /\ DoneBefore(a, s, t) \in Nat /\ Count(a, s) = 1
         /\ DoneBefore(a, s, t) + 1 <= Len(Documented[a])
         /\ Documented[a][DoneBefore(a, s, t) + 1] = s
<1> DEFINE n == Len(TaskRound(a))
           T == Application[a].tasks
           D == Documented[a]
<1>1. s \in Scripts /\ T \in Nat
  BY ApplicationAssumption
<1>2. Count(a, s) = 1
  BY <1>1, Positions
<1>3. /\ \A x \in Scripts : Count(a, x) \in {0, 1}
      /\ Launch(a) \in Nat /\ Preparation(a) \in Nat /\ AllRounds(a) \in Nat
      /\ Count(a, "beforeScheduler") \in {0, 1} /\ Count(a, "afterScheduler") \in {0, 1}
      /\ Count(a, "afterTasks") \in {0, 1}
  BY Positions DEF Scripts
<1>4. /\ Preparation(a) = Launch(a) + Count(a, "afterScheduler")
      /\ Launch(a) = Count(a, "beforeScheduler") + 1
  BY ZenonT(30) DEF Preparation, Launch
<1>5. Len(D) = Preparation(a) + AllRounds(a) + Count(a, "afterTasks")
  BY DocumentedFacts
<1>6. CASE s = "beforeScheduler"
  <2>1. DoneBefore(a, s, t) = 0 /\ D[1] = "beforeScheduler"
    BY <1>2, <1>6, DoneBeforeCases, DocumentedFacts
  <2>2. 0 + 1 <= Len(D)
    BY <1>3, <1>4, <1>5
  <2> QED BY <1>2, <1>6, <2>1, <2>2
<1>7. CASE s = "afterScheduler"
  <2>1. DoneBefore(a, s, t) = Launch(a) /\ D[Launch(a) + 1] = "afterScheduler"
    BY <1>2, <1>7, DoneBeforeCases, DocumentedFacts
  <2> QED BY <1>2, <1>3, <1>4, <1>5, <1>7, <2>1
<1>8. CASE s = "beforeTask"
  <2>1. n \in Nat /\ n >= 1 /\ TaskRound(a)[1] = "beforeTask"
    BY <1>2, <1>8, RoundFacts
  <2>2. (t - 1) * n + 1 \in 1..AllRounds(a) /\ Rounds(a)[(t - 1) * n + 1] = "beforeTask"
    BY <1>8, <2>1, RoundsFacts DEF AllRounds
  <2>3. DoneBefore(a, s, t) = Preparation(a) + (t - 1) * n
    BY <1>8, DoneBeforeCases
  <2>4. (t - 1) * n \in Nat
    BY <2>1, <1>8
  <2>5. DoneBefore(a, s, t) + 1 = Preparation(a) + ((t - 1) * n + 1)
    BY <1>3, <2>3, <2>4
  <2>6. D[DoneBefore(a, s, t) + 1] = "beforeTask"
    BY <2>2, <2>5, DocumentedFacts
  <2> QED BY <1>2, <1>3, <1>5, <1>8, <2>2, <2>3, <2>4, <2>5, <2>6
<1>9. CASE s = "afterTask"
  <2> DEFINE c == Count(a, "beforeTask")
  <2>1. n = c + 2 /\ c \in {0, 1} /\ TaskRound(a)[c + 2] = "afterTask"
    BY <1>2, <1>3, <1>9, RoundFacts DEF Scripts
  <2>2. (t - 1) * n + (c + 2) \in 1..AllRounds(a) /\ Rounds(a)[(t - 1) * n + (c + 2)] = "afterTask"
    <3>1. c + 2 \in 1..n
      BY <2>1
    <3> QED BY ZenonT(30), <1>9, <2>1, <3>1, RoundsFacts DEF AllRounds
  <2>3. DoneBefore(a, s, t) = Preparation(a) + (t - 1) * n + c + 1
    BY <1>9, DoneBeforeCases
  <2>4. (t - 1) * n \in Nat
    BY <2>1, <1>9
  <2> HIDE DEF c
  <2>5. DoneBefore(a, s, t) + 1 = Preparation(a) + ((t - 1) * n + (c + 2))
    BY <1>3, <2>1, <2>3, <2>4
  <2>6. D[DoneBefore(a, s, t) + 1] = "afterTask"
    BY <2>2, <2>5, DocumentedFacts
  <2>7. DoneBefore(a, s, t) + 1 <= Len(D)
    BY <1>3, <1>5, <2>2, <2>5
  <2>8. DoneBefore(a, s, t) \in Nat
    BY <1>3, <2>1, <2>3, <2>4
  <2> QED BY <1>2, <1>9, <2>6, <2>7, <2>8
<1>10. CASE s = "afterTasks"
  <2>1. DoneBefore(a, s, t) = Preparation(a) + AllRounds(a)
    BY <1>10, DoneBeforeCases DEF AllRounds
  <2>2. D[Preparation(a) + AllRounds(a) + 1] = "afterTasks"
    BY <1>2, <1>10, DocumentedFacts
  <2> QED BY <1>2, <1>3, <1>5, <1>10, <2>1, <2>2
<1> QED BY <1>1, <1>6, <1>7, <1>8, <1>9, <1>10 DEF Scripts

(* ... the launch before afterScheduler, and the task before afterTask.    *)
LEMMA LaunchNext ==
  ASSUME NEW a \in Apps
  PROVE  /\ Performed(a, "deploy", "beforeScheduler", 0) = Launch(a) - 1
         /\ Performed(a, "await", "beforeScheduler", 0) = Launch(a) - 1
         /\ Performed(a, "resolve", "afterScheduler", 0) = Launch(a)
         /\ Launch(a) \in Nat \ {0} /\ Launch(a) <= Len(Documented[a])
         /\ Documented[a][Launch(a)] = "launch"
<1>1. /\ Count(a, "beforeScheduler") \in {0, 1} /\ Count(a, "afterScheduler") \in {0, 1}
      /\ Count(a, "afterTasks") \in {0, 1} /\ AllRounds(a) \in Nat
  BY Positions DEF Scripts
<1>2. /\ Len(Documented[a]) = Preparation(a) + AllRounds(a) + Count(a, "afterTasks")
      /\ Documented[a][Launch(a)] = "launch"
  BY DocumentedFacts
<1>3. /\ Preparation(a) = Launch(a) + Count(a, "afterScheduler")
      /\ Launch(a) = Count(a, "beforeScheduler") + 1
  BY DEF Preparation, Launch
<1> QED BY <1>1, <1>2, <1>3, DoneBeforeCases DEF Performed

LEMMA TaskNext ==
  ASSUME NEW a \in Apps, NEW t \in 1..Application[a].tasks
  PROVE  LET d == Performed(a, "call", "beforeTask", t) IN
           /\ d \in Nat /\ d + 1 <= Len(Documented[a])
           /\ Documented[a][d + 1] = "task"
           /\ Performed(a, "resolve", "afterTask", t) = d + 1
<1> DEFINE n == Len(TaskRound(a))
           T == Application[a].tasks
           c == Count(a, "beforeTask")
           d == Performed(a, "call", "beforeTask", t)
<1>1. /\ c \in {0, 1} /\ Count(a, "afterTask") \in {0, 1} /\ Count(a, "afterTasks") \in {0, 1}
      /\ Preparation(a) \in Nat /\ AllRounds(a) \in Nat /\ T \in Nat
  BY Positions, ApplicationAssumption DEF Scripts
<1>2. n = c + 1 + Count(a, "afterTask") /\ TaskRound(a)[c + 1] = "task" /\ n \in Nat
  BY RoundFacts
<1>3. c + 1 \in 1..n
  BY <1>1, <1>2
<1>4. (t - 1) * n + (c + 1) \in 1..AllRounds(a) /\ Rounds(a)[(t - 1) * n + (c + 1)] = "task"
  BY ZenonT(30), <1>2, <1>3, RoundsFacts DEF AllRounds
<1>5. (t - 1) * n \in Nat
  BY <1>1, <1>2
<1>6. d = Preparation(a) + (t - 1) * n + c
  BY DoneBeforeCases DEF Performed
<1>7. Performed(a, "resolve", "afterTask", t) = Preparation(a) + (t - 1) * n + c + 1
  <2>1. DoneBefore(a, "afterTask", t) = Preparation(a) + (t - 1) * n + c + 1
    BY DoneBeforeCases
  <2> HIDE DEF c, n
  <2> QED BY <1>1, <1>5, <2>1 DEF Performed
<1>8. Len(Documented[a]) = Preparation(a) + AllRounds(a) + Count(a, "afterTasks")
  BY DocumentedFacts
<1> HIDE DEF c, d
<1>9. d + 1 = Preparation(a) + ((t - 1) * n + (c + 1))
  BY <1>1, <1>5, <1>6
<1>10. Documented[a][d + 1] = "task"
  BY <1>4, <1>9, DocumentedFacts
<1>11. d \in Nat /\ d + 1 <= Len(Documented[a])
  BY <1>1, <1>4, <1>5, <1>6, <1>8, <1>9
<1>12. Performed(a, "resolve", "afterTask", t) = d + 1
  BY <1>1, <1>5, <1>6, <1>7
<1> QED BY <1>10, <1>11, <1>12 DEF d

Failed == {"removeFailed", "error", "unresolved"}

LEMMA OrderedInv ==
  OrderInv <=> \A j \in Jobs :
    /\ Len(trace[j]) <= Len(Documented[j[2]])
    /\ \A i \in 1..Len(trace[j]) : trace[j][i] = Documented[j[2]][i]
    /\ pc[j] \in {"open", "write", "exec", "removeOk"} => section[j] \in Application[j[2]].scripts
    /\ pc[j] \notin Failed => Len(trace[j]) = Performed(j[2], pc[j], section[j], task[j])
BY DEF OrderInv, Ordered, Failed

(* A step of one job keeps the order of all, if it keeps its own. *)
LEMMA OrderMove ==
  ASSUME ControlInv, OrderInv, NEW j \in Jobs, NEW p, NEW s, NEW t, NEW c, Move(j, p, s, t, c),
         \A k \in Jobs : k # j => trace'[k] = trace[k], Ordered(j[2], trace'[j], p, s, t)
  PROVE  OrderInv'
<1>1. ASSUME NEW k \in Jobs PROVE Ordered(k[2], trace'[k], pc'[k], section'[k], task'[k])
  <2>1. CASE k = j
    <3>1. pc'[k] = p /\ section'[k] = s /\ task'[k] = t
      BY ZenonT(30), <2>1 DEF Move, ControlInv
    <3> QED BY <2>1, <3>1
  <2>2. CASE k # j
    <3>1. pc'[k] = pc[k] /\ section'[k] = section[k] /\ task'[k] = task[k] /\ trace'[k] = trace[k]
      BY ZenonT(30), <2>2 DEF Move, ControlInv
    <3> QED BY <3>1 DEF OrderInv
  <2> QED BY ZenonT(30), <2>1, <2>2
<1> QED BY ZenonT(30), <1>1 DEF OrderInv, Ordered, Performed, DoneBefore, Count, Commands, TaskRound, Documented,
                     Rounds

(* A step that does nothing, ... *)
LEMMA OrderKeeps ==
  ASSUME ControlInv, OrderInv, NEW j \in Jobs, NEW p, NEW s, NEW t, NEW c, Move(j, p, s, t, c),
         trace' = trace,
         p \in {"open", "write", "exec", "removeOk"} => s \in Application[j[2]].scripts,
         p \notin Failed =>
           /\ pc[j] \notin Failed
           /\ Performed(j[2], p, s, t) = Performed(j[2], pc[j], section[j], task[j])
  PROVE  OrderInv'
<1>1. Ordered(j[2], trace[j], pc[j], section[j], task[j])
  BY DEF OrderInv
<1>2. Ordered(j[2], trace'[j], p, s, t)
  BY ZenonT(30), <1>1 DEF Ordered, Failed
<1> QED BY <1>2, OrderMove

(* ... and one that does x, which is documented next. *)
LEMMA OrderDid ==
  ASSUME ControlInv, TypeOK, OrderInv, NEW j \in Jobs, NEW p, NEW s, NEW t, NEW c,
         Move(j, p, s, t, c), NEW x \in Sections, Did(j, x), pc[j] \notin Failed,
         NEW d \in Nat, d = Performed(j[2], pc[j], section[j], task[j]),
         d + 1 <= Len(Documented[j[2]]), Documented[j[2]][d + 1] = x,
         p \in {"open", "write", "exec", "removeOk"} => s \in Application[j[2]].scripts,
         p \notin Failed => Performed(j[2], p, s, t) = d + 1
  PROVE  OrderInv'
<1>1. Ordered(j[2], trace[j], pc[j], section[j], task[j])
  BY ZenonT(30) DEF OrderInv
<1>2. trace \in [Jobs -> Seq(Sections)] /\ trace[j] \in Seq(Sections)
  BY ZenonT(30) DEF TypeOK
<1>3. trace'[j] = Append(trace[j], x) /\ \A k \in Jobs : k # j => trace'[k] = trace[k]
  BY <1>2 DEF Did
<1>4. Len(trace[j]) = d
  BY ZenonT(30), <1>1 DEF Ordered, Failed
<1>5. /\ Len(trace'[j]) = d + 1 /\ trace'[j][d + 1] = x
      /\ \A i \in 1..d : trace'[j][i] = trace[j][i]
  BY <1>2, <1>3, <1>4
<1>6. ASSUME NEW i \in 1..d + 1 PROVE trace'[j][i] = Documented[j[2]][i]
  <2>1. CASE i = d + 1
    BY ZenonT(30), <1>5, <2>1
  <2>2. CASE i \in 1..d
    BY ZenonT(30), <1>1, <1>4, <1>5, <2>2 DEF Ordered
  <2> QED BY <2>1, <2>2
<1>7. Ordered(j[2], trace'[j], p, s, t)
  BY ZenonT(30), <1>5, <1>6 DEF Ordered, Failed
<1> QED BY ZenonT(30), <1>3, <1>7, OrderMove

(* The end of one round is the beginning of the next. *)
LEMMA RoundEnds ==
  ASSUME NEW a \in Apps, NEW t \in Nat \ {0}
  PROVE  /\ DoneBefore(a, "afterTask", t) + Count(a, "afterTask") =
              DoneBefore(a, "beforeTask", t + 1)
         /\ DoneBefore(a, "afterTask", t) + Count(a, "afterTask") =
              DoneBefore(a, "afterTasks", t)
         /\ DoneBefore(a, "beforeTask", 1) = Preparation(a)
         /\ DoneBefore(a, "afterTasks", 0) = Preparation(a)
         /\ DoneBefore(a, "afterScheduler", 0) + Count(a, "afterScheduler") = Preparation(a)
<1> DEFINE n == Len(TaskRound(a))
<1>1. /\ Count(a, "beforeTask") \in Nat /\ Count(a, "afterTask") \in Nat /\ Preparation(a) \in Nat
      /\ n = Count(a, "beforeTask") + 1 + Count(a, "afterTask")
      /\ n \in {1, 2, 3}
  BY Positions, RoundFacts DEF Scripts
<1>2. /\ (t - 1) * n + n = t * n /\ ((t + 1) - 1) * n = t * n
      /\ (1 - 1) * n = 0 /\ 0 * n = 0
      /\ (t - 1) * n \in Nat /\ t * n \in Nat
  <2>1. CASE n = 1
    BY <2>1
  <2>2. CASE n = 2
    BY <2>2
  <2>3. CASE n = 3
    BY <2>3
  <2> QED BY <1>1, <2>1, <2>2, <2>3
<1> DEFINE m == (t - 1) * n
           k == t * n
<1>3. /\ DoneBefore(a, "afterTask", t) = Preparation(a) + m + Count(a, "beforeTask") + 1
      /\ DoneBefore(a, "beforeTask", t + 1) = Preparation(a) + k
      /\ DoneBefore(a, "afterTasks", t) = Preparation(a) + k
  BY <1>2, DoneBeforeCases
<1>4. m + n = k /\ m \in Nat /\ k \in Nat
  BY <1>2
<1>5. /\ DoneBefore(a, "beforeTask", 1) = Preparation(a)
      /\ DoneBefore(a, "afterTasks", 0) = Preparation(a)
  <2>1. /\ DoneBefore(a, "beforeTask", 1) = Preparation(a) + (1 - 1) * n
        /\ DoneBefore(a, "afterTasks", 0) = Preparation(a) + 0 * n
    BY DoneBeforeCases, Zenon
  <2> QED BY <1>1, <1>2, <2>1
<1>6. DoneBefore(a, "afterScheduler", 0) + Count(a, "afterScheduler") = Preparation(a)
  BY DoneBeforeCases DEF Preparation
<1> HIDE DEF m, k, n
<1> QED BY <1>1, <1>3, <1>4, <1>5, <1>6

(* When the commands of a section are through, or there are none, Run goes *)
(* on to what is documented next.                                          *)
LEMMA OrderAfterScript ==
  ASSUME ControlInv, OrderInv, NEW j \in Jobs, AfterScript(j), trace' = trace,
         \/ pc[j] = "removeOk"
         \/ pc[j] = "resolve" /\ section[j] \notin Application[j[2]].scripts
  PROVE  OrderInv'
<1> DEFINE a == j[2]
           s == section[j]
           t == task[j]
           T == Application[a].tasks
<1>1. /\ a \in Apps /\ s \in Scripts /\ t \in Nat /\ T \in Nat
      /\ T > 0 => HasRunner(a)
      /\ s = "afterTask" => t \in Nat \ {0}
      /\ s = "afterScheduler" => t = 0
  BY JobFacts DEF Fits
<1>2. Performed(a, pc[j], s, t) = DoneBefore(a, s, t) + Count(a, s) /\ pc[j] \notin Failed
  <2>1. CASE pc[j] = "removeOk"
    BY <2>1 DEF Performed, Failed
  <2>2. CASE pc[j] = "resolve" /\ s \notin Application[a].scripts
    <3>1. Count(a, s) = 0
      BY ZenonT(30), <1>1, <2>2, Positions
    <3> QED BY ZenonT(30), <2>2, <3>1 DEF Performed, Failed
  <2> QED BY <2>1, <2>2
<1>3. ASSUME NEW q \in {"deploy", "fill", "call", "ok"}, NEW c, Move(j, q, s, t, c)
      PROVE  OrderInv'
  <2>1. Performed(a, q, s, t) = DoneBefore(a, s, t) + Count(a, s)
    BY ZenonT(30) DEF Performed
  <2> QED BY ZenonT(30), <1>2, <1>3, <2>1, OrderKeeps
<1>4. ASSUME NEW x, NEW u, Move(j, "resolve", x, u, 0),
             DoneBefore(a, s, t) + Count(a, s) = DoneBefore(a, x, u),
             DoneBefore(a, x, u) \in Nat
      PROVE  OrderInv'
  <2>1. Performed(a, "resolve", x, u) = DoneBefore(a, x, u)
    BY <1>4 DEF Performed
  <2> QED BY ZenonT(30), <1>2, <1>4, <2>1, OrderKeeps
<1>5. Preparation(a) \in Nat /\ \A u \in Nat : DoneBefore(a, "afterTasks", u) \in Nat
  <2>1. Preparation(a) \in Nat /\ Len(TaskRound(a)) \in {1, 2, 3}
    BY <1>1, Positions, RoundFacts
  <2>2. \A u \in Nat : u * Len(TaskRound(a)) \in Nat
    BY <2>1
  <2> QED BY <1>1, <2>1, <2>2, DoneBeforeCases
<1>6. CASE /\ s = "afterScheduler" /\ ~HasRunner(a)
           /\ Move(j, "resolve", "afterTasks", 0, 0)
  BY <1>1, <1>4, <1>5, <1>6, RoundEnds
<1>7. CASE s = "afterTask" /\ Move(j, "resolve", "beforeTask", t + 1, 0)
  <2>1. /\ DoneBefore(a, s, t) + Count(a, s) = DoneBefore(a, "beforeTask", t + 1)
        /\ DoneBefore(a, s, t) + Count(a, s) = DoneBefore(a, "afterTasks", t)
    BY ZenonT(30), <1>1, <1>7, RoundEnds
  <2> QED BY ZenonT(30), <1>1, <1>4, <1>5, <1>7, <2>1
<1>8. CASE s = "afterTask" /\ Move(j, "resolve", "afterTasks", t, 0)
  <2>1. DoneBefore(a, s, t) + Count(a, s) = DoneBefore(a, "afterTasks", t)
    BY ZenonT(30), <1>1, <1>8, RoundEnds
  <2> QED BY ZenonT(30), <1>1, <1>4, <1>5, <1>8, <2>1
<1> QED BY ZenonT(30), <1>3, <1>6, <1>7, <1>8, AfterScriptMoves

(* A step to a failure keeps the order. *)
LEMMA OrderFails ==
  ASSUME ControlInv, OrderInv, NEW j \in Jobs, NEW p \in Failed, Goto(j, p), trace' = trace
  PROVE  OrderInv'
<1>1. p \in {"removeFailed", "error", "unresolved"}
  BY ZenonT(30) DEF Failed
<1> QED BY ZenonT(30), <1>1, GotoMoves, OrderKeeps

LEMMA OrderScript ==
  ASSUME ControlInv, TypeOK, OrderInv, NEW j \in Jobs, ExecScript(j)
  PROVE  OrderInv'
<1> DEFINE a == j[2]
           s == section[j]
           t == task[j]
<1>1. /\ a \in Apps /\ s \in Scripts /\ t \in Nat
      /\ s \in {"beforeTask", "afterTask"} => t \in 1..Application[a].tasks
      /\ s = "afterTasks" => t = Application[a].tasks
  BY ZenonT(30), JobFacts DEF Fits
<1>2. pc[j] = "exec" /\ s \in Application[a].scripts
  BY ZenonT(30), OrderedInv DEF ExecScript
<1>3. /\ DoneBefore(a, s, t) \in Nat /\ Count(a, s) = 1
      /\ DoneBefore(a, s, t) + 1 <= Len(Documented[a])
      /\ Documented[a][DoneBefore(a, s, t) + 1] = s
  BY ZenonT(30), <1>1, <1>2, ScriptNext
<1>4. /\ Performed(a, pc[j], s, t) = DoneBefore(a, s, t)
      /\ Performed(a, "removeOk", s, t) = DoneBefore(a, s, t) + 1
      /\ pc[j] \notin Failed /\ s \in Sections
  BY <1>1, <1>2, <1>3 DEF Performed, Failed, Sections
<1>5. CASE Did(j, s) /\ Goto(j, "removeOk")
  <2>1. Move(j, "removeOk", s, t, call[j])
    BY ZenonT(30), <1>5, GotoMoves
  <2> QED BY ZenonT(30), <1>2, <1>3, <1>4, <1>5, <2>1, OrderDid
<1>6. CASE Did(j, s) /\ Goto(j, "removeFailed")
  <2>1. "removeFailed" \in Failed
    BY DEF Failed
  <2> QED BY ZenonT(30), <1>2, <1>3, <1>4, <1>6, <2>1, GotoMoves, OrderDid
<1>7. CASE Goto(j, "removeFailed") /\ trace' = trace
  BY ZenonT(30), <1>7, OrderFails DEF Failed
<1> QED BY ZenonT(30), <1>5, <1>6, <1>7 DEF ExecScript

LEMMA OrderLaunch ==
  ASSUME ControlInv, TypeOK, OrderInv, NEW j \in Jobs, pc[j] \in {"deploy", "await"},
         Did(j, "launch"), Begin(j, "afterScheduler", 0)
  PROVE  OrderInv'
<1>1. j[2] \in Apps /\ section[j] = "beforeScheduler" /\ task[j] = 0
  BY ZenonT(30), JobFacts DEF Fits
<1>2. /\ Performed(j[2], pc[j], section[j], task[j]) = Launch(j[2]) - 1
      /\ Performed(j[2], "resolve", "afterScheduler", 0) = Launch(j[2])
      /\ Launch(j[2]) \in Nat \ {0} /\ Launch(j[2]) <= Len(Documented[j[2]])
      /\ Documented[j[2]][Launch(j[2])] = "launch"
  BY ZenonT(30), <1>1, LaunchNext
<1>3. Launch(j[2]) - 1 \in Nat /\ (Launch(j[2]) - 1) + 1 = Launch(j[2])
  BY <1>2
<1>4. Move(j, "resolve", "afterScheduler", 0, 0) /\ "launch" \in Sections /\ pc[j] \notin Failed
  BY BeginMoves DEF Sections, Failed
<1> DEFINE d == Performed(j[2], pc[j], section[j], task[j])
<1>5. /\ d \in Nat /\ d + 1 <= Len(Documented[j[2]])
      /\ Documented[j[2]][d + 1] = "launch"
      /\ Performed(j[2], "resolve", "afterScheduler", 0) = d + 1
  BY ZenonT(30), <1>2, <1>3
<1> HIDE DEF d
<1>6. d = Performed(j[2], pc[j], section[j], task[j])
  BY DEF d
<1>7. "resolve" \notin {"open", "write", "exec", "removeOk"}
  OBVIOUS
<1> QED BY ZenonT(30), <1>4, <1>5, <1>6, <1>7, OrderDid

LEMMA OrderRunTask ==
  ASSUME ControlInv, TypeOK, OrderInv, NEW j \in Jobs, RunTask(j)
  PROVE  OrderInv'
<1>1. pc[j] = "call"
  BY ZenonT(30) DEF RunTask
<1>2. /\ j[2] \in Apps /\ section[j] = "beforeTask" /\ pc[j] \notin Failed
      /\ task[j] \in 1..Application[j[2]].tasks
  BY ZenonT(30), <1>1, JobFacts DEF Fits, Failed
<1> DEFINE d == Performed(j[2], pc[j], section[j], task[j])
<1>3. /\ d \in Nat /\ d + 1 <= Len(Documented[j[2]])
      /\ Documented[j[2]][d + 1] = "task"
      /\ Performed(j[2], "resolve", "afterTask", task[j]) = d + 1
  BY <1>1, <1>2, TaskNext
<1>4. \/ Goto(j, "error") /\ trace' = trace
      \/ call' = [call EXCEPT ![j] = @ + 1] /\ UNCHANGED <<pc, section, task, trace>>
      \/ Did(j, "task") /\ Begin(j, "afterTask", task[j])
  BY ZenonT(30) DEF RunTask
<1>5. CASE Goto(j, "error") /\ trace' = trace
  BY ZenonT(30), <1>5, OrderFails DEF Failed
<1>6. CASE call' = [call EXCEPT ![j] = @ + 1] /\ UNCHANGED <<pc, section, task, trace>>
  <2>1. Move(j, pc[j], section[j], task[j], call[j] + 1)
    BY ZenonT(30), <1>6 DEF Move, ControlInv
  <2> QED BY ZenonT(30), <1>1, <1>2, <1>6, <2>1, OrderKeeps
<1>7. CASE Did(j, "task") /\ Begin(j, "afterTask", task[j])
  <2>1. Move(j, "resolve", "afterTask", task[j], 0) /\ "task" \in Sections
    BY <1>7, BeginMoves DEF Sections
  <2> HIDE DEF d
  <2>2. d = Performed(j[2], pc[j], section[j], task[j])
    BY DEF d
  <2>3. "resolve" \notin {"open", "write", "exec", "removeOk"}
    OBVIOUS
  <2> QED BY ZenonT(30), <1>2, <1>3, <1>7, <2>1, <2>2, <2>3, OrderDid
<1> QED BY <1>4, <1>5, <1>6, <1>7

LEMMA OrderInit == Init => OrderInv
<1> SUFFICES ASSUME Init, NEW j \in Jobs
             PROVE  Ordered(j[2], trace[j], pc[j], section[j], task[j])
  BY DEF OrderInv
<1>1. /\ trace[j] = <<>> /\ pc[j] = "idle" /\ section[j] = "beforeScheduler" /\ task[j] = 0
      /\ j[2] \in Apps
  BY ZenonT(30) DEF Init, Jobs
<1>2. Performed(j[2], pc[j], section[j], task[j]) = 0
  BY <1>1, DoneBeforeCases DEF Performed
<1>3. Documented[j[2]] \in Seq(Sections)
  BY <1>1, DocumentedFacts
<1> QED BY <1>1, <1>2, <1>3 DEF Ordered

(* Every step keeps the order. *)
LEMMA OrderStep == ControlInv /\ TypeOK /\ OrderInv /\ [Next]_vars => OrderInv'
<1> SUFFICES ASSUME ControlInv, TypeOK, OrderInv, [Next]_vars PROVE OrderInv'
  OBVIOUS
<1>a. ASSUME UNCHANGED <<pc, section, task, trace>> PROVE OrderInv'
  <2>1. ASSUME NEW k \in Jobs PROVE Ordered(k[2], trace'[k], pc'[k], section'[k], task'[k])
    BY <1>a DEF OrderInv
  <2> QED BY <2>1 DEF OrderInv, Ordered, Performed, DoneBefore, Count, Commands, TaskRound,
                       Documented, Rounds
<1>b. ASSUME NEW j \in Jobs, NEW p, Goto(j, p), trace' = trace, pc[j] \notin Failed,
             p \in {"open", "write", "exec", "removeOk"} => section[j] \in Application[j[2]].scripts,
             Performed(j[2], p, section[j], task[j]) =
               Performed(j[2], pc[j], section[j], task[j])
      PROVE  OrderInv'
  BY <1>b, GotoMoves, OrderKeeps
<1>c. ASSUME NEW j \in Jobs, Goto(j, "error"), trace' = trace PROVE OrderInv'
  BY <1>c, OrderFails DEF Failed
<1>1. ASSUME NEW j \in Jobs, Start(j) PROVE OrderInv'
  <2>1. pc[j] = "idle" /\ Goto(j, "resolve") /\ trace' = trace
    BY <1>1 DEF Start
  <2>2. Performed(j[2], "resolve", section[j], task[j]) =
          Performed(j[2], pc[j], section[j], task[j])
    BY <2>1 DEF Performed
  <2> QED BY <1>b, <2>1, <2>2 DEF Failed
<1>2. ASSUME NEW j \in Jobs, Resolve(j) PROVE OrderInv'
  <2>1. /\ pc[j] = "resolve" /\ trace' = trace
        /\ \/ Goto(j, "unresolved")
           \/ section[j] \in Application[j[2]].scripts /\ Goto(j, "open")
           \/ section[j] \notin Application[j[2]].scripts /\ AfterScript(j)
    BY <1>2 DEF Resolve
  <2>2. CASE Goto(j, "unresolved")
    BY ZenonT(30), <2>1, <2>2, OrderFails DEF Failed
  <2>3. CASE section[j] \in Application[j[2]].scripts /\ Goto(j, "open")
    <3>1. Performed(j[2], "open", section[j], task[j]) =
            Performed(j[2], pc[j], section[j], task[j])
      BY <2>1 DEF Performed
    <3> QED BY <1>b, <2>1, <2>3, <3>1 DEF Failed
  <2>4. CASE section[j] \notin Application[j[2]].scripts /\ AfterScript(j)
    BY <2>1, <2>4, OrderAfterScript
  <2> QED BY <2>1, <2>2, <2>3, <2>4
<1>3. ASSUME NEW j \in Jobs, OpenScript(j) \/ WriteScript(j) PROVE OrderInv'
  <2>1. /\ pc[j] \in {"open", "write"} /\ trace' = trace
        /\ Goto(j, "write") \/ Goto(j, "exec") \/ Goto(j, "error")
    BY ZenonT(30), <1>3 DEF OpenScript, WriteScript
  <2>2. /\ \A p \in {"write", "exec"} : Performed(j[2], p, section[j], task[j]) =
             Performed(j[2], pc[j], section[j], task[j])
        /\ section[j] \in Application[j[2]].scripts /\ pc[j] \notin Failed
    BY <2>1, OrderedInv DEF Performed, Failed
  <2> QED BY <1>b, <1>c, <2>1, <2>2
<1>4. ASSUME NEW j \in Jobs, ExecScript(j) PROVE OrderInv'
  BY <1>4, OrderScript
<1>5. ASSUME NEW j \in Jobs, RemoveScript(j) PROVE OrderInv'
  <2>1. trace' = trace /\ ((pc[j] = "removeOk" /\ AfterScript(j)) \/ Goto(j, "error"))
    BY <1>5 DEF RemoveScript
  <2> QED BY <1>c, <2>1, OrderAfterScript
<1>6. ASSUME NEW j \in Jobs, RunMesos(j) PROVE OrderInv'
  <2>1. /\ pc[j] \in {"deploy", "await"}
        /\ \/ Did(j, "launch") /\ Begin(j, "afterScheduler", 0)
           \/ Goto(j, "error") /\ trace' = trace
    BY ZenonT(30), <1>6 DEF RunMesos
  <2> QED BY <1>c, <2>1, OrderLaunch
<1>7. ASSUME NEW j \in Jobs, CreateApplication(j) PROVE OrderInv'
  <2>1. pc[j] = "deploy" /\ trace' = trace /\ (Goto(j, "await") \/ Goto(j, "error"))
    BY <1>7 DEF CreateApplication
  <2>2. Performed(j[2], "await", section[j], task[j]) =
          Performed(j[2], pc[j], section[j], task[j])
    BY <2>1 DEF Performed
  <2> QED BY <1>b, <1>c, <2>1, <2>2 DEF Failed
<1>8. ASSUME NEW j \in Jobs, CheckRunningAndHealthy(j) PROVE OrderInv'
  <2>1. /\ pc[j] = "await"
        /\ \/ Did(j, "launch") /\ Begin(j, "afterScheduler", 0)
           \/ /\ pc' = [pc EXCEPT ![j] = IF tries[j] < MaxWait THEN @ ELSE "error"]
              /\ UNCHANGED <<section, task, call, trace>>
    BY ZenonT(30), <1>8 DEF CheckRunningAndHealthy
  <2>2. CASE Did(j, "launch") /\ Begin(j, "afterScheduler", 0)
    BY <2>1, <2>2, OrderLaunch
  <2>3. CASE /\ pc' = [pc EXCEPT ![j] = IF tries[j] < MaxWait THEN @ ELSE "error"]
             /\ UNCHANGED <<section, task, call, trace>>
    <3>1. PICK p \in {pc[j], "error"} : Move(j, p, section[j], task[j], call[j])
      BY ZenonT(30), <2>3 DEF Move, ControlInv
    <3>2. "error" \in Failed /\ "await" \notin Failed
      BY DEF Failed
    <3> QED BY <2>1, <2>3, <3>1, <3>2, OrderKeeps
  <2> QED BY <2>1, <2>2, <2>3
<1>9. ASSUME NEW j \in Jobs, FillContext(j) PROVE OrderInv'
  <2>1. pc[j] = "fill" /\ trace' = trace /\ (BeginTask(j) \/ Goto(j, "error"))
    BY ZenonT(30), <1>9 DEF FillContext
  <2>2. /\ section[j] = "afterScheduler" /\ task[j] = 0 /\ j[2] \in Apps
        /\ Preparation(j[2]) \in Nat /\ pc[j] \notin Failed
    BY ZenonT(30), <2>1, JobFacts, Positions DEF Fits, Failed
  <2>3. Performed(j[2], pc[j], section[j], task[j]) = Preparation(j[2])
    BY <2>1, <2>2, RoundEnds DEF Performed
  <2>4. /\ Performed(j[2], "resolve", "beforeTask", 1) = Preparation(j[2])
        /\ Performed(j[2], "resolve", "afterTasks", 0) = Preparation(j[2])
    BY <2>2, RoundEnds DEF Performed
  <2>5. ASSUME BeginTask(j)
        PROVE  \/ Move(j, "resolve", "beforeTask", 1, 0)
               \/ Move(j, "resolve", "afterTasks", 0, 0)
    BY <2>2, <2>5, BeginMoves DEF BeginTask
  <2>6. ASSUME BeginTask(j) PROVE OrderInv'
    BY <2>1, <2>2, <2>3, <2>4, <2>5, <2>6, OrderKeeps
  <2> QED BY ZenonT(30), <1>c, <2>1, <2>6
<1>10. ASSUME NEW j \in Jobs, RunTask(j) PROVE OrderInv'
  BY <1>10, OrderRunTask
<1>11. ASSUME NEW a \in Apps, MarathonMoves(a) PROVE OrderInv'
  BY <1>a, <1>11 DEF MarathonMoves, control
<1>12. ASSUME NEW a \in Apps, NEW t, NodeServes(a, t) PROVE OrderInv'
  BY <1>a, <1>12 DEF NodeServes, control
<1>13. ASSUME UNCHANGED vars PROVE OrderInv'
  BY <1>a, <1>13 DEF vars
<1> QED
  BY <1>1, <1>2, <1>3, <1>4, <1>5, <1>6, <1>7, <1>8, <1>9, <1>10, <1>11, <1>12, <1>13
     DEF Next, Step

(* Script files. *)
LEMMA ScriptInit == Init => ScriptInv
BY DEF Init, ScriptInv, Scripting, Shares

(* A step that leaves the files alone lets nobody come to one. *)
LEMMA ScriptAway ==
  ASSUME ControlInv, TypeOK, ScriptInv, UNCHANGED <<files, shared, foreign>>,
         \A k \in Jobs : pc'[k] \in Scripting => pc'[k] = pc[k] /\ section'[k] = section[k]
  PROVE  ScriptInv'
<1>1. ASSUME NEW k \in Jobs, pc'[k] \in Scripting
      PROVE  pc[k] \in Scripting /\ pc'[k] = pc[k] /\ section'[k] = section[k]
  BY <1>1
<1>2. ASSUME NEW k \in Jobs, pc'[k] \in Scripting, ~Shares(k)' PROVE Sharers(k)' = {}
  <2>1. ~Shares(k) /\ Sharers(k) = {}
    BY <1>1, <1>2 DEF Shares, ScriptInv
  <2> QED BY <1>1, <1>2, <2>1 DEF Sharers
<1>3. ASSUME NEW k \in Jobs, ~Shares(k)'
      PROVE  /\ pc'[k] = "write" => File(k)' = Part
             /\ pc'[k] = "exec" => File(k)' = k[1]
  BY <1>1, <1>3 DEF Shares, File, ScriptInv, Scripting
<1>4. foreign' \subseteq shared'
  BY DEF ScriptInv
<1> QED BY <1>2, <1>3, <1>4 DEF ScriptInv

(* A step of one job that stays with its section leaves the others their   *)
(* files, unless they are marked as shared.                                *)
LEMMA ScriptOthers ==
  ASSUME ControlInv, TypeOK, ScriptInv, NEW j \in Jobs, NEW p \in Phases, Goto(j, p),
         shared \subseteq shared', foreign' \subseteq shared',
         \A k \in Jobs \ {j} : ~Shares(k)' /\ pc[k] \in Scripting => File(k)' = File(k),
         p \in Scripting /\ pc[j] \notin Scripting =>
           \A k \in Sharers(j) : <<k, section[j]>> \in shared' /\ Shares(j)',
         p \in Scripting /\ ~Shares(j)' =>
           /\ p = "write" => File(j)' = Part
           /\ p = "exec" => File(j)' = j[1]
  PROVE  ScriptInv'
<1>1. /\ section' = section /\ pc'[j] = p
      /\ \A k \in Jobs \ {j} : pc'[k] = pc[k]
  BY DEF Goto, ControlInv
<1>2. ASSUME NEW k \in Jobs, ~Shares(k)' PROVE ~Shares(k)
  BY <1>1, <1>2 DEF Shares
<1>3. ASSUME NEW k \in Jobs, pc'[k] \in Scripting, ~Shares(k)', NEW i \in Jobs \ {k},
             i[2] = k[2], section[i] = section[k], pc'[i] \in Scripting
      PROVE  FALSE
  <2>1. CASE pc[k] \in Scripting /\ pc[i] \in Scripting
    <3>1. i \in Sharers(k)
      BY <1>3, <2>1 DEF Sharers
    <3> QED BY <1>2, <1>3, <2>1, <3>1 DEF ScriptInv
  <2>2. CASE pc[k] \notin Scripting
    <3>1. k = j /\ pc[i] \in Scripting
      BY <1>1, <1>3, <2>2
    <3>2. i \in Sharers(j)
      BY <1>3, <3>1 DEF Sharers
    <3> QED BY <1>1, <1>3, <2>2, <3>1, <3>2
  <2>3. CASE pc[i] \notin Scripting
    <3>1. i = j /\ pc[k] \in Scripting
      BY <1>1, <1>3, <2>3
    <3>2. k \in Sharers(j)
      BY <1>3, <3>1 DEF Sharers
    <3>3. <<k, section[j]>> \in shared'
      BY <1>1, <1>3, <2>3, <3>1, <3>2
    <3> QED BY <1>1, <1>3, <3>1, <3>3 DEF Shares
  <2> QED BY <2>1, <2>2, <2>3
<1>4. ASSUME NEW k \in Jobs, pc'[k] \in Scripting, ~Shares(k)' PROVE Sharers(k)' = {}
  BY <1>1, <1>3, <1>4 DEF Sharers
<1>5. ASSUME NEW k \in Jobs, ~Shares(k)'
      PROVE  /\ pc'[k] = "write" => File(k)' = Part
             /\ pc'[k] = "exec" => File(k)' = k[1]
  <2>1. CASE k = j
    BY <1>1, <1>5, <2>1 DEF Scripting
  <2>2. CASE k # j
    BY <1>1, <1>2, <1>5, <2>2 DEF ScriptInv, Scripting
  <2> QED BY <2>1, <2>2
<1> QED BY <1>4, <1>5 DEF ScriptInv

(* Whoever changes a file another job has without sharing it is not at it. *)
LEMMA OthersFiles ==
  ASSUME ControlInv, TypeOK, ScriptInv, NEW j \in Jobs, NEW x, SetFile(j, x),
         shared \subseteq shared',
         pc[j] \in Scripting \/ \A k \in Sharers(j) : <<k, section[j]>> \in shared',
         NEW k \in Jobs \ {j}, section'[k] = section[k], ~Shares(k)', pc[k] \in Scripting
  PROVE  File(k)' = File(k)
<1>1. ~Shares(k)
  BY DEF Shares
<1>2. CASE k[2] = j[2] /\ section[k] = section[j]
  <2>1. k \in Sharers(j)
    BY <1>2 DEF Sharers
  <2>2. CASE pc[j] \in Scripting
    <3>1. j \in Sharers(k)
      BY <1>2, <2>2 DEF Sharers
    <3> QED BY <1>1, <3>1 DEF ScriptInv
  <2>3. CASE <<k, section[j]>> \in shared'
    BY <1>2, <2>3 DEF Shares
  <2> QED BY <2>1, <2>2, <2>3
<1>3. CASE k[2] # j[2] \/ section[k] # section[j]
  <2>1. j[2] \in Apps /\ k[2] \in Apps /\ section[j] \in Scripts /\ section[k] \in Scripts
    BY DEF Jobs, ControlInv
  <2>2. files \in [Apps -> [Scripts -> Runs \cup {NoFile, Part}]]
    BY DEF TypeOK
  <2> QED BY <1>3, <2>1, <2>2 DEF File, SetFile
<1> QED BY <1>2, <1>3

(* Every step keeps ScriptInv. *)
LEMMA ScriptStep == ControlInv /\ TypeOK /\ ScriptInv /\ [Next]_vars => ScriptInv'
<1> SUFFICES ASSUME ControlInv, TypeOK, ScriptInv, [Next]_vars PROVE ScriptInv'
  OBVIOUS
<1>t. files \in [Apps -> [Scripts -> Runs \cup {NoFile, Part}]]
  BY DEF TypeOK
<1>f. ASSUME NEW j \in Jobs, NEW x, SetFile(j, x), section' = section PROVE File(j)' = x
  <2>1. j[2] \in Apps /\ section[j] \in Scripts
    BY DEF Jobs, ControlInv
  <2> QED BY <1>t, <1>f, <2>1 DEF File, SetFile
<1>1. ASSUME NEW j \in Jobs, OpenScript(j) PROVE ScriptInv'
  <2>1. pc[j] = "open" /\ foreign' = foreign
    BY <1>1 DEF OpenScript
  <2>2. CASE Goto(j, "error") /\ UNCHANGED <<files, shared>>
    BY <2>1, <2>2, ScriptAway DEF Goto, ControlInv, Scripting
  <2>3. CASE /\ SetFile(j, Part) /\ Goto(j, "write")
             /\ shared' = shared \cup
                  (IF Sharers(j) = {} THEN {} ELSE {<<k, section[j]>> : k \in Sharers(j) \cup {j}})
    <3>1. /\ section' = section /\ shared \subseteq shared' /\ pc[j] \notin Scripting
          /\ \A k \in Sharers(j) : <<k, section[j]>> \in shared' /\ Shares(j)'
      BY <2>1, <2>3 DEF Goto, Shares, Scripting
    <3>2. foreign' \subseteq shared' /\ "write" \in Phases
      BY <2>1, <3>1 DEF ScriptInv, Phases
    <3>3. File(j)' = Part
      BY <1>f, <2>3, <3>1
    <3>4. \A k \in Jobs \ {j} : ~Shares(k)' /\ pc[k] \in Scripting => File(k)' = File(k)
      BY <2>3, <3>1, OthersFiles
    <3> QED BY <2>3, <3>1, <3>2, <3>3, <3>4, ScriptOthers
  <2> QED BY <1>1, <2>2, <2>3 DEF OpenScript
<1>2. ASSUME NEW j \in Jobs, WriteScript(j) PROVE ScriptInv'
  <2>1. pc[j] = "write" /\ foreign' = foreign /\ shared' = shared
    BY <1>2 DEF WriteScript
  <2>2. CASE Goto(j, "error") /\ UNCHANGED files
    BY <2>1, <2>2, ScriptAway DEF Goto, ControlInv, Scripting
  <2>3. PICK p \in {"exec", "error"} : Goto(j, p)
    BY <1>2 DEF WriteScript
  <2>4. /\ section' = section /\ pc[j] \in Scripting /\ p \in Phases
        /\ foreign' \subseteq shared' /\ p # "write" /\ Shares(j)' = Shares(j)
    BY <2>1, <2>3 DEF Goto, Scripting, Phases, Ended, ScriptInv, Shares
  <2>5. CASE SetFile(j, j[1]) \/ (Shares(j) /\ SetFile(j, Part))
    <3>1. ~Shares(j)' => File(j)' = j[1]
      BY <1>f, <2>4, <2>5
    <3>2. PICK x : SetFile(j, x)
      BY <2>5
    <3>3. \A k \in Jobs \ {j} : ~Shares(k)' /\ pc[k] \in Scripting => File(k)' = File(k)
      BY <2>1, <2>4, <3>2, OthersFiles
    <3> QED BY <2>1, <2>3, <2>4, <3>1, <3>3, ScriptOthers
  <2>6. CASE Shares(j) /\ UNCHANGED files
    <3>1. \A k \in Jobs : File(k)' = File(k)
      BY <2>4, <2>6 DEF File
    <3> QED BY <2>1, <2>3, <2>4, <2>6, <3>1, ScriptOthers
  <2>7. ~Shares(j) => File(j) = Part
    BY <2>1 DEF ScriptInv
  <2> QED BY <1>2, <2>2, <2>5, <2>6, <2>7 DEF WriteScript
<1>3. ASSUME NEW j \in Jobs, ExecScript(j) PROVE ScriptInv'
  <2>1. pc[j] = "exec" /\ shared' = shared /\ files' = files
    BY <1>3 DEF ExecScript
  <2>2. PICK p \in {"removeOk", "removeFailed"} : Goto(j, p)
    BY <1>3 DEF ExecScript
  <2>3. /\ section' = section /\ pc[j] \in Scripting /\ p \in Phases
        /\ p \notin {"write", "exec"}
    BY <2>1, <2>2 DEF Goto, Scripting, Phases
  <2>4. foreign' \subseteq shared'
    <3>1. ~Shares(j) => File(j) = j[1]
      BY <2>1 DEF ScriptInv
    <3>2. foreign' = foreign \/ (Shares(j) /\ foreign' = foreign \cup {<<j, section[j]>>})
      BY <1>3, <3>1 DEF ExecScript
    <3> QED BY <2>1, <3>2 DEF ScriptInv, Shares
  <2>5. \A k \in Jobs : File(k)' = File(k)
    BY <2>1, <2>3 DEF File
  <2> QED BY <2>1, <2>2, <2>3, <2>4, <2>5, ScriptOthers
<1>4. ASSUME NEW j \in Jobs, RemoveScript(j) PROVE ScriptInv'
  <2>1. /\ pc[j] \in Scripting /\ shared' = shared /\ foreign' = foreign
        /\ SetFile(j, NoFile) /\ (AfterScript(j) \/ Goto(j, "error"))
    BY <1>4 DEF RemoveScript, Scripting
  <2>2. \E p, s, t, c : Move(j, p, s, t, c) /\ p \notin Scripting
    <3>1. /\ "deploy" \notin Scripting /\ "fill" \notin Scripting /\ "resolve" \notin Scripting
          /\ "call" \notin Scripting /\ "ok" \notin Scripting /\ "error" \notin Scripting
      BY DEF Scripting
    <3>2. CASE AfterScript(j)
      BY ZenonT(30), <3>1, <3>2, AfterScriptMoves
    <3>3. CASE Goto(j, "error")
      BY ZenonT(30), <3>1, <3>3, GotoMoves
    <3> QED BY <2>1, <3>2, <3>3
  <2>3. ASSUME NEW k \in Jobs, pc'[k] \in Scripting
        PROVE  k # j /\ pc'[k] = pc[k] /\ section'[k] = section[k]
    BY <2>2, <2>3 DEF Move, ControlInv
  <2>4. ASSUME NEW k \in Jobs, pc'[k] \in Scripting, ~Shares(k)'
        PROVE  ~Shares(k) /\ Sharers(k)' = {} /\ File(k)' = File(k)
    <3>1. ~Shares(k) /\ Sharers(k) = {}
      BY <2>1, <2>3, <2>4 DEF Shares, ScriptInv
    <3>2. Sharers(k)' = {}
      BY <2>3, <2>4, <3>1 DEF Sharers
    <3> QED BY <2>1, <2>3, <2>4, <3>1, <3>2, OthersFiles
  <2>5. ASSUME NEW k \in Jobs, ~Shares(k)'
        PROVE  /\ pc'[k] = "write" => File(k)' = Part
               /\ pc'[k] = "exec" => File(k)' = k[1]
    BY <2>3, <2>4, <2>5 DEF ScriptInv, Scripting
  <2> QED BY <2>1, <2>4, <2>5 DEF ScriptInv
<1>5. \/ \E j \in Jobs : OpenScript(j) \/ WriteScript(j) \/ ExecScript(j) \/ RemoveScript(j)
      \/ UNCHANGED <<files, shared, foreign>>
  BY ZenonT(30) DEF Next, Step, vars, outside, Start, Resolve, RunMesos, CreateApplication,
     CheckRunningAndHealthy, MarathonMoves, FillContext, NodeServes, RunTask
<1>6. ASSUME ~\E j \in Jobs : OpenScript(j) \/ WriteScript(j) \/ ExecScript(j) \/ RemoveScript(j)
      PROVE  ScriptInv'
  BY <1>5, <1>6, OwnMoves, ScriptAway
<1> QED BY <1>1, <1>2, <1>3, <1>4, <1>6

(* A Run that succeeded has done all that is documented. *)
LEMMA OrderComplete == ControlInv /\ OrderInv /\ ScriptInv => DocumentedOrder
<1> SUFFICES ASSUME ControlInv, OrderInv, ScriptInv, NEW j \in Jobs
             PROVE  /\ Len(trace[j]) <= Len(Documented[j[2]])
                    /\ \A i \in 1..Len(trace[j]) : trace[j][i] = Documented[j[2]][i]
                    /\ pc[j] = "ok" => Len(trace[j]) = Len(Documented[j[2]])
  BY DEF DocumentedOrder, ScriptInv
<1>1. ASSUME pc[j] = "ok" PROVE Len(trace[j]) = Len(Documented[j[2]])
  <2>1. j[2] \in Apps /\ section[j] = "afterTasks" /\ task[j] = Application[j[2]].tasks
    BY <1>1, JobFacts DEF Fits
  <2>2. Len(trace[j]) = Performed(j[2], pc[j], section[j], task[j])
    BY <1>1, OrderedInv DEF Failed
  <2>3. Performed(j[2], pc[j], section[j], task[j]) =
          (Preparation(j[2]) + AllRounds(j[2])) + Count(j[2], "afterTasks")
    BY <1>1, <2>1, DoneBeforeCases DEF Performed, AllRounds
  <2> QED BY <2>1, <2>2, <2>3, DocumentedFacts
<1> QED BY <1>1, OrderedInv

-----------------------------------------------------------------------------
(* Whatever runs beside it and whatever fails, a Run that stops at a text  *)
(* it has to check lacks a variable that no dependency publishes, or only  *)
(* one that was skipped: when Run was started its other dependencies had   *)
(* succeeded, and had then set what they publish.                          *)
THEOREM DependenciesAlwaysPublish == Spec => DependenciesPublish
<1>1. ControlInv /\ TypeOK /\ PublishInv /\ [Next]_vars =>
        [\A j \in Jobs : pc[j] # "unresolved" /\ pc'[j] = "unresolved" =>
           \E s \in Checked(section[j]) : \E v \in DOMAIN text'[j][s] :
             text'[j][s][v] = Unset /\ v \notin Provided(j)]_vars
  BY StopsForOthers
<1> QED BY <1>1, PublishInit, PublishStep, TaskInit, TaskStep, ApplicationTypes,
           ControlInvariance, PTL DEF Spec, DependenciesPublish

(* Run keeps to the documented order for every application: whatever       *)
(* fails, and whatever the other runs do, the scripts, the launch and the  *)
(* tasks come one after the other as documented, none is left out or done  *)
(* twice, and a Run that succeeds has done them all.  The script executed  *)
(* is Run's own, unless another run had its file at the same time.         *)
THEOREM OrderAsDocumented == Spec => []DocumentedOrder
BY OrderInit, OrderStep, ScriptInit, ScriptStep, OrderComplete, ApplicationTypes,
   ControlInvariance, PTL DEF Spec
=============================================================================
