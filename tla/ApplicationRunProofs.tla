------------------------ MODULE ApplicationRunProofs ------------------------
(***************************************************************************)
(* What holds of ApplicationRun for any number of runs, applications,      *)
(* tasks and variables, whatever fails outside the server.                 *)
(***************************************************************************)
EXTENDS ApplicationRun, TLAPS

(* A step of job j that takes it to phase p, section s, task t and call c. *)
Move(j, p, s, t, c) ==
  /\ pc' = [pc EXCEPT ![j] = p]
  /\ section' = [section EXCEPT ![j] = s]
  /\ task' = [task EXCEPT ![j] = t]
  /\ call' = [call EXCEPT ![j] = c]

(* Goto and Begin are such steps. *)
LEMMA GotoMoves ==
  ASSUME ControlInv, NEW j \in Jobs, NEW p, Goto(j, p)
  PROVE  Move(j, p, section[j], task[j], call[j])
BY DEF ControlInv, Goto, Move

LEMMA BeginMoves ==
  ASSUME NEW j \in Jobs, NEW s, NEW t, Begin(j, s, t)
  PROVE  Move(j, "resolve", s, t, 0)
BY SMTT(30) DEF Begin, Move

(* The ways on from a script: the cases of AfterScript. *)
LEMMA AfterScriptMoves ==
  ASSUME ControlInv, NEW j \in Jobs, AfterScript(j)
  PROVE  \/ section[j] = "beforeScheduler" /\ Move(j, "deploy", section[j], task[j], call[j])
         \/ /\ section[j] = "afterScheduler" /\ HasRunner(j[2])
            /\ Move(j, "fill", section[j], task[j], call[j])
         \/ /\ section[j] = "afterScheduler" /\ ~HasRunner(j[2])
            /\ Move(j, "resolve", "afterTasks", 0, 0)
         \/ section[j] = "beforeTask" /\ Move(j, "call", section[j], task[j], 1)
         \/ /\ section[j] = "afterTask" /\ task[j] < Application[j[2]].tasks
            /\ Move(j, "resolve", "beforeTask", task[j] + 1, 0)
         \/ /\ section[j] = "afterTask" /\ ~(task[j] < Application[j[2]].tasks)
            /\ Move(j, "resolve", "afterTasks", task[j], 0)
         \/ section[j] = "afterTasks" /\ Move(j, "ok", section[j], task[j], call[j])
<1>1. section[j] \in Scripts
  BY DEF ControlInv
<1>2. CASE section[j] = "beforeScheduler"
  <2>1. Goto(j, "deploy")
    BY <1>2 DEF AfterScript
  <2> QED BY <1>2, <2>1, GotoMoves
<1>3. CASE section[j] = "afterScheduler"
  <2>1. IF HasRunner(j[2]) THEN Goto(j, "fill") ELSE Begin(j, "afterTasks", 0)
    BY <1>3 DEF AfterScript
  <2> QED BY <1>3, <2>1, GotoMoves, BeginMoves
<1>4. CASE section[j] = "beforeTask"
  <2>1. /\ pc' = [pc EXCEPT ![j] = "call"]
        /\ call' = [call EXCEPT ![j] = 1]
        /\ UNCHANGED <<section, task>>
    BY <1>4 DEF AfterScript
  <2> QED BY <1>4, <2>1 DEF Move, ControlInv
<1>5. CASE section[j] = "afterTask"
  <2>1. BeginTask(j)
    BY <1>5 DEF AfterScript
  <2> QED BY <1>5, <2>1, BeginMoves DEF BeginTask
<1>6. CASE section[j] = "afterTasks"
  <2>1. Goto(j, "ok")
    BY <1>6 DEF AfterScript
  <2> QED BY <1>6, <2>1, GotoMoves
<1> QED BY <1>1, <1>2, <1>3, <1>4, <1>5, <1>6 DEF Scripts

-----------------------------------------------------------------------------
LEMMA ControlInit == Init => ControlInv
BY ApplicationAssumption DEF Init, ControlInv, Fits, Phases, Scripts, Jobs

(* A step that fits keeps the invariant. *)
LEMMA FittingMove ==
  ASSUME ControlInv, NEW j \in Jobs, NEW p \in Phases, NEW s \in Scripts,
         NEW t \in Nat, NEW c \in Nat, Move(j, p, s, t, c), Fits(j[2], p, s, t, c)
  PROVE  ControlInv'
<1>1. /\ pc' \in [Jobs -> Phases] /\ section' \in [Jobs -> Scripts]
      /\ task' \in [Jobs -> Nat] /\ call' \in [Jobs -> Nat]
  BY DEF ControlInv, Move
<1>2. ASSUME NEW k \in Jobs
      PROVE  Fits(k[2], pc'[k], section'[k], task'[k], call'[k])
  <2>1. CASE k = j
    BY <2>1 DEF ControlInv, Move
  <2>2. CASE k # j
    BY <2>2 DEF ControlInv, Move
  <2> QED BY <2>1, <2>2
<1> QED BY <1>1, <1>2 DEF ControlInv, Fits, Calls

(* Where a job stands, as the cases below need it. *)
LEMMA JobFacts ==
  ASSUME ControlInv, NEW j \in Jobs
  PROVE  /\ j[1] \in Runs /\ j[2] \in Apps
         /\ pc[j] \in Phases /\ section[j] \in Scripts /\ task[j] \in Nat /\ call[j] \in Nat
         /\ Fits(j[2], pc[j], section[j], task[j], call[j])
         /\ Application[j[2]].tasks \in Nat
         /\ Application[j[2]].tasks > 0 => HasRunner(j[2])
BY ApplicationAssumption DEF ControlInv, Jobs

(* The call sequences of the runners.  Each has a start, but that of       *)
(* Elasticsearch.                                                          *)
LEMMA CallSequences ==
  ASSUME NEW a \in Apps, HasRunner(a)
  PROVE  Calls(a) \in {<<"add", "start">>, <<"update", "start">>, <<"add", "update", "start">>,
                       <<"addCluster", "add", "start">>, <<"add", "update", "start", "await">>,
                       <<"unsupported">>}
<1> DEFINE r == Application[a].type
<1>1. r \in {"kafka", "exhibitor", "dse", "dse02x", "statsd", "syslog", "zipkin",
             "goKafkaClient", "elasticsearch"}
  BY DEF HasRunner, Runners, RunTaskCalls
<1>2. /\ RunTaskCalls["kafka"] = <<"add", "start">>
      /\ RunTaskCalls["exhibitor"] = <<"add", "update", "start", "await">>
      /\ RunTaskCalls["dse"] = <<"add", "start">>
      /\ RunTaskCalls["dse02x"] = <<"addCluster", "add", "start">>
      /\ RunTaskCalls["statsd"] = <<"update", "start">>
      /\ RunTaskCalls["syslog"] = <<"update", "start">>
      /\ RunTaskCalls["zipkin"] = <<"add", "start">>
      /\ RunTaskCalls["goKafkaClient"] = <<"add", "update", "start">>
      /\ RunTaskCalls["elasticsearch"] = <<"unsupported">>
  BY DEF RunTaskCalls, KafkaRunTask, ExhibitorRunTask, DSERunTask, DSE02xRunTask,
         StatsdRunTask, SyslogRunTask, ZipkinRunTask, GoKafkaClientRunTask,
         ElasticsearchRunTask
<1>3. Calls(a) = RunTaskCalls[r]
  BY DEF Calls
<1> HIDE DEF r
<1> QED BY <1>1, <1>2, <1>3, Zenon

(* No RunTask is without calls. *)
LEMMA SomeCall ==
  ASSUME NEW a \in Apps, HasRunner(a)
  PROVE  Len(Calls(a)) \in Nat \ {0}
BY SMTT(30), CallSequences

(* The step to the next task. *)
LEMMA NextTaskControl ==
  ASSUME ControlInv, NEW j \in Jobs, task[j] < Application[j[2]].tasks,
         Move(j, "resolve", "beforeTask", task[j] + 1, 0)
  PROVE  ControlInv'
<1>1. task[j] + 1 \in Nat /\ task[j] + 1 \in 1..Application[j[2]].tasks
  BY JobFacts
<1>2. Fits(j[2], "resolve", "beforeTask", task[j] + 1, 0)
  BY <1>1 DEF Fits
<1>3. "resolve" \in Phases /\ "beforeTask" \in Scripts /\ 0 \in Nat
  BY DEF Phases, Scripts
<1> QED BY <1>1, <1>2, <1>3, FittingMove

LEMMA AfterScriptControl ==
  ASSUME ControlInv, NEW j \in Jobs, AfterScript(j)
  PROVE  ControlInv'
<1> USE JobFacts
<1>1. CASE Move(j, "deploy", section[j], task[j], call[j]) /\ section[j] = "beforeScheduler"
  BY <1>1, FittingMove DEF Fits, Phases
<1>2. CASE Move(j, "fill", section[j], task[j], call[j]) /\ section[j] = "afterScheduler"
  BY <1>2, FittingMove DEF Fits, Phases
<1>3. CASE Move(j, "resolve", "afterTasks", 0, 0) /\ ~HasRunner(j[2])
  BY <1>3, FittingMove DEF Fits, Phases, Scripts
<1>4. CASE Move(j, "call", section[j], task[j], 1) /\ section[j] = "beforeTask"
  <2>1. Len(Calls(j[2])) \in Nat \ {0}
    BY <1>4, SomeCall DEF Fits
  <2> QED BY <1>4, <2>1, FittingMove DEF Fits, Phases
<1>5. CASE Move(j, "resolve", "beforeTask", task[j] + 1, 0) /\ task[j] < Application[j[2]].tasks
  BY <1>5, NextTaskControl
<1>6. CASE /\ Move(j, "resolve", "afterTasks", task[j], 0)
           /\ section[j] = "afterTask" /\ ~(task[j] < Application[j[2]].tasks)
  BY SMTT(30), <1>6, FittingMove DEF Fits, Phases, Scripts
<1>7. CASE Move(j, "ok", section[j], task[j], call[j]) /\ section[j] = "afterTasks"
  BY <1>7, FittingMove DEF Fits, Phases, Ended
<1> QED BY SMTT(30), <1>1, <1>2, <1>3, <1>4, <1>5, <1>6, <1>7, AfterScriptMoves

LEMMA GotoControl ==
  ASSUME ControlInv, NEW j \in Jobs, NEW p \in Phases, Goto(j, p),
         p \notin {"deploy", "await", "fill", "call", "ok"}
  PROVE  ControlInv'
BY SMTT(30), JobFacts, GotoMoves, FittingMove DEF Fits

LEMMA AfterSchedulerControl ==
  ASSUME ControlInv, NEW j \in Jobs, Begin(j, "afterScheduler", 0)
  PROVE  ControlInv'
BY JobFacts, BeginMoves, FittingMove DEF Fits, Phases, Scripts

(* Every step keeps ControlInv. *)
LEMMA ControlStep == ControlInv /\ [Next]_vars => ControlInv'
<1> SUFFICES ASSUME ControlInv, [Next]_vars PROVE ControlInv'
  OBVIOUS
<1>0. ASSUME UNCHANGED control PROVE ControlInv'
  BY <1>0 DEF control, ControlInv, Fits, Calls
<1>1. ASSUME NEW j \in Jobs, Start(j) PROVE ControlInv'
  BY <1>1, GotoControl DEF Start, Phases
<1>2. ASSUME NEW j \in Jobs, Resolve(j) PROVE ControlInv'
  <2>1. Goto(j, "unresolved") \/ Goto(j, "open") \/ AfterScript(j)
    BY <1>2 DEF Resolve
  <2> QED BY <2>1, GotoControl, AfterScriptControl DEF Phases, Ended
<1>3. ASSUME NEW j \in Jobs, OpenScript(j) \/ WriteScript(j) PROVE ControlInv'
  <2>1. Goto(j, "write") \/ Goto(j, "exec") \/ Goto(j, "error")
    BY <1>3 DEF OpenScript, WriteScript
  <2> QED BY <2>1, GotoControl DEF Phases, Ended
<1>4. ASSUME NEW j \in Jobs, ExecScript(j) PROVE ControlInv'
  BY <1>4, GotoControl DEF ExecScript, Phases
<1>5. ASSUME NEW j \in Jobs, RemoveScript(j) PROVE ControlInv'
  BY <1>5, GotoControl, AfterScriptControl DEF RemoveScript, Phases, Ended
<1>6. ASSUME NEW j \in Jobs, RunMesos(j) PROVE ControlInv'
  BY <1>6, GotoControl, AfterSchedulerControl DEF RunMesos, Phases, Ended
<1>7. ASSUME NEW j \in Jobs, CreateApplication(j) PROVE ControlInv'
  <2>1. pc[j] = "deploy" /\ (Goto(j, "await") \/ Goto(j, "error"))
    BY <1>7 DEF CreateApplication
  <2>2. CASE Goto(j, "await")
    BY <2>1, <2>2, JobFacts, GotoMoves, FittingMove DEF Fits, Phases
  <2> QED BY <2>1, <2>2, GotoControl DEF Phases, Ended
<1>8. ASSUME NEW j \in Jobs, CheckRunningAndHealthy(j) PROVE ControlInv'
  <2>1. CASE Begin(j, "afterScheduler", 0)
    BY SMTT(30), <2>1, AfterSchedulerControl
  <2>2. CASE /\ pc' = [pc EXCEPT ![j] = IF tries[j] < MaxWait THEN @ ELSE "error"]
             /\ UNCHANGED <<section, task, call>>
    <3>1. \E p \in {pc[j], "error"} : Move(j, p, section[j], task[j], call[j])
      BY ZenonT(30), <2>2 DEF Move, ControlInv
    <3> QED BY <3>1, JobFacts, FittingMove DEF Fits, Phases, Ended
  <2> QED BY <1>8, <2>1, <2>2 DEF CheckRunningAndHealthy
<1>9. ASSUME NEW j \in Jobs, FillContext(j) PROVE ControlInv'
  <2>1. pc[j] = "fill" /\ (BeginTask(j) \/ Goto(j, "error"))
    BY <1>9 DEF FillContext
  <2>2. CASE Goto(j, "error")
    BY <2>2, GotoControl DEF Phases, Ended
  <2>3. CASE BeginTask(j) /\ task[j] < Application[j[2]].tasks
    BY <2>3, BeginMoves, NextTaskControl DEF BeginTask
  <2>4. CASE BeginTask(j) /\ ~(task[j] < Application[j[2]].tasks)
    <3>1. Move(j, "resolve", "afterTasks", task[j], 0)
      BY <2>4, BeginMoves DEF BeginTask
    <3>2. task[j] = Application[j[2]].tasks
      BY <2>1, <2>4, JobFacts DEF Fits
    <3> QED BY <3>1, <3>2, JobFacts, FittingMove DEF Fits, Phases, Scripts
  <2> QED BY <2>1, <2>2, <2>3, <2>4
<1>10. ASSUME NEW j \in Jobs, RunTask(j) PROVE ControlInv'
  <2>1. /\ pc[j] = "call"
        /\ \/ Goto(j, "error")
           \/ /\ call[j] < Len(Calls(j[2]))
              /\ call' = [call EXCEPT ![j] = @ + 1] /\ UNCHANGED <<pc, section, task>>
           \/ Begin(j, "afterTask", task[j])
    BY SMTT(30), <1>10 DEF RunTask
  <2>2. CASE Goto(j, "error")
    BY <2>2, GotoControl DEF Phases, Ended
  <2>3. CASE /\ call[j] < Len(Calls(j[2]))
             /\ call' = [call EXCEPT ![j] = @ + 1] /\ UNCHANGED <<pc, section, task>>
    <3>1. Move(j, pc[j], section[j], task[j], call[j] + 1)
      BY <2>3 DEF Move, ControlInv
    <3>2. Fits(j[2], pc[j], section[j], task[j], call[j] + 1)
      <4>1. call[j] + 1 \in 1..Len(Calls(j[2]))
        BY SMTT(30), <2>1, <2>3, JobFacts, SomeCall DEF Fits
      <4> QED BY SMTT(30), <4>1, JobFacts DEF Fits
    <3> QED BY <3>1, <3>2, JobFacts, FittingMove
  <2>4. CASE Begin(j, "afterTask", task[j])
    BY <2>1, <2>4, JobFacts, BeginMoves, FittingMove DEF Fits, Phases, Scripts
  <2> QED BY <2>1, <2>2, <2>3, <2>4
<1>11. ASSUME NEW a \in Apps, MarathonMoves(a) PROVE ControlInv'
  BY <1>0, <1>11 DEF MarathonMoves
<1>12. ASSUME NEW a \in Apps, NEW t, NodeServes(a, t) PROVE ControlInv'
  BY <1>0, <1>12 DEF NodeServes
<1>13. ASSUME UNCHANGED vars PROVE ControlInv'
  BY <1>0, <1>13 DEF vars, control
<1> QED
  BY <1>1, <1>2, <1>3, <1>4, <1>5, <1>6, <1>7, <1>8, <1>9, <1>10, <1>11, <1>12, <1>13
     DEF Next, Step

-----------------------------------------------------------------------------
(* What was resolved stays resolved: a value is never replaced. *)
LEMMA SubstituteKeeps ==
  ASSUME NEW j \in Jobs, NEW s \in Sections, Resolved(text[j], s)
  PROVE  Resolved(Substitute(j), s)
BY DEF Resolved, Substitute

LEMMA LookupOwn ==
  ASSUME NEW r, NEW v
  PROVE  Lookup(r, v) \in [kind : Kinds, run : {r}] \cup {Unset}
<1>1. CASE v \in variables[r]["stack"]
  BY <1>1 DEF Lookup, Kinds
<1>2. CASE v \notin variables[r]["stack"] /\ v \in variables[r]["arbitrary"]
  BY <1>2 DEF Lookup, Kinds
<1>3. CASE /\ v \notin variables[r]["stack"] /\ v \notin variables[r]["arbitrary"]
           /\ v \in variables[r]["global"]
  BY <1>3 DEF Lookup, Kinds
<1>4. CASE /\ v \notin variables[r]["stack"] /\ v \notin variables[r]["arbitrary"]
           /\ v \notin variables[r]["global"]
  BY SMTT(30), <1>4 DEF Lookup
<1> QED BY <1>1, <1>2, <1>3, <1>4

(* Only Resolve changes texts. *)
LEMMA TextChanges ==
  ASSUME [Next]_vars
  PROVE  UNCHANGED <<storage, skipped>> /\ (text' = text \/ \E j \in Jobs : Resolve(j))
BY ZenonT(30) DEF Next, Step, vars, Start, OpenScript, WriteScript, ExecScript, RemoveScript, RunMesos,
       CreateApplication, CheckRunningAndHealthy, FillContext, RunTask, MarathonMoves, NodeServes

LEMMA TextInit == Init => TextInv
BY DEF Init, TextInv, NothingUnresolvedRuns, Jobs

(* A resolve step leaves the texts of every job at least as resolved, and  *)
(* the jobs that share an application object with the same texts.          *)
LEMMA ResolveTexts ==
  ASSUME TextInv, NEW j \in Jobs, Resolve(j)
  PROVE  /\ \A k \in Jobs, s \in Sections : Resolved(text[k], s) => Resolved(text'[k], s)
         /\ storage = "memory" => \A k, l \in Jobs : k[2] = l[2] => text'[k] = text'[l]
<1>1. \A k \in Jobs : text'[k] = IF SameObject(j, k) THEN Substitute(j) ELSE text[k]
  BY DEF Resolve, ResolveVariables
<1>2. \A k \in Jobs : SameObject(j, k) => text[k] = text[j]
  BY DEF SameObject, TextInv
<1>3. ASSUME NEW k \in Jobs, NEW s \in Sections, Resolved(text[k], s)
      PROVE  Resolved(text'[k], s)
  <2>1. CASE SameObject(j, k)
    <3>1. Resolved(text[j], s) /\ text'[k] = Substitute(j)
      BY <1>1, <1>2, <1>3, <2>1
    <3> QED BY <3>1, SubstituteKeeps
  <2>2. CASE ~SameObject(j, k)
    BY <1>1, <1>3, <2>2
  <2> QED BY <2>1, <2>2
<1>4. ASSUME storage = "memory", NEW k \in Jobs, NEW l \in Jobs, k[2] = l[2]
      PROVE  text'[k] = text'[l]
  <2>1. SameObject(j, k) <=> SameObject(j, l)
    BY <1>4 DEF SameObject
  <2> QED BY <1>1, <1>4, <2>1 DEF TextInv
<1> QED BY <1>3, <1>4

(* What must be resolved in texts x of a job in phase p and section s. *)
Ready(p, s, x) ==
  /\ p \in {"open", "write", "exec"} => Resolved(x, s)
  /\ \/ p \in {"deploy", "await"}
     \/ s = "beforeScheduler" /\ p \in {"open", "write", "exec", "removeOk"}
     => Resolved(x, "launch")

LEMMA TextInvReady ==
  TextInv <=> /\ storage = "memory" => \A j, k \in Jobs : j[2] = k[2] => text[j] = text[k]
              /\ \A j \in Jobs : Ready(pc[j], section[j], text[j])
BY SMTT(30) DEF TextInv, NothingUnresolvedRuns, Ready

(* A step of one job keeps the texts of all ready, if its own are. *)
LEMMA ReadyMove ==
  ASSUME ControlInv, TextInv, NEW j \in Jobs, NEW p, NEW s, NEW t, NEW c,
         Move(j, p, s, t, c), storage' = storage, Ready(p, s, text'[j]),
         text' = text \/ Resolve(j)
  PROVE  TextInv'
<1>1. storage = "memory" => \A k, l \in Jobs : k[2] = l[2] => text'[k] = text'[l]
  BY ResolveTexts DEF TextInv
<1>2. \A k \in Jobs, x \in Sections : Resolved(text[k], x) => Resolved(text'[k], x)
  BY ResolveTexts
<1>3. ASSUME NEW k \in Jobs PROVE Ready(pc'[k], section'[k], text'[k])
  <2>1. CASE k = j
    BY SMTT(30), <2>1 DEF Move, ControlInv
  <2>2. CASE k # j
    <3>1. pc'[k] = pc[k] /\ section'[k] = section[k]
      BY <2>2 DEF Move, ControlInv
    <3>2. Ready(pc[k], section[k], text[k])
      BY SMTT(30), TextInvReady
    <3>3. section[k] \in Sections /\ "launch" \in Sections
      BY JobFacts DEF Sections
    <3> QED BY <3>1, <3>2, <3>3, <1>2 DEF Ready
  <2> QED BY <2>1, <2>2
<1> QED BY <1>1, <1>3 DEF TextInv, NothingUnresolvedRuns, Ready, Resolved

(* AfterScript launches only what is ready. *)
LEMMA ReadyAfterScript ==
  ASSUME ControlInv, TextInv, NEW j \in Jobs, AfterScript(j), storage' = storage,
         section[j] = "beforeScheduler" => Resolved(text'[j], "launch"),
         text' = text \/ Resolve(j)
  PROVE  TextInv'
<1>1. PICK p, s, t, c : Move(j, p, s, t, c) /\ Ready(p, s, text'[j])
  BY SMTT(30), AfterScriptMoves DEF Ready
<1> QED BY SMTT(30), <1>1, ReadyMove

LEMMA ReadyGoto ==
  ASSUME ControlInv, TextInv, NEW j \in Jobs, NEW p, Goto(j, p), storage' = storage,
         Ready(p, section[j], text'[j]), text' = text \/ Resolve(j)
  PROVE  TextInv'
BY GotoMoves, ReadyMove

LEMMA ReadyBegin ==
  ASSUME ControlInv, TextInv, NEW j \in Jobs, NEW s, NEW t, Begin(j, s, t),
         storage' = storage, text' = text
  PROVE  TextInv'
<1>1. Ready("resolve", s, text'[j])
  BY DEF Ready
<1> QED BY <1>1, BeginMoves, ReadyMove

(* Every step keeps TextInv. *)
LEMMA TextStep == ControlInv /\ TextInv /\ [Next]_vars => TextInv'
<1> SUFFICES ASSUME ControlInv, TextInv, [Next]_vars PROVE TextInv'
  OBVIOUS
<1>a. storage' = storage
  BY TextChanges
<1>b. \A j \in Jobs : Ready(pc[j], section[j], text[j])
  BY SMTT(30), TextInvReady
<1>c. ASSUME UNCHANGED <<pc, section, text>> PROVE TextInv'
  BY SMTT(30), <1>a, <1>c DEF TextInv, NothingUnresolvedRuns, Resolved
<1>1. ASSUME NEW j \in Jobs, Start(j) PROVE TextInv'
  BY <1>a, <1>1, ReadyGoto DEF Start, Ready
<1>2. ASSUME NEW j \in Jobs, Resolve(j) PROVE TextInv'
  <2>1. \/ Goto(j, "unresolved")
        \/ /\ \A s \in Checked(section[j]) : Resolved(text'[j], s)
           /\ Goto(j, "open") \/ AfterScript(j)
    BY <1>2 DEF Resolve
  <2>2. CASE Goto(j, "unresolved")
    BY <1>a, <1>2, <2>2, ReadyGoto DEF Ready
  <2>3. CASE \A s \in Checked(section[j]) : Resolved(text'[j], s)
    <3>1. /\ Resolved(text'[j], section[j])
          /\ section[j] = "beforeScheduler" => Resolved(text'[j], "launch")
      BY <2>3 DEF Checked
    <3>2. CASE Goto(j, "open")
      <4>1. Ready("open", section[j], text'[j])
        BY <3>1 DEF Ready
      <4> QED BY <1>a, <1>2, <3>2, <4>1, ReadyGoto
    <3>3. CASE AfterScript(j)
      BY <1>a, <1>2, <3>1, <3>3, ReadyAfterScript
    <3>4. CASE Goto(j, "unresolved")
      BY <2>2, <3>4
    <3> QED BY <2>1, <3>2, <3>3, <3>4
  <2> QED BY SMTT(30), <2>1, <2>2, <2>3
<1>3. ASSUME NEW j \in Jobs, OpenScript(j) \/ WriteScript(j) PROVE TextInv'
  <2>1. /\ pc[j] \in {"open", "write"} /\ text' = text
        /\ Goto(j, "write") \/ Goto(j, "exec") \/ Goto(j, "error")
    BY <1>3 DEF OpenScript, WriteScript
  <2>2. \A p \in {"write", "exec", "error"} : Ready(p, section[j], text'[j])
    BY <1>b, <2>1 DEF Ready
  <2> QED BY <1>a, <2>1, <2>2, ReadyGoto
<1>4. ASSUME NEW j \in Jobs, ExecScript(j) PROVE TextInv'
  <2>1. pc[j] = "exec" /\ text' = text /\ (Goto(j, "removeOk") \/ Goto(j, "removeFailed"))
    BY <1>4 DEF ExecScript
  <2>2. Ready("removeOk", section[j], text'[j]) /\ Ready("removeFailed", section[j], text'[j])
    BY <1>b, <2>1 DEF Ready
  <2> QED BY <1>a, <2>1, <2>2, ReadyGoto
<1>5. ASSUME NEW j \in Jobs, RemoveScript(j) PROVE TextInv'
  <2>1. text' = text /\ ((pc[j] = "removeOk" /\ AfterScript(j)) \/ Goto(j, "error"))
    BY <1>5 DEF RemoveScript
  <2>2. CASE pc[j] = "removeOk" /\ AfterScript(j)
    <3>1. section[j] = "beforeScheduler" => Resolved(text'[j], "launch")
      BY <1>b, <2>1, <2>2 DEF Ready
    <3> QED BY <1>a, <2>1, <2>2, <3>1, ReadyAfterScript
  <2> QED BY <1>a, <2>1, <2>2, ReadyGoto DEF Ready
<1>6. ASSUME NEW j \in Jobs, RunMesos(j) PROVE TextInv'
  BY SMTT(30), <1>a, <1>6, ReadyGoto, ReadyBegin DEF RunMesos, Ready
<1>7. ASSUME NEW j \in Jobs, CreateApplication(j) PROVE TextInv'
  <2>1. pc[j] = "deploy" /\ text' = text /\ (Goto(j, "await") \/ Goto(j, "error"))
    BY <1>7 DEF CreateApplication
  <2>2. Ready("await", section[j], text'[j]) /\ Ready("error", section[j], text'[j])
    BY <1>b, <2>1 DEF Ready
  <2> QED BY <1>a, <2>1, <2>2, ReadyGoto
<1>8. ASSUME NEW j \in Jobs, CheckRunningAndHealthy(j) PROVE TextInv'
  <2>1. CASE Begin(j, "afterScheduler", 0)
    BY SMTT(30), <1>a, <1>8, <2>1, ReadyBegin DEF CheckRunningAndHealthy
  <2>2. CASE /\ pc' = [pc EXCEPT ![j] = IF tries[j] < MaxWait THEN @ ELSE "error"]
             /\ UNCHANGED <<section, task, call>>
    <3>1. PICK p \in {pc[j], "error"} : Move(j, p, section[j], task[j], call[j])
      BY ZenonT(30), <2>2 DEF Move, ControlInv
    <3>2. text' = text
      BY SMTT(30), <1>8 DEF CheckRunningAndHealthy
    <3>3. Ready(p, section[j], text'[j])
      BY <1>b, <3>1, <3>2 DEF Ready
    <3> QED BY <1>a, <3>1, <3>2, <3>3, ReadyMove
  <2> QED BY <1>8, <2>1, <2>2 DEF CheckRunningAndHealthy
<1>9. ASSUME NEW j \in Jobs, FillContext(j) PROVE TextInv'
  <2>1. text' = text /\ (BeginTask(j) \/ Goto(j, "error"))
    BY <1>9 DEF FillContext
  <2> QED BY <1>a, <2>1, ReadyGoto, ReadyBegin DEF BeginTask, Ready
<1>10. ASSUME NEW j \in Jobs, RunTask(j) PROVE TextInv'
  <2>1. /\ text' = text
        /\ \/ Goto(j, "error") \/ Begin(j, "afterTask", task[j])
           \/ UNCHANGED <<pc, section>>
    BY <1>10 DEF RunTask
  <2> QED BY SMTT(30), <1>a, <1>c, <2>1, ReadyGoto, ReadyBegin DEF Ready
<1>11. ASSUME NEW a \in Apps, MarathonMoves(a) PROVE TextInv'
  BY <1>c, <1>11 DEF MarathonMoves, control
<1>12. ASSUME NEW a \in Apps, NEW t, NodeServes(a, t) PROVE TextInv'
  BY <1>c, <1>12 DEF NodeServes, control
<1>13. ASSUME UNCHANGED vars PROVE TextInv'
  BY <1>c, <1>13 DEF vars
<1> QED
  BY <1>1, <1>2, <1>3, <1>4, <1>5, <1>6, <1>7, <1>8, <1>9, <1>10, <1>11, <1>12, <1>13
     DEF Next, Step

-----------------------------------------------------------------------------
Done == {"started", "serving"}

(* No reply takes a task back. *)
LEMMA RepliesForward ==
  ASSUME NEW c, NEW node \in NodeStates, NEW reply \in Replies(c, node)
  PROVE  reply[2] \in NodeStates /\ (node \in Done => reply[2] \in Done)
<1>1. Effect(c, node) \in NodeStates /\ (node \in Done => Effect(c, node) \in Done)
  <2>1. CASE c \in {"add", "update"} /\ node = "absent"
    BY <2>1 DEF Effect, NodeStates, Done
  <2>2. CASE c = "start" /\ node = "added"
    BY <2>2 DEF Effect, NodeStates, Done
  <2>3. CASE ~(c \in {"add", "update"} /\ node = "absent") /\ ~(c = "start" /\ node = "added")
    BY <2>3 DEF Effect
  <2> QED BY <2>1, <2>2, <2>3
<1>2. reply[2] \in {node, Effect(c, node)}
  BY DEF Replies
<1> QED BY <1>1, <1>2

(* A start that is accepted has started the task: a body that cannot be    *)
(* read is no success of start.                                            *)
LEMMA StartAccepted ==
  ASSUME NEW r, NEW node \in NodeStates, NEW reply \in Replies("start", node),
         Accepts(r, "start", reply[1])
  PROVE  reply[2] \in Done
<1>1. reply[1] = "ok"
  BY DEF Accepts, DSE02xAccepts
<1>2. reply[2] = Effect("start", node) /\ "ok" \in Answers("start", node)
  BY <1>1 DEF Replies
<1>3. node # "absent"
  BY <1>2 DEF Answers
<1>4. CASE node = "added"
  BY <1>2, <1>4 DEF Effect, Done
<1>5. CASE node \in Done
  BY <1>5, RepliesForward
<1> QED BY <1>3, <1>4, <1>5 DEF NodeStates, Done

(* Elasticsearch refuses to run a task. *)
LEMMA UnsupportedRefused ==
  ASSUME NEW r, NEW node \in NodeStates, NEW reply \in Replies("unsupported", node), r # "dse02x"
  PROVE  ~Accepts(r, "unsupported", reply[1])
<1>1. Answers("unsupported", node) = {"error"}
  BY DEF Answers
<1>2. reply[1] \in {"error", "garbage"}
  BY <1>1 DEF Replies
<1> QED BY <1>2 DEF Accepts

(* The last call of a runner is accepted only after, or as, a start. *)
LEMMA LastCall ==
  ASSUME NEW a \in Apps, HasRunner(a), NEW node \in NodeStates,
         NEW reply \in Replies(Calls(a)[Len(Calls(a))], node),
         Accepts(Application[a].type, Calls(a)[Len(Calls(a))], reply[1])
  PROVE  \E i \in 1..Len(Calls(a)) : Calls(a)[i] = "start"
<1>1. CASE Calls(a) = <<"unsupported">>
  <2>1. Calls(a)[Len(Calls(a))] = "unsupported"
    BY <1>1
  <2>2. Application[a].type # "dse02x"
    <3>1. RunTaskCalls["dse02x"] = <<"addCluster", "add", "start">>
      BY DEF RunTaskCalls, DSE02xRunTask
    <3> QED BY <1>1, <3>1 DEF Calls
  <2> QED BY ZenonT(30), <2>1, <2>2, UnsupportedRefused
<1>2. CASE Calls(a) \in {<<"add", "start">>, <<"update", "start">>}
  <2>1. Calls(a)[2] = "start" /\ 2 \in 1..Len(Calls(a))
    BY <1>2
  <2> QED BY <2>1
<1>3. CASE Calls(a) \in {<<"add", "update", "start">>, <<"addCluster", "add", "start">>,
                        <<"add", "update", "start", "await">>}
  <2>1. Calls(a)[3] = "start" /\ 3 \in 1..Len(Calls(a))
    BY SMTT(30), <1>3
  <2> QED BY <2>1
<1> QED BY SMTT(30), <1>1, <1>2, <1>3, CallSequences

LEMMA TaskInit == Init => TaskInv
<1> SUFFICES ASSUME Init PROVE TaskInv
  OBVIOUS
<1>1. ASSUME NEW j \in Jobs
      PROVE  Through(j[2], pc[j], section[j], task[j], call[j]) = {}
  <2>1. task[j] = 0 /\ j[2] \in Apps /\ Application[j[2]].tasks \in Nat
    BY ZenonT(30), ApplicationAssumption DEF Init, Jobs
  <2> QED BY SMTT(30), <2>1 DEF Through
<1>2. DOMAIN nodes = Apps /\ \A a \in Apps : nodes[a] \in [1..Application[a].tasks -> NodeStates]
  BY DEF Init, NodeStates
<1> QED BY <1>1, <1>2 DEF TaskInv

(* The tasks move forward, and keep their types. *)
Forward ==
  /\ DOMAIN nodes' = Apps
  /\ \A a \in Apps : nodes'[a] \in [1..Application[a].tasks -> NodeStates]
  /\ \A a \in Apps : \A u \in 1..Application[a].tasks :
       nodes[a][u] \in Done => nodes'[a][u] \in Done

LEMMA OneForward ==
  ASSUME TaskInv, NEW a \in Apps, NEW u \in 1..Application[a].tasks, NEW n \in NodeStates,
         nodes[a][u] \in Done => n \in Done, nodes' = [nodes EXCEPT ![a][u] = n]
  PROVE  Forward /\ nodes'[a][u] = n
BY ZenonT(30) DEF TaskInv, Forward

LEMMA NodesForward == ControlInv /\ TaskInv /\ [Next]_vars => Forward
<1> SUFFICES ASSUME ControlInv, TaskInv, [Next]_vars PROVE Forward
  OBVIOUS
<1>1. CASE nodes' = nodes
  BY <1>1 DEF TaskInv, Forward
<1>2. ASSUME NEW a \in Apps, NEW t \in DOMAIN nodes[a], NodeServes(a, t) PROVE Forward
  <2>1. t \in 1..Application[a].tasks
    BY ZenonT(30) DEF TaskInv
  <2> QED BY ZenonT(30), <1>2, <2>1, OneForward DEF NodeServes, NodeStates, Done
<1>3. ASSUME NEW j \in Jobs, RunTask(j) PROVE Forward
  <2> DEFINE node == nodes[j[2]][task[j]]
  <2>1. PICK reply \in Replies(Calls(j[2])[call[j]], node) :
          nodes' = [nodes EXCEPT ![j[2]][task[j]] = reply[2]]
    BY ZenonT(30), <1>3 DEF RunTask
  <2>2. pc[j] = "call"
    BY SMTT(30), <1>3 DEF RunTask
  <2>3. j[2] \in Apps /\ task[j] \in 1..Application[j[2]].tasks
    BY SMTT(30), <2>2, JobFacts DEF Fits
  <2>4. node \in NodeStates
    BY ZenonT(30), <2>3 DEF TaskInv
  <2>5. reply[2] \in NodeStates /\ (node \in Done => reply[2] \in Done)
    BY <2>4, RepliesForward
  <2> QED BY ZenonT(30), <2>1, <2>3, <2>5, OneForward
<1>4. \/ nodes' = nodes
      \/ \E a \in Apps : \E t \in DOMAIN nodes[a] : NodeServes(a, t)
      \/ \E j \in Jobs : RunTask(j)
  BY ZenonT(30) DEF Next, Step, vars, outside, Start, Resolve, OpenScript, WriteScript, ExecScript, RemoveScript,
         RunMesos, CreateApplication, CheckRunningAndHealthy, FillContext, MarathonMoves
<1> QED BY <1>1, <1>2, <1>3, <1>4

(* A step of one job keeps TaskInv, if what it is through with is done. *)
LEMMA TaskMove ==
  ASSUME ControlInv, TaskInv, Forward, NEW j \in Jobs, NEW p, NEW s, NEW t, NEW c,
         Move(j, p, s, t, c), \A u \in Through(j[2], p, s, t, c) : nodes'[j[2]][u] \in Done
  PROVE  TaskInv'
<1>1. ASSUME NEW k \in Jobs,
             NEW u \in Through(k[2], pc'[k], section'[k], task'[k], call'[k])
      PROVE  nodes'[k[2]][u] \in Done
  <2>1. CASE k = j
    BY SMTT(30), <1>1, <2>1 DEF Move, ControlInv
  <2>2. CASE k # j
    <3>1. u \in Through(k[2], pc[k], section[k], task[k], call[k])
      BY ZenonT(30), <1>1, <2>2 DEF Move, ControlInv
    <3>2. nodes[k[2]][u] \in Done /\ k[2] \in Apps /\ u \in 1..Application[k[2]].tasks
      BY SMTT(30), <3>1, JobFacts DEF TaskInv, Done, Through
    <3> QED BY SMTT(30), <3>2 DEF Forward
  <2> QED BY SMTT(30), <2>1, <2>2
<1> QED BY ZenonT(30), <1>1 DEF TaskInv, Forward, Done, Through, Calls

LEMMA TaskNoMore ==
  ASSUME ControlInv, TaskInv, Forward, NEW j \in Jobs, NEW p, NEW s, NEW t, NEW c,
         Move(j, p, s, t, c),
         Through(j[2], p, s, t, c) \subseteq
           Through(j[2], pc[j], section[j], task[j], call[j])
  PROVE  TaskInv'
<1>1. ASSUME NEW u \in Through(j[2], p, s, t, c) PROVE nodes'[j[2]][u] \in Done
  <2>1. nodes[j[2]][u] \in Done /\ j[2] \in Apps /\ u \in 1..Application[j[2]].tasks
    BY SMTT(30), <1>1, JobFacts DEF TaskInv, Done, Through
  <2> QED BY ZenonT(30), <2>1 DEF Forward
<1> QED BY SMTT(30), <1>1, TaskMove

LEMMA TaskGoto ==
  ASSUME ControlInv, TaskInv, Forward, NEW j \in Jobs, NEW p, p # "call", Goto(j, p)
  PROVE  TaskInv'
<1>1. Move(j, p, section[j], task[j], call[j])
  BY SMTT(30), GotoMoves
<1>2. Through(j[2], p, section[j], task[j], call[j]) \subseteq
        Through(j[2], pc[j], section[j], task[j], call[j])
  BY DEF Through
<1> QED BY <1>1, <1>2, TaskNoMore

LEMMA TaskAfterScheduler ==
  ASSUME ControlInv, TaskInv, Forward, NEW j \in Jobs, Begin(j, "afterScheduler", 0)
  PROVE  TaskInv'
<1>1. Through(j[2], "resolve", "afterScheduler", 0, 0) = {}
  BY SMTT(30), JobFacts DEF Through
<1> QED BY SMTT(30), <1>1, BeginMoves, TaskNoMore

(* The next task, or what comes after all of them. *)
LEMMA TaskBegin ==
  ASSUME ControlInv, TaskInv, Forward, NEW j \in Jobs, section[j] # "beforeTask",
         \/ Move(j, "resolve", "beforeTask", task[j] + 1, 0)
         \/ Move(j, "resolve", "afterTasks", task[j], 0)
  PROVE  TaskInv'
<1>1. Application[j[2]].tasks \in Nat /\ task[j] \in Nat
  BY SMTT(30), JobFacts
<1>2. Through(j[2], "resolve", "beforeTask", task[j] + 1, 0) \subseteq
        Through(j[2], pc[j], section[j], task[j], call[j])
  <2>1. \A u \in 1..Application[j[2]].tasks : u < task[j] + 1 => u < task[j] \/ u = task[j]
    BY SMTT(30), <1>1
  <2> QED BY <2>1 DEF Through
<1>3. Through(j[2], "resolve", "afterTasks", task[j], 0) \subseteq
        Through(j[2], pc[j], section[j], task[j], call[j])
  BY ZenonT(30) DEF Through
<1> QED BY ZenonT(30), <1>2, <1>3, TaskNoMore

LEMMA TaskAfterScript ==
  ASSUME ControlInv, TaskInv, Forward, NEW j \in Jobs, AfterScript(j)
  PROVE  TaskInv'
<1>1. CASE \E p \in {"deploy", "fill", "ok"} : Move(j, p, section[j], task[j], call[j])
  <2>1. PICK p \in {"deploy", "fill", "ok"} : Move(j, p, section[j], task[j], call[j])
    BY SMTT(30), <1>1
  <2>2. Through(j[2], p, section[j], task[j], call[j]) \subseteq
          Through(j[2], pc[j], section[j], task[j], call[j])
    BY SMTT(30) DEF Through
  <2> QED BY ZenonT(30), <2>1, <2>2, TaskNoMore
<1>2. CASE ~HasRunner(j[2]) /\ Move(j, "resolve", "afterTasks", 0, 0)
  <2>1. Through(j[2], "resolve", "afterTasks", 0, 0) = {}
    BY SMTT(30), JobFacts DEF Through
  <2> QED BY ZenonT(30), <1>2, <2>1, TaskNoMore
<1>3. CASE section[j] = "beforeTask" /\ Move(j, "call", section[j], task[j], 1)
  <2>1. Through(j[2], "call", section[j], task[j], 1) \subseteq
          Through(j[2], pc[j], section[j], task[j], call[j])
    BY <1>3 DEF Through
  <2> QED BY SMTT(30), <1>3, <2>1, TaskNoMore
<1>4. CASE /\ section[j] = "afterTask"
           /\ \/ Move(j, "resolve", "beforeTask", task[j] + 1, 0)
              \/ Move(j, "resolve", "afterTasks", task[j], 0)
  BY SMTT(30), <1>4, TaskBegin
<1> QED BY ZenonT(30), <1>1, <1>2, <1>3, <1>4, AfterScriptMoves

(* A call of RunTask: what it adds to Through is the task just started. *)
LEMMA TaskRunTask ==
  ASSUME ControlInv, TaskInv, Forward, NEW j \in Jobs, RunTask(j)
  PROVE  TaskInv'
<1> DEFINE a == j[2]
           c == Calls(a)[call[j]]
           node == nodes[a][task[j]]
           old == Through(a, pc[j], section[j], task[j], call[j])
<1>1. /\ pc[j] = "call" /\ section[j] = "beforeTask" /\ a \in Apps
      /\ task[j] \in 1..Application[a].tasks /\ call[j] \in 1..Len(Calls(a))
      /\ HasRunner(a) /\ call[j] \in Nat /\ task[j] \in Nat
  <2>1. pc[j] = "call"
    BY SMTT(30) DEF RunTask
  <2> QED BY SMTT(30), <2>1, JobFacts DEF Fits
<1>2. node \in NodeStates
  BY ZenonT(30), <1>1 DEF TaskInv
<1>3. PICK reply \in Replies(c, node) :
        /\ nodes' = [nodes EXCEPT ![a][task[j]] = reply[2]]
        /\ \/ Goto(j, "error")
           \/ /\ Accepts(Application[a].type, c, reply[1])
              /\ \/ /\ call' = [call EXCEPT ![j] = @ + 1]
                    /\ UNCHANGED <<pc, section, task>>
                 \/ call[j] = Len(Calls(a)) /\ Begin(j, "afterTask", task[j])
  BY ZenonT(30) DEF RunTask
<1>4. reply[2] \in NodeStates /\ (node \in Done => reply[2] \in Done)
  BY <1>2, RepliesForward
<1>5. nodes'[a][task[j]] = reply[2]
  <2>1. nodes' = [nodes EXCEPT ![a][task[j]] = reply[2]]
    BY SMTT(30), <1>3
  <2>2. a \in DOMAIN nodes /\ task[j] \in DOMAIN nodes[a]
    BY ZenonT(30), <1>1 DEF TaskInv
  <2> HIDE DEF a
  <2> QED BY <2>1, <2>2
<1>6. \A u \in old : nodes'[a][u] \in Done
  <2>1. \A u \in old : nodes[a][u] \in Done /\ u \in 1..Application[a].tasks
    BY DEF TaskInv, Done, Through
  <2> QED BY ZenonT(30), <1>1, <2>1 DEF Forward
<1>7. CASE Goto(j, "error")
  BY SMTT(30), <1>7, TaskGoto
<1>8. ASSUME Accepts(Application[a].type, c, reply[1]),
             \E i \in 1..call[j] : Calls(a)[i] = "start"
      PROVE  nodes'[a][task[j]] \in Done
  <2>1. CASE c = "start"
    BY ZenonT(30), <1>2, <1>5, <1>8, <2>1, StartAccepted
  <2>2. CASE c # "start"
    <3>1. \E i \in 1..call[j] - 1 : Calls(a)[i] = "start"
      BY SMTT(30), <1>1, <1>8, <2>2
    <3>2. task[j] \in old
      BY SMTT(30), <1>1, <3>1 DEF Through
    <3> QED BY ZenonT(30), <1>6, <3>2
  <2> QED BY <2>1, <2>2
<1>9. CASE /\ Accepts(Application[a].type, c, reply[1])
           /\ call' = [call EXCEPT ![j] = @ + 1]
           /\ UNCHANGED <<pc, section, task>>
  <2>1. Move(j, pc[j], section[j], task[j], call[j] + 1)
    BY SMTT(30), <1>9 DEF Move, ControlInv
  <2>2. ASSUME NEW u \in Through(a, pc[j], section[j], task[j], call[j] + 1)
        PROVE  nodes'[a][u] \in Done
    <3>1. CASE u = task[j]
      <4>1. \E i \in 1..call[j] : Calls(a)[i] = "start"
        <5>1. ~(u < task[j]) /\ section[j] = "beforeTask"
          BY <1>1, <3>1
        <5>2. \E i \in 1..(call[j] + 1) - 1 : Calls(a)[i] = "start"
          BY ZenonT(30), <2>2, <5>1 DEF Through
        <5>3. (call[j] + 1) - 1 = call[j]
          BY SMTT(30), <1>1
        <5> QED BY ZenonT(30), <5>2, <5>3
      <4> QED BY ZenonT(30), <1>8, <1>9, <3>1, <4>1
    <3>2. CASE u # task[j]
      <4>1. u \in old
        BY SMTT(30), <2>2, <3>2 DEF Through
      <4> QED BY SMTT(30), <1>6, <4>1
    <3> QED BY SMTT(30), <3>1, <3>2
  <2> QED BY ZenonT(30), <2>1, <2>2, TaskMove
<1>10. CASE /\ Accepts(Application[a].type, c, reply[1])
            /\ call[j] = Len(Calls(a)) /\ Begin(j, "afterTask", task[j])
  <2>1. nodes'[a][task[j]] \in Done
    <3>1. \E i \in 1..Len(Calls(a)) : Calls(a)[i] = "start"
      BY ZenonT(30), <1>1, <1>2, <1>10, LastCall
    <3> QED BY SMTT(30), <1>8, <1>10, <3>1
  <2>2. ASSUME NEW u \in Through(a, "resolve", "afterTask", task[j], 0)
        PROVE  nodes'[a][u] \in Done
    <3>1. u = task[j] \/ u \in old
      BY <2>2 DEF Through
    <3> QED BY ZenonT(30), <1>6, <2>1, <3>1
  <2> QED BY ZenonT(30), <1>10, <2>2, BeginMoves, TaskMove
<1> QED BY ZenonT(30), <1>3, <1>7, <1>9, <1>10

(* Every step keeps TaskInv. *)
LEMMA TaskStep == ControlInv /\ TaskInv /\ [Next]_vars => TaskInv'
<1> SUFFICES ASSUME ControlInv, TaskInv, [Next]_vars PROVE TaskInv'
  OBVIOUS
<1>a. Forward
  BY ZenonT(30), NodesForward
<1>b. ASSUME UNCHANGED control PROVE TaskInv'
  <2>1. UNCHANGED <<pc, section, task, call>>
    BY SMTT(30), <1>b DEF control
  <2>2. ASSUME NEW k \in Jobs, NEW u \in Through(k[2], pc[k], section[k], task[k], call[k])
        PROVE  nodes'[k[2]][u] \in Done
    <3>1. nodes[k[2]][u] \in Done /\ k[2] \in Apps /\ u \in 1..Application[k[2]].tasks
      BY ZenonT(30), <2>2, JobFacts DEF TaskInv, Done, Through
    <3> QED BY SMTT(30), <1>a, <3>1 DEF Forward
  <2> QED BY <1>a, <2>1, <2>2 DEF TaskInv, Forward, Done, Through, Calls
<1>1. ASSUME NEW j \in Jobs, Start(j) PROVE TaskInv'
  BY SMTT(30), <1>a, <1>1, TaskGoto DEF Start
<1>2. ASSUME NEW j \in Jobs, Resolve(j) PROVE TaskInv'
  BY ZenonT(30), <1>a, <1>2, TaskGoto, TaskAfterScript DEF Resolve
<1>3. ASSUME NEW j \in Jobs, OpenScript(j) \/ WriteScript(j) PROVE TaskInv'
  <2>1. Goto(j, "write") \/ Goto(j, "exec") \/ Goto(j, "error")
    BY ZenonT(30), <1>3 DEF OpenScript, WriteScript
  <2> QED BY SMTT(30), <1>a, <2>1, TaskGoto
<1>4. ASSUME NEW j \in Jobs, ExecScript(j) PROVE TaskInv'
  BY <1>a, <1>4, TaskGoto DEF ExecScript
<1>5. ASSUME NEW j \in Jobs, RemoveScript(j) PROVE TaskInv'
  BY SMTT(30), <1>a, <1>5, TaskGoto, TaskAfterScript DEF RemoveScript
<1>6. ASSUME NEW j \in Jobs, RunMesos(j) PROVE TaskInv'
  BY SMTT(30), <1>a, <1>6, TaskGoto, TaskAfterScheduler DEF RunMesos
<1>7. ASSUME NEW j \in Jobs, CreateApplication(j) PROVE TaskInv'
  BY <1>a, <1>7, TaskGoto DEF CreateApplication
<1>8. ASSUME NEW j \in Jobs, CheckRunningAndHealthy(j) PROVE TaskInv'
  <2>1. CASE Begin(j, "afterScheduler", 0)
    BY SMTT(30), <1>a, <2>1, TaskAfterScheduler
  <2>2. CASE /\ pc' = [pc EXCEPT ![j] = IF tries[j] < MaxWait THEN @ ELSE "error"]
             /\ UNCHANGED <<section, task, call>>
    <3>1. PICK p \in {pc[j], "error"} : Move(j, p, section[j], task[j], call[j])
      BY ZenonT(30), <2>2 DEF Move, ControlInv
    <3>2. Through(j[2], p, section[j], task[j], call[j]) \subseteq
            Through(j[2], pc[j], section[j], task[j], call[j])
      BY SMTT(30), <3>1 DEF Through
    <3> QED BY SMTT(30), <1>a, <3>1, <3>2, TaskNoMore
  <2> QED BY <1>8, <2>1, <2>2 DEF CheckRunningAndHealthy
<1>9. ASSUME NEW j \in Jobs, FillContext(j) PROVE TaskInv'
  <2>1. pc[j] = "fill" /\ (BeginTask(j) \/ Goto(j, "error"))
    BY SMTT(30), <1>9 DEF FillContext
  <2>2. section[j] # "beforeTask"
    BY <2>1, JobFacts DEF Fits
  <2> QED BY SMTT(30), <1>a, <2>1, <2>2, BeginMoves, TaskBegin, TaskGoto DEF BeginTask
<1>10. ASSUME NEW j \in Jobs, RunTask(j) PROVE TaskInv'
  BY <1>a, <1>10, TaskRunTask
<1>11. ASSUME NEW a \in Apps, MarathonMoves(a) PROVE TaskInv'
  BY <1>b, <1>11 DEF MarathonMoves
<1>12. ASSUME NEW a \in Apps, NEW t, NodeServes(a, t) PROVE TaskInv'
  BY <1>b, <1>12 DEF NodeServes
<1>13. ASSUME UNCHANGED vars PROVE TaskInv'
  BY <1>b, <1>13 DEF vars, control
<1> QED
  BY <1>1, <1>2, <1>3, <1>4, <1>5, <1>6, <1>7, <1>8, <1>9, <1>10, <1>11, <1>12, <1>13
     DEF Next, Step

-----------------------------------------------------------------------------
(* Types. *)
LEMMA TypeInit == Init => TypeOK /\ TriesInv
<1> SUFFICES ASSUME Init PROVE TypeOK /\ TriesInv
  OBVIOUS
<1>1. tries \in [Jobs -> 0..MaxWait + 1] /\ \A j \in Jobs : tries[j] = 0 /\ 0 <= MaxWait
  BY ModeAssumption DEF Init
<1>2. variables \in [Runs -> [Kinds -> SUBSET Vars]]
  BY VarsAssumption DEF Init, Request
<1>7. skipped \in [Runs -> SUBSET Apps]
  BY VarsAssumption DEF Init, Request
<1>3. \A j \in Jobs, s \in Sections :
        text[j][s] \in [Application[j[2]].refs[s] -> Value \cup {Unset}]
  BY ZenonT(30) DEF Init
<1>4. trace \in [Jobs -> Seq(Sections)]
  BY DEF Init
<1>5. /\ pc \in [Jobs -> Phases] /\ section \in [Jobs -> Sections]
      /\ task \in [Jobs -> Nat] /\ call \in [Jobs -> Nat]
  BY DEF Init, Phases, Sections, Scripts
<1>6. /\ storage \in StackStorages /\ shared = {} /\ foreign = {}
      /\ files \in [Apps -> [Scripts -> Runs \cup {NoFile, Part}]]
      /\ marathon \in [Apps -> {"absent", "deployed", "running", "healthy"}]
      /\ \A a \in Apps : nodes[a] \in [1..Application[a].tasks -> NodeStates]
  BY DEF Init, NodeStates
<1> QED BY <1>1, <1>2, <1>3, <1>4, <1>5, <1>6, <1>7 DEF TypeOK, TriesInv

(* Only fillContext and an accepted start set variables, of the own run.   *)
LEMMA VariablesChange ==
  ASSUME [Next]_vars
  PROVE  \/ variables' = variables
         \/ \E j \in Jobs : \E names \in SUBSET Vars : SetStackVariables(j[1], names)
<1>1. ASSUME NEW j \in Jobs, FillContext(j)
      PROVE  \/ variables' = variables
             \/ \E names \in SUBSET Vars : SetStackVariables(j[1], names)
  <2> DEFINE a == Application[j[2]]
  <2>1. a.publishes \in SUBSET Vars /\ a.publishes \cup a.connects \in SUBSET Vars
    BY ApplicationAssumption DEF Jobs
  <2>2. \/ variables' = variables
        \/ SetStackVariables(j[1], a.publishes)
        \/ SetStackVariables(j[1], a.publishes \cup a.connects)
    BY ZenonT(30), <1>1 DEF FillContext
  <2> QED BY ZenonT(30), <2>1, <2>2
<1>2. ASSUME NEW j \in Jobs, RunTask(j)
      PROVE  \/ variables' = variables
             \/ \E names \in SUBSET Vars : SetStackVariables(j[1], names)
  <2> DEFINE a == Application[j[2]]
             names == IF Calls(j[2])[call[j]] = "start" /\ a.type \in PublishOnStart
                      THEN a.connects ELSE {}
  <2>1. names \in SUBSET Vars
    BY ApplicationAssumption DEF Jobs
  <2>2. variables' = variables \/ SetStackVariables(j[1], names)
    BY ZenonT(30), <1>2 DEF RunTask
  <2> QED BY ZenonT(30), <2>1, <2>2
<1>3. \/ variables' = variables
      \/ \E j \in Jobs : FillContext(j) \/ RunTask(j)
  BY ZenonT(30) DEF Next, Step, vars, Start, Resolve, OpenScript, WriteScript, ExecScript, RemoveScript,
         RunMesos, CreateApplication, CheckRunningAndHealthy, MarathonMoves, NodeServes
<1> QED BY ZenonT(30), <1>1, <1>2, <1>3

LEMMA VariablesStep ==
  ASSUME TypeOK, [Next]_vars
  PROVE  /\ variables' \in [Runs -> [Kinds -> SUBSET Vars]]
         /\ \A r \in Runs : variables[r]["stack"] \subseteq variables'[r]["stack"]
<1>1. variables \in [Runs -> [Kinds -> SUBSET Vars]]
  BY DEF TypeOK
<1>2. ASSUME NEW j \in Jobs, NEW names \in SUBSET Vars, SetStackVariables(j[1], names)
      PROVE  /\ variables' \in [Runs -> [Kinds -> SUBSET Vars]]
             /\ \A r \in Runs : variables[r]["stack"] \subseteq variables'[r]["stack"]
  <2>1. j[1] \in Runs /\ "stack" \in Kinds
    BY DEF Jobs, Kinds
  <2> DEFINE new == [variables[j[1]] EXCEPT !["stack"] = variables[j[1]]["stack"] \cup names]
  <2>2. variables' = [variables EXCEPT ![j[1]] = new]
    BY <1>2 DEF SetStackVariables
  <2>3. variables[j[1]] \in [Kinds -> SUBSET Vars] /\ variables[j[1]]["stack"] \in SUBSET Vars
    BY <1>1, <2>1
  <2>4. variables[j[1]]["stack"] \cup names \in SUBSET Vars
    BY <2>3
  <2>5. new \in [Kinds -> SUBSET Vars] /\ variables[j[1]]["stack"] \subseteq new["stack"]
    BY <2>1, <2>3, <2>4
  <2> HIDE DEF new
  <2>6. variables' \in [Runs -> [Kinds -> SUBSET Vars]]
    BY <1>1, <2>1, <2>2, <2>5
  <2>7. ASSUME NEW r \in Runs PROVE variables[r]["stack"] \subseteq variables'[r]["stack"]
    BY ZenonT(30), <1>1, <2>1, <2>2, <2>5
  <2> QED BY <2>6, <2>7
<1> QED BY ZenonT(30), <1>1, <1>2, VariablesChange

LEMMA TextTypes ==
  ASSUME TypeOK, [Next]_vars
  PROVE  \A k \in Jobs, s \in Sections :
           text'[k][s] \in [Application[k[2]].refs[s] -> Value \cup {Unset}]
<1> SUFFICES ASSUME NEW k \in Jobs, NEW s \in Sections
             PROVE  text'[k][s] \in [Application[k[2]].refs[s] -> Value \cup {Unset}]
  OBVIOUS
<1>1. \A l \in Jobs : text[l][s] \in [Application[l[2]].refs[s] -> Value \cup {Unset}]
  BY ZenonT(30) DEF TypeOK
<1>2. ASSUME NEW j \in Jobs, Resolve(j)
      PROVE  text'[k][s] \in [Application[k[2]].refs[s] -> Value \cup {Unset}]
  <2>1. text'[k] = IF SameObject(j, k) THEN Substitute(j) ELSE text[k]
    BY <1>2 DEF Resolve, ResolveVariables
  <2>2. CASE SameObject(j, k)
    <3>1. k[2] = j[2] /\ text'[k] = Substitute(j) /\ j[1] \in Runs
      BY <2>1, <2>2 DEF SameObject, Jobs
    <3>2. text'[k][s] = [v \in DOMAIN text[j][s] |->
             IF text[j][s][v] = Unset THEN Lookup(j[1], v) ELSE text[j][s][v]]
      BY <3>1 DEF Substitute
    <3>3. text[j][s] \in [Application[k[2]].refs[s] -> Value \cup {Unset}]
      BY <1>1, <3>1
    <3>4. \A v : Lookup(j[1], v) \in Value \cup {Unset}
      BY ZenonT(30), <3>1, LookupOwn DEF Value
    <3> QED BY <3>2, <3>3, <3>4
  <2> QED BY ZenonT(30), <1>1, <2>1, <2>2
<1> QED BY ZenonT(30), <1>1, <1>2, TextChanges

LEMMA FilesStep ==
  ASSUME ControlInv, TypeOK, [Next]_vars
  PROVE  files' \in [Apps -> [Scripts -> Runs \cup {NoFile, Part}]]
<1>1. files \in [Apps -> [Scripts -> Runs \cup {NoFile, Part}]]
  BY DEF TypeOK
<1>2. ASSUME NEW j \in Jobs, NEW r \in Runs \cup {NoFile, Part},
             files' = [files EXCEPT ![j[2]][section[j]] = r]
      PROVE  files' \in [Apps -> [Scripts -> Runs \cup {NoFile, Part}]]
  BY <1>1, <1>2, JobFacts
<1>3. \/ files' = files
      \/ \E j \in Jobs : OpenScript(j) \/ WriteScript(j) \/ RemoveScript(j)
  BY ZenonT(30) DEF Next, Step, vars, outside, Start, Resolve, ExecScript, RunMesos, RunTask,
         CreateApplication, CheckRunningAndHealthy, FillContext, MarathonMoves, NodeServes
<1>4. ASSUME NEW j \in Jobs, OpenScript(j) \/ WriteScript(j)
      PROVE  files' = files \/ \E r \in Runs \cup {NoFile, Part} :
               files' = [files EXCEPT ![j[2]][section[j]] = r]
  BY ZenonT(30), <1>4, JobFacts DEF OpenScript, WriteScript, SetFile
<1>5. ASSUME NEW j \in Jobs, RemoveScript(j)
      PROVE  \E r \in Runs \cup {NoFile, Part} : files' = [files EXCEPT ![j[2]][section[j]] = r]
  BY ZenonT(30), <1>5 DEF RemoveScript, SetFile
<1> QED BY <1>1, <1>2, <1>3, <1>4, <1>5

LEMMA SharedStep ==
  ASSUME ControlInv, TypeOK, [Next]_vars
  PROVE  shared' \subseteq Jobs \X Scripts /\ foreign' \subseteq Jobs \X Scripts
<1>1. /\ shared \subseteq Jobs \X Scripts /\ foreign \subseteq Jobs \X Scripts
      /\ \A j \in Jobs : section[j] \in Scripts
  BY DEF TypeOK, ControlInv
<1>2. \/ UNCHANGED <<shared, foreign>>
      \/ \E j \in Jobs : OpenScript(j) \/ ExecScript(j)
  BY ZenonT(30) DEF Next, Step, vars, outside, Start, Resolve, WriteScript, RemoveScript, RunMesos,
         RunTask, CreateApplication, CheckRunningAndHealthy, FillContext, MarathonMoves, NodeServes
<1>3. ASSUME NEW j \in Jobs, OpenScript(j)
      PROVE  shared' \subseteq Jobs \X Scripts /\ foreign' = foreign
  <2>1. foreign' = foreign /\ (shared' = shared \/
          shared' \subseteq shared \cup {<<k, section[j]>> : k \in Sharers(j) \cup {j}})
    BY <1>3 DEF OpenScript
  <2>2. Sharers(j) \cup {j} \subseteq Jobs
    BY DEF Sharers
  <2> QED BY <1>1, <2>1, <2>2
<1>4. ASSUME NEW j \in Jobs, ExecScript(j)
      PROVE  shared' = shared /\ foreign' \subseteq Jobs \X Scripts
  <2>1. shared' = shared /\ foreign' \subseteq foreign \cup {<<j, section[j]>>}
    BY <1>4 DEF ExecScript
  <2> QED BY <1>1, <2>1
<1> QED BY <1>1, <1>2, <1>3, <1>4

LEMMA MarathonStep ==
  ASSUME TypeOK, [Next]_vars
  PROVE  marathon' \in [Apps -> {"absent", "deployed", "running", "healthy"}]
<1> DEFINE States == {"absent", "deployed", "running", "healthy"}
<1>1. marathon \in [Apps -> States]
  BY DEF TypeOK
<1>2. ASSUME NEW j \in Jobs, CreateApplication(j) PROVE marathon' \in [Apps -> States]
  BY <1>1, <1>2 DEF CreateApplication, Jobs
<1>3. ASSUME NEW a \in Apps, MarathonMoves(a) PROVE marathon' \in [Apps -> States]
  BY <1>1, <1>3 DEF MarathonMoves
<1>4. \/ marathon' = marathon
      \/ \E j \in Jobs : CreateApplication(j)
      \/ \E a \in Apps : MarathonMoves(a)
  BY ZenonT(30) DEF Next, Step, vars, outside, Start, Resolve, OpenScript, WriteScript, ExecScript,
         RemoveScript, RunMesos, RunTask, CheckRunningAndHealthy, FillContext, NodeServes
<1> QED BY <1>1, <1>2, <1>3, <1>4

(* The job that a step moves to phase p has not ended.  Only Start moves   *)
(* an idle one, only executeCommands brings one to a script, and only      *)
(* ensureVariablesResolved stops one for a variable.                       *)
Mover(j, p) ==
  /\ pc[j] \notin Ended
  /\ pc[j] = "idle" => Start(j)
  /\ p \in Scripting => OpenScript(j) \/ WriteScript(j) \/ ExecScript(j)
  /\ p = "unresolved" =>
       Resolve(j) /\ \E s \in Checked(section[j]) : ~Resolved(text'[j], s)

(* A step moves one job, or none. *)
LEMMA OneMoves ==
  ASSUME ControlInv, [Next]_vars
  PROVE  \/ UNCHANGED <<pc, section, task, call>>
         \/ \E j \in Jobs : \E p : Mover(j, p) /\ \E s, t, c : Move(j, p, s, t, c)
<1> DEFINE Moves(j) == \E p : Mover(j, p) /\ \E s, t, c : Move(j, p, s, t, c)
<1>a. ASSUME NEW j \in Jobs, NEW p, Goto(j, p) PROVE \E s, t, c : Move(j, p, s, t, c)
  BY ZenonT(30), <1>a, GotoMoves
<1>b. ASSUME NEW j \in Jobs, NEW s, NEW t, Begin(j, s, t)
      PROVE  \E x, u, c : Move(j, "resolve", x, u, c)
  BY ZenonT(30), <1>b, BeginMoves
<1>c. ASSUME NEW j \in Jobs, AfterScript(j)
      PROVE  \E p \in {"deploy", "fill", "resolve", "call", "ok"} :
               \E s, t, c : Move(j, p, s, t, c)
  BY ZenonT(30), <1>c, AfterScriptMoves
<1>d. ASSUME NEW j \in Jobs, NEW p, pc[j] \notin Ended, pc[j] # "idle", p # "unresolved",
             p \in Scripting => OpenScript(j) \/ WriteScript(j) \/ ExecScript(j)
      PROVE  Mover(j, p)
  BY <1>d DEF Mover
<1>e. /\ "open" \notin Scripting /\ "await" \notin Scripting /\ "resolve" \notin Scripting
      /\ "call" \notin Scripting /\ "error" \notin Scripting
  BY DEF Scripting
<1>1. ASSUME NEW j \in Jobs, Start(j) PROVE Moves(j)
  <2>1. Goto(j, "resolve") /\ Mover(j, "resolve")
    BY ZenonT(30), <1>1 DEF Start, Mover, Ended, Scripting
  <2> QED BY <2>1, <1>a
<1>2. ASSUME NEW j \in Jobs, Resolve(j) PROVE Moves(j)
  <2>1. /\ pc[j] = "resolve"
        /\ \/ /\ Goto(j, "unresolved")
              /\ \E s \in Checked(section[j]) : ~Resolved(text'[j], s)
           \/ Goto(j, "open") \/ AfterScript(j)
    BY <1>2 DEF Resolve
  <2>2. CASE Goto(j, "unresolved") /\ \E s \in Checked(section[j]) : ~Resolved(text'[j], s)
    <3>1. Mover(j, "unresolved")
      BY <1>2, <2>1, <2>2 DEF Mover, Ended, Scripting
    <3> QED BY <2>2, <3>1, <1>a
  <2>3. CASE Goto(j, "open")
    BY ZenonT(30), <1>a, <1>d, <1>e, <2>1, <2>3 DEF Ended
  <2>4. CASE AfterScript(j)
    BY ZenonT(30), <1>c, <1>d, <2>1, <2>4 DEF Ended, Scripting
  <2> QED BY ZenonT(30), <2>1, <2>2, <2>3, <2>4
<1>3. ASSUME NEW j \in Jobs, OpenScript(j) \/ WriteScript(j) PROVE Moves(j)
  <2>1. /\ pc[j] \in {"open", "write"}
        /\ Goto(j, "write") \/ Goto(j, "exec") \/ Goto(j, "error")
    BY ZenonT(30), <1>3 DEF OpenScript, WriteScript
  <2> QED BY ZenonT(30), <1>3, <2>1, <1>a, <1>d DEF Ended
<1>4. ASSUME NEW j \in Jobs, ExecScript(j) PROVE Moves(j)
  <2>1. pc[j] = "exec" /\ (Goto(j, "removeOk") \/ Goto(j, "removeFailed"))
    BY <1>4 DEF ExecScript
  <2> QED BY ZenonT(30), <1>4, <2>1, <1>a, <1>d DEF Ended
<1>5. ASSUME NEW j \in Jobs, RemoveScript(j) PROVE Moves(j)
  <2>1. pc[j] \in {"removeOk", "removeFailed"} /\ (AfterScript(j) \/ Goto(j, "error"))
    BY <1>5 DEF RemoveScript
  <2>2. CASE Goto(j, "error")
    BY <2>1, <2>2, <1>a, <1>d DEF Ended, Scripting
  <2>3. CASE AfterScript(j)
    BY ZenonT(30), <2>1, <2>3, <1>c, <1>d DEF Ended, Scripting
  <2> QED BY <2>1, <2>2, <2>3
<1>6. ASSUME NEW j \in Jobs, RunMesos(j) PROVE Moves(j)
  <2>1. pc[j] = "deploy" /\ (Begin(j, "afterScheduler", 0) \/ Goto(j, "error"))
    BY <1>6 DEF RunMesos
  <2> QED BY <2>1, <1>a, <1>b, <1>d DEF Ended, Scripting
<1>7. ASSUME NEW j \in Jobs, CreateApplication(j) PROVE Moves(j)
  <2>1. pc[j] = "deploy" /\ (Goto(j, "await") \/ Goto(j, "error"))
    BY <1>7 DEF CreateApplication
  <2> QED BY ZenonT(30), <2>1, <1>a, <1>d, <1>e DEF Ended
<1>8. ASSUME NEW j \in Jobs, CheckRunningAndHealthy(j) PROVE Moves(j)
  <2>1. pc[j] = "await"
    BY SMTT(30), <1>8 DEF CheckRunningAndHealthy
  <2>2. CASE Begin(j, "afterScheduler", 0)
    BY ZenonT(30), <1>b, <1>d, <1>e, <2>1, <2>2 DEF Ended
  <2>3. CASE /\ pc' = [pc EXCEPT ![j] = IF tries[j] < MaxWait THEN @ ELSE "error"]
             /\ UNCHANGED <<section, task, call>>
    <3>1. PICK p \in {pc[j], "error"} : Move(j, p, section[j], task[j], call[j])
      BY ZenonT(30), <2>3 DEF Move, ControlInv
    <3>2. Mover(j, p)
      BY <1>d, <2>1, <3>1 DEF Ended, Scripting
    <3> QED BY ZenonT(30), <3>1, <3>2
  <2> QED BY <1>8, <2>2, <2>3 DEF CheckRunningAndHealthy
<1>9. ASSUME NEW j \in Jobs, FillContext(j) PROVE Moves(j)
  <2>1. pc[j] = "fill" /\ (BeginTask(j) \/ Goto(j, "error"))
    BY <1>9 DEF FillContext
  <2> QED BY ZenonT(30), <2>1, <1>a, <1>b, <1>d, <1>e DEF BeginTask, Ended
<1>10. ASSUME NEW j \in Jobs, RunTask(j) PROVE Moves(j)
  <2>1. /\ pc[j] = "call"
        /\ \/ Goto(j, "error") \/ Begin(j, "afterTask", task[j])
           \/ call' = [call EXCEPT ![j] = @ + 1] /\ UNCHANGED <<pc, section, task>>
    BY SMTT(30), <1>10 DEF RunTask
  <2>2. CASE call' = [call EXCEPT ![j] = @ + 1] /\ UNCHANGED <<pc, section, task>>
    <3>1. Move(j, pc[j], section[j], task[j], call[j] + 1) /\ Mover(j, pc[j])
      BY <2>1, <2>2, <1>d DEF Move, ControlInv, Ended, Scripting
    <3> QED BY <3>1
  <2> QED BY ZenonT(30), <2>1, <2>2, <1>a, <1>b, <1>d, <1>e DEF Ended
<1>11. ASSUME NEW a \in Apps, MarathonMoves(a) PROVE UNCHANGED <<pc, section, task, call>>
  BY <1>11 DEF MarathonMoves, control
<1>12. ASSUME NEW a \in Apps, NEW t, NodeServes(a, t) PROVE UNCHANGED <<pc, section, task, call>>
  BY <1>12 DEF NodeServes, control
<1>13. ASSUME UNCHANGED vars PROVE UNCHANGED <<pc, section, task, call>>
  BY <1>13 DEF vars
<1> HIDE DEF Moves
<1>14. UNCHANGED <<pc, section, task, call>> \/ \E j \in Jobs : Moves(j)
  BY <1>1, <1>2, <1>3, <1>4, <1>5, <1>6, <1>7, <1>8, <1>9, <1>10, <1>11, <1>12, <1>13
     DEF Next, Step
<1> QED BY <1>14 DEF Moves

(* A Run that has returned stays so; only Start begins one; one comes to a *)
(* script file by opening, writing or executing it; and a Run that stops   *)
(* for a variable has just found it unresolved.                            *)
LEMMA OwnMoves ==
  ASSUME ControlInv, [Next]_vars, NEW k \in Jobs
  PROVE  /\ pc[k] \in Ended => pc'[k] = pc[k]
         /\ pc[k] = "idle" /\ pc'[k] # "idle" => Start(k)
         /\ pc'[k] \in Scripting =>
              \/ pc'[k] = pc[k] /\ section'[k] = section[k]
              \/ OpenScript(k) \/ WriteScript(k) \/ ExecScript(k)
         /\ pc[k] # "unresolved" /\ pc'[k] = "unresolved" =>
              Resolve(k) /\ \E s \in Checked(section[k]) : ~Resolved(text'[k], s)
<1>1. CASE UNCHANGED <<pc, section, task, call>>
  BY <1>1
<1>2. ASSUME NEW j \in Jobs, NEW p, Mover(j, p), NEW s, NEW t, NEW c, Move(j, p, s, t, c)
      PROVE  /\ pc[k] \in Ended => pc'[k] = pc[k]
             /\ pc[k] = "idle" /\ pc'[k] # "idle" => Start(k)
             /\ pc'[k] \in Scripting =>
                  \/ pc'[k] = pc[k] /\ section'[k] = section[k]
                  \/ OpenScript(k) \/ WriteScript(k) \/ ExecScript(k)
             /\ pc[k] # "unresolved" /\ pc'[k] = "unresolved" =>
                  Resolve(k) /\ \E x \in Checked(section[k]) : ~Resolved(text'[k], x)
  <2>1. /\ pc'[k] = IF k = j THEN p ELSE pc[k]
        /\ k # j => section'[k] = section[k]
    BY <1>2 DEF Move, ControlInv
  <2> QED BY <1>2, <2>1 DEF Mover
<1> QED BY ZenonT(30), <1>1, <1>2, OneMoves

LEMMA TriesStep ==
  ASSUME ControlInv, TriesInv, [Next]_vars
  PROVE  TriesInv'
<1>0. MaxWait \in Nat /\ \A k \in Jobs : pc[k] = "error" => pc'[k] = "error"
  BY ModeAssumption, OwnMoves DEF Ended
<1>1. CASE tries' = tries
  BY <1>0, <1>1 DEF TriesInv
<1>2. ASSUME NEW j \in Jobs, CheckRunningAndHealthy(j), tries' # tries PROVE TriesInv'
  <2>1. /\ pc[j] = "await" /\ tries' = [tries EXCEPT ![j] = @ + 1]
        /\ pc' = [pc EXCEPT ![j] = IF tries[j] < MaxWait THEN @ ELSE "error"]
    BY <1>2 DEF CheckRunningAndHealthy, Begin
  <2>2. tries[j] \in Nat /\ tries[j] <= MaxWait
    BY <1>0, <2>1 DEF TriesInv
  <2>3. tries' \in [Jobs -> 0..MaxWait + 1]
    BY <1>0, <2>1, <2>2 DEF TriesInv
  <2>4. ASSUME NEW k \in Jobs, pc'[k] # "error" PROVE tries'[k] <= MaxWait
    <3>1. CASE k = j
      BY <1>0, <2>1, <2>2, <2>4, <3>1 DEF TriesInv, ControlInv
    <3>2. CASE k # j
      BY <1>0, <2>1, <2>4, <3>2 DEF TriesInv
    <3> QED BY <3>1, <3>2
  <2> QED BY <2>3, <2>4 DEF TriesInv
<1>3. tries' = tries \/ \E j \in Jobs : CheckRunningAndHealthy(j)
  <2>1. ASSUME NEW j \in Jobs, AfterScript(j) PROVE tries' = tries
    <3>1. section[j] \in Scripts
      BY DEF ControlInv
    <3> QED BY ZenonT(30), <2>1, <3>1 DEF AfterScript, Goto, Begin, BeginTask, Scripts
  <2>2. ASSUME NEW j \in Jobs, Resolve(j) PROVE tries' = tries
    BY <2>1, <2>2 DEF Resolve, Goto
  <2>3. ASSUME NEW j \in Jobs, RemoveScript(j) PROVE tries' = tries
    BY <2>1, <2>3 DEF RemoveScript, Goto
  <2>4. ASSUME NEW j \in Jobs, FillContext(j) PROVE tries' = tries
    BY ZenonT(30), <2>4 DEF FillContext, Goto, BeginTask, Begin
  <2>5. ASSUME NEW j \in Jobs, RunTask(j) PROVE tries' = tries
    BY ZenonT(30), <2>5 DEF RunTask, Goto, Begin
  <2> QED BY ZenonT(30), <2>2, <2>3, <2>4, <2>5
        DEF Next, Step, vars, control, Start, OpenScript, WriteScript, ExecScript, RunMesos, Goto, Begin,
            CreateApplication, MarathonMoves, NodeServes
<1> QED BY <1>1, <1>2, <1>3

(* What a job adds to its trace. *)
LEMMA TraceChanges ==
  ASSUME [Next]_vars
  PROVE  \/ trace' = trace
         \/ \E j \in Jobs : ExecScript(j) /\ Did(j, section[j])
         \/ \E j \in Jobs : (RunMesos(j) \/ CheckRunningAndHealthy(j)) /\ Did(j, "launch")
         \/ \E j \in Jobs : RunTask(j) /\ Did(j, "task")
<1>1. ASSUME NEW j \in Jobs, ExecScript(j) PROVE trace' = trace \/ Did(j, section[j])
  BY ZenonT(30), <1>1 DEF ExecScript
<1>2. ASSUME NEW j \in Jobs, RunMesos(j) \/ CheckRunningAndHealthy(j)
      PROVE  trace' = trace \/ Did(j, "launch")
  BY ZenonT(30), <1>2 DEF RunMesos, CheckRunningAndHealthy
<1>3. ASSUME NEW j \in Jobs, RunTask(j) PROVE trace' = trace \/ Did(j, "task")
  BY ZenonT(30), <1>3 DEF RunTask
<1>4. \/ trace' = trace
      \/ \E j \in Jobs : ExecScript(j) \/ RunMesos(j) \/ CheckRunningAndHealthy(j) \/ RunTask(j)
  BY ZenonT(30) DEF Next, Step, vars, Start, Resolve, OpenScript, WriteScript, RemoveScript,
         CreateApplication, FillContext, MarathonMoves, NodeServes
<1> QED BY ZenonT(30), <1>1, <1>2, <1>3, <1>4

LEMMA TraceTypes ==
  ASSUME ControlInv, TypeOK, [Next]_vars
  PROVE  trace' \in [Jobs -> Seq(Sections)]
<1>1. trace \in [Jobs -> Seq(Sections)]
  BY ZenonT(30) DEF TypeOK
<1>2. ASSUME NEW j \in Jobs, NEW s \in Sections, Did(j, s)
      PROVE  trace' \in [Jobs -> Seq(Sections)]
  BY <1>1, <1>2 DEF Did
<1>3. \A j \in Jobs : section[j] \in Sections /\ "launch" \in Sections /\ "task" \in Sections
  BY ZenonT(30) DEF TypeOK, Sections
<1> QED BY ZenonT(30), <1>1, <1>2, <1>3, TraceChanges

(* Every step keeps the types. *)
LEMMA TypeStep ==
  ControlInv /\ TaskInv /\ TypeOK /\ TriesInv /\ [Next]_vars => TypeOK' /\ TriesInv'
<1> SUFFICES ASSUME ControlInv, TaskInv, TypeOK, TriesInv, [Next]_vars
             PROVE  TypeOK' /\ TriesInv'
  OBVIOUS
<1>1. ControlInv' /\ TaskInv' /\ TriesInv'
  BY ZenonT(30), ControlStep, TaskStep, TriesStep
<1>2. storage' \in StackStorages /\ skipped' \in [Runs -> SUBSET Apps]
  BY TextChanges DEF TypeOK
<1>3. /\ pc' \in [Jobs -> Phases] /\ section' \in [Jobs -> Sections]
      /\ task' \in [Jobs -> Nat] /\ call' \in [Jobs -> Nat]
  BY <1>1 DEF ControlInv, Sections
<1>4. tries' \in [Jobs -> 0..MaxWait + 1]
  BY ZenonT(30), <1>1 DEF TriesInv
<1>5. \A a \in Apps : nodes'[a] \in [1..Application[a].tasks -> NodeStates]
  BY <1>1 DEF TaskInv
<1> QED BY ZenonT(30), <1>1, <1>2, <1>3, <1>4, <1>5, VariablesStep, TextTypes, FilesStep, SharedStep,
           MarathonStep, TraceTypes DEF TypeOK

-----------------------------------------------------------------------------
(* The control of Application.Run: a job is where its section, task and    *)
(* call say.                                                               *)
THEOREM ControlInvariance == Spec => []ControlInv
BY ControlInit, ControlStep, PTL DEF Spec

(* ensureVariablesResolved does its work: no script is run and no          *)
(* application launched with a variable that was not resolved, although in *)
(* developer mode other runs change the same texts in between.             *)
THEOREM ResolvedBeforeUse == Spec => []NothingUnresolvedRuns
<1>1. TextInv => NothingUnresolvedRuns
  BY DEF TextInv
<1> QED BY <1>1, TextInit, TextStep, ControlInvariance, PTL DEF Spec

(* When Run succeeds the schedulers have started all tasks: for every task *)
(* runner, whatever answers are lost, repeated or unreadable, and whatever *)
(* other runs ask of the same scheduler.                                   *)
THEOREM SuccessMeansStarted == Spec => []TasksStarted
<1>1. ControlInv /\ TaskInv => TasksStarted
  <2> SUFFICES ASSUME ControlInv, TaskInv, NEW j \in Jobs, pc[j] = "ok",
                      NEW t \in DOMAIN nodes[j[2]]
               PROVE  nodes[j[2]][t] \in {"started", "serving"}
    BY SMTT(30) DEF TasksStarted
  <2>1. /\ section[j] = "afterTasks" /\ task[j] = Application[j[2]].tasks
        /\ Application[j[2]].tasks \in Nat /\ j[2] \in Apps
    BY ZenonT(30), JobFacts DEF Fits
  <2>2. t \in 1..Application[j[2]].tasks
    BY SMTT(30), <2>1 DEF TaskInv
  <2>3. t \in Through(j[2], pc[j], section[j], task[j], call[j])
    BY <2>1, <2>2 DEF Through
  <2> QED BY ZenonT(30), <2>3 DEF TaskInv
<1> QED BY <1>1, TaskInit, TaskStep, ControlInvariance, PTL DEF Spec

(* Every variable of the model keeps its type; awaitRunningAndHealthy      *)
(* makes at most one check more than MaxWait.                              *)
THEOREM ApplicationTypes == Spec => []TypeOK
BY TypeInit, TypeStep, TaskInit, TaskStep, ControlInvariance, PTL DEF Spec
=============================================================================
