--------------------------- MODULE StackRunProofs ---------------------------
(***************************************************************************)
(* Proofs about StackRun, for any runs, applications, dependencies, skip   *)
(* flags and either storage.                                               *)
(***************************************************************************)
EXTENDS StackRun, FiniteSetTheorems, SequenceTheorems, TLAPS

-----------------------------------------------------------------------------
(* Type correctness.                                                       *)

LEMMA InitType == Init => TypeOK
<1> USE AppsAssumption, SkipAssumption DEF Init, TypeOK, Phases, GoroutineStates
<1> QED  OBVIOUS

LEMMA AppendStatus ==
  ASSUME NEW s \in Seq(Status), NEW a \in Apps, NEW outcome \in Outcomes
  PROVE  Append(s, [app |-> a, outcome |-> outcome]) \in Seq(Status)
<1>1. [app |-> a, outcome |-> outcome] \in Status
  BY SMTT(30) DEF Status
<1> QED  BY <1>1, AppendProperties

LEMMA RunStepType ==
  ASSUME TypeOK, NEW r \in Runs, AcceptRequest(r) \/ RejectRequest(r) \/ RunStep(r),
         UNCHANGED stateStorage
  PROVE  TypeOK'
<1> USE DEF TypeOK, Goto, Return, locals
<1>1. CASE AcceptRequest(r)
  BY <1>1 DEF AcceptRequest, Phases
<1>2. CASE RejectRequest(r)
  BY <1>2 DEF RejectRequest, Phases
<1>3. CASE SaveStaging(r)
  BY ZenonT(30), <1>3 DEF SaveStaging, SaveStackStatus, CassandraSaveStackStatus, InMemorySaveStackStatus, Phases
<1>4. CASE StartRun(r)
  BY ZenonT(30), <1>4 DEF StartRun, Phases
<1>5. ASSUME NEW a \in Apps, SkipApplication(r, a)  PROVE TypeOK'
  <2> USE <1>5 DEF SkipApplication
  <2>1. skips' \in [Runs -> Seq(Patterns)]
    <3>1. skips[r] \in Seq(Patterns) /\ 1 \in 1..Len(skips[r]) /\ skips[r][1] \ {a} \in Patterns
      BY DEF Patterns
    <3>2. [skips[r] EXCEPT ![1] = @ \ {a}] \in Seq(Patterns)
      BY <3>1, ExceptSeq
    <3> QED  BY <3>2
  <2>2. runningApps' \in [Runs -> [Apps -> {"absent", "Staging", "Running"}]]
    OBVIOUS
  <2>3. statuses' \in [Runs -> Seq(Status)]
    BY ZenonT(30), AppendStatus DEF Send, Outcomes
  <2> QED  BY <2>1, <2>2, <2>3
<1>6. CASE PatternDoesNotCompile(r)
  BY <1>6 DEF PatternDoesNotCompile, Phases
<1>7. CASE NextPattern(r)
  BY <1>7, HeadTailProperties DEF NextPattern
<1>8. CASE RunFirstApplications(r)
  BY <1>8 DEF RunFirstApplications, RunApplications, Phases, GoroutineStates, Unreported
<1>9. CASE ReceiveRunning(r)
  <2> USE <1>9 DEF ReceiveRunning, Receive
  <2>1. Head(statuses[r]) \in Status /\ Tail(statuses[r]) \in Seq(Status)
    BY HeadTailProperties
  <2>2. Head(statuses[r]).app \in Apps
    BY <2>1 DEF Status
  <2> QED  BY <2>1, <2>2 DEF Phases
<1>10. CASE ReceiveFailed(r)
  <2> USE <1>10 DEF ReceiveFailed, Receive
  <2>1. Head(statuses[r]) \in Status /\ Tail(statuses[r]) \in Seq(Status)
    BY HeadTailProperties
  <2>2. Head(statuses[r]).app \in Apps
    BY <2>1 DEF Status
  <2> QED  BY SMTT(30), <2>1, <2>2 DEF Phases
<1>11. CASE SaveApplicationFailed(r)
  BY ZenonT(30), <1>11 DEF SaveApplicationFailed, SaveApplicationStatus,
       CassandraSaveApplicationStatus, InMemorySaveApplicationStatus, Phases
<1>12. CASE SaveApplicationRunning(r)
  BY ZenonT(30), <1>12 DEF SaveApplicationRunning, SaveApplicationStatus,
       CassandraSaveApplicationStatus, InMemorySaveApplicationStatus, Phases
<1>13. CASE SaveVariablesFails(r)
  BY <1>13 DEF SaveVariablesFails, SaveStackVariables, Phases
<1>14. CASE CloseStatuses(r)
  BY <1>14 DEF CloseStatuses, SaveStackVariables, Phases
<1>15. CASE RunMoreApplications(r)
  BY <1>15 DEF RunMoreApplications, SaveStackVariables, RunApplications, Phases,
               GoroutineStates, Unreported
<1>16. CASE SaveFailed(r)
  BY <1>16 DEF SaveFailed, SaveStackStatus, CassandraSaveStackStatus, InMemorySaveStackStatus, Phases
<1>17. CASE SaveRunning(r)
  BY <1>17 DEF SaveRunning, SaveStackStatus, CassandraSaveStackStatus, InMemorySaveStackStatus, Phases
<1> QED
  BY ZenonT(30), <1>1, <1>2, <1>3, <1>4, <1>5, <1>6, <1>7, <1>8, <1>9, <1>10, <1>11, <1>12, <1>13,
     <1>14, <1>15, <1>16, <1>17
  DEF RunStep

LEMMA GoroutineStepType ==
  ASSUME TypeOK, NEW r \in Runs, NEW a \in Apps, GoroutineStep(r, a), UNCHANGED stateStorage
  PROVE  TypeOK'
<1>1. CASE ApplicationRunReturns(r, a)
  BY SMTT(30), <1>1 DEF TypeOK, ApplicationRunReturns, Outcomes, GoroutineStates, Unreported
<1>2. CASE SendStatus(r, a)
  <2> USE <1>2 DEF TypeOK, SendStatus, Outcomes
  <2>2. statuses' \in [Runs -> Seq(Status)]
    BY ZenonT(30), AppendStatus DEF Send
  <2>3. goroutine' \in [Runs -> [Apps -> GoroutineStates]]
    BY DEF GoroutineStates
  <2> QED  BY <2>2, <2>3
<1> QED  BY <1>1, <1>2 DEF GoroutineStep

LEMMA CrashType == TypeOK /\ Crash /\ UNCHANGED stateStorage => TypeOK'
  BY DEF TypeOK, Crash, Phases, Over, GoroutineStates

LEMMA NextType == TypeOK /\ [Next]_vars => TypeOK'
  BY ZenonT(30), RunStepType, GoroutineStepType, CrashType DEF Next, vars, TypeOK

(* Every variable of a run keeps its type. *)
THEOREM TypeCorrect == Spec => []TypeOK
  BY InitType, NextType, PTL DEF Spec
-----------------------------------------------------------------------------
(* What one step does to the entry of one application in runningApps and   *)
(* to its goroutine.                                                       *)

Launch(r, a) ==
  /\ a \in Ready(r) /\ pc'[r] = "await"
  /\ runningApps'[r][a] = "Staging" /\ goroutine'[r][a] = "running"

Skip(r, a) ==
  /\ pc[r] = "skip" /\ statuses'[r] = Append(statuses[r], [app |-> a, outcome |-> "ok"])
  /\ runningApps'[r][a] = "Running" /\ goroutine'[r][a] = goroutine[r][a]

Heard(r, a) ==
  /\ statuses[r] # <<>> /\ Head(statuses[r]).app = a /\ Head(statuses[r]).outcome = "ok"
  /\ statuses'[r] = Tail(statuses[r]) /\ pc'[r] = "saveApp" /\ current'[r] = a
  /\ runningApps'[r][a] = "Running" /\ goroutine'[r][a] = goroutine[r][a]

Progress(r, a) ==
  /\ runningApps'[r][a] = runningApps[r][a]
  /\ \/ goroutine[r][a] = "running" /\ goroutine'[r][a] \in Outcomes
     \/ goroutine[r][a] = "ok" /\ goroutine'[r][a] = "reportedOk"
     \/ goroutine[r][a] = "error" /\ goroutine'[r][a] = "reportedError"
     \/ goroutine[r][a] \in Unreported /\ goroutine'[r][a] = "lost"

Same(r, a) ==
  runningApps'[r][a] = runningApps[r][a] /\ goroutine'[r][a] = goroutine[r][a]

Effect(r, a) ==
  Same(r, a) \/ Launch(r, a) \/ Skip(r, a) \/ Heard(r, a) \/ Progress(r, a)

LEMMA RunApplicationsEffect ==
  ASSUME TypeOK, NEW q \in Runs, RunApplications(q), Goto(q, "await"),
         NEW r \in Runs, NEW a \in Apps
  PROVE  Same(r, a) \/ Launch(r, a)
  BY DEF TypeOK, RunApplications, Goto, Same, Launch

LEMMA NextEffect ==
  ASSUME TypeOK, [Next]_vars, NEW r \in Runs, NEW a \in Apps
  PROVE  Effect(r, a)
<1>1. CASE UNCHANGED vars
  BY <1>1 DEF vars, Effect, Same
<1>2. CASE Crash
  BY <1>2 DEF TypeOK, Crash, Effect, Same, Progress
<1>3. ASSUME NEW q \in Runs, NEW b \in Apps, ApplicationRunReturns(q, b)
      PROVE  Effect(r, a)
  BY <1>3 DEF TypeOK, ApplicationRunReturns, Effect, Same, Progress
<1>4. ASSUME NEW q \in Runs, NEW b \in Apps, SendStatus(q, b)
      PROVE  Effect(r, a)
  BY <1>4 DEF TypeOK, SendStatus, Outcomes, Effect, Same, Progress
<1>5. ASSUME NEW q \in Runs, NEW b \in Apps, SkipApplication(q, b)
      PROVE  Effect(r, a)
  BY SMTT(30), <1>5 DEF TypeOK, SkipApplication, Send, Effect, Same, Skip
<1>6. ASSUME NEW q \in Runs, ReceiveRunning(q)
      PROVE  Effect(r, a)
  BY SMTT(30), <1>6 DEF TypeOK, ReceiveRunning, Receive, Goto, Effect, Same, Heard
<1>7. ASSUME NEW q \in Runs, RunFirstApplications(q) \/ RunMoreApplications(q)
      PROVE  Effect(r, a)
  BY ZenonT(30), <1>7, RunApplicationsEffect DEF RunFirstApplications, RunMoreApplications, Effect
<1>8. ASSUME UNCHANGED <<runningApps, goroutine>>
      PROVE  Effect(r, a)
  BY <1>8 DEF Effect, Same
<1>9. ASSUME NEW q \in Runs,
             \/ AcceptRequest(q) \/ RejectRequest(q) \/ SaveStaging(q) \/ StartRun(q)
             \/ PatternDoesNotCompile(q) \/ NextPattern(q) \/ SaveApplicationRunning(q)
             \/ SaveVariablesFails(q) \/ CloseStatuses(q) \/ SaveRunning(q)
             \/ ReceiveFailed(q) \/ SaveApplicationFailed(q) \/ SaveFailed(q)
      PROVE  UNCHANGED <<runningApps, goroutine>>
  BY ZenonT(30), <1>9 DEF AcceptRequest, RejectRequest, SaveStaging, StartRun, PatternDoesNotCompile,
    NextPattern, SaveApplicationRunning, SaveVariablesFails, CloseStatuses, SaveRunning,
    ReceiveFailed, SaveApplicationFailed, SaveFailed, locals
<1> QED
  BY SMTT(30), <1>1, <1>2, <1>3, <1>4, <1>5, <1>6, <1>7, <1>8, <1>9
  DEF Next, RunStep, GoroutineStep

-----------------------------------------------------------------------------
(* An application in place stays in place, and a reported failure stays.   *)

LEMMA InPlaceStable ==
  ASSUME Inv, [Next]_vars, NEW r \in Runs, NEW a \in Apps, InPlace(r, a)
  PROVE  InPlace(r, a)'
<1>1. Effect(r, a)
  BY NextEffect DEF Inv
<1> QED
  BY <1>1 DEF Inv, Effect, Same, Launch, Skip, Heard, Progress, Ready, InPlace, Deployed,
    Skipped, Outcomes, Unreported, MapAgrees

LEMMA ErrorStable ==
  ASSUME Inv, [Next]_vars, NEW r \in Runs, NEW a \in Apps, goroutine[r][a] = "reportedError"
  PROVE  goroutine'[r][a] = "reportedError"
<1>1. Effect(r, a)
  BY NextEffect DEF Inv
<1> QED
  BY <1>1 DEF Inv, Effect, Same, Launch, Skip, Heard, Progress, Ready, Outcomes, Unreported,
    MapAgrees

LEMMA GenuineStable ==
  ASSUME Inv, [Next]_vars, NEW r \in Runs, NEW a \in Apps, NEW outcome \in Outcomes,
         Genuine(r, a, outcome)
  PROVE  Genuine(r, a, outcome)'
  BY InPlaceStable, ErrorStable DEF Genuine
-----------------------------------------------------------------------------
(* The conjuncts of the invariant are preserved, one lemma each.           *)

LEMMA FirstGenuine ==
  ASSUME Inv, NEW r \in Runs, statuses[r] # <<>>
  PROVE  /\ Head(statuses[r]) \in Status
         /\ Genuine(r, Head(statuses[r]).app, Head(statuses[r]).outcome)
<1>1. statuses[r] \in Seq(Status) /\ Head(statuses[r]) = statuses[r][1] /\ 1 \in 1..Len(statuses[r])
  BY SMTT(30) DEF Inv, TypeOK
<1> QED  BY <1>1 DEF Inv, ChannelGenuine

LEMMA MapAgreesNext == Inv /\ [Next]_vars => MapAgrees'
<1> SUFFICES ASSUME Inv, [Next]_vars, NEW r \in Runs, NEW a \in Apps
             PROVE  /\ runningApps'[r][a] = "absent" => goroutine'[r][a] = "none"
                    /\ runningApps'[r][a] = "Staging" => goroutine'[r][a] # "none"
                    /\ runningApps'[r][a] = "Running" =>
                         goroutine'[r][a] \in {"none", "reportedOk"}
  BY DEF MapAgrees
<1>1. Effect(r, a)
  BY SMTT(30), NextEffect DEF Inv
<1>2. CASE Same(r, a) \/ Launch(r, a) \/ Progress(r, a)
  BY SMTT(30), <1>2 DEF Inv, MapAgrees, Same, Launch, Progress, Outcomes, Unreported
<1>3. CASE Skip(r, a)
  BY SMTT(30), <1>3 DEF Inv, NothingLaunchedEarly, Skip
<1>4. CASE Heard(r, a)
  BY SMTT(30), <1>4, FirstGenuine DEF Heard, Genuine, InPlace, Deployed, Skipped
<1> QED  BY SMTT(30), <1>1, <1>2, <1>3, <1>4 DEF Effect

(* A run leaves the phases before the first launch by launching, failing   *)
(* or dying.                                                               *)
Early == {"idle", "stage", "start", "skip"}

LEMMA EarlyBefore ==
  ASSUME TypeOK, [Next]_vars, NEW r \in Runs, pc'[r] \in Early
  PROVE  pc[r] \in Early
<1> USE DEF TypeOK, Early, Goto, Return
<1>1. CASE UNCHANGED pc
  BY <1>1
<1>2. CASE Crash
  BY <1>2 DEF Crash, Over
<1>3. ASSUME NEW q \in Runs, \A t \in Runs : t # q => pc'[t] = pc[t],
             pc[q] \in Early \/ pc'[q] \notin Early
      PROVE  pc[r] \in Early
  BY SMTT(30), <1>3
<1>4. ASSUME NEW q \in Runs, NEW b \in Apps, GoroutineStep(q, b) \/ SkipApplication(q, b)
      PROVE  UNCHANGED pc
  BY SMTT(30), <1>4 DEF GoroutineStep, ApplicationRunReturns, SendStatus, SkipApplication
<1>5. ASSUME NEW q \in Runs,
             \/ AcceptRequest(q) \/ RejectRequest(q) \/ SaveStaging(q) \/ StartRun(q)
             \/ PatternDoesNotCompile(q) \/ NextPattern(q) \/ RunFirstApplications(q)
      PROVE  pc[q] \in Early /\ \A t \in Runs : t # q => pc'[t] = pc[t]
  BY ZenonT(30), <1>5 DEF AcceptRequest, RejectRequest, SaveStaging, StartRun, PatternDoesNotCompile,
    NextPattern, RunFirstApplications
<1>6. ASSUME NEW q \in Runs,
             \/ ReceiveRunning(q) \/ SaveVariablesFails(q) \/ CloseStatuses(q)
             \/ RunMoreApplications(q) \/ SaveRunning(q)
             \/ ReceiveFailed(q) \/ SaveApplicationFailed(q) \/ SaveFailed(q)
      PROVE  pc'[q] \notin Early /\ \A t \in Runs : t # q => pc'[t] = pc[t]
  BY ZenonT(30), <1>6 DEF ReceiveRunning, SaveVariablesFails, CloseStatuses, RunMoreApplications,
    SaveRunning, ReceiveFailed, SaveApplicationFailed, SaveFailed
<1>7. ASSUME NEW q \in Runs, SaveApplicationRunning(q)
      PROVE  pc'[q] \notin Early /\ \A t \in Runs : t # q => pc'[t] = pc[t]
  BY <1>7 DEF SaveApplicationRunning
<1> QED
  BY SMTT(30), <1>1, <1>2, <1>3, <1>4, <1>5, <1>6, <1>7 DEF Next, RunStep, vars

LEMMA NothingLaunchedEarlyNext == Inv /\ [Next]_vars => NothingLaunchedEarly'
<1> SUFFICES ASSUME Inv, [Next]_vars, NEW r \in Runs, NEW a \in Apps, pc'[r] \in Early
             PROVE  goroutine'[r][a] = "none"
  BY DEF NothingLaunchedEarly, Early
<1>1. goroutine[r][a] = "none"
  BY EarlyBefore DEF Inv, NothingLaunchedEarly, Early
<1>2. Effect(r, a)
  BY ZenonT(30), NextEffect DEF Inv
<1> QED
  BY <1>1, <1>2 DEF Effect, Same, Launch, Skip, Heard, Progress, Unreported, Early

(* What one step does to a channel. *)
Took(r) == statuses[r] # <<>> /\ statuses'[r] = Tail(statuses[r])
Put(r, a, outcome) ==
  /\ CanSend(r) /\ Genuine(r, a, outcome)'
  /\ \/ goroutine[r][a] \in Outcomes
     \/ pc[r] = "skip" /\ skips[r] # <<>> /\ a \in Head(skips[r])
  /\ statuses'[r] = Append(statuses[r], [app |-> a, outcome |-> outcome])

ChannelEffect(r) ==
  \/ statuses'[r] \in {statuses[r], <<>>}
  \/ Took(r)
  \/ \E a \in Apps, outcome \in Outcomes : Put(r, a, outcome)

LEMMA NextChannelEffect ==
  ASSUME Inv, [Next]_vars, NEW r \in Runs
  PROVE  ChannelEffect(r)
<1> USE DEF ChannelEffect
<1>1. CASE UNCHANGED vars
  BY ZenonT(30), <1>1 DEF vars
<1>2. CASE Crash
  BY <1>2 DEF Crash
<1>3. ASSUME NEW q \in Runs, NEW b \in Apps, ApplicationRunReturns(q, b)
      PROVE  ChannelEffect(r)
  BY <1>3 DEF ApplicationRunReturns
<1>4. ASSUME NEW q \in Runs, NEW b \in Apps, SendStatus(q, b)
      PROVE  ChannelEffect(r)
  <2>1. CASE q = r
    <3>1. CanSend(r) /\ goroutine[r][b] \in Outcomes
          /\ statuses'[r] = Append(statuses[r], [app |-> b, outcome |-> goroutine[r][b]])
      BY SMTT(30), <1>4, <2>1 DEF Inv, TypeOK, SendStatus, Send
    <3>2. goroutine'[r][b] = IF goroutine[r][b] = "ok" THEN "reportedOk" ELSE "reportedError"
      BY SMTT(30), <1>4, <2>1 DEF Inv, TypeOK, SendStatus
    <3>3. PICK outcome \in Outcomes : outcome = goroutine[r][b]
      BY SMTT(30), <3>1
    <3>4. Genuine(r, b, outcome)'
      BY SMTT(30), <3>2, <3>3 DEF Genuine, InPlace, Deployed, Outcomes
    <3>5. Put(r, b, outcome)
      BY SMTT(30), <3>1, <3>3, <3>4 DEF Put
    <3> QED  BY SMTT(30), <3>5
  <2>2. CASE q # r
    BY SMTT(30), <1>4, <2>2 DEF Inv, TypeOK, SendStatus, Send
  <2> QED  BY SMTT(30), <2>1, <2>2
<1>5. ASSUME NEW q \in Runs, NEW b \in Apps, SkipApplication(q, b)
      PROVE  ChannelEffect(r)
  <2>1. CASE q = r
    <3>1. Skipped(r, b)'
      BY SMTT(30), <1>5, <2>1 DEF Inv, TypeOK, NothingLaunchedEarly, SkipApplication, Skipped
    <3>2. Put(r, b, "ok")
      BY SMTT(30), <1>5, <2>1, <3>1 DEF Inv, TypeOK, SkipApplication, Send, Put, Genuine, InPlace
    <3> QED  BY SMTT(30), <3>2 DEF Outcomes
  <2>2. CASE q # r
    BY SMTT(30), <1>5, <2>2 DEF Inv, TypeOK, SkipApplication, Send
  <2> QED  BY SMTT(30), <2>1, <2>2
<1>6. ASSUME NEW q \in Runs, ReceiveRunning(q) \/ ReceiveFailed(q)
      PROVE  ChannelEffect(r)
  BY SMTT(30), <1>6 DEF Inv, TypeOK, ReceiveRunning, ReceiveFailed, Receive, Took
<1>7. ASSUME NEW q \in Runs,
             \/ AcceptRequest(q) \/ RejectRequest(q) \/ SaveStaging(q) \/ StartRun(q)
             \/ PatternDoesNotCompile(q) \/ NextPattern(q) \/ RunFirstApplications(q)
             \/ SaveApplicationRunning(q) \/ SaveVariablesFails(q) \/ CloseStatuses(q)
             \/ RunMoreApplications(q) \/ SaveRunning(q)
             \/ SaveApplicationFailed(q) \/ SaveFailed(q)
      PROVE  ChannelEffect(r)
  BY ZenonT(30), <1>7 DEF AcceptRequest, RejectRequest, SaveStaging, StartRun, PatternDoesNotCompile,
    NextPattern, RunFirstApplications, SaveApplicationRunning, SaveVariablesFails,
    CloseStatuses, RunMoreApplications, SaveRunning, SaveApplicationFailed, SaveFailed, locals
<1> QED
  BY SMTT(30), <1>1, <1>2, <1>3, <1>4, <1>5, <1>6, <1>7 DEF Next, RunStep, GoroutineStep

LEMMA ChannelGenuineNext == Inv /\ [Next]_vars => ChannelGenuine'
<1> SUFFICES ASSUME Inv, [Next]_vars, NEW r \in Runs, NEW i \in 1..Len(statuses'[r])
             PROVE  Genuine(r, statuses[r][i].app, statuses[r][i].outcome)'
  BY DEF ChannelGenuine
<1>1. statuses[r] \in Seq(Status)
  BY DEF Inv, TypeOK
<1>2. ASSUME NEW j \in 1..Len(statuses[r]), statuses'[r][i] = statuses[r][j]
      PROVE  Genuine(r, statuses[r][i].app, statuses[r][i].outcome)'
  <2>0. statuses[r][j] \in Status
    BY <1>1, ElementOfSeq
  <2>1. PICK a \in Apps, outcome \in Outcomes :
          statuses[r][j].app = a /\ statuses[r][j].outcome = outcome
    BY SMTT(30), <2>0 DEF Status
  <2>2. Genuine(r, a, outcome)'
    BY SMTT(30), <2>1, GenuineStable DEF Inv, ChannelGenuine
  <2> QED  BY SMTT(30), <1>2, <2>1, <2>2 DEF Genuine, InPlace, Deployed, Skipped
<1>3. CASE statuses'[r] \in {statuses[r], <<>>}
  BY SMTT(30), <1>2, <1>3
<1>4. CASE Took(r)
  <2>1. i + 1 \in 1..Len(statuses[r]) /\ statuses'[r][i] = statuses[r][i + 1]
    BY SMTT(30), <1>1, <1>4, HeadTailProperties DEF Took
  <2> QED  BY <1>2, <2>1
<1>5. ASSUME NEW a \in Apps, NEW outcome \in Outcomes, Put(r, a, outcome)
      PROVE  Genuine(r, statuses[r][i].app, statuses[r][i].outcome)'
  <2> DEFINE new == [app |-> a, outcome |-> outcome]
  <2>1. new \in Status /\ statuses'[r] = Append(statuses[r], new)
    BY SMTT(30), <1>5 DEF Put, Status
  <2>2. \/ i \in 1..Len(statuses[r]) /\ statuses'[r][i] = statuses[r][i]
        \/ statuses'[r][i] = new
    <3> HIDE DEF new
    <3> QED  BY SMTT(30), <1>1, <2>1, AppendProperties
  <2>3. CASE statuses'[r][i] = new
    BY SMTT(30), <1>5, <2>3 DEF Put, Genuine, InPlace, Deployed, Skipped
  <2> QED  BY SMTT(30), <1>2, <2>2, <2>3
<1> QED  BY SMTT(30), NextChannelEffect, <1>3, <1>4, <1>5 DEF ChannelEffect

LEMMA CurrentGenuineNext == Inv /\ [Next]_vars => CurrentGenuine'
<1> SUFFICES ASSUME Inv, [Next]_vars, NEW r \in Runs
             PROVE  CurrentOk(r)'
  BY SMTT(30) DEF CurrentGenuine, CurrentOk
<1> USE DEF CurrentOk
<1>1. ASSUME pc'[r] = pc[r] \/ pc'[r] \notin {"saveApp", "saveFailedApp"}, current'[r] = current[r]
      PROVE  CurrentOk(r)'
  <2>1. CASE pc'[r] = pc[r] /\ pc[r] = "saveApp"
    <3>1. PICK a \in Apps : a = current[r]
      BY SMTT(30), <2>1 DEF Inv, CurrentGenuine, CurrentOk
    <3>2. Genuine(r, a, "ok")'
      BY SMTT(30), <2>1, <3>1, GenuineStable DEF Inv, CurrentGenuine, CurrentOk, Outcomes
    <3> QED  BY SMTT(30), <1>1, <2>1, <3>1, <3>2 DEF Genuine, InPlace, Deployed, Skipped
  <2>2. CASE pc'[r] = pc[r] /\ pc[r] = "saveFailedApp"
    <3>1. PICK a \in Apps : a = current[r]
      BY SMTT(30), <2>2 DEF Inv, CurrentGenuine, CurrentOk
    <3>2. Genuine(r, a, "error")'
      BY SMTT(30), <2>2, <3>1, GenuineStable DEF Inv, CurrentGenuine, CurrentOk, Outcomes
    <3> QED  BY SMTT(30), <1>1, <2>2, <3>1, <3>2 DEF Genuine
  <2> QED  BY SMTT(30), <1>1, <2>1, <2>2
<1>2. CASE ReceiveRunning(r)
  <2>1. PICK a \in Apps : a = Head(statuses[r]).app
    BY SMTT(30), <1>2, FirstGenuine DEF ReceiveRunning, Receive, Status
  <2>2. Genuine(r, a, "ok")'
    BY SMTT(30), <1>2, <2>1, FirstGenuine, GenuineStable DEF ReceiveRunning, Receive, Outcomes
  <2>3. pc'[r] = "saveApp" /\ current'[r] = a
    BY SMTT(30), <1>2, <2>1 DEF Inv, TypeOK, ReceiveRunning, Receive, Goto
  <2> QED  BY SMTT(30), <2>2, <2>3 DEF Genuine, InPlace, Deployed, Skipped
<1>3. CASE ReceiveFailed(r)
  <2>1. PICK a \in Apps : a = Head(statuses[r]).app
    BY SMTT(30), <1>3, FirstGenuine DEF ReceiveFailed, Receive, Status
  <2>2. Genuine(r, a, "error")'
    BY ZenonT(30), <1>3, <2>1, FirstGenuine, GenuineStable DEF ReceiveFailed, Receive, Outcomes
  <2>3. pc'[r] = "saveFailedApp" /\ current'[r] = a
    BY ZenonT(30), <1>3, <2>1 DEF Inv, TypeOK, ReceiveFailed, Receive, Goto
  <2> QED  BY SMTT(30), <2>2, <2>3 DEF Genuine
<1>4. ASSUME NEW q \in Runs, q # r, ReceiveRunning(q) \/ ReceiveFailed(q)
      PROVE  pc'[r] = pc[r] /\ current'[r] = current[r]
  BY SMTT(30), <1>4 DEF Inv, TypeOK, ReceiveRunning, ReceiveFailed, Receive, Goto
<1>5. ASSUME NEW q \in Runs,
             \/ AcceptRequest(q) \/ RejectRequest(q) \/ SaveStaging(q) \/ StartRun(q)
             \/ PatternDoesNotCompile(q) \/ NextPattern(q) \/ RunFirstApplications(q)
             \/ \E b \in Apps : SkipApplication(q, b)
      PROVE  (pc'[r] = pc[r] \/ pc'[r] \notin {"saveApp", "saveFailedApp"})
             /\ current'[r] = current[r]
  BY ZenonT(30), <1>5 DEF Inv, TypeOK, Goto, Return, locals, AcceptRequest, RejectRequest, SaveStaging,
    StartRun, PatternDoesNotCompile, NextPattern, RunFirstApplications, SkipApplication
<1>6. ASSUME NEW q \in Runs,
             \/ SaveVariablesFails(q) \/ CloseStatuses(q) \/ RunMoreApplications(q)
             \/ SaveRunning(q) \/ SaveApplicationFailed(q) \/ SaveFailed(q)
      PROVE  (pc'[r] = pc[r] \/ pc'[r] \notin {"saveApp", "saveFailedApp"})
             /\ current'[r] = current[r]
  BY ZenonT(30), <1>6 DEF Inv, TypeOK, Goto, Return, locals, SaveVariablesFails, CloseStatuses,
    RunMoreApplications, SaveRunning, SaveApplicationFailed, SaveFailed
<1>7. ASSUME NEW q \in Runs, SaveApplicationRunning(q)
      PROVE  (pc'[r] = pc[r] \/ pc'[r] \notin {"saveApp", "saveFailedApp"})
             /\ current'[r] = current[r]
  BY SMTT(30), <1>7 DEF Inv, TypeOK, Goto, locals, SaveApplicationRunning
<1>8. CASE Crash \/ UNCHANGED vars \/ \E q \in Runs, b \in Apps : GoroutineStep(q, b)
  <2>1. (pc'[r] = pc[r] \/ pc'[r] \notin {"saveApp", "saveFailedApp"})
        /\ current'[r] = current[r]
    BY SMTT(30), <1>8 DEF Inv, TypeOK, Crash, vars, GoroutineStep, ApplicationRunReturns, SendStatus
  <2> QED  BY ZenonT(30), <2>1, <1>1
<1> QED
  BY ZenonT(30), <1>1, <1>2, <1>3, <1>4, <1>5, <1>6, <1>7, <1>8 DEF Next, RunStep

(* What leads to a verdict of success: the test before close(statuses).    *)
Succeeded(r) == pc[r] = "succeeded" \/ closed[r] \/ result[r] = "ok"

LEMMA SuccessBefore ==
  ASSUME TypeOK, [Next]_vars, NEW r \in Runs, Succeeded(r)'
  PROVE  Succeeded(r) \/ CloseStatuses(r)
<1> USE DEF TypeOK, Succeeded, Goto, Return
<1>1. CASE Crash \/ UNCHANGED vars \/ \E q \in Runs, b \in Apps : GoroutineStep(q, b)
  BY SMTT(30), <1>1 DEF Crash, Over, vars, GoroutineStep, ApplicationRunReturns, SendStatus
<1>2. ASSUME NEW q \in Runs,
             \/ AcceptRequest(q) \/ RejectRequest(q) \/ SaveStaging(q) \/ StartRun(q)
             \/ PatternDoesNotCompile(q) \/ NextPattern(q) \/ RunFirstApplications(q)
             \/ \E b \in Apps : SkipApplication(q, b)
      PROVE  Succeeded(r)
  BY ZenonT(30), <1>2 DEF locals, AcceptRequest, RejectRequest, SaveStaging,
    StartRun, PatternDoesNotCompile, NextPattern, RunFirstApplications, SkipApplication
<1>3. ASSUME NEW q \in Runs,
             \/ ReceiveRunning(q) \/ ReceiveFailed(q) \/ SaveVariablesFails(q)
             \/ RunMoreApplications(q) \/ SaveApplicationFailed(q) \/ SaveFailed(q)
      PROVE  Succeeded(r)
  BY ZenonT(30), <1>3 DEF locals, ReceiveRunning, ReceiveFailed, Receive, SaveVariablesFails,
    RunMoreApplications, SaveApplicationFailed, SaveFailed
<1>4. ASSUME NEW q \in Runs, SaveApplicationRunning(q)
      PROVE  Succeeded(r)
  BY SMTT(30), <1>4 DEF locals, SaveApplicationRunning
<1>5. ASSUME NEW q \in Runs, SaveRunning(q)
      PROVE  Succeeded(r)
  BY ZenonT(30), <1>5 DEF locals, SaveRunning
<1>6. ASSUME NEW q \in Runs, CloseStatuses(q)
      PROVE  Succeeded(r) \/ CloseStatuses(r)
  <2>1. CASE q = r
    BY SMTT(30), <1>6, <2>1
  <2>2. CASE q # r
    BY ZenonT(30), <1>6, <2>2 DEF CloseStatuses
  <2> QED  BY SMTT(30), <2>1, <2>2
<1> QED
  BY ZenonT(30), <1>1, <1>2, <1>3, <1>4, <1>5, <1>6 DEF Next, RunStep

LEMMA VerdictGenuineNext == Inv /\ [Next]_vars => VerdictGenuine'
<1> SUFFICES ASSUME Inv, [Next]_vars, NEW r \in Runs, NEW a \in Apps, Succeeded(r)'
             PROVE  InPlace(r, a)'
  BY DEF VerdictGenuine, Succeeded
<1>1. CASE Succeeded(r)
  BY <1>1, InPlaceStable DEF Inv, VerdictGenuine, Succeeded
<1>2. CASE CloseStatuses(r)
  <2>1. InPlace(r, a)
    BY SMTT(30), <1>2 DEF Inv, MapAgrees, CloseStatuses, AllApplicationsRunning, InPlace, Deployed, Skipped
  <2> QED  BY SMTT(30), <2>1, InPlaceStable
<1> QED  BY <1>1, <1>2, SuccessBefore DEF Inv

LEMMA DepsConstant == [Next]_vars => deps' = deps
  BY ZenonT(30) DEF Next, RunStep, GoroutineStep, vars, locals, AcceptRequest, RejectRequest, SaveStaging,
    StartRun, PatternDoesNotCompile, NextPattern, RunFirstApplications, SkipApplication,
    ReceiveRunning, ReceiveFailed, SaveVariablesFails, RunMoreApplications, CloseStatuses,
    SaveApplicationFailed, SaveFailed, SaveApplicationRunning, SaveRunning,
    ApplicationRunReturns, SendStatus, Crash

LEMMA DependenciesFirstNext == Inv /\ [Next]_vars => DependenciesFirst'
<1> SUFFICES ASSUME Inv, [Next]_vars, NEW r \in Runs, NEW a \in Apps,
                    goroutine'[r][a] # "none", NEW d \in deps[r][a]
             PROVE  d \in Apps /\ InPlace(r, d)'
  BY SMTT(30), DepsConstant DEF DependenciesFirst
<1>1. CASE goroutine[r][a] # "none"
  BY SMTT(30), <1>1, InPlaceStable DEF Inv, DependenciesFirst
<1>2. CASE goroutine[r][a] = "none"
  <2>1. Launch(r, a)
    BY ZenonT(30), <1>2, NextEffect DEF Inv, Effect, Same, Skip, Heard, Progress, Unreported
  <2>2. d \in Apps /\ InPlace(r, d)
    BY ZenonT(30), <2>1 DEF Launch, Ready, IsDependencySatisfied, Inv, MapAgrees, InPlace, Deployed, Skipped
  <2> QED  BY SMTT(30), <2>2, InPlaceStable
<1> QED  BY SMTT(30), <1>1, <1>2

(* A stored status of an application changes to the outcome a run is       *)
(* processing, or goes away with the storage.                              *)
LEMMA AppStateBefore ==
  ASSUME TypeOK, [Next]_vars, NEW a \in Apps
  PROVE  \/ appState'[a] \in {appState[a], "absent"}
         \/ /\ appState'[a] = "Running"
            /\ \E r \in Runs : pc[r] = "saveApp" /\ current[r] = a
         \/ /\ appState'[a] = "Failed"
            /\ \E r \in Runs : pc[r] = "saveFailedApp" /\ current[r] = a
<1> DEFINE Goal == \/ appState'[a] \in {appState[a], "absent"}
                   \/ /\ appState'[a] = "Running"
                      /\ \E r \in Runs : pc[r] = "saveApp" /\ current[r] = a
                   \/ /\ appState'[a] = "Failed"
                      /\ \E r \in Runs : pc[r] = "saveFailedApp" /\ current[r] = a
<1>1. CASE Crash
  BY SMTT(30), <1>1 DEF Crash
<1>2. ASSUME NEW q \in Runs, SaveApplicationRunning(q)
      PROVE  Goal
  BY SMTT(30), <1>2 DEF TypeOK, SaveApplicationRunning, SaveApplicationStatus,
       CassandraSaveApplicationStatus, InMemorySaveApplicationStatus
<1>3. ASSUME NEW q \in Runs, SaveApplicationFailed(q)
      PROVE  Goal
  BY SMTT(30), <1>3 DEF TypeOK, SaveApplicationFailed, SaveApplicationStatus,
       CassandraSaveApplicationStatus, InMemorySaveApplicationStatus
<1>4. ASSUME NEW q \in Runs,
             \/ AcceptRequest(q) \/ RejectRequest(q) \/ SaveStaging(q) \/ StartRun(q)
             \/ PatternDoesNotCompile(q) \/ NextPattern(q) \/ RunFirstApplications(q)
             \/ ReceiveRunning(q) \/ ReceiveFailed(q) \/ SaveVariablesFails(q)
             \/ RunMoreApplications(q) \/ CloseStatuses(q) \/ SaveFailed(q) \/ SaveRunning(q)
             \/ \E b \in Apps : SkipApplication(q, b) \/ GoroutineStep(q, b)
      PROVE  appState' = appState
  BY ZenonT(30), <1>4 DEF AcceptRequest, RejectRequest, SaveStaging, StartRun, PatternDoesNotCompile,
    NextPattern, RunFirstApplications, SkipApplication, ReceiveRunning, ReceiveFailed,
    SaveVariablesFails, RunMoreApplications, CloseStatuses, SaveFailed, SaveRunning,
    SaveStackStatus, SaveStackVariables, GoroutineStep, ApplicationRunReturns, SendStatus
<1> QED
  BY ZenonT(30), <1>1, <1>2, <1>3, <1>4 DEF Next, RunStep, vars

LEMMA StoredAppsTruthfulNext == Inv /\ [Next]_vars => StoredAppsTruthful'
<1> SUFFICES ASSUME Inv, [Next]_vars, NEW a \in Apps
             PROVE  /\ appState'[a] = "Running" => \E r \in Runs : InPlace(r, a)'
                    /\ appState'[a] = "Failed" =>
                         \E r \in Runs : goroutine'[r][a] = "reportedError"
  BY DEF StoredAppsTruthful
<1>1. ASSUME appState'[a] = "Running"
      PROVE  \E r \in Runs : InPlace(r, a)'
  <2>1. PICK r \in Runs : InPlace(r, a)
    BY SMTT(30), <1>1, AppStateBefore DEF Inv, StoredAppsTruthful, CurrentGenuine, CurrentOk, Genuine
  <2> QED  BY ZenonT(30), <2>1, InPlaceStable
<1>2. ASSUME appState'[a] = "Failed"
      PROVE  \E r \in Runs : goroutine'[r][a] = "reportedError"
  <2>1. PICK r \in Runs : goroutine[r][a] = "reportedError"
    BY SMTT(30), <1>2, AppStateBefore DEF Inv, StoredAppsTruthful, CurrentGenuine, CurrentOk, Genuine
  <2> QED  BY SMTT(30), <2>1, ErrorStable
<1> QED  BY SMTT(30), <1>1, <1>2
-----------------------------------------------------------------------------
(* The invariant, and what follows from it.                                *)

LEMMA InitInv == Init => Inv
<1> SUFFICES ASSUME Init  PROVE Inv
  OBVIOUS
<1>1. TypeOK
  BY SMTT(30), InitType
<1>2. MapAgrees /\ NothingLaunchedEarly /\ DependenciesFirst /\ VerdictGenuine
  BY SMTT(30) DEF Init, MapAgrees, NothingLaunchedEarly, DependenciesFirst, VerdictGenuine
<1>3. ChannelGenuine /\ CurrentGenuine /\ StoredAppsTruthful
  BY DEF Init, ChannelGenuine, CurrentGenuine, CurrentOk, StoredAppsTruthful
<1> QED  BY SMTT(30), <1>1, <1>2, <1>3 DEF Inv

LEMMA NextInv == Inv /\ [Next]_vars => Inv'
  BY ZenonT(30), NextType, MapAgreesNext, NothingLaunchedEarlyNext, ChannelGenuineNext, CurrentGenuineNext,
     VerdictGenuineNext, DependenciesFirstNext, StoredAppsTruthfulNext
  DEF Inv

(* The inductive invariant of a run holds in every reachable state. *)
THEOREM Invariance == Spec => []Inv
  BY InitInv, NextInv, PTL DEF Spec

(* However runs, goroutines, storage errors and crashes interleave,        *)
(* Stack.Run launches an application only after its dependencies.          *)
THEOREM DependenciesAlwaysFirst == Spec => []DependenciesFirst
<1>1. Inv => DependenciesFirst
  BY SMTT(30) DEF Inv
<1> QED  BY <1>1, Invariance, PTL

(* RunHandler answers 200 only for a run with every application in place.  *)
THEOREM SuccessIsGenuine == Spec => []SuccessMeansDeployed
<1>1. Inv => SuccessMeansDeployed
  BY ZenonT(30) DEF Inv, VerdictGenuine, SuccessMeansDeployed
<1> QED  BY <1>1, Invariance, PTL

(* No stored application status is invented: SaveApplicationStatus only    *)
(* ever stores the outcome of an application in some run.                  *)
THEOREM StoredStatusesGenuine == Spec => []StoredAppsTruthful
<1>1. Inv => StoredAppsTruthful
  BY SMTT(30) DEF Inv
<1> QED  BY <1>1, Invariance, PTL
-----------------------------------------------------------------------------
(* The channel has room for every goroutine: the applications of the       *)
(* statuses in it are distinct, and that of a goroutine that has yet to    *)
(* send is not among them.                                                 *)

LEMMA NotYetSent ==
  ASSUME Inv, NEW r \in Runs, NEW a \in Apps, goroutine[r][a] \in Unreported,
         NEW i \in 1..Len(statuses[r])
  PROVE  statuses[r][i].app # a
  BY SMTT(30) DEF Inv, ChannelGenuine, Genuine, InPlace, Deployed, Skipped, Unreported

LEMMA PutFresh ==
  ASSUME Inv, ChannelDistinct, NEW r \in Runs, NEW a \in Apps, NEW outcome \in Outcomes,
         Put(r, a, outcome), NEW i \in 1..Len(statuses[r])
  PROVE  statuses[r][i].app # a
<1>1. CASE goroutine[r][a] \in Outcomes
  BY ZenonT(30), <1>1, NotYetSent DEF Outcomes, Unreported
<1>2. CASE pc[r] = "skip" /\ skips[r] # <<>> /\ a \in Head(skips[r])
  <2>1. Head(skips[r]) = skips[r][1] /\ 1 \in DOMAIN skips[r]
    BY SMTT(30), <1>2 DEF Inv, TypeOK
  <2> QED  BY SMTT(30), <1>2, <2>1 DEF ChannelDistinct
<1> QED  BY SMTT(30), <1>1, <1>2 DEF Put

LEMMA DistinctNext ==
  ASSUME Inv, ChannelDistinct, [Next]_vars, NEW r \in Runs,
         NEW i \in 1..Len(statuses'[r]), NEW j \in 1..Len(statuses'[r]),
         statuses'[r][i].app = statuses'[r][j].app
  PROVE  i = j
<1>1. statuses[r] \in Seq(Status)
  BY ZenonT(30) DEF Inv, TypeOK
<1>2. CASE statuses'[r] \in {statuses[r], <<>>}
  BY SMTT(30), <1>2 DEF ChannelDistinct
<1>3. CASE Took(r)
  <2>1. /\ i + 1 \in 1..Len(statuses[r]) /\ statuses'[r][i] = statuses[r][i + 1]
        /\ j + 1 \in 1..Len(statuses[r]) /\ statuses'[r][j] = statuses[r][j + 1]
    BY SMTT(30), <1>1, <1>3, HeadTailProperties DEF Took
  <2>2. i + 1 = j + 1
    BY SMTT(30), <2>1 DEF ChannelDistinct
  <2> QED  BY SMTT(30), <2>2
<1>4. ASSUME NEW a \in Apps, NEW outcome \in Outcomes, Put(r, a, outcome)
      PROVE  i = j
  <2> DEFINE new == [app |-> a, outcome |-> outcome]
  <2>1. new \in Status /\ new.app = a /\ statuses'[r] = Append(statuses[r], new)
    BY SMTT(30), <1>4 DEF Put, Status
  <2>2. \A k \in 1..Len(statuses'[r]) :
          \/ k \in 1..Len(statuses[r]) /\ statuses'[r][k] = statuses[r][k]
          \/ k = Len(statuses[r]) + 1 /\ statuses'[r][k] = new
    <3> HIDE DEF new
    <3> QED  BY SMTT(30), <1>1, <2>1, AppendProperties
  <2>3. \A k \in 1..Len(statuses[r]) : statuses[r][k].app # a
    BY SMTT(30), <1>4, PutFresh
  <2> HIDE DEF new
  <2> QED  BY SMTT(30), <2>1, <2>2, <2>3 DEF ChannelDistinct
<1> QED  BY ZenonT(30), <1>2, <1>3, <1>4, NextChannelEffect DEF ChannelEffect

(* Until the first launch only markSkippedApps touches flags and channel.  *)
LEMMA EarlyEffect ==
  ASSUME Inv, [Next]_vars, NEW r \in Runs, pc'[r] \in Early
  PROVE  \/ skips'[r] = skips[r] /\ statuses'[r] \in {statuses[r], <<>>}
         \/ \E a \in Apps : SkipApplication(r, a)
         \/ NextPattern(r)
<1> DEFINE Quiet == skips'[r] = skips[r] /\ statuses'[r] \in {statuses[r], <<>>}
<1>1. pc[r] \in Early
  BY ZenonT(30), EarlyBefore DEF Inv
<1>2. CASE UNCHANGED vars \/ Crash
  BY SMTT(30), <1>2 DEF vars, Crash
<1>3. ASSUME NEW q \in Runs, NEW b \in Apps, GoroutineStep(q, b)
      PROVE  Quiet
  <2>1. CASE q = r
    BY ZenonT(30), <1>1, <1>3, <2>1 DEF Inv, NothingLaunchedEarly, Early, GoroutineStep,
      ApplicationRunReturns, SendStatus, Outcomes
  <2>2. CASE q # r
    BY ZenonT(30), <1>3, <2>2 DEF Inv, TypeOK, GoroutineStep, ApplicationRunReturns, SendStatus, Send
  <2> QED  BY SMTT(30), <2>1, <2>2
<1>4. ASSUME NEW q \in Runs, q # r,
             NextPattern(q) \/ \E b \in Apps : SkipApplication(q, b)
      PROVE  Quiet
  BY ZenonT(30), <1>4 DEF Inv, TypeOK, NextPattern, SkipApplication, Send
<1>5. ASSUME NEW q \in Runs, ReceiveRunning(q) \/ ReceiveFailed(q)
      PROVE  Quiet
  <2>1. q # r
    BY SMTT(30), <1>1, <1>5 DEF ReceiveRunning, ReceiveFailed, Receive, Early
  <2> QED  BY ZenonT(30), <1>5, <2>1 DEF Inv, TypeOK, ReceiveRunning, ReceiveFailed, Receive
<1>6. ASSUME NEW q \in Runs,
             \/ AcceptRequest(q) \/ RejectRequest(q) \/ SaveStaging(q) \/ StartRun(q)
             \/ PatternDoesNotCompile(q) \/ RunFirstApplications(q)
             \/ SaveApplicationRunning(q) \/ SaveVariablesFails(q) \/ CloseStatuses(q)
             \/ RunMoreApplications(q) \/ SaveRunning(q)
             \/ SaveApplicationFailed(q) \/ SaveFailed(q)
      PROVE  Quiet
  BY ZenonT(30), <1>6 DEF AcceptRequest, RejectRequest, SaveStaging, StartRun, PatternDoesNotCompile,
    RunFirstApplications, SaveApplicationRunning, SaveVariablesFails,
    CloseStatuses, RunMoreApplications, SaveRunning, SaveApplicationFailed, SaveFailed, locals
<1> QED
  BY ZenonT(30), <1>2, <1>3, <1>4, <1>5, <1>6 DEF Next, RunStep

(* markSkippedApps keeps the flags disjoint and disjoint from the channel. *)
FlagsApart(r) ==
  /\ Disjoint(skips[r])
  /\ \A i \in 1..Len(statuses[r]), j \in DOMAIN skips[r] :
       statuses[r][i].app \notin skips[r][j]

LEMMA FlagsApartNext ==
  ASSUME Inv, ChannelDistinct, [Next]_vars, NEW r \in Runs, pc'[r] \in Early
  PROVE  FlagsApart(r)'
<1>1. FlagsApart(r)
  BY SMTT(30), EarlyBefore DEF Inv, Early, ChannelDistinct, FlagsApart
<1>2. skips[r] \in Seq(Patterns) /\ statuses[r] \in Seq(Status)
  BY SMTT(30) DEF Inv, TypeOK
<1>3. CASE skips'[r] = skips[r] /\ statuses'[r] \in {statuses[r], <<>>}
  BY SMTT(30), <1>1, <1>3 DEF FlagsApart, Disjoint
<1>4. CASE NextPattern(r)
  <2>1. skips'[r] = Tail(skips[r]) /\ statuses' = statuses /\ skips[r] # <<>>
    BY ZenonT(30), <1>4 DEF Inv, TypeOK, NextPattern
  <2>2. \A j \in DOMAIN skips'[r] : j + 1 \in DOMAIN skips[r] /\ skips'[r][j] = skips[r][j + 1]
    BY SMTT(30), <1>2, <2>1, HeadTailProperties
  <2>3. \A i, j \in DOMAIN skips'[r] : i # j => i + 1 # j + 1
    BY SMTT(30), <1>2, <2>1, HeadTailProperties
  <2> QED  BY ZenonT(30), <1>1, <2>1, <2>2, <2>3 DEF FlagsApart, Disjoint
<1>5. ASSUME NEW a \in Apps, SkipApplication(r, a)
      PROVE  FlagsApart(r)'
  <2> DEFINE new == [app |-> a, outcome |-> "ok"]
  <2>1. /\ 1 \in DOMAIN skips[r] /\ a \in skips[r][1]
        /\ skips'[r] = [skips[r] EXCEPT ![1] = @ \ {a}]
        /\ statuses'[r] = Append(statuses[r], new)
    BY SMTT(30), <1>2, <1>5 DEF Inv, TypeOK, SkipApplication, Send
  <2>2. new \in Status /\ new.app = a
    BY SMTT(30) DEF Status, Outcomes
  <2> HIDE DEF new
  <2>3. \A i \in 1..Len(statuses'[r]) :
          \/ i \in 1..Len(statuses[r]) /\ statuses'[r][i] = statuses[r][i]
          \/ statuses'[r][i] = new
    BY SMTT(30), <1>2, <2>1, <2>2, AppendProperties
  <2>4. \A j \in DOMAIN skips'[r] : /\ j \in DOMAIN skips[r]
                                    /\ skips'[r][j] \subseteq skips[r][j]
                                    /\ a \notin skips'[r][j]
    BY SMTT(30), <1>1, <2>1 DEF FlagsApart, Disjoint
  <2>5. Disjoint(skips[r])'
    BY ZenonT(30), <1>1, <2>4 DEF FlagsApart, Disjoint
  <2>6. ASSUME NEW i \in 1..Len(statuses'[r]), NEW j \in DOMAIN skips'[r]
        PROVE  statuses'[r][i].app \notin skips'[r][j]
    BY ZenonT(30), <1>1, <2>2, <2>3, <2>4 DEF FlagsApart
  <2> QED  BY ZenonT(30), <2>5, <2>6 DEF FlagsApart
<1> QED  BY SMTT(30), <1>3, <1>4, <1>5, EarlyEffect

LEMMA ChannelEmptyNext ==
  ASSUME Inv, ChannelDistinct, [Next]_vars, NEW r \in Runs,
         pc'[r] \in {"idle", "stage", "start"}
  PROVE  statuses'[r] = <<>>
<1>1. pc[r] \in {"idle", "stage", "start"}
  <2>1. pc[r] \in Early
    BY SMTT(30), EarlyBefore DEF Inv, Early
  <2>2. ASSUME pc[r] = "skip"  PROVE FALSE
    <3> USE <2>2 DEF Inv, TypeOK, Goto, Return
    <3>1. CASE UNCHANGED vars \/ Crash \/ \E q \in Runs, b \in Apps : GoroutineStep(q, b)
      BY ZenonT(30), <3>1 DEF vars, Crash, Over, GoroutineStep, ApplicationRunReturns, SendStatus
    <3>2. ASSUME NEW q \in Runs, AcceptRequest(q) \/ RejectRequest(q) \/ RunStep(q), q # r
          PROVE  pc'[r] = pc[r]
      BY ZenonT(30), <3>2 DEF RunStep, AcceptRequest, RejectRequest, SaveStaging, StartRun,
        PatternDoesNotCompile, NextPattern, RunFirstApplications, SkipApplication,
        ReceiveRunning, ReceiveFailed, SaveVariablesFails, RunMoreApplications, CloseStatuses,
        SaveApplicationFailed, SaveFailed, SaveApplicationRunning, SaveRunning
    <3>3. CASE AcceptRequest(r) \/ RejectRequest(r) \/ RunStep(r)
      BY ZenonT(30), <3>3 DEF RunStep, AcceptRequest, RejectRequest, SaveStaging, StartRun,
        PatternDoesNotCompile, NextPattern, RunFirstApplications, SkipApplication,
        ReceiveRunning, ReceiveFailed, Receive, SaveVariablesFails, RunMoreApplications,
        CloseStatuses, SaveApplicationFailed, SaveFailed, SaveApplicationRunning, SaveRunning
    <3> QED  BY ZenonT(30), <3>1, <3>2, <3>3 DEF Next
  <2> QED  BY <2>1, <2>2 DEF Early
<1>2. statuses[r] = <<>>
  BY SMTT(30), <1>1 DEF ChannelDistinct
<1> QED  BY SMTT(30), <1>1, <1>2, EarlyEffect DEF Early, SkipApplication, NextPattern

LEMMA ChannelDistinctNext == Inv /\ ChannelDistinct /\ [Next]_vars => ChannelDistinct'
<1> SUFFICES ASSUME Inv, ChannelDistinct, [Next]_vars  PROVE ChannelDistinct'
  OBVIOUS
<1> QED
  BY ZenonT(30), DistinctNext, FlagsApartNext, ChannelEmptyNext DEF ChannelDistinct, FlagsApart, Early

(* Pigeonhole: a goroutine that has yet to send finds room in the channel. *)
LEMMA RoomInChannel ==
  ASSUME Inv, ChannelDistinct, NEW r \in Runs, NEW a \in Apps, goroutine[r][a] \in Unreported
  PROVE  CanSend(r)
<1> DEFINE n == Len(statuses[r])
           Slots == 1..n
           Others == Apps \ {a}
           appOf == [i \in Slots |-> statuses[r][i].app]
<1>1. statuses[r] \in Seq(Status) /\ n \in Nat
  BY SMTT(30), LenProperties DEF Inv, TypeOK
<1>2. \A i \in Slots : statuses[r][i] \in Status
  BY ZenonT(30), <1>1, ElementOfSeq
<1>3. appOf \in [Slots -> Others]
  BY ZenonT(30), <1>2, NotYetSent DEF Status
<1>4. \A i, j \in Slots : appOf[i] = appOf[j] => i = j
  BY SMTT(30) DEF ChannelDistinct
<1>5. IsFiniteSet(Others) /\ Cardinality(Others) = Cardinality(Apps) - 1
  BY FS_RemoveElement, AppsAssumption
<1>6. Cardinality(Apps) \in Nat
  BY SMTT(30), FS_CardinalityType, AppsAssumption
<1>7. IsFiniteSet(Slots) /\ Cardinality(Slots) = n
  BY SMTT(30), <1>1, FS_Interval
<1>8. ~(Cardinality(Others) < Cardinality(Slots))
  <2> HIDE DEF n, Slots, Others, appOf
  <2> SUFFICES ASSUME Cardinality(Others) < Cardinality(Slots)  PROVE FALSE
    OBVIOUS
  <2>1. \E i, j \in Slots : i # j /\ appOf[i] = appOf[j]
    BY <1>3, <1>5, <1>7, FS_PigeonHole
  <2> QED  BY <1>4, <2>1
<1> HIDE DEF Slots, Others
<1> QED  BY SMTT(30), <1>1, <1>5, <1>6, <1>7, <1>8 DEF CanSend

(* If no application is matched by two skip flags, a goroutine of          *)
(* runApplication always finds its channel open and with room: it neither  *)
(* panics nor leaks, whether Stack.Run still receives or has returned.     *)
THEOREM SendersAlwaysFree ==
  ASSUME DisjointSkips  PROVE Spec => []SendersNeverStuck
<1>1. Init => ChannelDistinct
  BY SMTT(30), SkipAssumption DEF Init, ChannelDistinct, DisjointSkips
<1>2. Inv /\ ChannelDistinct => SendersNeverStuck
  BY RoomInChannel DEF SendersNeverStuck, Inv, VerdictGenuine, InPlace, Deployed, Skipped,
    Unreported
<1> QED  BY <1>1, <1>2, InitInv, NextInv, ChannelDistinctNext, PTL DEF Spec
=============================================================================
