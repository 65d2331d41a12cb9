-------------------------- MODULE StackRunOutcomes --------------------------
(***************************************************************************)
(* More about StackRun, for any applications, dependencies, skip flags and *)
(* either storage: it implements Deployment, and what a single run leaves  *)
(* in the storage is complete.                                             *)
(***************************************************************************)
EXTENDS StackRunProofs

-----------------------------------------------------------------------------
(* The refinement.                                                         *)

LEMMA VerdictAtEndNext == TypeOK /\ VerdictAtEnd /\ [Next]_vars => VerdictAtEnd'
<1> SUFFICES ASSUME TypeOK, VerdictAtEnd, [Next]_vars, NEW r \in Runs, result'[r] # "none"
             PROVE  pc'[r] = "done"
  BY DEF VerdictAtEnd
<1> USE DEF TypeOK, VerdictAtEnd, Goto, Return
<1>1. CASE UNCHANGED vars \/ Crash \/ \E q \in Runs, b \in Apps : GoroutineStep(q, b)
  BY SMTT(30), <1>1 DEF vars, Crash, Over, GoroutineStep, ApplicationRunReturns, SendStatus
<1>2. ASSUME NEW q \in Runs, AcceptRequest(q) \/ RejectRequest(q) \/ RunStep(q), q # r
      PROVE  pc'[r] = pc[r] /\ result'[r] = result[r]
  BY ZenonT(30), <1>2 DEF RunStep, AcceptRequest, RejectRequest, SaveStaging, StartRun,
    PatternDoesNotCompile, NextPattern, RunFirstApplications, SkipApplication,
    ReceiveRunning, ReceiveFailed, SaveVariablesFails, RunMoreApplications, CloseStatuses,
    SaveApplicationFailed, SaveFailed, SaveApplicationRunning, SaveRunning
<1>3. CASE AcceptRequest(r) \/ RejectRequest(r) \/ RunStep(r)
  BY ZenonT(30), <1>3 DEF RunStep, AcceptRequest, RejectRequest, SaveStaging, StartRun,
    PatternDoesNotCompile, NextPattern, RunFirstApplications, SkipApplication,
    ReceiveRunning, ReceiveFailed, Receive, SaveVariablesFails, RunMoreApplications,
    CloseStatuses, SaveApplicationFailed, SaveFailed, SaveApplicationRunning, SaveRunning
<1> QED  BY SMTT(30), <1>1, <1>2, <1>3 DEF Next

LEMMA InitRefines == Init => Abstract!Init
  BY DEF Init, Abstract!Init, StartedApps, AppsInPlace, InPlace, Deployed, Skipped

-----------------------------------------------------------------------------
(* One lemma per kind of step.                                             *)

(* A step that keeps what is started and in place, and the answers, is     *)
(* invisible.                                                              *)
LEMMA InvisibleStep ==
  ASSUME [Next]_vars, result' = result,
         \A r \in Runs, a \in Apps :
           /\ goroutine'[r][a] = "none" <=> goroutine[r][a] = "none"
           /\ InPlace(r, a)' <=> InPlace(r, a)
  PROVE  [Abstract!Next]_(Abstract!vars)
<1>1. StartedApps' = StartedApps /\ AppsInPlace' = AppsInPlace
  BY DEF StartedApps, AppsInPlace
<1> QED  BY <1>1, DepsConstant DEF Abstract!vars

LEMMA SkipStep ==
  ASSUME Inv, VerdictAtEnd, [Next]_vars, NEW r \in Runs, NEW a \in Apps, SkipApplication(r, a)
  PROVE  Abstract!Skip(r, a)
<1>1. pc[r] = "skip" /\ result' = result /\ goroutine' = goroutine
      /\ runningApps' = [runningApps EXCEPT ![r][a] = "Running"]
  BY DEF SkipApplication
<1>2. result[r] = "none" /\ \A b \in Apps : goroutine[r][b] = "none"
  BY <1>1 DEF Inv, NothingLaunchedEarly, VerdictAtEnd
<1>3. StartedApps' = StartedApps /\ StartedApps[r] = {}
  BY <1>1, <1>2 DEF StartedApps
<1>4. AppsInPlace' = [AppsInPlace EXCEPT ![r] = @ \cup {a}]
  <2>1. \A q \in Runs, b \in Apps :
          InPlace(q, b)' <=> InPlace(q, b) \/ (q = r /\ b = a)
    BY SMTT(30), <1>1, <1>2 DEF Inv, TypeOK, InPlace, Deployed, Skipped
  <2> QED  BY ZenonT(30), <2>1 DEF AppsInPlace
<1> QED  BY SMTT(30), <1>1, <1>2, <1>3, <1>4, DepsConstant DEF Abstract!Skip

LEMMA StartStep ==
  ASSUME Inv, VerdictAtEnd, [Next]_vars, NEW r \in Runs, RunApplications(r),
         pc[r] # "done", result' = result
  PROVE  Abstract!Start(r, Ready(r))
<1>1. goroutine' = [goroutine EXCEPT ![r] =
        [a \in Apps |-> IF a \in Ready(r) THEN "running" ELSE @[a]]]
  BY DEF RunApplications
<1>2. runningApps' = [runningApps EXCEPT ![r] =
        [a \in Apps |-> IF a \in Ready(r) THEN "Staging" ELSE @[a]]]
  BY DEF RunApplications
<1>3. \A a \in Ready(r) : a \in Apps /\ goroutine[r][a] = "none" /\ ~InPlace(r, a)
  BY DEF Inv, MapAgrees, Ready, InPlace, Deployed, Skipped
<1>4. result[r] = "none"
  BY DEF VerdictAtEnd
<1>5. Ready(r) \cap (StartedApps[r] \cup AppsInPlace[r]) = {}
  BY <1>3 DEF StartedApps, AppsInPlace
<1>6. \A a \in Ready(r) : deps[r][a] \subseteq AppsInPlace[r]
  BY DEF Inv, MapAgrees, Ready, IsDependencySatisfied, AppsInPlace, InPlace, Deployed, Skipped
<1>7. StartedApps' = [StartedApps EXCEPT ![r] = @ \cup Ready(r)]
  <2>1. \A q \in Runs, b \in Apps :
          goroutine'[q][b] # "none" <=> goroutine[q][b] # "none" \/ (q = r /\ b \in Ready(r))
    BY SMTT(30), <1>1 DEF Inv, TypeOK
  <2>2. ASSUME NEW q \in Runs
        PROVE  StartedApps'[q] = IF q = r THEN StartedApps[q] \cup Ready(r) ELSE StartedApps[q]
    <3>1. /\ StartedApps'[q] = {b \in Apps : goroutine'[q][b] # "none"}
          /\ StartedApps[q] = {b \in Apps : goroutine[q][b] # "none"}
      BY DEF StartedApps
    <3> HIDE DEF StartedApps
    <3> QED BY <1>3, <2>1, <3>1
  <2>3. StartedApps' = [q \in Runs |-> StartedApps'[q]] /\ DOMAIN StartedApps = Runs
    BY DEF StartedApps
  <2> HIDE DEF StartedApps
  <2> QED  BY SMTT(30), <2>2, <2>3
<1>8. AppsInPlace' = AppsInPlace
  <2>1. \A q \in Runs, b \in Apps : InPlace(q, b)' <=> InPlace(q, b)
    BY SMTT(30), <1>1, <1>2, <1>3 DEF Inv, TypeOK, InPlace, Deployed, Skipped
  <2> QED  BY <2>1 DEF AppsInPlace
<1> QED  BY SMTT(30), <1>4, <1>5, <1>6, <1>7, <1>8, DepsConstant DEF Abstract!Start

LEMMA ComeUpStep ==
  ASSUME Inv, [Next]_vars, NEW r \in Runs, NEW a \in Apps, SendStatus(r, a),
         goroutine[r][a] = "ok"
  PROVE  Abstract!ComeUp(r, a)
<1>1. /\ goroutine' = [goroutine EXCEPT ![r][a] = "reportedOk"]
      /\ runningApps' = runningApps /\ result' = result
  BY DEF SendStatus, Inv, TypeOK
<1>2. a \in StartedApps[r] \ AppsInPlace[r]
  BY DEF StartedApps, AppsInPlace, InPlace, Deployed, Skipped
<1>3. StartedApps' = StartedApps
  <2>1. \A q \in Runs, b \in Apps : goroutine'[q][b] # "none" <=> goroutine[q][b] # "none"
    BY <1>1 DEF Inv, TypeOK
  <2> QED  BY <2>1 DEF StartedApps
<1>4. AppsInPlace' = [AppsInPlace EXCEPT ![r] = @ \cup {a}]
  <2>1. \A q \in Runs, b \in Apps :
          InPlace(q, b)' <=> InPlace(q, b) \/ (q = r /\ b = a)
    BY <1>1 DEF Inv, TypeOK, InPlace, Deployed, Skipped
  <2> QED  BY ZenonT(30), <2>1 DEF AppsInPlace
<1> QED  BY SMTT(30), <1>1, <1>2, <1>3, <1>4, DepsConstant DEF Abstract!ComeUp

LEMMA AnswerStep ==
  ASSUME Inv, VerdictAtEnd, [Next]_vars, NEW r \in Runs, NEW v \in {"ok", "error"},
         pc[r] # "done", v = "ok" => pc[r] = "succeeded",
         result' = [result EXCEPT ![r] = v], UNCHANGED <<goroutine, runningApps>>
  PROVE  Abstract!Answer(r, v)
<1>1. result[r] = "none"
  BY DEF VerdictAtEnd
<1>2. v = "ok" => AppsInPlace[r] = Apps
  BY DEF Inv, VerdictGenuine, AppsInPlace
<1>3. StartedApps' = StartedApps /\ AppsInPlace' = AppsInPlace
  BY SMTT(30) DEF StartedApps, AppsInPlace, InPlace, Deployed, Skipped
<1> QED  BY SMTT(30), <1>1, <1>2, <1>3, DepsConstant DEF Abstract!Answer
-----------------------------------------------------------------------------
LEMMA NextRefines ==
  ASSUME Inv, VerdictAtEnd, [Next]_vars
  PROVE  [Abstract!Next]_(Abstract!vars)
<1> DEFINE Refined == [Abstract!Next]_(Abstract!vars)
<1> USE DEF Abstract!Next
<1>1. ASSUME UNCHANGED <<goroutine, runningApps, result>>
      PROVE  Refined
  BY SMTT(30), <1>1, InvisibleStep DEF InPlace, Deployed, Skipped
<1>2. CASE Crash
  BY SMTT(30), <1>2, InvisibleStep DEF Inv, TypeOK, Crash, InPlace, Deployed, Skipped, Unreported
<1>3. ASSUME NEW r \in Runs, NEW a \in Apps, ApplicationRunReturns(r, a)
      PROVE  Refined
  BY SMTT(30), <1>3, InvisibleStep
  DEF Inv, TypeOK, ApplicationRunReturns, Outcomes, InPlace, Deployed, Skipped
<1>4. ASSUME NEW r \in Runs, NEW a \in Apps, SendStatus(r, a)
      PROVE  Refined
  <2>1. CASE goroutine[r][a] = "ok"
    BY SMTT(30), <1>4, <2>1, ComeUpStep
  <2>2. CASE goroutine[r][a] = "error"
    BY SMTT(30), <1>4, <2>2, InvisibleStep DEF Inv, TypeOK, SendStatus, InPlace, Deployed, Skipped
  <2> QED  BY SMTT(30), <1>4, <2>1, <2>2 DEF SendStatus, Outcomes
<1>5. ASSUME NEW r \in Runs, NEW a \in Apps, SkipApplication(r, a)
      PROVE  Refined
  BY SMTT(30), <1>5, SkipStep
<1>6. ASSUME NEW r \in Runs, RunFirstApplications(r) \/ RunMoreApplications(r)
      PROVE  Refined
  <2>1. RunApplications(r) /\ pc[r] # "done" /\ result' = result /\ Ready(r) \in SUBSET Apps
    BY ZenonT(30), <1>6 DEF RunFirstApplications, RunMoreApplications, Ready
  <2> QED  BY SMTT(30), <2>1, StartStep
<1>7. ASSUME NEW r \in Runs, ReceiveRunning(r)
      PROVE  Refined
  <2>1. PICK a \in Apps : a = Head(statuses[r]).app
    BY SMTT(30), <1>7, FirstGenuine DEF ReceiveRunning, Receive, Status
  <2>2. InPlace(r, a)
    BY SMTT(30), <1>7, <2>1, FirstGenuine DEF ReceiveRunning, Receive, Genuine
  <2>3. /\ runningApps' = [runningApps EXCEPT ![r][a] = "Running"]
        /\ goroutine' = goroutine /\ result' = result
    BY SMTT(30), <1>7, <2>1 DEF ReceiveRunning
  <2> QED  BY SMTT(30), <2>2, <2>3, InvisibleStep DEF Inv, TypeOK, InPlace, Deployed, Skipped
<1>8. ASSUME NEW r \in Runs, RejectRequest(r) \/ SaveFailed(r)
      PROVE  Refined
  <2>1. /\ pc[r] # "done" /\ result' = [result EXCEPT ![r] = "error"]
        /\ UNCHANGED <<goroutine, runningApps>>
    BY <1>8 DEF RejectRequest, SaveFailed, Return, locals
  <2> QED  BY ZenonT(30), <2>1, AnswerStep
<1>9. ASSUME NEW r \in Runs, SaveStaging(r)
      PROVE  Refined
  <2>1. UNCHANGED <<goroutine, runningApps>> /\ pc[r] # "done"
    BY <1>9 DEF SaveStaging, locals
  <2>2. result' = result \/ result' = [result EXCEPT ![r] = "error"]
    BY ZenonT(30), <1>9 DEF SaveStaging, Return
  <2> QED  BY SMTT(30), <1>1, <2>1, <2>2, AnswerStep
<1>10. ASSUME NEW r \in Runs, SaveRunning(r)
      PROVE  Refined
  <2>1. UNCHANGED <<goroutine, runningApps>> /\ pc[r] = "succeeded"
    BY <1>10 DEF SaveRunning, locals
  <2>2. PICK v \in {"ok", "error"} : result' = [result EXCEPT ![r] = v]
    BY ZenonT(30), <1>10 DEF SaveRunning, Return
  <2> QED  BY ZenonT(30), <2>1, <2>2, AnswerStep
<1>11. ASSUME NEW r \in Runs,
             \/ AcceptRequest(r) \/ StartRun(r) \/ PatternDoesNotCompile(r) \/ NextPattern(r)
             \/ ReceiveFailed(r) \/ SaveApplicationFailed(r) \/ SaveApplicationRunning(r)
             \/ SaveVariablesFails(r) \/ CloseStatuses(r)
      PROVE  UNCHANGED <<goroutine, runningApps, result>>
  BY ZenonT(30), <1>11 DEF AcceptRequest, StartRun, PatternDoesNotCompile, NextPattern, ReceiveFailed,
    SaveApplicationFailed, SaveApplicationRunning, SaveVariablesFails, CloseStatuses, locals
<1>12. CASE UNCHANGED vars
  BY <1>1, <1>12 DEF vars
<1> QED
  BY SMTT(30), <1>1, <1>2, <1>3, <1>4, <1>5, <1>6, <1>7, <1>8, <1>9, <1>10, <1>11, <1>12
  DEF Next, RunStep, GoroutineStep

(* Running a stack implements Deployment: Stack.Run, its goroutines, the   *)
(* handler and the storage add nothing a client could tell apart from      *)
(* skipping, starting in dependency order, coming up and answering.        *)
THEOREM Refinement == Spec => ImplementsDeployment
<1>1. Init => VerdictAtEnd
  BY DEF Init, VerdictAtEnd
<1>2. Inv => TypeOK
  BY DEF Inv
<1> QED
  BY <1>1, <1>2, InitRefines, InitInv, NextInv, VerdictAtEndNext, NextRefines, PTL
  DEF Spec, ImplementsDeployment, Abstract!Spec
-----------------------------------------------------------------------------
(* A single run stores every application before it stores Running.         *)

(* Skipping is decided before the first launch: a status of a skipped      *)
(* application remains one, and no other becomes one.                      *)
LEMMA ChannelSkippedStable ==
  ASSUME Inv, [Next]_vars, NEW r \in Runs, NEW i \in 1..Len(statuses[r])
  PROVE  /\ statuses[r][i].app \in Apps
         /\ goroutine'[r][statuses[r][i].app] = "none" <=> ChannelSkipped(r, i)
<1>1. statuses[r][i] \in Status /\ Genuine(r, statuses[r][i].app, statuses[r][i].outcome)
  BY SMTT(30), ElementOfSeq DEF Inv, TypeOK, ChannelGenuine
<1>2. PICK a \in Apps, outcome \in Outcomes :
        /\ statuses[r][i].app = a /\ statuses[r][i].outcome = outcome
        /\ Genuine(r, a, outcome)
  BY SMTT(30), <1>1 DEF Status
<1>3. goroutine[r][a] = "none" => runningApps[r][a] = "Running"
  BY <1>2 DEF Genuine, InPlace, Deployed, Skipped
<1>4. Effect(r, a)
  BY NextEffect DEF Inv
<1>5. goroutine'[r][a] = "none" <=> goroutine[r][a] = "none"
  BY SMTT(30), <1>3, <1>4 DEF Effect, Same, Launch, Ready, Skip, Heard, Progress, Outcomes, Unreported
<1> QED  BY SMTT(30), <1>2, <1>5 DEF ChannelSkipped

(* Where a status of the channel was before the step. *)
LEMMA StatusBefore ==
  ASSUME Inv, [Next]_vars, NEW r \in Runs, NEW i \in 1..Len(statuses'[r])
  PROVE  \/ /\ statuses'[r] = statuses[r] /\ i \in 1..Len(statuses[r])
            /\ statuses'[r][i] = statuses[r][i]
         \/ /\ Took(r) /\ i + 1 \in 1..Len(statuses[r])
            /\ statuses'[r][i] = statuses[r][i + 1]
         \/ \E a \in Apps, outcome \in Outcomes :
              /\ Put(r, a, outcome)
              /\ \/ i \in 1..Len(statuses[r]) /\ statuses'[r][i] = statuses[r][i]
                 \/ i = Len(statuses[r]) + 1 /\ statuses'[r][i].app = a
<1>1. statuses[r] \in Seq(Status)
  BY SMTT(30) DEF Inv, TypeOK
<1>2. CASE statuses'[r] \in {statuses[r], <<>>}
  BY SMTT(30), <1>2
<1>3. CASE Took(r)
  BY SMTT(30), <1>1, <1>3, HeadTailProperties DEF Took
<1>4. ASSUME NEW a \in Apps, NEW outcome \in Outcomes, Put(r, a, outcome)
      PROVE  \/ i \in 1..Len(statuses[r]) /\ statuses'[r][i] = statuses[r][i]
             \/ i = Len(statuses[r]) + 1 /\ statuses'[r][i].app = a
  <2> DEFINE new == [app |-> a, outcome |-> outcome]
  <2>1. new \in Status /\ new.app = a /\ statuses'[r] = Append(statuses[r], new)
    BY SMTT(30), <1>4 DEF Put, Status
  <2> HIDE DEF new
  <2> QED  BY SMTT(30), <1>1, <2>1, AppendProperties
<1>5. ChannelEffect(r)
  BY NextChannelEffect
<1> QED  BY SMTT(30), <1>2, <1>3, <1>4, <1>5 DEF ChannelEffect

(* A status is put for a skipped application only before the first launch. *)
LEMMA PutSkipped ==
  ASSUME Inv, [Next]_vars, NEW r \in Runs, NEW a \in Apps, NEW outcome \in Outcomes,
         Put(r, a, outcome), goroutine'[r][a] = "none"
  PROVE  \A b \in Apps : goroutine[r][b] = "none"
<1>1. Effect(r, a)
  BY NextEffect DEF Inv
<1>2. goroutine[r][a] = "none"
  BY SMTT(30), <1>1 DEF Effect, Same, Launch, Skip, Heard, Progress, Outcomes
<1>3. pc[r] = "skip"
  BY SMTT(30), <1>2 DEF Put, Outcomes
<1> QED  BY SMTT(30), <1>3 DEF Inv, NothingLaunchedEarly

LEMMA SkippedOrder ==
  ASSUME Inv, SkippedFirst, [Next]_vars, NEW r \in Runs,
         NEW i \in 1..Len(statuses'[r]), NEW j \in 1..Len(statuses'[r]), i < j,
         goroutine'[r][statuses'[r][j].app] = "none"
  PROVE  goroutine'[r][statuses'[r][i].app] = "none"
<1>1. \A k, l \in 1..Len(statuses[r]) :
        /\ goroutine'[r][statuses[r][k].app] = "none" <=> ChannelSkipped(r, k)
        /\ k < l /\ ChannelSkipped(r, l) => ChannelSkipped(r, k)
  BY ChannelSkippedStable DEF SkippedFirst
<1>2. CASE statuses'[r] = statuses[r]
  BY SMTT(30), <1>1, <1>2
<1>3. CASE Took(r)
  <2>1. /\ i + 1 \in 1..Len(statuses[r]) /\ statuses'[r][i] = statuses[r][i + 1]
        /\ j + 1 \in 1..Len(statuses[r]) /\ statuses'[r][j] = statuses[r][j + 1]
    BY SMTT(30), <1>3, HeadTailProperties DEF Took, Inv, TypeOK
  <2>2. i + 1 < j + 1
    OBVIOUS
  <2> QED  BY SMTT(30), <1>1, <2>1, <2>2
<1>4. ASSUME NEW a \in Apps, NEW outcome \in Outcomes, Put(r, a, outcome)
      PROVE  goroutine'[r][statuses'[r][i].app] = "none"
  <2> DEFINE new == [app |-> a, outcome |-> outcome]
  <2>0. new \in Status /\ new.app = a /\ statuses'[r] = Append(statuses[r], new)
    BY SMTT(30), <1>4 DEF Put, Status
  <2> HIDE DEF new
  <2>6. statuses[r] \in Seq(Status)
    BY SMTT(30) DEF Inv, TypeOK
  <2>1. \A k \in 1..Len(statuses'[r]) :
          \/ k \in 1..Len(statuses[r]) /\ statuses'[r][k] = statuses[r][k]
          \/ k = Len(statuses[r]) + 1 /\ statuses'[r][k].app = a
    BY SMTT(30), <2>0, <2>6, AppendProperties
  <2>2. Len(statuses[r]) \in Nat
    BY <2>6, LenProperties
  <2>3. i \in 1..Len(statuses[r]) /\ statuses'[r][i] = statuses[r][i]
    <3>1. j <= Len(statuses[r]) + 1
      BY SMTT(30), <2>1, <2>2
    <3> QED  BY SMTT(30), <2>1, <2>2, <3>1
  <2>4. CASE j \in 1..Len(statuses[r]) /\ statuses'[r][j] = statuses[r][j]
    BY SMTT(30), <1>1, <2>3, <2>4
  <2>5. CASE statuses'[r][j].app = a
    <3>1. \A b \in Apps : goroutine[r][b] = "none"
      BY <1>4, <2>5, PutSkipped
    <3>2. ChannelSkipped(r, i)
      BY <2>3, <3>1, ChannelSkippedStable DEF ChannelSkipped
    <3> QED  BY SMTT(30), <1>1, <2>3, <3>2
  <2> QED  BY SMTT(30), <2>1, <2>4, <2>5
<1> QED  BY SMTT(30), <1>2, <1>3, <1>4, NextChannelEffect DEF ChannelEffect

LEMMA HeardLast ==
  ASSUME Inv, SkippedFirst, [Next]_vars, NEW r \in Runs, NEW a \in Apps,
         runningApps'[r][a] = "Running", goroutine'[r][a] # "none",
         NEW i \in 1..Len(statuses'[r])
  PROVE  goroutine'[r][statuses'[r][i].app] # "none"
<1>1. \A k \in 1..Len(statuses[r]) :
        goroutine'[r][statuses[r][k].app] = "none" <=> ChannelSkipped(r, k)
  BY ChannelSkippedStable
<1>2. goroutine[r][a] # "none"
  <2>1. Effect(r, a)
    BY NextEffect DEF Inv
  <2> QED
    BY SMTT(30), <2>1 DEF Effect, Same, Launch, Skip, Heard, Progress, Unreported
<1>3. CASE runningApps[r][a] = "Running"
  <2>1. \A k \in 1..Len(statuses[r]) : goroutine'[r][statuses[r][k].app] # "none"
    BY SMTT(30), <1>1, <1>2, <1>3 DEF SkippedFirst
  <2>2. ASSUME NEW b \in Apps, NEW outcome \in Outcomes, Put(r, b, outcome)
        PROVE  goroutine'[r][b] # "none"
    BY <1>2, <2>2, PutSkipped
  <2>3. \/ \E k \in 1..Len(statuses[r]) : statuses'[r][i] = statuses[r][k]
        \/ \E b \in Apps, outcome \in Outcomes :
             Put(r, b, outcome) /\ statuses'[r][i].app = b
    BY ZenonT(30), StatusBefore
  <2> QED  BY ZenonT(30), <2>1, <2>2, <2>3
<1>4. CASE runningApps[r][a] # "Running"
  <2>1. Heard(r, a)
    <3>1. Effect(r, a)
      BY NextEffect DEF Inv
    <3>2. ~Skip(r, a)
      BY ZenonT(30), <1>2 DEF Skip, Inv, NothingLaunchedEarly
    <3> QED  BY ZenonT(30), <1>4, <3>1, <3>2 DEF Effect, Same, Launch, Progress
  <2>2. /\ 1 \in 1..Len(statuses[r]) /\ statuses[r][1].app = a
        /\ i + 1 \in 1..Len(statuses[r]) /\ statuses'[r][i] = statuses[r][i + 1] /\ 1 < i + 1
    <3>1. statuses[r] \in Seq(Status) /\ statuses[r] # <<>>
          /\ statuses'[r] = Tail(statuses[r]) /\ Head(statuses[r]).app = a
      BY SMTT(30), <2>1 DEF Heard, Inv, TypeOK
    <3> QED  BY SMTT(30), <3>1, HeadTailProperties
  <2>3. ~ChannelSkipped(r, 1)
    BY SMTT(30), <1>2, <2>2 DEF ChannelSkipped
  <2>4. ~ChannelSkipped(r, i + 1)
    BY SMTT(30), <2>2, <2>3 DEF SkippedFirst
  <2> QED  BY SMTT(30), <1>1, <2>2, <2>4
<1> QED  BY <1>3, <1>4

LEMMA SkippedFirstNext == Inv /\ SkippedFirst /\ [Next]_vars => SkippedFirst'
<1> SUFFICES ASSUME Inv, SkippedFirst, [Next]_vars  PROVE SkippedFirst'
  OBVIOUS
<1> QED  BY ZenonT(30), SkippedOrder, HeardLast DEF SkippedFirst, ChannelSkipped

LEMMA SentInChannel ==
  ASSUME TypeOK, NEW r \in Runs, NEW a \in Apps, NEW b \in Apps, NEW outcome \in Outcomes,
         statuses'[r] = Append(statuses[r], [app |-> b, outcome |-> outcome]),
         InChannel(r, a) \/ a = b
  PROVE  InChannel(r, a)'
<1> DEFINE new == [app |-> b, outcome |-> outcome]
<1>1. new \in Status /\ new.app = b /\ statuses'[r] = Append(statuses[r], new)
  BY SMTT(30) DEF Status
<1> HIDE DEF new
<1>2. statuses[r] \in Seq(Status)
  BY SMTT(30) DEF TypeOK
<1>3. /\ Len(statuses[r]) \in Nat /\ Len(statuses'[r]) = Len(statuses[r]) + 1
      /\ \A i \in 1..Len(statuses[r]) : statuses'[r][i] = statuses[r][i]
      /\ statuses'[r][Len(statuses[r]) + 1] = new
  BY SMTT(30), <1>1, <1>2, AppendProperties, LenProperties
<1>4. CASE a = b
  <2>1. Len(statuses[r]) + 1 \in 1..Len(statuses'[r])
    BY SMTT(30), <1>3
  <2> QED  BY <1>1, <1>3, <1>4, <2>1 DEF InChannel
<1>5. CASE InChannel(r, a)
  <2>1. PICK i \in 1..Len(statuses[r]) : statuses[r][i].app = a
    BY <1>5 DEF InChannel
  <2>2. i \in 1..Len(statuses'[r]) /\ statuses'[r][i].app = a
    BY SMTT(30), <1>3, <2>1
  <2> QED  BY <2>2 DEF InChannel
<1> QED  BY <1>4, <1>5

LEMMA LeftInChannel ==
  ASSUME TypeOK, NEW r \in Runs, NEW a \in Apps, statuses[r] # <<>>,
         statuses'[r] = Tail(statuses[r]), InChannel(r, a), Head(statuses[r]).app # a
  PROVE  InChannel(r, a)'
<1>1. statuses[r] \in Seq(Status)
  BY SMTT(30) DEF TypeOK
<1>2. PICK i \in 1..Len(statuses[r]) : statuses[r][i].app = a
  BY DEF InChannel
<1>3. i # 1
  BY SMTT(30), <1>1, <1>2
<1>4. i - 1 \in 1..Len(statuses'[r]) /\ statuses'[r][i - 1] = statuses[r][i]
  BY SMTT(30), <1>1, <1>2, <1>3, HeadTailProperties
<1> QED  BY ZenonT(30), <1>2, <1>4 DEF InChannel

(* The step of a goroutine keeps what is stored or due. *)
LEMMA GoroutineKept ==
  ASSUME Inv, NEW r \in Runs, NEW a \in Apps, Kept(r, a), NEW b \in Apps, GoroutineStep(r, b)
  PROVE  Kept(r, a)'
<1>1. UNCHANGED <<pc, runningApps, current, appState>>
  BY DEF GoroutineStep, ApplicationRunReturns, SendStatus
<1>2. CASE a = b
  <2>1. runningApps[r][a] # "Running"
    BY SMTT(30), <1>2 DEF GoroutineStep, ApplicationRunReturns, SendStatus, Inv, MapAgrees, Outcomes
  <2> QED  BY <1>1, <2>1 DEF Kept
<1>3. CASE a # b
  <2>1. goroutine'[r][a] = goroutine[r][a]
    BY SMTT(30), <1>3 DEF GoroutineStep, ApplicationRunReturns, SendStatus, Inv, TypeOK
  <2>2. InChannel(r, a) => InChannel(r, a)'
    <3>1. CASE ApplicationRunReturns(r, b)
      BY <3>1 DEF ApplicationRunReturns, InChannel
    <3>2. CASE SendStatus(r, b)
      <4>1. PICK outcome \in Outcomes : outcome = goroutine[r][b]
        BY <3>2 DEF SendStatus
      <4>2. statuses'[r] = Append(statuses[r], [app |-> b, outcome |-> outcome])
        BY ZenonT(30), <3>2, <4>1 DEF SendStatus, Send, Inv, TypeOK
      <4> QED  BY <4>2, SentInChannel DEF Inv
    <3> QED  BY <3>1, <3>2 DEF GoroutineStep
  <2> QED  BY <1>1, <2>1, <2>2 DEF Kept, Due
<1> QED  BY <1>2, <1>3

(* So does a step of the run that only moves it on, or makes it fail. *)
MovesOn(r) ==
  /\ UNCHANGED <<runningApps, goroutine, statuses, current, appState>>
  /\ pc'[r] \in GoingWell => pc[r] \in GoingWell \ {"saveApp"}
  /\ pc'[r] \in {"idle", "stage", "start"} => pc[r] \in {"idle", "stage", "start"}

LEMMA MovesOnKept ==
  ASSUME NEW r \in Runs, NEW a \in Apps, Kept(r, a), MovesOn(r)
  PROVE  Kept(r, a)'
  BY DEF MovesOn, Kept, Due, InChannel

LEMMA FailureKept ==
  ASSUME NEW r \in Runs, NEW a \in Apps,
         pc'[r] \in {"saveFailedApp", "failed", "done", "dead"}
  PROVE  Kept(r, a)'
  BY DEF Kept, GoingWell

LEMMA RunStepKept ==
  ASSUME Inv, NEW r \in Runs, NEW a \in Apps, Kept(r, a),
         AcceptRequest(r) \/ RejectRequest(r) \/ RunStep(r)
  PROVE  Kept(r, a)'
<1>1. ASSUME \/ AcceptRequest(r) \/ StartRun(r) \/ NextPattern(r) \/ CloseStatuses(r)
      PROVE  Kept(r, a)'
  <2>1. MovesOn(r)
    BY ZenonT(30), <1>1 DEF Inv, TypeOK, MovesOn, AcceptRequest, StartRun, NextPattern,
      CloseStatuses, SaveStackVariables, Goto, locals, GoingWell, Phases
  <2> QED  BY <2>1, MovesOnKept
<1>2. CASE SaveStaging(r)
  <2>1. UNCHANGED <<runningApps, goroutine, statuses, current, appState>> /\ pc[r] = "stage"
    BY ZenonT(30), <1>2 DEF SaveStaging, SaveStackStatus, locals
  <2>2. pc'[r] \in {"start", "done"}
    BY ZenonT(30), <1>2 DEF Inv, TypeOK, SaveStaging, Goto, Return
  <2>3. MovesOn(r)
    BY <2>1, <2>2 DEF MovesOn, GoingWell, Phases
  <2> QED  BY <2>3, MovesOnKept
<1>3. ASSUME \/ RejectRequest(r) \/ PatternDoesNotCompile(r) \/ SaveVariablesFails(r)
             \/ ReceiveFailed(r) \/ SaveApplicationFailed(r) \/ SaveFailed(r) \/ SaveRunning(r)
      PROVE  Kept(r, a)'
  <2>1. pc'[r] \in {"saveFailedApp", "failed", "done", "dead"}
    BY ZenonT(30), <1>3 DEF Inv, TypeOK, RejectRequest, PatternDoesNotCompile,
      SaveVariablesFails, ReceiveFailed, SaveApplicationFailed, SaveFailed, SaveRunning,
      Goto, Return
  <2> QED  BY <2>1, FailureKept
<1>4. CASE RunFirstApplications(r) \/ RunMoreApplications(r)
  <2>1. UNCHANGED <<statuses, appState>> /\ pc[r] \in {"skip", "saveVars"} /\ pc'[r] = "await"
    BY ZenonT(30), <1>4 DEF Inv, TypeOK, RunFirstApplications, RunMoreApplications, SaveStackVariables, Goto
  <2>2. runningApps'[r][a] = "Running" =>
          runningApps[r][a] = "Running" /\ goroutine'[r][a] = goroutine[r][a]
    <3>1. RunApplications(r) /\ Goto(r, "await")
      BY ZenonT(30), <1>4 DEF RunFirstApplications, RunMoreApplications
    <3> QED  BY <3>1, RunApplicationsEffect DEF Inv, Same, Launch
  <2> QED  BY SMTT(30), <2>1, <2>2 DEF Kept, Due, InChannel, GoingWell, Phases
<1>5. ASSUME NEW b \in Apps, SkipApplication(r, b)
      PROVE  Kept(r, a)'
  <2>1. /\ pc[r] = "skip" /\ UNCHANGED <<pc, goroutine, appState>>
        /\ statuses'[r] = Append(statuses[r], [app |-> b, outcome |-> "ok"])
        /\ a # b => runningApps'[r][a] = runningApps[r][a]
    BY ZenonT(30), <1>5 DEF Inv, TypeOK, SkipApplication, Send
  <2>2. InChannel(r, a) \/ a = b => InChannel(r, a)'
    BY ZenonT(30), <2>1, SentInChannel DEF Inv, Outcomes
  <2>3. goroutine[r][a] = "none"
    BY <2>1 DEF Inv, NothingLaunchedEarly
  <2> QED  BY ZenonT(30), <2>1, <2>2, <2>3 DEF Kept, Due, GoingWell, Phases
<1>6. CASE ReceiveRunning(r)
  <2>1. /\ pc[r] = "await" /\ pc'[r] = "saveApp" /\ UNCHANGED <<goroutine, appState>>
        /\ statuses[r] # <<>> /\ statuses'[r] = Tail(statuses[r])
        /\ current'[r] = Head(statuses[r]).app
        /\ a # Head(statuses[r]).app => runningApps'[r][a] = runningApps[r][a]
    BY ZenonT(30), <1>6 DEF Inv, TypeOK, ReceiveRunning, Receive, Goto
  <2>2. CASE a = Head(statuses[r]).app
    BY ZenonT(30), <2>1, <2>2 DEF Kept, Due
  <2>3. CASE a # Head(statuses[r]).app
    <3>1. InChannel(r, a) => InChannel(r, a)'
      BY <2>1, <2>3, LeftInChannel DEF Inv
    <3> QED  BY SMTT(30), <2>1, <2>3, <3>1 DEF Kept, Due, GoingWell, Phases
  <2> QED  BY <2>2, <2>3
<1>7. CASE SaveApplicationRunning(r)
  <2>1. PICK ok \in BOOLEAN : /\ SaveApplicationStatus(current[r], "Running", ok)
                              /\ Goto(r, IF ok THEN "saveVars" ELSE "failed")
    BY <1>7 DEF SaveApplicationRunning
  <2>2. CASE ~ok
    <3>1. pc'[r] = "failed"
      BY ZenonT(30), <2>1, <2>2 DEF Inv, TypeOK, Goto
    <3> QED  BY ZenonT(30), <3>1, FailureKept
  <2>3. CASE ok
    <3>1. /\ pc[r] = "saveApp" /\ pc'[r] = "saveVars"
          /\ UNCHANGED <<goroutine, runningApps, statuses>>
      BY SMTT(30), <1>7, <2>1, <2>3 DEF Inv, TypeOK, SaveApplicationRunning, Goto, locals
    <3>2. appState'[a] = IF a = current[r] THEN "Running" ELSE appState[a]
      <4>1. appState' = [appState EXCEPT ![current[r]] = "Running"]
        BY ZenonT(30), <2>1, <2>3 DEF SaveApplicationStatus,
          CassandraSaveApplicationStatus, InMemorySaveApplicationStatus
      <4> QED  BY SMTT(30), <4>1 DEF Inv, TypeOK
    <3> QED  BY ZenonT(30), <3>1, <3>2 DEF Kept, Due, InChannel, GoingWell, Phases
  <2> QED  BY <2>2, <2>3
<1> QED
  BY ZenonT(30), <1>1, <1>2, <1>3, <1>4, <1>5, <1>6, <1>7 DEF RunStep

LEMMA SavedOrDueNext == Inv /\ SingleRun /\ SavedOrDue /\ [Next]_vars => SavedOrDue'
<1> SUFFICES ASSUME Inv, SingleRun, SavedOrDue, [Next]_vars, NEW r \in Runs, NEW a \in Apps
             PROVE  Kept(r, a)'
  BY DEF SavedOrDue
<1>1. Kept(r, a) /\ \A q \in Runs : q = r
  BY ZenonT(30) DEF SavedOrDue, SingleRun
<1>2. CASE UNCHANGED vars
  BY ZenonT(30), <1>1, <1>2 DEF vars, Kept, Due, InChannel
<1>3. CASE Crash
  <2>1. /\ \/ pc'[r] = "dead"
           \/ pc'[r] = pc[r] /\ pc[r] \in Over
        /\ runningApps' = runningApps
    BY ZenonT(30), <1>3 DEF Crash
  <2> QED  BY SMTT(30), <1>1, <2>1 DEF Kept, Over, GoingWell
<1>4. ASSUME NEW q \in Runs, NEW b \in Apps, GoroutineStep(q, b)
      PROVE  Kept(r, a)'
  BY SMTT(30), <1>1, <1>4, GoroutineKept
<1>5. ASSUME NEW q \in Runs, AcceptRequest(q) \/ RejectRequest(q) \/ RunStep(q)
      PROVE  Kept(r, a)'
  BY SMTT(30), <1>1, <1>5, RunStepKept
<1> QED  BY ZenonT(30), <1>2, <1>3, <1>4, <1>5 DEF Next

(* At the end of a run: close(statuses), then at most saving Running. *)
AtEnd(r) == pc[r] = "succeeded" \/ stackState = "Running"
NotAtEnd(r) == pc[r] # "succeeded" /\ stackState # "Running"
StaysAtEnd(r) ==
  /\ AtEnd(r) /\ closed[r] /\ closed'[r] = closed[r] /\ appState' = appState
  /\ stackState' = "Running" => pc'[r] = "done"

LEMMA EndStep ==
  ASSUME Inv, SingleRun, StoredAtEnd, [Next]_vars, NEW r \in Runs
  PROVE  \/ CloseStatuses(r) /\ stackState' # "Running"
         \/ NotAtEnd(r)'
         \/ StaysAtEnd(r)
<1> DEFINE Goal == NotAtEnd(r)' \/ StaysAtEnd(r)
<1>1. /\ pc[r] = "succeeded" => closed[r]
      /\ stackState = "Running" => pc[r] = "done" /\ closed[r]
      /\ \A q \in Runs : q = r
  BY DEF StoredAtEnd, SingleRun
<1>2. ASSUME pc'[r] = pc[r], UNCHANGED <<closed, stackState, appState>>
      PROVE  Goal
  BY SMTT(30), <1>1, <1>2 DEF NotAtEnd, StaysAtEnd, AtEnd
<1>3. CASE UNCHANGED vars \/ \E q \in Runs, b \in Apps : GoroutineStep(q, b)
  <2>1. UNCHANGED <<pc, closed, stackState, appState>>
    BY ZenonT(30), <1>3 DEF vars, GoroutineStep, ApplicationRunReturns, SendStatus
  <2> QED  BY <1>2, <2>1
<1>4. CASE Crash
  <2>1. /\ \/ pc'[r] = "dead" /\ pc[r] \notin Over
           \/ pc'[r] = pc[r] /\ pc[r] \in Over
        /\ closed' = closed
        /\ UNCHANGED <<stackState, appState>> \/ stackState' = "absent"
    BY ZenonT(30), <1>4 DEF Crash
  <2> QED  BY SMTT(30), <1>1, <2>1 DEF NotAtEnd, StaysAtEnd, AtEnd, Over
<1>5. ASSUME \/ AcceptRequest(r) \/ RejectRequest(r) \/ StartRun(r)
             \/ PatternDoesNotCompile(r) \/ NextPattern(r) \/ RunFirstApplications(r)
             \/ ReceiveRunning(r) \/ ReceiveFailed(r) \/ SaveVariablesFails(r)
             \/ RunMoreApplications(r) \/ \E b \in Apps : SkipApplication(r, b)
      PROVE  NotAtEnd(r)'
  <2>1. pc[r] # "done" /\ pc'[r] # "succeeded" /\ stackState' = stackState
    BY ZenonT(30), <1>5 DEF Inv, TypeOK, AcceptRequest, RejectRequest, StartRun,
      PatternDoesNotCompile, NextPattern, RunFirstApplications, ReceiveRunning, ReceiveFailed,
      Receive, SaveVariablesFails, SaveStackVariables, RunMoreApplications, SkipApplication,
      Goto, Return
  <2> QED  BY <1>1, <2>1 DEF NotAtEnd
<1>6. CASE SaveApplicationRunning(r) \/ SaveApplicationFailed(r)
  <2>1. pc[r] # "done" /\ pc'[r] # "succeeded" /\ stackState' = stackState
    BY ZenonT(30), <1>6 DEF Inv, TypeOK, SaveApplicationRunning, SaveApplicationFailed,
      SaveApplicationStatus, Goto
  <2> QED  BY ZenonT(30), <1>1, <2>1 DEF NotAtEnd
<1>7. CASE SaveStaging(r) \/ SaveFailed(r)
  <2>1. /\ pc[r] # "done" /\ pc'[r] # "succeeded"
        /\ stackState' \in {stackState, "Staging", "Failed"}
    BY ZenonT(30), <1>7 DEF Inv, TypeOK, SaveStaging, SaveFailed, SaveStackStatus,
      CassandraSaveStackStatus, InMemorySaveStackStatus, Goto, Return
  <2> QED  BY ZenonT(30), <1>1, <2>1 DEF NotAtEnd
<1>8. CASE SaveRunning(r)
  <2>1. pc[r] = "succeeded" /\ pc'[r] = "done" /\ UNCHANGED <<closed, appState>>
    BY ZenonT(30), <1>8 DEF Inv, TypeOK, SaveRunning, SaveStackStatus, Return, Goto, locals
  <2> QED  BY ZenonT(30), <1>1, <2>1 DEF StaysAtEnd, AtEnd
<1>9. CASE CloseStatuses(r)
  <2>1. pc[r] # "done" /\ stackState' = stackState
    BY SMTT(30), <1>9 DEF CloseStatuses, SaveStackVariables
  <2> QED  BY <1>1, <1>9, <2>1
<1>10. ASSUME NEW q \in Runs, AcceptRequest(q) \/ RejectRequest(q) \/ RunStep(q)
       PROVE  AcceptRequest(r) \/ RejectRequest(r) \/ RunStep(r)
  BY <1>1, <1>10
<1> QED
  BY ZenonT(30), <1>3, <1>4, <1>5, <1>6, <1>7, <1>8, <1>9, <1>10 DEF Next, RunStep

(* When the channel is closed after a deployment, nothing is due any more. *)
LEMMA ClosedComplete ==
  ASSUME Inv, SkippedFirst, SavedOrDue, NEW r \in Runs, NEW a \in Apps, NEW b \in Apps,
         CloseStatuses(r), Deployed(r, a)
  PROVE  appState[b] = "Running"
<1>1. pc[r] = "saveVars" /\ runningApps[r][a] = "Running" /\ runningApps[r][b] = "Running"
  BY ZenonT(30) DEF CloseStatuses, AllApplicationsRunning
<1>2. \A i \in 1..Len(statuses[r]) : goroutine[r][statuses[r][i].app] # "none"
  BY SMTT(30), <1>1 DEF SkippedFirst, ChannelSkipped, Deployed
<1>3. Kept(r, b)
  BY ZenonT(30) DEF SavedOrDue
<1> QED  BY ZenonT(30), <1>1, <1>2, <1>3 DEF Kept, Due, InChannel, GoingWell, Phases

LEMMA StoredAtEndNext ==
  Inv /\ SingleRun /\ SkippedFirst /\ SavedOrDue /\ StoredAtEnd /\ [Next]_vars => StoredAtEnd'
<1> SUFFICES ASSUME Inv, SingleRun, SkippedFirst, SavedOrDue, StoredAtEnd, [Next]_vars,
                    NEW r \in Runs
             PROVE  /\ pc'[r] = "succeeded" => closed'[r]
                    /\ stackState' = "Running" => pc'[r] = "done" /\ closed'[r]
                    /\ pc'[r] = "succeeded" \/ stackState' = "Running" =>
                         \A a, b \in Apps : Deployed(r, a)' => appState'[b] = "Running"
  BY DEF StoredAtEnd
<1>1. CASE CloseStatuses(r) /\ stackState' # "Running"
  <2>1. closed'[r] /\ UNCHANGED <<goroutine, appState>>
    BY ZenonT(30), <1>1 DEF Inv, TypeOK, CloseStatuses, SaveStackVariables
  <2>2. \A a, b \in Apps : Deployed(r, a)' => appState'[b] = "Running"
    BY <1>1, <2>1, ClosedComplete DEF Deployed
  <2> QED  BY ZenonT(30), <1>1, <2>1, <2>2
<1>2. CASE NotAtEnd(r)'
  BY <1>2 DEF NotAtEnd
<1>3. CASE StaysAtEnd(r)
  <2>1. ASSUME NEW a \in Apps, Deployed(r, a)'
        PROVE  Deployed(r, a)
    <3>1. InPlace(r, a)
      BY <1>3 DEF StaysAtEnd, Inv, VerdictGenuine
    <3>2. Effect(r, a)
      BY ZenonT(30), NextEffect DEF Inv
    <3> QED
      BY ZenonT(30), <2>1, <3>1, <3>2 DEF InPlace, Deployed, Skipped, Effect, Same, Launch,
        Skip, Heard, Progress, Unreported
  <2>2. \A a, b \in Apps : Deployed(r, a) => appState[b] = "Running"
    BY <1>3 DEF StaysAtEnd, AtEnd, StoredAtEnd
  <2> QED  BY ZenonT(30), <1>3, <2>1, <2>2 DEF StaysAtEnd
<1> QED  BY <1>1, <1>2, <1>3, EndStep

(* With a single run, a stack that is stored as Running after some         *)
(* application was deployed has every application stored as Running,       *)
(* whatever the skip flags, storage errors and crashes.  (Two runs may     *)
(* overwrite each other's statuses.)                                       *)
THEOREM StoredStackIsComplete ==
  ASSUME SingleRun  PROVE Spec => []StoredStackComplete
<1>1. Init => SkippedFirst /\ SavedOrDue /\ StoredAtEnd
  BY SMTT(30) DEF Init, SkippedFirst, SavedOrDue, Kept, GoingWell, StoredAtEnd
<1>2. StoredAtEnd => StoredStackComplete
  BY SMTT(30) DEF StoredAtEnd, StoredStackComplete
<1>3. SingleRun
  OBVIOUS
<1>4. Inv /\ SkippedFirst /\ SavedOrDue /\ StoredAtEnd /\ [Next]_vars =>
        (SkippedFirst /\ SavedOrDue /\ StoredAtEnd)'
  BY <1>3, SkippedFirstNext, SavedOrDueNext, StoredAtEndNext
<1> QED  BY <1>1, <1>2, <1>4, InitInv, NextInv, PTL DEF Spec
=============================================================================
