--------------------------- MODULE RunOnceProofs ---------------------------
(* Proofs of the safety properties of RunOnce, for any number of stagings, *)
(* applications, hosts and instances.                                      *)
EXTENDS RunOnce, SequenceTheorems, FiniteSetTheorems, TLAPS

(* Nothing is staged when the server starts. *)
LEMMA InitInv == Init => Inv
<1> SUFFICES ASSUME Init PROVE Inv
  OBVIOUS
<1>1. TypeOK
  BY DEF Init, TypeOK
<1>2. SameTasks /\ NothingBefore /\ SendNeverBlocks /\ NeverTooManyTasks /\ SuccessMeansOver
  BY DEF Init, SameTasks, NothingBefore, SendNeverBlocks, NeverTooManyTasks, SuccessMeansOver
<1>3. EndsAreReal
  BY DEF Init, EndsAreReal
<1> QED  BY SMTT(30), <1>1, <1>2, <1>3 DEF Inv

(* Staging an application starts with no tasks, and a waiter. *)
LEMMA StageInv ==
  ASSUME Inv, NEW s \in Stagings, NEW n \in Instances, NEW cs \in ConstraintSets,
         NEW mesos \in MesosStates, StageApplication(s, n, cs, mesos)
  PROVE  Inv'
<1> PICK k \in Nat : k = GetInstances(n, cs, mesos)
  BY InstancesAssumption
<1>a. /\ waiter[s] = "idle"
      /\ wanted' = [wanted EXCEPT ![s] = k]
      /\ constraints' = [constraints EXCEPT ![s] = cs]
      /\ \/ /\ k = 0
            /\ waiter' = [waiter EXCEPT ![s] = "ok"]
            /\ UNCHANGED <<applications, left>>
         \/ /\ k # 0
            /\ waiter' = [waiter EXCEPT ![s] = "waiting"]
            /\ applications' = [applications EXCEPT ![AppOf[s]] = s]
            /\ left' = [left EXCEPT ![s] = k]
      /\ UNCHANGED <<tasks, real, updates>>
  BY DEF StageApplication
<1>b. AppOf \in [Stagings -> Apps] /\ Nobody \notin Stagings
  BY AppOfAssumption
<1>1. TypeOK'
  <2>1. TypeOK
    BY DEF Inv
  <2>2. wanted' \in [Stagings -> Nat] /\ constraints' \in [Stagings -> ConstraintSets \cup {{}}]
    BY SMTT(30), <1>a, <2>1 DEF TypeOK
  <2>3. /\ waiter' \in [Stagings -> {"idle", "waiting", "ok", "error", "dead"}]
        /\ applications' \in [Apps -> Stagings \cup {Nobody}]
        /\ left' \in [Stagings -> Nat]
    <3>1. CASE waiter' = [waiter EXCEPT ![s] = "ok"] /\ UNCHANGED <<applications, left>>
      BY SMTT(30), <2>1, <3>1 DEF TypeOK
    <3>2. CASE /\ waiter' = [waiter EXCEPT ![s] = "waiting"]
               /\ applications' = [applications EXCEPT ![AppOf[s]] = s]
               /\ left' = [left EXCEPT ![s] = k]
      BY SMTT(30), <1>b, <2>1, <3>2 DEF TypeOK
    <3> QED  BY SMTT(30), <1>a, <3>1, <3>2
  <2>4. UNCHANGED <<tasks, real, updates>>
    BY <1>a
  <2> QED  BY ZenonT(30), <2>1, <2>2, <2>3, <2>4 DEF TypeOK
<1>c. tasks[s] = <<>> /\ left[s] = 0 /\ Len(tasks[s]) = 0 /\ Len(real[s]) = 0 /\ DOMAIN real[s] = {}
  <2>1. tasks[s] = <<>> /\ left[s] = 0 /\ Len(real[s]) = Len(tasks[s])
    BY SMTT(30), <1>a DEF Inv, NothingBefore, SameTasks
  <2>2. real[s] \in Seq(TaskStates \cup {"NEVER"})
    BY DEF Inv, TypeOK
  <2> QED  BY SMTT(30), <2>1, <2>2
<1>d. \A z \in Stagings : z # s =>
        waiter'[z] = waiter[z] /\ wanted'[z] = wanted[z] /\ left'[z] = left[z]
  BY SMTT(30), <1>a DEF Inv, TypeOK
<1>e. wanted'[s] = k /\ left'[s] = k
  BY SMTT(30), <1>a, <1>c DEF Inv, TypeOK
<1>f. waiter'[s] # "idle" /\ (waiter'[s] = "ok" => k = 0)
  BY <1>a DEF Inv, TypeOK
<1>2. SameTasks'
  BY <1>a DEF Inv, SameTasks
<1>3. NothingBefore'
  BY SMTT(30), <1>a, <1>d, <1>f DEF Inv, NothingBefore
<1>4. EndsAreReal'
  BY <1>a DEF Inv, EndsAreReal, IsReal
<1>5. SendNeverBlocks'
  BY SMTT(30), <1>a, <1>b DEF Inv, SendNeverBlocks, TypeOK
<1>6. NeverTooManyTasks'
  BY <1>a, <1>c, <1>d, <1>e DEF Inv, NeverTooManyTasks
<1>7. SuccessMeansOver'
  BY SMTT(30), <1>a, <1>c, <1>d, <1>e, <1>f DEF Inv, SuccessMeansOver
<1> QED  BY SMTT(30), <1>1, <1>2, <1>3, <1>4, <1>5, <1>6, <1>7 DEF Inv

(* An offer adds one task, which has ended nowhere, to a context whose     *)
(* waiter is still there.                                                  *)
LEMMA OfferInv ==
  ASSUME Inv, NEW s \in Stagings, NEW h \in Hosts, ResourceOffer(s, h)
  PROVE  Inv'
<1> PICK outcome \in {"STAGING", "NEVER"} : real' = [real EXCEPT ![s] = Append(@, outcome)]
  BY ZenonT(30) DEF ResourceOffer
<1> DEFINE t == [host |-> h, state |-> "STAGING"]
<1>a. /\ applications[AppOf[s]] = s /\ left[s] # 0
      /\ left' = [left EXCEPT ![s] = @ - 1]
      /\ tasks' = [tasks EXCEPT ![s] = Append(@, t)]
      /\ updates' = [updates EXCEPT ![s] = Append(@, <<>>)]
      /\ UNCHANGED <<waiter, applications, wanted, constraints>>
  BY DEF ResourceOffer, OfferMatches
<1>t. t \in Task /\ "STAGING" \notin Terminal
  BY DEF Task, TaskStates, Terminal
<1>b. TypeOK /\ AppOf[s] \in Apps /\ Nobody \notin Stagings
  BY AppOfAssumption DEF Inv
<1>w. waiter[s] = "waiting"
  BY SMTT(30), <1>a, <1>b DEF Inv, SendNeverBlocks
<1>1. TypeOK'
  <2>1. left' \in [Stagings -> Nat]
    BY SMTT(30), <1>a, <1>b DEF TypeOK
  <2>2. tasks' \in [Stagings -> Seq(Task)]
    BY SMTT(30), <1>a, <1>b, <1>t DEF TypeOK
  <2>3. real' \in [Stagings -> Seq(TaskStates \cup {"NEVER"})]
    BY SMTT(30), <1>b DEF TypeOK, TaskStates
  <2>4. updates' \in [Stagings -> Seq(Seq(TaskStates))]
    <3>1. <<>> \in Seq(TaskStates)
      OBVIOUS
    <3> QED  BY SMTT(30), <1>a, <1>b, <3>1 DEF TypeOK
  <2> QED  BY ZenonT(30), <1>a, <1>b, <2>1, <2>2, <2>3, <2>4 DEF TypeOK
<1>l. \A z \in Stagings : z # s =>
        tasks'[z] = tasks[z] /\ real'[z] = real[z] /\ updates'[z] = updates[z]
  BY SMTT(30), <1>a, <1>b DEF TypeOK
<1>m. /\ tasks'[s] = Append(tasks[s], t) /\ real'[s] = Append(real[s], outcome)
      /\ updates'[s] = Append(updates[s], <<>>)
  BY SMTT(30), <1>a, <1>b DEF TypeOK
<1>n. /\ tasks[s] \in Seq(Task) /\ real[s] \in Seq(TaskStates \cup {"NEVER"})
      /\ updates[s] \in Seq(Seq(TaskStates))
      /\ Len(real[s]) = Len(tasks[s]) /\ Len(updates[s]) = Len(tasks[s])
  BY SMTT(30), <1>b DEF TypeOK, Inv, SameTasks
<1> HIDE DEF t
<1>2. SameTasks'
  BY SMTT(30), <1>l, <1>m, <1>n DEF Inv, SameTasks
<1>3. NothingBefore'
  BY SMTT(30), <1>a, <1>b, <1>l, <1>w DEF Inv, NothingBefore, TypeOK
<1>4. EndsAreReal'
  <2> SUFFICES ASSUME NEW z \in Stagings, NEW i \in DOMAIN tasks'[z]
               PROVE  /\ IsReal(z, i, tasks[z][i].state)'
                      /\ \A k \in DOMAIN updates'[z][i] : IsReal(z, i, updates[z][i][k])'
    BY DEF EndsAreReal
  <2>1. CASE z # s
    BY SMTT(30), <2>1, <1>l DEF Inv, EndsAreReal, IsReal
  <2>2. CASE z = s /\ i \in DOMAIN tasks[s]
    <3>1. tasks'[s][i] = tasks[s][i] /\ real'[s][i] = real[s][i] /\ updates'[s][i] = updates[s][i]
      BY SMTT(30), <2>2, <1>m, <1>n, <1>t
    <3>2. IsReal(s, i, tasks[s][i].state) /\ \A k \in DOMAIN updates[s][i] : IsReal(s, i, updates[s][i][k])
      BY SMTT(30), <2>2 DEF Inv, EndsAreReal
    <3> QED  BY ZenonT(30), <2>2, <3>1, <3>2 DEF IsReal
  <2>3. CASE z = s /\ i \notin DOMAIN tasks[s]
    <3>1. tasks'[s][i] = t /\ updates'[s][i] = <<>>
      BY SMTT(30), <2>3, <1>m, <1>n, <1>t
    <3>2. t.state = "STAGING" /\ DOMAIN <<>> = {}
      BY DEF t
    <3> QED  BY SMTT(30), <2>3, <3>1, <3>2, <1>t DEF IsReal
  <2> QED  BY SMTT(30), <2>1, <2>2, <2>3
<1>5. SendNeverBlocks'
  BY SMTT(30), <1>a DEF Inv, SendNeverBlocks
<1>6. NeverTooManyTasks'
  BY SMTT(30), <1>a, <1>b, <1>l, <1>m, <1>n DEF Inv, NeverTooManyTasks, TypeOK
<1>7. SuccessMeansOver'
  BY SMTT(30), <1>a, <1>l, <1>w DEF Inv, SuccessMeansOver
<1> QED  BY SMTT(30), <1>1, <1>2, <1>3, <1>4, <1>5, <1>6, <1>7 DEF Inv

(* Only a task that has not ended moves, so no end is ever revised. *)
LEMMA MoveInv ==
  ASSUME Inv, NEW s \in Stagings, NEW i \in DOMAIN real[s], TaskMoves(s, i)
  PROVE  Inv'
<1> PICK state \in Follows(real[s][i]) \cap Reports :
      /\ real' = [real EXCEPT ![s][i] = state]
      /\ updates' = [updates EXCEPT ![s][i] = Append(@, state)]
  BY ZenonT(30) DEF TaskMoves
<1>a. UNCHANGED <<waiter, applications, wanted, constraints, left, tasks>>
  BY DEF TaskMoves
<1>b. state \in TaskStates /\ real[s][i] \notin Terminal
  BY ReportsAssumption DEF Follows, Terminal
<1>c. TypeOK /\ Len(real[s]) = Len(tasks[s]) /\ Len(updates[s]) = Len(tasks[s])
  BY DEF Inv, SameTasks
<1>d. /\ tasks[s] \in Seq(Task) /\ real[s] \in Seq(TaskStates \cup {"NEVER"})
      /\ updates[s] \in Seq(Seq(TaskStates))
  BY <1>c DEF TypeOK
<1>e. i \in DOMAIN tasks[s] /\ i \in DOMAIN updates[s] /\ updates[s][i] \in Seq(TaskStates)
  BY SMTT(30), <1>c, <1>d
<1>f. \A z \in Stagings : z # s => real'[z] = real[z] /\ updates'[z] = updates[z]
  BY <1>c DEF TypeOK
<1>g. /\ real'[s] = [real[s] EXCEPT ![i] = state]
      /\ updates'[s] = [updates[s] EXCEPT ![i] = Append(updates[s][i], state)]
  BY SMTT(30), <1>c DEF TypeOK
<1>h. Append(updates[s][i], state) \in Seq(TaskStates)
  BY SMTT(30), <1>b, <1>e
<1>i. real'[s] \in Seq(TaskStates \cup {"NEVER"}) /\ Len(real'[s]) = Len(real[s])
  <2>1. i \in 1..Len(real[s]) /\ state \in TaskStates \cup {"NEVER"}
    BY SMTT(30), <1>b, <1>d
  <2>2. [real[s] EXCEPT ![i] = state] \in Seq(TaskStates \cup {"NEVER"})
        /\ Len([real[s] EXCEPT ![i] = state]) = Len(real[s])
    BY SMTT(30), <1>d, <2>1, ExceptSeq
  <2> QED  BY ZenonT(30), <1>g, <2>2
<1>j. updates'[s] \in Seq(Seq(TaskStates)) /\ Len(updates'[s]) = Len(updates[s])
  BY SMTT(30), <1>d, <1>g, <1>h, <1>e, ExceptSeq
<1>1. TypeOK'
  <2>1. real' \in [Stagings -> Seq(TaskStates \cup {"NEVER"})]
    BY SMTT(30), <1>c, <1>i DEF TypeOK
  <2>2. updates' \in [Stagings -> Seq(Seq(TaskStates))]
    BY SMTT(30), <1>c, <1>j DEF TypeOK
  <2> QED  BY ZenonT(30), <1>a, <1>c, <2>1, <2>2 DEF TypeOK
<1>2. SameTasks'
  BY SMTT(30), <1>a, <1>f, <1>i, <1>j DEF Inv, SameTasks
<1>3. NothingBefore' /\ SendNeverBlocks' /\ NeverTooManyTasks'
  BY SMTT(30), <1>a DEF Inv, NothingBefore, SendNeverBlocks, NeverTooManyTasks
<1>4. EndsAreReal'
  <2> SUFFICES ASSUME NEW z \in Stagings, NEW j \in DOMAIN tasks[z]
               PROVE  /\ IsReal(z, j, tasks[z][j].state)'
                      /\ \A k \in DOMAIN updates'[z][j] : IsReal(z, j, updates[z][j][k])'
    BY SMTT(30), <1>a DEF EndsAreReal
  <2>1. IsReal(z, j, tasks[z][j].state) /\ \A k \in DOMAIN updates[z][j] : IsReal(z, j, updates[z][j][k])
    BY SMTT(30) DEF Inv, EndsAreReal
  <2>2. CASE z # s
    BY SMTT(30), <1>a, <1>f, <2>1, <2>2 DEF IsReal
  <2>3. CASE z = s /\ j # i
    <3>1. real'[s][j] = real[s][j] /\ updates'[s][j] = updates[s][j]
      BY SMTT(30), <1>c, <1>d, <1>g, <2>3
    <3> QED  BY SMTT(30), <1>a, <2>1, <2>3, <3>1 DEF IsReal
  <2>4. CASE z = s /\ j = i
    <3>1. real'[s][i] = state /\ updates'[s][i] = Append(updates[s][i], state)
      BY SMTT(30), <1>e, <1>d, <1>g
    <3>2. tasks[s][i].state \notin Terminal /\ \A k \in DOMAIN updates[s][i] : updates[s][i][k] \notin Terminal
      BY SMTT(30), <1>b, <2>1, <2>4 DEF IsReal
    <3>3. \A k \in DOMAIN updates'[s][i] : updates'[s][i][k] \notin Terminal \/ updates'[s][i][k] = state
      BY SMTT(30), <1>b, <1>e, <3>1, <3>2
    <3> QED  BY ZenonT(30), <1>a, <2>4, <3>1, <3>2, <3>3 DEF IsReal
  <2> QED  BY SMTT(30), <2>2, <2>3, <2>4
<1>5. SuccessMeansOver'
  <2>1. waiter[s] # "ok"
    BY SMTT(30), <1>b DEF Inv, SuccessMeansOver, Ended, Terminal
  <2> QED  BY SMTT(30), <1>a, <1>f, <2>1 DEF Inv, SuccessMeansOver
<1> QED  BY SMTT(30), <1>1, <1>2, <1>3, <1>4, <1>5 DEF Inv

(* Recording an update, acknowledged or not, keeps the records true. *)
LEMMA RecordInv ==
  ASSUME Inv, NEW s \in Stagings, NEW i \in DOMAIN real[s], updates[s][i] # <<>>,
         NEW acknowledged \in BOOLEAN, Acknowledge(s, i, acknowledged),
         \/ tasks' = tasks
         \/ tasks' = [tasks EXCEPT ![s][i].state = Head(updates[s][i])],
         UNCHANGED real
  PROVE  /\ tasks' \in [Stagings -> Seq(Task)]
         /\ updates' \in [Stagings -> Seq(Seq(TaskStates))]
         /\ SameTasks' /\ EndsAreReal'
         /\ \A z \in Stagings : Len(tasks'[z]) = Len(tasks[z]) /\ (tasks[z] = <<>> => tasks'[z] = <<>>)
<1> DEFINE u == updates[s][i]
<1>c. TypeOK /\ Len(real[s]) = Len(tasks[s]) /\ Len(updates[s]) = Len(tasks[s])
  BY DEF Inv, SameTasks
<1>d. /\ tasks[s] \in Seq(Task) /\ real[s] \in Seq(TaskStates \cup {"NEVER"})
      /\ updates[s] \in Seq(Seq(TaskStates))
  BY SMTT(30), <1>c DEF TypeOK
<1>e. i \in DOMAIN tasks[s] /\ i \in DOMAIN updates[s] /\ u \in Seq(TaskStates)
  BY SMTT(30), <1>c, <1>d
<1>h. Head(u) \in TaskStates /\ Tail(u) \in Seq(TaskStates) /\ Head(u) = u[1] /\ 1 \in DOMAIN u
      /\ \A k \in DOMAIN Tail(u) : k + 1 \in DOMAIN u /\ Tail(u)[k] = u[k + 1]
  BY SMTT(30), <1>e
<1>t. \A z \in Stagings : z # s => tasks'[z] = tasks[z] /\ updates'[z] = updates[z]
  BY SMTT(30), <1>c DEF TypeOK, Acknowledge
<1>k. \/ tasks'[s] = tasks[s]
      \/ tasks'[s] = [tasks[s] EXCEPT ![i] = [tasks[s][i] EXCEPT !.state = Head(u)]]
  BY ZenonT(30), <1>c DEF TypeOK
<1>l. tasks'[s] \in Seq(Task) /\ Len(tasks'[s]) = Len(tasks[s])
  <2>1. [tasks[s][i] EXCEPT !.state = Head(u)] \in Task
    <3>1. tasks[s][i] \in Task
      BY SMTT(30), <1>d, <1>e
    <3> QED  BY SMTT(30), <1>h, <3>1 DEF Task
  <2> DEFINE e == [tasks[s][i] EXCEPT !.state = Head(u)]
  <2>2. i \in 1..Len(tasks[s]) /\ e \in Task
    BY SMTT(30), <1>d, <1>e, <2>1
  <2>3. tasks'[s] = tasks[s] \/ tasks'[s] = [tasks[s] EXCEPT ![i] = e]
    BY <1>k
  <2> HIDE DEF e
  <2>4. [tasks[s] EXCEPT ![i] = e] \in Seq(Task) /\ Len([tasks[s] EXCEPT ![i] = e]) = Len(tasks[s])
    BY SMTT(30), <1>d, <2>2, ExceptSeq
  <2> QED  BY SMTT(30), <1>d, <2>3, <2>4
<1>m. updates'[s] = updates[s] \/ updates'[s] = [updates[s] EXCEPT ![i] = Tail(u)]
  BY SMTT(30), <1>c DEF TypeOK, Acknowledge
<1>n. updates'[s] \in Seq(Seq(TaskStates)) /\ Len(updates'[s]) = Len(updates[s])
  <2> DEFINE e == Tail(u)
  <2>1. i \in 1..Len(updates[s]) /\ e \in Seq(TaskStates)
    BY SMTT(30), <1>d, <1>e, <1>h
  <2>2. updates'[s] = updates[s] \/ updates'[s] = [updates[s] EXCEPT ![i] = e]
    BY <1>m
  <2> HIDE DEF e
  <2>3. [updates[s] EXCEPT ![i] = e] \in Seq(Seq(TaskStates))
        /\ Len([updates[s] EXCEPT ![i] = e]) = Len(updates[s])
    BY SMTT(30), <1>d, <2>1, ExceptSeq
  <2> QED  BY ZenonT(30), <1>d, <2>2, <2>3
<1>1. tasks' \in [Stagings -> Seq(Task)]
  <2>1. DOMAIN tasks' = Stagings
    BY <1>c DEF TypeOK
  <2> QED  BY ZenonT(30), <1>c, <1>l, <1>t, <2>1 DEF TypeOK
<1>2. updates' \in [Stagings -> Seq(Seq(TaskStates))]
  BY SMTT(30), <1>c, <1>n DEF TypeOK, Acknowledge
<1>3. SameTasks'
  BY ZenonT(30), <1>l, <1>n, <1>t DEF Inv, SameTasks
<1>4. EndsAreReal'
  <2> SUFFICES ASSUME NEW z \in Stagings, NEW j \in DOMAIN tasks'[z]
               PROVE  /\ IsReal(z, j, tasks[z][j].state)'
                      /\ \A k \in DOMAIN updates'[z][j] : IsReal(z, j, updates[z][j][k])'
    BY DEF EndsAreReal
  <2>1. j \in DOMAIN tasks[z]
    BY SMTT(30), <1>l, <1>t, <1>d
  <2>2. IsReal(z, j, tasks[z][j].state) /\ \A k \in DOMAIN updates[z][j] : IsReal(z, j, updates[z][j][k])
    BY SMTT(30), <2>1 DEF Inv, EndsAreReal
  <2>3. CASE z # s
    BY SMTT(30), <1>t, <2>2, <2>3 DEF IsReal
  <2>4. CASE z = s /\ j # i
    <3>1. tasks'[s][j] = tasks[s][j] /\ updates'[s][j] = updates[s][j]
      BY SMTT(30), <1>k, <1>m, <1>d, <1>c, <2>1, <2>4
    <3> QED  BY SMTT(30), <2>2, <2>4, <3>1 DEF IsReal
  <2>5. CASE z = s /\ j = i
    <3>1. tasks'[s][i].state = tasks[s][i].state \/ tasks'[s][i].state = Head(u)
      <4>1. tasks[s][i] \in Task
        BY SMTT(30), <1>d, <1>e
      <4> QED  BY SMTT(30), <1>k, <1>d, <1>e, <4>1 DEF Task
    <3>2. updates'[s][i] = u \/ updates'[s][i] = Tail(u)
      BY ZenonT(30), <1>m, <1>d, <1>e
    <3>3. IsReal(s, i, Head(u)) /\ \A k \in DOMAIN Tail(u) : IsReal(s, i, Tail(u)[k])
      BY SMTT(30), <2>2, <2>5, <1>h
    <3>4. IsReal(s, i, tasks'[s][i].state)
      BY SMTT(30), <2>2, <2>5, <3>1, <3>3
    <3>5. \A k \in DOMAIN updates'[s][i] : IsReal(s, i, updates'[s][i][k])
      BY ZenonT(30), <2>2, <2>5, <3>2, <3>3
    <3> QED  BY SMTT(30), <2>5, <3>4, <3>5 DEF IsReal
  <2> QED  BY SMTT(30), <2>3, <2>4, <2>5
<1>5. \A z \in Stagings : Len(tasks'[z]) = Len(tasks[z]) /\ (tasks[z] = <<>> => tasks'[z] = <<>>)
  BY SMTT(30), <1>l, <1>t, <1>d
<1> QED  BY SMTT(30), <1>1, <1>2, <1>3, <1>4, <1>5

(* An outcome is sent for the latest context of the application, whose     *)
(* waiter is there; a success only on the records of all its tasks.        *)
LEMMA UpdateInv ==
  ASSUME Inv, NEW s \in Stagings, NEW i \in DOMAIN real[s],
         NEW acknowledged \in BOOLEAN, StatusUpdate(s, i, acknowledged)
  PROVE  Inv'
<1> DEFINE c == applications[AppOf[s]]
           state == Head(updates[s][i])
<1>a. /\ updates[s][i] # <<>> /\ Acknowledge(s, i, acknowledged)
      /\ UNCHANGED <<wanted, constraints, left, real>>
      /\ \/ HandleUpdate(s, i, state)
         \/ c = Nobody /\ UNCHANGED <<waiter, applications, tasks>>
  BY DEF StatusUpdate, Handler
<1>b. tasks' = tasks \/ tasks' = [tasks EXCEPT ![s][i].state = state]
  BY <1>a DEF HandleUpdate, UpdateTaskState
<1>c. TypeOK /\ AppOf \in [Stagings -> Apps] /\ Nobody \notin Stagings
  BY SMTT(30), AppOfAssumption DEF Inv
<1>d. /\ tasks' \in [Stagings -> Seq(Task)]
      /\ updates' \in [Stagings -> Seq(Seq(TaskStates))]
      /\ SameTasks' /\ EndsAreReal'
      /\ \A z \in Stagings : Len(tasks'[z]) = Len(tasks[z]) /\ (tasks[z] = <<>> => tasks'[z] = <<>>)
  BY SMTT(30), <1>a, <1>b, RecordInv
<1>1. NeverTooManyTasks'
  BY SMTT(30), <1>a, <1>d DEF Inv, NeverTooManyTasks
<1>2. CASE UNCHANGED <<waiter, applications>>
  <2>1. TypeOK'
    BY ZenonT(30), <1>a, <1>c, <1>d, <1>2 DEF TypeOK
  <2>2. NothingBefore' /\ SendNeverBlocks' /\ SuccessMeansOver'
    BY SMTT(30), <1>a, <1>d, <1>2 DEF Inv, NothingBefore, SendNeverBlocks, SuccessMeansOver
  <2> QED  BY SMTT(30), <1>1, <1>d, <2>1, <2>2 DEF Inv
<1>3. CASE \E outcome \in {"ok", "error"} :
             /\ c # Nobody /\ Report(c, outcome)
             /\ outcome = "ok" => AllTasksFinished(c, tasks'[c])
  <2> PICK outcome \in {"ok", "error"} :
             /\ c # Nobody /\ Report(c, outcome)
             /\ outcome = "ok" => AllTasksFinished(c, tasks'[c])
    BY SMTT(30), <1>3
  <2>1. c \in Stagings /\ AppOf[c] = AppOf[s] /\ waiter[c] = "waiting"
    BY SMTT(30), <1>c DEF Inv, SendNeverBlocks, TypeOK
  <2>2. waiter' = [waiter EXCEPT ![c] = outcome] /\ applications' = [applications EXCEPT ![AppOf[c]] = Nobody]
    BY SMTT(30) DEF Report
  <2> HIDE DEF c, state
  <2>3. TypeOK'
    <3>1. waiter' \in [Stagings -> {"idle", "waiting", "ok", "error", "dead"}]
      BY SMTT(30), <1>c, <2>1, <2>2 DEF TypeOK
    <3>2. applications' \in [Apps -> Stagings \cup {Nobody}]
      BY SMTT(30), <1>c, <2>1, <2>2 DEF TypeOK
    <3> QED  BY ZenonT(30), <1>a, <1>c, <1>d, <3>1, <3>2 DEF TypeOK
  <2>4. NothingBefore'
    BY ZenonT(30), <1>a, <1>c, <1>d, <2>1, <2>2 DEF Inv, NothingBefore, TypeOK
  <2>5. SendNeverBlocks'
    BY SMTT(30), <1>c, <2>1, <2>2 DEF Inv, SendNeverBlocks, TypeOK
  <2>6. SuccessMeansOver'
    <3> SUFFICES ASSUME NEW z \in Stagings, waiter'[z] = "ok"
                 PROVE  Len(real'[z]) = wanted'[z] /\ \A j \in DOMAIN real'[z] : real'[z][j] \in Ended
      BY SMTT(30) DEF SuccessMeansOver
    <3>1. CASE z # c
      BY ZenonT(30), <1>a, <1>c, <2>2, <3>1 DEF Inv, SuccessMeansOver, TypeOK
    <3>2. CASE z = c
      <4>1. left[c] = 0 /\ \A j \in DOMAIN tasks'[c] : tasks'[c][j].state \in Ended
        BY ZenonT(30), <1>c, <2>1, <2>2, <3>2 DEF AllTasksFinished, TypeOK
      <4>2. Len(real'[c]) = Len(tasks'[c]) /\ Len(tasks'[c]) = Len(tasks[c])
        BY ZenonT(30), <1>d, <2>1 DEF SameTasks
      <4>3. Len(tasks[c]) + left[c] = wanted[c] /\ Len(tasks[c]) \in Nat
        BY SMTT(30), <1>c, <2>1 DEF Inv, NeverTooManyTasks, TypeOK
      <4>4. DOMAIN real'[c] = DOMAIN tasks'[c]
        BY SMTT(30), <1>a, <1>c, <1>d, <2>1, <4>2 DEF TypeOK
      <4>5. \A j \in DOMAIN tasks'[c] : real'[c][j] = tasks'[c][j].state
        BY SMTT(30), <1>d, <2>1, <4>1 DEF EndsAreReal, IsReal, Ended, Terminal
      <4> QED  BY SMTT(30), <1>a, <3>2, <4>1, <4>2, <4>3, <4>4, <4>5
    <3> QED  BY SMTT(30), <3>1, <3>2
  <2> QED  BY SMTT(30), <1>1, <1>d, <2>3, <2>4, <2>5, <2>6 DEF Inv
<1> QED  BY SMTT(30), <1>a, <1>2, <1>3 DEF HandleUpdate, Handler

(* A stop leaves no context, and no waiter with a success it did not have. *)
LEMMA CrashInv == Inv /\ Crash => Inv'
<1> SUFFICES ASSUME Inv, Crash PROVE Inv'
  OBVIOUS
<1> USE DEF Crash, Inv
<1>1. TypeOK'
  BY SMTT(30) DEF TypeOK
<1>2. SameTasks' /\ NeverTooManyTasks'
  BY DEF SameTasks, NeverTooManyTasks
<1>3. NothingBefore' /\ SendNeverBlocks'
  BY SMTT(30) DEF NothingBefore, SendNeverBlocks, TypeOK
<1>4. EndsAreReal'
  BY SMTT(30) DEF EndsAreReal, IsReal
<1>5. SuccessMeansOver'
  BY DEF SuccessMeansOver, TypeOK
<1> QED  BY SMTT(30), <1>1, <1>2, <1>3, <1>4, <1>5

(* Every step keeps the invariant. *)
LEMMA NextInv == Inv /\ [Next]_vars => Inv'
<1> SUFFICES ASSUME Inv, [Next]_vars PROVE Inv'
  OBVIOUS
<1>1. CASE UNCHANGED vars
  BY SMTT(30), <1>1 DEF vars, Inv, TypeOK, SameTasks, NothingBefore, EndsAreReal, IsReal, SendNeverBlocks,
              NeverTooManyTasks, SuccessMeansOver
<1>2. ASSUME NEW s \in Stagings, NEW n \in Instances, NEW cs \in ConstraintSets,
             NEW mesos \in MesosStates, StageApplication(s, n, cs, mesos)
      PROVE  Inv'
  BY SMTT(30), <1>2, StageInv
<1>3. ASSUME NEW s \in Stagings, NEW h \in Hosts, ResourceOffer(s, h)
      PROVE  Inv'
  BY SMTT(30), <1>3, OfferInv
<1>4. ASSUME NEW s \in Stagings, NEW i \in DOMAIN real[s], TaskMoves(s, i)
      PROVE  Inv'
  BY SMTT(30), <1>4, MoveInv
<1>5. ASSUME NEW s \in Stagings, NEW i \in DOMAIN real[s], NEW acknowledged \in BOOLEAN,
             StatusUpdate(s, i, acknowledged)
      PROVE  Inv'
  BY SMTT(30), <1>5, UpdateInv
<1>6. CASE Crash
  BY SMTT(30), <1>6, CrashInv
<1> QED  BY SMTT(30), <1>1, <1>2, <1>3, <1>4, <1>5, <1>6 DEF Next

-----------------------------------------------------------------------------
(* The whole invariant of the run-once runner, however offers, updates,    *)
(* stagings and stops interleave.                                          *)
THEOREM Invariance == Spec => []Inv
<1>1. Init => Inv
  BY SMTT(30), InitInv
<1>2. Inv /\ [Next]_vars => Inv'
  BY SMTT(30), NextInv
<1> QED  BY <1>1, <1>2, PTL DEF Spec

(* The state of the runner keeps its types: a task in Mesos for each task  *)
(* of a context, and never a negative number of instances left.            *)
THEOREM RunnerTypes == Spec => []TypeOK
<1>1. Inv => TypeOK
  BY DEF Inv
<1> QED  BY <1>1, Invariance, PTL

(* A run-once application is reported successful only when every instance  *)
(* it asked for was launched and is over in Mesos without a failure.       *)
THEOREM SuccessIsNeverEarly == Spec => []SuccessMeansOver
<1>1. Inv => SuccessMeansOver
  BY SMTT(30) DEF Inv
<1> QED  BY <1>1, Invariance, PTL

(* The runner never launches more tasks than instances. *)
THEOREM TasksAreBounded == Spec => []NeverTooManyTasks
<1>1. Inv => NeverTooManyTasks
  BY SMTT(30) DEF Inv
<1> QED  BY <1>1, Invariance, PTL

(* The callback that sends an outcome under the runner's locks always      *)
(* finds its receiver.                                                     *)
THEOREM CallbackNeverHangs == Spec => []SendNeverBlocks
<1>1. Inv => SendNeverBlocks
  BY SMTT(30) DEF Inv
<1> QED  BY <1>1, Invariance, PTL

(* A task that has failed stays failed. *)
LEMMA FailedStays ==
  ASSUME Inv, [Next]_vars, NEW t \in Stagings, NEW i \in DOMAIN real[t], real[t][i] \in Failed
  PROVE  i \in DOMAIN real'[t] /\ real'[t][i] \in Failed
<1> USE DEF Inv, TypeOK
<1>1. CASE UNCHANGED real
  BY SMTT(30), <1>1
<1>2. ASSUME NEW s \in Stagings, NEW h \in Hosts, ResourceOffer(s, h)
      PROVE  i \in DOMAIN real'[t] /\ real'[t][i] \in Failed
  <2>1. PICK outcome \in {"STAGING", "NEVER"} : real' = [real EXCEPT ![s] = Append(@, outcome)]
    BY ZenonT(30), <1>2 DEF ResourceOffer
  <2>2. CASE t # s
    BY SMTT(30), <2>1, <2>2
  <2>3. CASE t = s
    <3>1. real'[t] = Append(real[t], outcome) /\ real[t] \in Seq(TaskStates \cup {"NEVER"})
      BY SMTT(30), <2>1, <2>3
    <3> QED  BY SMTT(30), <3>1 DEF TaskStates, Terminal
  <2> QED  BY SMTT(30), <2>2, <2>3
<1>3. ASSUME NEW s \in Stagings, NEW j \in DOMAIN real[s], TaskMoves(s, j)
      PROVE  i \in DOMAIN real'[t] /\ real'[t][i] \in Failed
  <2>1. PICK state \in Follows(real[s][j]) \cap Reports : real' = [real EXCEPT ![s][j] = state]
    BY ZenonT(30), <1>3 DEF TaskMoves
  <2>2. real[s][j] \notin Failed
    BY SMTT(30), <2>1 DEF Follows, Failed
  <2> QED  BY SMTT(30), <2>1, <2>2
<1> QED  BY SMTT(30), <1>1, <1>2, <1>3 DEF Next, vars, StageApplication, StatusUpdate, Crash

(* Only an update of a failed task makes a waiter hear of a failure. *)
LEMMA FailureHeard ==
  ASSUME Inv, [Next]_vars, NEW s \in Stagings, waiter'[s] = "error", waiter[s] # "error"
  PROVE  \E t \in Stagings : AppOf[t] = AppOf[s] /\
           \E i \in DOMAIN real[t] : real[t][i] \in Failed
<1> USE DEF Inv, TypeOK
<1>1. PICK t \in Stagings : \E i \in DOMAIN real[t], acknowledged \in BOOLEAN :
        StatusUpdate(t, i, acknowledged)
  BY ZenonT(30) DEF Next, vars, StageApplication, ResourceOffer, TaskMoves, Crash
<1> PICK i \in DOMAIN real[t], acknowledged \in BOOLEAN : StatusUpdate(t, i, acknowledged)
  BY <1>1
<1>2. Head(updates[t][i]) \in Failed /\ waiter' = [waiter EXCEPT ![applications[AppOf[t]]] = "error"]
      /\ applications[AppOf[t]] # Nobody /\ updates[t][i] # <<>>
  BY ZenonT(30), AppOfAssumption DEF StatusUpdate, HandleUpdate, Handler, Report
<1>3. s = applications[AppOf[t]]
  BY SMTT(30), <1>2
<1>4. AppOf[t] = AppOf[s]
  BY ZenonT(30), <1>2, <1>3, AppOfAssumption DEF SendNeverBlocks
<1>5. real[t][i] \in Failed
  <2>1. i \in DOMAIN tasks[t] /\ i \in DOMAIN updates[t]
    BY SMTT(30) DEF SameTasks
  <2>2. updates[t][i] \in Seq(TaskStates) /\ 1 \in DOMAIN updates[t][i]
        /\ Head(updates[t][i]) = updates[t][i][1]
    BY SMTT(30), <1>2, <2>1
  <2>3. IsReal(t, i, updates[t][i][1])
    BY ZenonT(30), <2>1, <2>2 DEF EndsAreReal
  <2>4. updates[t][i][1] \in Failed
    BY SMTT(30), <1>2, <2>2
  <2> QED  BY ZenonT(30), <2>3, <2>4 DEF IsReal, Failed, Terminal
<1> QED  BY SMTT(30), <1>4, <1>5

(* No application is reported as failed unless a task of it really failed, *)
(* however late and how often the updates come.                            *)
THEOREM FailureIsGenuine == Spec => []FailureMeansFailed
<1>1. Init => FailureMeansFailed
  BY SMTT(30) DEF Init, FailureMeansFailed
<1>2. Inv /\ FailureMeansFailed /\ [Next]_vars => FailureMeansFailed'
  <2> SUFFICES ASSUME Inv, FailureMeansFailed, [Next]_vars, NEW s \in Stagings, waiter'[s] = "error"
               PROVE  \E t \in Stagings : AppOf[t] = AppOf[s] /\
                        \E i \in DOMAIN real'[t] : real'[t][i] \in Failed
    BY SMTT(30) DEF FailureMeansFailed, Failed
  <2>1. \E t \in Stagings : AppOf[t] = AppOf[s] /\
          \E i \in DOMAIN real[t] : real[t][i] \in Failed
    BY FailureHeard DEF FailureMeansFailed, Failed
  <2> QED  BY SMTT(30), <2>1, FailedStays
<1> QED  BY <1>1, <1>2, Invariance, PTL DEF Spec
-----------------------------------------------------------------------------
(* Placement.                                                              *)

LEMMA CountFinite ==
  ASSUME NEW n \in Nat, NEW values, DOMAIN values = 1..n
  PROVE  /\ \A w : IsFiniteSet({i \in DOMAIN values : values[i] = w}) /\ CountOf(values, w) \in Nat
         /\ IsFiniteSet(Range(values)) /\ Cardinality(Range(values)) \in Nat
<1>1. IsFiniteSet(1..n)
  BY FS_Interval
<1>2. ASSUME NEW w PROVE IsFiniteSet({i \in DOMAIN values : values[i] = w}) /\ CountOf(values, w) \in Nat
  <2>1. IsFiniteSet({i \in DOMAIN values : values[i] = w})
    BY <1>1, FS_Subset
  <2> QED  BY <2>1, FS_CardinalityType DEF CountOf
<1>3. IsFiniteSet(Range(values))
  <2> DEFINE f == [i \in 1..n |-> values[i]]
  <2>1. f \in Surjection(1..n, Range(values))
    BY DEF Surjection, Range
  <2> QED  BY <1>1, <2>1, FS_Surjection
<1> QED  BY <1>2, <1>3, FS_CardinalityType

(* The values with one more at the end. *)
Longer(values, n, v) == [i \in 1..(n + 1) |-> IF i = n + 1 THEN v ELSE values[i]]

LEMMA LongerFacts ==
  ASSUME NEW n \in Nat, NEW values, DOMAIN values = 1..n, NEW v
  PROVE  /\ Range(Longer(values, n, v)) = Range(values) \cup {v}
         /\ Cardinality(Range(values)) <= Cardinality(Range(Longer(values, n, v)))
         /\ \A w : CountOf(Longer(values, n, v), w) = CountOf(values, w) + (IF v = w THEN 1 ELSE 0)
         /\ IsInjective(values) /\ v \notin Range(values) => IsInjective(Longer(values, n, v))
<1> DEFINE new == Longer(values, n, v)
<1>1. DOMAIN new = 1..(n + 1) /\ new[n + 1] = v /\ \A i \in 1..n : new[i] = values[i]
  BY DEF Longer
<1>2. \A i \in 1..(n + 1) : i = n + 1 \/ i \in 1..n
  OBVIOUS
<1>3. n + 1 \in 1..(n + 1) /\ n + 1 \notin 1..n /\ 1..n \subseteq 1..(n + 1)
  OBVIOUS
<1> HIDE DEF new
<1>4. Range(new) = Range(values) \cup {v}
  BY <1>1, <1>2, <1>3 DEF Range
<1>5. Cardinality(Range(values)) <= Cardinality(Range(new))
  <2>1. IsFiniteSet(Range(values))
    BY CountFinite
  <2>2. IsFiniteSet(Range(values) \cup {v})
    BY <2>1, FS_AddElement
  <2> QED  BY <1>4, <2>2, FS_Subset
<1>6. ASSUME NEW w PROVE CountOf(new, w) = CountOf(values, w) + (IF v = w THEN 1 ELSE 0)
  <2> DEFINE S == {i \in DOMAIN values : values[i] = w}
             T == {i \in DOMAIN new : new[i] = w}
  <2>1. IsFiniteSet(S) /\ CountOf(values, w) = Cardinality(S) /\ Cardinality(S) \in Nat
    BY ZenonT(30), CountFinite DEF CountOf
  <2>2. T = IF v = w THEN S \cup {n + 1} ELSE S
    BY <1>1, <1>2, <1>3
  <2>3. n + 1 \notin S
    BY <1>3
  <2>4. CountOf(new, w) = Cardinality(T)
    BY DEF CountOf
  <2> HIDE DEF S, T
  <2>5. Cardinality(S \cup {n + 1}) = Cardinality(S) + 1
    BY <2>1, <2>3, FS_AddElement
  <2> QED  BY <2>1, <2>2, <2>4, <2>5
<1>7. IsInjective(values) /\ v \notin Range(values) => IsInjective(new)
  BY <1>1, <1>2, <1>3 DEF IsInjective, Range
<1> QED  BY <1>4, <1>5, <1>6, <1>7 DEF new

LEMMA InjectiveCounts ==
  ASSUME NEW n \in Nat, NEW values, DOMAIN values = 1..n, IsInjective(values)
  PROVE  /\ \A w \in Range(values) : CountOf(values, w) = 1
         /\ \A w : w \notin Range(values) => CountOf(values, w) = 0
<1>1. ASSUME NEW w \in Range(values) PROVE CountOf(values, w) = 1
  <2>1. PICK i \in DOMAIN values : values[i] = w
    BY DEF Range
  <2>2. {j \in DOMAIN values : values[j] = w} = {i}
    BY <2>1 DEF IsInjective
  <2> QED  BY ZenonT(30), <2>2, FS_Singleton DEF CountOf
<1>2. ASSUME NEW w, w \notin Range(values) PROVE CountOf(values, w) = 0
  <2>1. {j \in DOMAIN values : values[j] = w} = {}
    BY <1>2 DEF Range
  <2> QED  BY <2>1, FS_EmptySet DEF CountOf
<1> QED  BY <1>1, <1>2

LEMMA FirstOf ==
  ASSUME NEW n \in Nat, NEW values, DOMAIN values = 1..n, n # 0
  PROVE  First(values) \in Range(values)
<1>1. 1 \in DOMAIN values /\ \A j \in DOMAIN values : 1 <= j
  OBVIOUS
<1>2. (CHOOSE i \in DOMAIN values : \A j \in DOMAIN values : i <= j) \in DOMAIN values
  BY <1>1
<1> QED  BY ZenonT(30), <1>2 DEF First, Range

LEMMA GroupByKeeps ==
  ASSUME NEW n \in Nat, NEW values, DOMAIN values = 1..n, NEW v, NEW c, c.arg \in Int,
         GroupBy(c, v, values),
         \A x, y \in Range(values) : CountOf(values, x) <= CountOf(values, y) + 1,
         Cardinality(Range(values)) < c.arg => IsInjective(values)
  PROVE  LET new == Longer(values, n, v) IN
         /\ \A x, y \in Range(new) : CountOf(new, x) <= CountOf(new, y) + 1
         /\ Cardinality(Range(new)) < c.arg => IsInjective(new)
<1> DEFINE new == Longer(values, n, v)
           Count(w) == CountOf(values, w)
<1>1. /\ Range(new) = Range(values) \cup {v}
      /\ Cardinality(Range(values)) <= Cardinality(Range(new))
      /\ \A w : CountOf(new, w) = Count(w) + (IF v = w THEN 1 ELSE 0)
      /\ IsInjective(values) /\ v \notin Range(values) => IsInjective(new)
  BY LongerFacts
<1>2. /\ \A w : Count(w) \in Nat
      /\ Cardinality(Range(values)) \in Nat /\ Cardinality(Range(new)) \in Nat
  <2>1. IsFiniteSet(Range(values)) /\ IsFiniteSet(Range(values) \cup {v})
    BY CountFinite, FS_AddElement
  <2> QED  BY ZenonT(30), <1>1, <2>1, CountFinite, FS_CardinalityType
<1> HIDE DEF new, Count
<1>3. CASE Cardinality(Range(values)) < c.arg
  <2>1. v \notin Range(values) /\ IsInjective(values)
    BY <1>3 DEF GroupBy
  <2>2. /\ \A w \in Range(values) : Count(w) = 1
        /\ \A w : w \notin Range(values) => Count(w) = 0
    BY <2>1, InjectiveCounts DEF Count
  <2>3. \A w \in Range(new) : CountOf(new, w) = 1
    BY <1>1, <2>1, <2>2
  <2>4. \A x, y \in Range(new) : CountOf(new, x) <= CountOf(new, y) + 1
    BY <2>3
  <2> QED  BY <1>1, <2>1, <2>4 DEF new
<1>4. CASE ~(Cardinality(Range(values)) < c.arg)
  <2>1. ~(Cardinality(Range(new)) < c.arg)
    BY <1>1, <1>2, <1>4
  <2>2. CASE n = 0
    <3>1. Range(values) = {}
      BY <2>2 DEF Range
    <3>2. \A x, y \in Range(new) : x = y
      BY <1>1, <3>1
    <3>3. \A x, y \in Range(new) : CountOf(new, x) <= CountOf(new, y) + 1
      <4>1. \A w : CountOf(new, w) \in Nat
        BY <1>1, <1>2
      <4> QED  BY <3>2, <4>1
    <3> QED  BY <2>1, <3>3 DEF new
  <2>3. CASE n # 0
    <3>1. 1 \in DOMAIN values
      BY <2>3
    <3>2. v \in Range(values) /\ \A x \in Range(values) : Count(v) <= Count(x)
      BY ZenonT(30), <1>4, <3>1 DEF GroupBy, Count
    <3>3. Range(new) = Range(values)
      BY <1>1, <3>2
    <3>4. ASSUME NEW x \in Range(new), NEW y \in Range(new)
          PROVE  CountOf(new, x) <= CountOf(new, y) + 1
      <4>1. Count(x) <= Count(y) + 1 /\ Count(v) <= Count(y)
        BY <3>2, <3>3, <3>4 DEF Count
      <4>2. Count(x) \in Nat /\ Count(y) \in Nat /\ Count(v) \in Nat
        BY <1>2
      <4>3. /\ CountOf(new, x) = Count(x) + (IF v = x THEN 1 ELSE 0)
            /\ CountOf(new, y) = Count(y) + (IF v = y THEN 1 ELSE 0)
        BY <1>1
      <4> QED  BY <4>1, <4>2, <4>3
    <3> QED  BY <2>1, <3>4 DEF new
  <2> QED  BY <2>2, <2>3
<1> QED  BY <1>3, <1>4

(* A task placed where it matches leaves its constraints respected. *)
LEMMA MatchKeeps ==
  ASSUME NEW n \in Nat, NEW values, DOMAIN values = 1..n, NEW v, NEW c,
         c.kind \in {"LIKE", "UNLIKE", "UNIQUE", "CLUSTER", "GROUP_BY"},
         c.kind = "GROUP_BY" => c.arg \in Int,
         Placing(c, values), Matches(c, v, values)
  PROVE  Placing(c, Longer(values, n, v))
<1> DEFINE new == Longer(values, n, v)
<1>1. Range(new) = Range(values) \cup {v}
  BY LongerFacts
<1> HIDE DEF new
<1>2. CASE c.kind = "LIKE"
  BY <1>1, <1>2 DEF Placing, Respected, Matches, Like, new
<1>3. CASE c.kind = "UNLIKE"
  BY <1>1, <1>3 DEF Placing, Respected, Matches, Unlike, new
<1>4. CASE c.kind = "UNIQUE"
  <2>1. IsInjective(values) /\ v \notin Range(values)
    BY <1>4 DEF Placing, Respected, Matches, Unique
  <2>2. IsInjective(new)
    BY <2>1, LongerFacts DEF new
  <2> QED  BY <1>4, <2>2 DEF Placing, Respected, new
<1>5. CASE c.kind = "CLUSTER"
  <2>1. /\ \A x, y \in Range(values) : x = y
        /\ c.arg # NoValue => Range(values) \subseteq {c.arg}
        /\ Cluster(c, v, values)
    BY <1>5 DEF Placing, Respected, Matches
  <2>2. CASE c.arg # NoValue
    <3>1. Range(new) \subseteq {c.arg}
      BY <1>1, <2>1, <2>2 DEF Cluster
    <3> QED  BY <1>5, <3>1 DEF Placing, Respected, new
  <2>3. CASE c.arg = NoValue
    <3>1. \A x \in Range(values) : x = v
      <4>1. CASE n = 0
        BY <4>1 DEF Range
      <4>2. CASE n # 0
        <5>1. First(values) \in Range(values) /\ 1 \in DOMAIN values
          BY <4>2, FirstOf
        <5> QED  BY <2>1, <2>3, <5>1 DEF Cluster
      <4> QED  BY <4>1, <4>2
    <3>2. \A x, y \in Range(new) : x = y
      BY <1>1, <3>1
    <3> QED  BY <1>5, <2>3, <3>2 DEF Placing, Respected, new
  <2> QED  BY <2>2, <2>3
<1>6. CASE c.kind = "GROUP_BY"
  <2>1. /\ \A x, y \in Range(values) : CountOf(values, x) <= CountOf(values, y) + 1
        /\ Cardinality(Range(values)) < c.arg => IsInjective(values)
        /\ GroupBy(c, v, values) /\ c.arg \in Int
    BY <1>6 DEF Placing, Respected, Matches
  <2>2. /\ \A x, y \in Range(new) : CountOf(new, x) <= CountOf(new, y) + 1
        /\ Cardinality(Range(new)) < c.arg => IsInjective(new)
    BY <2>1, GroupByKeeps DEF new
  <2> QED  BY <1>6, <2>2 DEF Placing, Respected, new
<1> QED  BY <1>2, <1>3, <1>4, <1>5, <1>6

LEMMA KindsKnown ==
  ASSUME TypeOK, NEW s \in Stagings, NEW c \in constraints[s]
  PROVE  /\ c.kind \in {"LIKE", "UNLIKE", "UNIQUE", "CLUSTER", "GROUP_BY"}
         /\ c.kind = "GROUP_BY" => c.arg \in Int
<1>1. constraints[s] \in ConstraintSets
  BY DEF TypeOK
<1> QED  BY <1>1, ConstraintsAssumption

LEMMA NothingPlaced ==
  ASSUME NEW values, DOMAIN values = {}, NEW c,
         c.kind \in {"LIKE", "UNLIKE", "UNIQUE", "CLUSTER", "GROUP_BY"}
  PROVE  Placing(c, values)
<1>1. Range(values) = {} /\ IsInjective(values)
  BY DEF Range, IsInjective
<1> QED  BY ZenonT(30), <1>1 DEF Placing, Respected

(* Every task of a staging counts, so the constraints see what is placed. *)
LEMMA OthersArePlaced ==
  ASSUME TypeOK, AllCount, NEW s \in Stagings, NEW c \in constraints[s]
  PROVE  OthersAttributes(OtherTasksAttributes(s), c.attr) = Placed(s, c.attr)
<1> DEFINE others == OtherTasksAttributes(s)
<1>1. \A i \in DOMAIN tasks[s] : /\ tasks[s][i].state # "STARTING"
                                 /\ Attributes[tasks[s][i].host][c.attr] # NoValue
  BY DEF AllCount
<1>2. others = [i \in DOMAIN tasks[s] |-> Attributes[tasks[s][i].host]]
  BY <1>1 DEF OtherTasksAttributes
<1> HIDE DEF others
<1>3. {i \in DOMAIN others : others[i][c.attr] # NoValue} = DOMAIN tasks[s]
  BY <1>1, <1>2
<1>4. OthersAttributes(others, c.attr) = [i \in DOMAIN tasks[s] |-> others[i][c.attr]]
  BY <1>3 DEF OthersAttributes
<1>5. [i \in DOMAIN tasks[s] |-> others[i][c.attr]] = Placed(s, c.attr)
  BY <1>2 DEF Placed
<1> QED  BY <1>4, <1>5 DEF others

(* What becomes of the tasks of one staging: they keep their hosts, they   *)
(* are none, or there is one more.                                         *)
LEMMA SamePlaces ==
  ASSUME PlacementInv, NEW t \in Stagings, constraints'[t] = constraints[t],
         DOMAIN tasks'[t] = DOMAIN tasks[t],
         \A i \in DOMAIN tasks[t] : tasks'[t][i].host = tasks[t][i].host
  PROVE  /\ \A c \in constraints'[t] : Placing(c, Placed(t, c.attr)')
         /\ \A i \in DOMAIN tasks'[t] : \A c \in constraints'[t] :
              Attributes[tasks'[t][i].host][c.attr] # NoValue
<1>1. \A attr : [i \in DOMAIN tasks'[t] |-> Attributes[tasks'[t][i].host][attr]] = Placed(t, attr)
  BY ZenonT(30) DEF Placed
<1>2. \A c \in constraints'[t] : Placed(t, c.attr)' = Placed(t, c.attr)
  BY ZenonT(30), <1>1 DEF Placed
<1> QED  BY <1>2 DEF PlacementInv, AllCount

LEMMA OfferPlaces ==
  ASSUME Inv, PlacementInv, NEW s \in Stagings, NEW h \in Hosts, ResourceOffer(s, h)
  PROVE  /\ \A c \in constraints'[s] : Placing(c, Placed(s, c.attr)')
         /\ \A i \in DOMAIN tasks'[s] :
              /\ tasks'[s][i].state # "STARTING"
              /\ \A k \in DOMAIN updates'[s][i] : updates'[s][i][k] # "STARTING"
              /\ \A c \in constraints'[s] : Attributes[tasks'[s][i].host][c.attr] # NoValue
<1> DEFINE n == Len(tasks[s])
           task == [host |-> h, state |-> "STAGING"]
<1>1. /\ AllMatch(constraints[s], Attributes[h], OtherTasksAttributes(s))
      /\ tasks' = [tasks EXCEPT ![s] = Append(@, task)]
      /\ updates' = [updates EXCEPT ![s] = Append(@, <<>>)]
      /\ constraints' = constraints
  BY DEF ResourceOffer, OfferMatches
<1>2. TypeOK /\ Len(updates[s]) = n
  BY DEF Inv, SameTasks
<1>3. /\ tasks[s] \in Seq(Task) /\ updates[s] \in Seq(Seq(TaskStates)) /\ task \in Task /\ n \in Nat
      /\ DOMAIN tasks[s] = 1..n /\ DOMAIN updates[s] = 1..n
  <2>1. task \in Task
    BY DEF Task, TaskStates
  <2>2. tasks[s] \in Seq(Task) /\ updates[s] \in Seq(Seq(TaskStates))
    BY <1>2 DEF TypeOK
  <2> QED  BY <1>2, <2>1, <2>2
<1>4. tasks'[s] = Append(tasks[s], task) /\ updates'[s] = Append(updates[s], <<>>)
  BY <1>1, <1>2 DEF TypeOK
<1>5. /\ DOMAIN tasks'[s] = 1..(n + 1) /\ tasks'[s][n + 1] = task
      /\ \A i \in 1..n : tasks'[s][i] = tasks[s][i]
  BY <1>3, <1>4
<1>6. updates'[s][n + 1] = <<>> /\ \A i \in 1..n : updates'[s][i] = updates[s][i]
  BY <1>2, <1>3, <1>4
<1>7. \A i \in 1..(n + 1) : i = n + 1 \/ i \in 1..n
  BY <1>3
<1> HIDE DEF n
<1>8. \A c \in constraints[s] : /\ Attributes[h][c.attr] # NoValue
                                /\ Matches(c, Attributes[h][c.attr], Placed(s, c.attr))
  BY ZenonT(30), <1>1, <1>2, OthersArePlaced DEF AllMatch, PlacementInv
<1>9. ASSUME NEW c \in constraints[s] PROVE Placing(c, Placed(s, c.attr)')
  <2> DEFINE values == Placed(s, c.attr)
             v == Attributes[h][c.attr]
  <2>1. DOMAIN values = 1..n
    BY <1>3 DEF Placed
  <2>2. Placing(c, values) /\ Matches(c, v, values)
    BY ZenonT(30), <1>8, <1>9 DEF PlacementInv
  <2>3. Placing(c, Longer(values, n, v))
    <3>1. /\ c.kind \in {"LIKE", "UNLIKE", "UNIQUE", "CLUSTER", "GROUP_BY"}
          /\ c.kind = "GROUP_BY" => c.arg \in Int
      BY ZenonT(30), <1>2, <1>9, KindsKnown
    <3> HIDE DEF values, v
    <3> QED  BY <1>3, <2>1, <2>2, <3>1, MatchKeeps
  <2>4. Longer(values, n, v)
        = [i \in DOMAIN tasks'[s] |-> Attributes[tasks'[s][i].host][c.attr]]
    BY <1>3, <1>5, <1>7 DEF Longer, Placed
  <2> QED  BY ZenonT(30), <2>3, <2>4 DEF Placed
<1>10. ASSUME NEW i \in 1..(n + 1)
       PROVE  /\ tasks'[s][i].state # "STARTING"
              /\ \A k \in DOMAIN updates'[s][i] : updates'[s][i][k] # "STARTING"
              /\ \A c \in constraints[s] : Attributes[tasks'[s][i].host][c.attr] # NoValue
  <2>1. CASE i = n + 1
    <3>1. task.host = h /\ task.state = "STAGING" /\ DOMAIN <<>> = {}
      OBVIOUS
    <3> QED  BY ZenonT(30), <1>5, <1>6, <1>8, <2>1, <3>1
  <2>2. CASE i \in 1..n
    <3>1. tasks'[s][i] = tasks[s][i] /\ updates'[s][i] = updates[s][i] /\ i \in DOMAIN tasks[s]
      BY ZenonT(30), <1>3, <1>5, <1>6, <2>2
    <3> QED  BY ZenonT(30), <3>1 DEF PlacementInv, AllCount
  <2> QED  BY ZenonT(30), <1>7, <2>1, <2>2
<1> QED  BY ZenonT(30), <1>1, <1>5, <1>9, <1>10

LEMMA PlacementStep ==
  ASSUME NeverStarting, Inv, PlacementInv, [Next]_vars
  PROVE  PlacementInv'
<1> DEFINE Good(t) ==
             /\ \A c \in constraints'[t] : Placing(c, Placed(t, c.attr)')
             /\ \A i \in DOMAIN tasks'[t] :
                  /\ tasks'[t][i].state # "STARTING"
                  /\ \A k \in DOMAIN updates'[t][i] : updates'[t][i][k] # "STARTING"
                  /\ \A c \in constraints'[t] : Attributes[tasks'[t][i].host][c.attr] # NoValue
<1> SUFFICES ASSUME NEW t \in Stagings PROVE Good(t)
  BY ZenonT(30) DEF PlacementInv, AllCount
<1>0. /\ TypeOK /\ tasks[t] \in Seq(Task) /\ updates[t] \in Seq(Seq(TaskStates))
      /\ Len(updates[t]) = Len(tasks[t]) /\ DOMAIN updates[t] = DOMAIN tasks[t]
      /\ DOMAIN tasks[t] = 1..Len(tasks[t])
  BY DEF Inv, TypeOK, SameTasks
<1>1. \A i \in DOMAIN tasks[t] : /\ tasks[t][i].state # "STARTING"
                                 /\ \A k \in DOMAIN updates[t][i] : updates[t][i][k] # "STARTING"
  BY ZenonT(30) DEF PlacementInv, AllCount
<1>2. ASSUME tasks'[t] = tasks[t], updates'[t] = updates[t], constraints'[t] = constraints[t]
      PROVE  Good(t)
  BY ZenonT(30), <1>1, <1>2, SamePlaces
<1>3. ASSUME NEW s \in Stagings, NEW m \in Instances, NEW cs \in ConstraintSets,
             NEW mesos \in MesosStates, StageApplication(s, m, cs, mesos)
      PROVE  Good(t)
  <2>1. /\ tasks' = tasks /\ updates' = updates /\ waiter[s] = "idle"
        /\ constraints' = [constraints EXCEPT ![s] = cs]
    BY ZenonT(30), <1>3 DEF StageApplication
  <2>2. CASE t # s
    BY ZenonT(30), <1>0, <1>2, <2>1, <2>2 DEF TypeOK
  <2>3. CASE t = s
    <3>1. tasks[t] = <<>> /\ constraints'[t] = cs
      BY ZenonT(30), <1>0, <2>1, <2>3 DEF Inv, NothingBefore, TypeOK
    <3>2. DOMAIN tasks'[t] = {} /\ \A attr : DOMAIN Placed(t, attr)' = {}
      BY <2>1, <3>1 DEF Placed
    <3>3. \A c \in cs : c.kind \in {"LIKE", "UNLIKE", "UNIQUE", "CLUSTER", "GROUP_BY"}
      BY ConstraintsAssumption
    <3>4. \A c \in cs : Placing(c, Placed(t, c.attr)')
      <4>1. \A c \in cs : DOMAIN Placed(t, c.attr)' = {}
        BY <2>1, <3>1 DEF Placed
      <4> QED  BY <3>3, <4>1, NothingPlaced
    <3> QED  BY ZenonT(30), <3>1, <3>2, <3>4
  <2> QED  BY ZenonT(30), <2>2, <2>3
<1>4. ASSUME NEW s \in Stagings, NEW h \in Hosts, ResourceOffer(s, h)
      PROVE  Good(t)
  <2>1. CASE t # s
    BY ZenonT(30), <1>0, <1>2, <1>4, <2>1 DEF TypeOK, ResourceOffer
  <2>2. CASE t = s
    BY ZenonT(30), <1>4, <2>2, OfferPlaces
  <2> QED  BY ZenonT(30), <2>1, <2>2
<1>5. ASSUME NEW s \in Stagings, NEW i \in DOMAIN real[s], TaskMoves(s, i)
      PROVE  Good(t)
  <2>1. PICK state \in Reports : updates' = [updates EXCEPT ![s][i] = Append(@, state)]
    BY ZenonT(30), <1>5 DEF TaskMoves
  <2>2. state # "STARTING" /\ tasks' = tasks /\ constraints' = constraints
    BY <1>5 DEF TaskMoves, NeverStarting
  <2>3. ASSUME NEW j \in DOMAIN tasks[t], NEW k \in DOMAIN updates'[t][j]
        PROVE  updates'[t][j][k] # "STARTING"
    <3>1. updates[t][j] \in Seq(TaskStates) /\ state \in TaskStates
      BY <1>0, ReportsAssumption
    <3>2. updates'[t][j] = updates[t][j] \/ updates'[t][j] = Append(updates[t][j], state)
      BY ZenonT(30), <1>0, <2>1 DEF TypeOK
    <3>3. CASE updates'[t][j] = updates[t][j]
      BY ZenonT(30), <1>1, <2>3, <3>3
    <3>4. CASE updates'[t][j] = Append(updates[t][j], state)
      <4>1. \/ k \in DOMAIN updates[t][j] /\ updates'[t][j][k] = updates[t][j][k]
            \/ updates'[t][j][k] = state
        BY <2>3, <3>1, <3>4
      <4> QED  BY ZenonT(30), <1>1, <2>2, <4>1
    <3> QED  BY ZenonT(30), <3>2, <3>3, <3>4
  <2> QED  BY <1>1, <2>2, <2>3, SamePlaces
<1>6. ASSUME NEW s \in Stagings, NEW i \in DOMAIN real[s], NEW acknowledged \in BOOLEAN,
             StatusUpdate(s, i, acknowledged)
      PROVE  Good(t)
  <2> DEFINE state == Head(updates[s][i])
  <2>1. /\ updates' = updates \/ updates' = [updates EXCEPT ![s][i] = Tail(@)]
        /\ tasks' = tasks \/ tasks' = [tasks EXCEPT ![s][i].state = state]
        /\ constraints' = constraints /\ updates[s][i] # <<>>
    BY ZenonT(30), <1>6 DEF StatusUpdate, Acknowledge, HandleUpdate, UpdateTaskState
  <2>2. state # "STARTING"
    <3>1. i \in DOMAIN tasks[s] /\ i \in DOMAIN updates[s] /\ updates[s] \in Seq(Seq(TaskStates))
      BY <1>0 DEF Inv, TypeOK, SameTasks
    <3>2. updates[s][i] \in Seq(TaskStates) /\ 1 \in DOMAIN updates[s][i] /\ state = updates[s][i][1]
      BY <2>1, <3>1
    <3> QED  BY ZenonT(30), <3>1, <3>2 DEF PlacementInv, AllCount
  <2> HIDE DEF state
  <2>3. DOMAIN tasks'[t] = DOMAIN tasks[t]
    BY <1>0, <2>1 DEF TypeOK
  <2>4. ASSUME NEW j \in DOMAIN tasks[t]
        PROVE  tasks'[t][j].host = tasks[t][j].host /\ tasks'[t][j].state # "STARTING"
    <3>1. tasks[t][j] \in Task
      BY <1>0, <2>4
    <3>2. tasks'[t][j] = tasks[t][j] \/ tasks'[t][j] = [tasks[t][j] EXCEPT !.state = state]
      <4>1. tasks \in [Stagings -> Seq(Task)]
        BY <1>0 DEF TypeOK
      <4>2. CASE tasks' = tasks
        BY <4>2
      <4>3. CASE tasks' = [tasks EXCEPT ![s][i].state = state] /\ t # s
        BY <4>1, <4>3
      <4>4. CASE tasks' = [tasks EXCEPT ![s][i].state = state] /\ t = s
        <5>1. tasks'[t] = [tasks[t] EXCEPT ![i].state = state]
          BY <4>1, <4>4
        <5> QED  BY <5>1
      <4> QED  BY <2>1, <4>2, <4>3, <4>4
    <3> QED  BY <1>1, <2>2, <3>1, <3>2 DEF Task
  <2>5. ASSUME NEW j \in DOMAIN tasks[t], NEW k \in DOMAIN updates'[t][j]
        PROVE  updates'[t][j][k] # "STARTING"
    <3>1. updates[t][j] \in Seq(TaskStates)
      BY <1>0
    <3>2. \/ updates'[t][j] = updates[t][j]
          \/ updates[t][j] # <<>> /\ updates'[t][j] = Tail(updates[t][j])
      <4>1. updates \in [Stagings -> Seq(Seq(TaskStates))]
        BY <1>0 DEF TypeOK
      <4>2. CASE updates' = updates
        BY <4>2
      <4>3. CASE updates' = [updates EXCEPT ![s][i] = Tail(@)] /\ t # s
        BY <4>1, <4>3
      <4>4. CASE updates' = [updates EXCEPT ![s][i] = Tail(@)] /\ t = s
        <5>1. updates'[t] = [updates[t] EXCEPT ![i] = Tail(@)]
          BY <4>1, <4>4
        <5> QED  BY <1>0, <2>1, <4>4, <5>1
      <4> QED  BY <2>1, <4>2, <4>3, <4>4
    <3>3. CASE updates'[t][j] = updates[t][j]
      BY <1>1, <2>5, <3>3
    <3>4. CASE updates[t][j] # <<>> /\ updates'[t][j] = Tail(updates[t][j])
      <4>1. updates'[t][j][k] = updates[t][j][k + 1] /\ k + 1 \in DOMAIN updates[t][j]
        BY <2>5, <3>1, <3>4
      <4> QED  BY <1>1, <4>1
    <3> QED  BY <3>2, <3>3, <3>4
  <2> QED  BY <2>1, <2>3, <2>4, <2>5, SamePlaces
<1>7. CASE Crash \/ UNCHANGED vars
  BY <1>2, <1>7 DEF Crash, vars
<1> QED  BY ZenonT(30), <1>3, <1>4, <1>5, <1>6, <1>7 DEF Next

(* The tasks of an application satisfy its constraints together, whatever  *)
(* the order of offers and updates, for any number of hosts and instances: *)
(* as long as executors do not report that tasks are starting.             *)
THEOREM PlacementRespected ==
  ASSUME NeverStarting
  PROVE  Spec => []ConstraintsRespected
<1>1. Init => PlacementInv
  BY DEF Init, PlacementInv, AllCount
<1>2. Inv /\ PlacementInv /\ [Next]_vars => PlacementInv'
  BY PlacementStep
<1>3. PlacementInv => ConstraintsRespected
  BY DEF PlacementInv, ConstraintsRespected, Placing
<1> QED  BY <1>1, <1>2, <1>3, Invariance, PTL DEF Spec
=============================================================================
