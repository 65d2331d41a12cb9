-------------------------- MODULE StackStoreProofs -------------------------
(* Proofs about the stacks table of StackStore, for any names, contents    *)
(* and requests.                                                           *)
EXTENDS StackStore, SequenceTheorems, TLAPS

(* Every table is a function on names to rows. *)
LEMMA TableTypes ==
  ASSUME TableOK
  PROVE  /\ Stored \subseteq Names
         /\ stacks = [m \in Stored |-> stacks[m]]
         /\ \A m \in Stored : stacks[m] \in Row /\ stacks[m].parent \in Names \cup {NoName}
BY DEF TableOK, Tables, Stored, Row

(* Storing a new stack below one that is there. *)
LEMMA StoreInv ==
  ASSUME Inv, NEW n \in Names, NEW parent \in Names \cup {NoName}, NEW apps \in Contents,
         StoreStack(n, parent, apps)
  PROVE  Inv'
<1> DEFINE row == [parent |-> parent, apps |-> apps]
<1>a. /\ frames = <<>> /\ frames' = frames /\ n \notin Stored
      /\ parent = NoName \/ parent \in Stored
      /\ stacks' = [m \in Stored \cup {n} |-> IF m = n THEN row ELSE stacks[m]]
  BY DEF StoreStack, Locked
<1>b. /\ Stored \subseteq Names
      /\ \A m \in Stored : stacks[m] \in Row /\ stacks[m].parent \in Names \cup {NoName}
  BY TableTypes DEF Inv
<1>c. row \in Row /\ row.parent = parent
  BY DEF Row
<1> HIDE DEF row
<1>d. /\ Stored' = Stored \cup {n} /\ stacks'[n] = row
      /\ \A m \in Stored : stacks'[m] = stacks[m]
  BY SMTT(30), <1>a DEF Stored
<1>1. TableOK'
  <2>1. stacks' \in [Stored \cup {n} -> Row]
    BY SMTT(30), <1>a, <1>b, <1>c
  <2>2. Stored \cup {n} \in SUBSET Names
    BY <1>b
  <2>3. stacks' \in Tables
    BY SMTT(30), <2>1, <2>2 DEF Tables
  <2> QED  BY SMTT(30), <1>a, <2>3 DEF TableOK, Inv
<1>2. CallsCover'
  BY <1>a DEF CallsCover
<1>3. ParentsExist'
  BY SMTT(30), <1>a, <1>c, <1>d DEF ParentsExist, Inv
<1>4. NoCycles'
  <2> SUFFICES ASSUME NEW S \in SUBSET Stored', S # {}
               PROVE  \E m \in S : stacks'[m].parent \notin S
    BY DEF NoCycles
  <2>1. CASE S \subseteq {n}
    BY SMTT(30), <1>a, <1>b, <1>c, <1>d, <2>1, NamesAssumption
  <2>2. CASE ~(S \subseteq {n})
    <3>1. S \ {n} \in SUBSET Stored /\ S \ {n} # {}
      BY <1>d, <2>2
    <3>2. PICK m \in S \ {n} : stacks[m].parent \notin S \ {n}
      BY ZenonT(30), <3>1 DEF Inv, NoCycles
    <3>3. m \in Stored /\ stacks[m].parent # n
      <4>1. m \in Stored
        BY <3>1
      <4>2. stacks[m].parent \in Stored \cup {NoName}
        BY <4>1 DEF Inv, ParentsExist
      <4> QED  BY SMTT(30), <1>a, <4>1, <4>2, NamesAssumption
    <3> QED  BY SMTT(30), <1>d, <3>2, <3>3
  <2> QED  BY SMTT(30), <2>1, <2>2
<1> QED  BY SMTT(30), <1>1, <1>2, <1>3, <1>4 DEF Inv

(* Deleting a row that no other names as its parent. *)
LEMMA DeleteKeeps ==
  ASSUME TableOK, ParentsExist, NoCycles, NEW n \in Names, Children(n) = {}, DeleteRow(n)
  PROVE  /\ stacks' \in Tables /\ ParentsExist' /\ NoCycles'
         /\ \A m : Children(m)' \subseteq Children(m) \ {n}
<1>a. stacks' = [m \in Stored \ {n} |-> stacks[m]]
  BY DEF DeleteRow
<1>b. /\ Stored \subseteq Names
      /\ \A m \in Stored : stacks[m] \in Row /\ stacks[m].parent \in Names \cup {NoName}
  BY TableTypes
<1>c. Stored' = Stored \ {n} /\ \A m \in Stored' : stacks'[m] = stacks[m]
  BY <1>a DEF Stored
<1>1. stacks' \in Tables
  <2>1. stacks' \in [Stored \ {n} -> Row] /\ Stored \ {n} \in SUBSET Names
    BY SMTT(30), <1>a, <1>b
  <2> QED  BY <2>1 DEF Tables
<1>2. ParentsExist'
  BY <1>c DEF ParentsExist, Children
<1>3. NoCycles'
  BY <1>c DEF NoCycles
<1>4. \A m : Children(m)' \subseteq Children(m) \ {n}
  BY <1>c DEF Children
<1> QED  BY SMTT(30), <1>1, <1>2, <1>3, <1>4

(* Every step keeps the table resolvable. *)
LEMMA NextInv ==
  ASSUME QueriesSucceed
  PROVE  Inv /\ [Next]_vars => Inv'
<1> SUFFICES ASSUME Inv, [Next]_vars PROVE Inv'
  OBVIOUS
<1>q. \A n : ChildrenRead(n) = {Children(n)}
  BY DEF QueriesSucceed, ChildrenRead
<1>t. frames \in Seq(Frame) /\ stacks \in Tables /\ Stored \subseteq Names
  BY TableTypes DEF Inv, TableOK
<1>k. ASSUME frames # <<>>
      PROVE  /\ Len(frames) \in Nat \ {0} /\ Len(frames) \in DOMAIN frames
             /\ Top \in Frame /\ Top.name \in Names /\ Top.left \subseteq Names
             /\ Children(Top.name) \subseteq Top.left
  <2>1. Len(frames) \in Nat \ {0} /\ Len(frames) \in DOMAIN frames
    BY SMTT(30), <1>k, <1>t
  <2>2. Top \in Frame
    BY SMTT(30), <2>1, <1>t DEF Top
  <2>3. Children(Top.name) \subseteq Top.left
    BY <2>1 DEF Inv, CallsCover, Top
  <2> QED  BY SMTT(30), <2>1, <2>2, <2>3 DEF Frame
<1>e. ASSUME UNCHANGED stacks, frames' = <<>> \/ UNCHANGED frames
      PROVE  Inv'
  <2>1. ParentsExist' /\ NoCycles' /\ \A m : Children(m)' = Children(m)
    BY <1>e DEF Inv, ParentsExist, NoCycles, Stored, Children
  <2>2. TableOK'
    <3>1. <<>> \in Seq(Frame)
      OBVIOUS
    <3> QED  BY ZenonT(30), <1>e, <1>t, <3>1 DEF TableOK
  <2>3. CallsCover'
    BY SMTT(30), <1>e, <2>1 DEF Inv, CallsCover
  <2> QED  BY SMTT(30), <2>1, <2>2, <2>3 DEF Inv
<1>1. ASSUME NEW n \in Names, NEW parent \in Names \cup {NoName}, NEW apps \in Contents,
             StoreStack(n, parent, apps)
      PROVE  Inv'
  BY <1>1, StoreInv
<1>2. ASSUME NEW n \in Names, RemoveStack(n)
      PROVE  Inv'
  <2>1. Children(n) = {} /\ DeleteRow(n) /\ frames = <<>> /\ frames' = frames
    BY SMTT(30), <1>2, <1>q DEF RemoveStack, Locked
  <2>2. stacks' \in Tables /\ ParentsExist' /\ NoCycles'
    BY SMTT(30), <2>1, DeleteKeeps DEF Inv
  <2>3. CallsCover' /\ TableOK'
    BY SMTT(30), <2>1, <2>2, <1>t DEF CallsCover, TableOK
  <2> QED  BY SMTT(30), <2>2, <2>3 DEF Inv
<1>3. ASSUME NEW n \in Names, ForceRemoveStack(n)
      PROVE  Inv'
  <2>1. frames' = <<Call(n, Children(n))>> /\ UNCHANGED stacks
    BY SMTT(30), <1>3, <1>q DEF ForceRemoveStack
  <2>2. Children(n) \subseteq Names
    BY SMTT(30), <1>t DEF Children
  <2>3. Call(n, Children(n)) \in Frame /\ Call(n, Children(n)).name = n
        /\ Call(n, Children(n)).left = Children(n)
    BY SMTT(30), <2>2 DEF Call, Frame
  <2>4. TableOK'
    BY SMTT(30), <2>1, <2>3, <1>t DEF TableOK
  <2>5. ParentsExist' /\ NoCycles' /\ \A m : Children(m)' = Children(m)
    BY SMTT(30), <2>1 DEF Inv, ParentsExist, NoCycles, Stored, Children
  <2>6. CallsCover'
    BY SMTT(30), <2>1, <2>3, <2>5 DEF CallsCover
  <2> QED  BY SMTT(30), <2>4, <2>5, <2>6 DEF Inv
<1>4. CASE RemoveChild
  <2> DEFINE k == Len(frames)
  <2>1. frames # <<>>
    BY SMTT(30), <1>4 DEF RemoveChild, Locked
  <2>2. PICK c \in Top.left :
          frames' = Append([frames EXCEPT ![k].left = @ \ {c}], Call(c, Children(c)))
    BY ZenonT(30), <1>4, <1>q DEF RemoveChild
  <2>3. UNCHANGED stacks
    BY SMTT(30), <1>4 DEF RemoveChild
  <2>4. c \in Names /\ Children(c) \subseteq Names /\ k \in Nat \ {0} /\ k \in DOMAIN frames
    BY SMTT(30), <2>1, <1>k, <1>t DEF Children
  <2> DEFINE top == [Top EXCEPT !.left = @ \ {c}]
             call == Call(c, Children(c))
             fs == [frames EXCEPT ![k] = top]
  <2>5. call \in Frame /\ call.name = c /\ call.left = Children(c)
    BY <2>4 DEF Call, Frame
  <2>6. top \in Frame /\ top.name = Top.name /\ top.left = Top.left \ {c}
    BY SMTT(30), <2>1, <1>k DEF Frame
  <2>7. frames' = Append(fs, call)
    BY SMTT(30), <2>2, <2>4, <1>t DEF Top
  <2> HIDE DEF top, call
  <2>8. fs \in Seq(Frame) /\ Len(fs) = k /\ \A i \in 1..k : fs[i] = IF i = k THEN top ELSE frames[i]
    BY SMTT(30), <2>4, <2>6, <1>t, ExceptSeq
  <2> HIDE DEF fs
  <2>9. /\ frames' \in Seq(Frame) /\ Len(frames') = k + 1 /\ frames'[k + 1] = call
        /\ \A i \in 1..k : frames'[i] = IF i = k THEN top ELSE frames[i]
    BY SMTT(30), <2>5, <2>7, <2>8
  <2>10. ParentsExist' /\ NoCycles' /\ \A m : Children(m)' = Children(m)
    BY <2>3 DEF Inv, ParentsExist, NoCycles, Stored, Children
  <2>11. TableOK'
    BY SMTT(30), <2>3, <2>9, <1>t DEF TableOK
  <2>12. CallsCover'
    <3> SUFFICES ASSUME NEW i \in DOMAIN frames'
                 PROVE  Children(frames'[i].name) \subseteq
                          frames'[i].left \cup (IF i = Len(frames') THEN {} ELSE {frames'[i + 1].name})
      BY SMTT(30), <2>10 DEF CallsCover
    <3>1. i \in 1..(k + 1)
      BY SMTT(30), <2>9
    <3>2. CASE i = k + 1
      BY SMTT(30), <2>5, <2>9, <3>2
    <3>3. CASE i = k
      BY SMTT(30), <2>1, <2>4, <2>5, <2>6, <2>9, <3>3, <1>k
    <3>4. CASE i \in 1..(k - 1)
      <4>1. i \in DOMAIN frames /\ i # k /\ i + 1 \in 1..k /\ i # k + 1 /\ i \in 1..k
        BY SMTT(30), <2>4, <3>4, <1>t
      <4>2. Children(frames[i].name) \subseteq frames[i].left \cup {frames[i + 1].name}
        BY SMTT(30), <4>1 DEF Inv, CallsCover
      <4>3. frames'[i] = frames[i] /\ frames'[i + 1].name = frames[i + 1].name
        BY SMTT(30), <2>6, <2>9, <4>1 DEF Top
      <4> QED  BY SMTT(30), <2>9, <4>1, <4>2, <4>3
    <3> QED  BY SMTT(30), <2>4, <3>1, <3>2, <3>3, <3>4
  <2> QED  BY SMTT(30), <2>10, <2>11, <2>12 DEF Inv
<1>5. CASE RemoveSelf
  <2> DEFINE k == Len(frames)
             n == Top.name
  <2>1. frames # <<>> /\ Top.left = {} /\ DeleteRow(n) /\ frames' = SubSeq(frames, 1, k - 1)
    BY SMTT(30), <1>5 DEF RemoveSelf, Locked
  <2>2. n \in Names /\ Children(n) = {} /\ k \in Nat \ {0}
    BY SMTT(30), <2>1, <1>k
  <2> HIDE DEF n
  <2>3. stacks' \in Tables /\ ParentsExist' /\ NoCycles'
        /\ \A m : Children(m)' \subseteq Children(m) \ {n}
    BY SMTT(30), <2>1, <2>2, DeleteKeeps DEF Inv
  <2>4. frames' \in Seq(Frame) /\ Len(frames') = k - 1 /\ \A i \in 1..(k - 1) : frames'[i] = frames[i]
    <3>1. k - 1 \in Nat /\ \A i \in 1..(k - 1) : i \in 1..k
      BY SMTT(30), <2>2
    <3>2. \A i \in 1..(k - 1) : frames[i] \in Frame
      BY SMTT(30), <3>1, <1>t
    <3> DEFINE z == k - 1
               fs == SubSeq(frames, 1, z)
    <3>3. z \in Nat /\ \A i \in 1..z : frames[i] \in Frame
      BY SMTT(30), <3>1, <3>2
    <3> HIDE DEF z
    <3>4. fs \in Seq(Frame) /\ Len(fs) = (IF 1 <= z THEN z - 1 + 1 ELSE 0)
          /\ \A i \in 1..(z - 1 + 1) : fs[i] = frames[1 + i - 1]
      BY SMTT(30), <3>3, SubSeqProperties
    <3>5. fs \in Seq(Frame) /\ Len(fs) = z /\ \A i \in 1..z : fs[i] = frames[i]
      BY SMTT(30), <3>3, <3>4
    <3> QED  BY SMTT(30), <2>1, <3>5 DEF z
  <2>5. TableOK'
    BY SMTT(30), <2>3, <2>4 DEF TableOK
  <2>6. CallsCover'
    <3> SUFFICES ASSUME NEW i \in DOMAIN frames'
                 PROVE  Children(frames[i].name)' \subseteq
                          frames'[i].left \cup (IF i = Len(frames') THEN {} ELSE {frames'[i + 1].name})
      BY DEF CallsCover
    <3>1. i \in 1..(k - 1) /\ i \in DOMAIN frames /\ i # k
      BY SMTT(30), <2>2, <2>4, <1>t
    <3>2. Children(frames[i].name) \subseteq frames[i].left \cup {frames[i + 1].name}
      BY SMTT(30), <3>1 DEF Inv, CallsCover
    <3>3. frames'[i] = frames[i]
      BY SMTT(30), <2>4, <3>1
    <3>4. Children(frames[i].name)' \subseteq Children(frames[i].name) \ {n}
      BY SMTT(30), <2>3, <3>3
    <3>5. CASE i = k - 1
      <4>1. frames[i + 1].name = n
        BY SMTT(30), <2>2, <3>5 DEF n, Top
      <4> QED  BY SMTT(30), <2>4, <3>2, <3>3, <3>4, <3>5, <4>1
    <3>6. CASE i # k - 1
      <4>1. i + 1 \in 1..(k - 1)
        BY SMTT(30), <2>2, <3>1, <3>6
      <4> QED  BY SMTT(30), <2>4, <3>2, <3>3, <3>4, <3>6, <4>1
    <3> QED  BY SMTT(30), <3>5, <3>6
  <2> QED  BY SMTT(30), <2>3, <2>5, <2>6 DEF Inv
<1>6. CASE RemoveFails
  <2>1. frames # <<>> /\ Top.left = {} /\ frames' = <<>> /\ (DeleteRow(Top.name) \/ UNCHANGED stacks)
    BY SMTT(30), <1>6 DEF RemoveFails, Locked
  <2>2. CASE DeleteRow(Top.name)
    <3>1. Top.name \in Names /\ Children(Top.name) = {}
      BY SMTT(30), <2>1, <1>k
    <3>2. stacks' \in Tables /\ ParentsExist' /\ NoCycles'
      BY SMTT(30), <2>2, <3>1, DeleteKeeps DEF Inv
    <3>3. CallsCover' /\ TableOK'
      BY SMTT(30), <2>1, <3>2 DEF CallsCover, TableOK
    <3> QED  BY SMTT(30), <3>2, <3>3 DEF Inv
  <2> QED  BY SMTT(30), <2>1, <2>2, <1>e
<1>7. CASE \/ \E r \in Requests, n \in Names, zone \in Names \cup {NoName} : StartRequest(r, n, zone)
           \/ \E r \in Requests : ReadStack(r) \/ ReadZone(r) \/ ReadFails(r)
           \/ Crash
           \/ UNCHANGED vars
  BY ZenonT(30), <1>7, <1>e DEF StartRequest, ReadStack, ReadZone, ReadFails, Crash, vars
<1> QED  BY SMTT(30), <1>1, <1>2, <1>3, <1>4, <1>5, <1>6, <1>7 DEF Next

(* The whole invariant of the table, for the two theorems below. *)
LEMMA TableInvariance ==
  ASSUME QueriesSucceed
  PROVE  Spec => []Inv
<1>1. Init => Inv
  <2> SUFFICES ASSUME Init PROVE Inv
    OBVIOUS
  <2>1. stacks \in [{} -> Row] /\ Stored = {} /\ frames = <<>>
    BY DEF Init, Stored
  <2>2. TableOK
    BY <2>1 DEF TableOK, Tables
  <2> QED  BY SMTT(30), <2>1, <2>2 DEF Inv, CallsCover, ParentsExist, NoCycles
<1>2. Inv /\ [Next]_vars => Inv'
  BY NextInv
<1> QED  BY <1>1, <1>2, PTL DEF Spec

(* As long as the children queries succeed, every stored stack has its     *)
(* parent stored: between any two rows a forced removal deletes, and after *)
(* any error or stop that ends one early.                                  *)
THEOREM ParentsAlwaysExist ==
  ASSUME QueriesSucceed
  PROVE  Spec => []ParentsExist
<1>1. Inv => ParentsExist
  BY SMTT(30) DEF Inv
<1> QED  BY <1>1, TableInvariance, PTL

(* And no sequence of additions and removals makes a stack inherit from    *)
(* itself, so that resolving one always ends.                              *)
THEOREM NeverCyclic ==
  ASSUME QueriesSucceed
  PROVE  Spec => []NoCycles
<1>1. Inv => NoCycles
  BY DEF Inv
<1> QED  BY <1>1, TableInvariance, PTL
-----------------------------------------------------------------------------
(* Types.                                                                  *)

LEMMA DeleteTyped ==
  ASSUME TypeOK, NEW n, DeleteRow(n)
  PROVE  /\ stacks' \in Tables /\ requests' \in [Requests -> Request]
         /\ Stored' = Stored \ {n} /\ \A m \in Stored' : stacks'[m] = stacks[m]
<1>1. stacks' = [m \in Stored \ {n} |-> stacks[m]]
  BY DEF DeleteRow
<1>2. Stored \subseteq Names /\ \A m \in Stored : stacks[m] \in Row
  BY TableTypes DEF TypeOK
<1>3. stacks' \in [Stored \ {n} -> Row] /\ Stored \ {n} \in SUBSET Names
  BY <1>1, <1>2
<1>4. stacks' \in Tables
  BY <1>3 DEF Tables
<1>5. \A r \in Requests : [requests[r] EXCEPT !.quiet = FALSE] \in Request
  BY ZenonT(30) DEF TypeOK, Request
<1>6. requests' \in [Requests -> Request]
  BY <1>5 DEF DeleteRow
<1> QED  BY <1>1, <1>4, <1>6 DEF Stored

LEMMA StoreTyped ==
  ASSUME TypeOK, NEW n \in Names, NEW parent \in Names \cup {NoName}, NEW apps \in Contents,
         StoreStack(n, parent, apps)
  PROVE  /\ TypeOK' /\ Stored' = Stored \cup {n} /\ n \notin Stored
         /\ \A m \in Stored : stacks'[m] = stacks[m]
<1> DEFINE row == [parent |-> parent, apps |-> apps]
<1>1. /\ stores < MaxStores /\ stores' = stores + 1 /\ n \notin Stored
      /\ UNCHANGED <<frames, before, requests>>
      /\ stacks' = [m \in Stored \cup {n} |-> IF m = n THEN row ELSE stacks[m]]
  BY DEF StoreStack
<1>2. Stored \subseteq Names /\ \A m \in Stored : stacks[m] \in Row
  BY TableTypes DEF TypeOK
<1>3. row \in Row
  BY DEF Row
<1> HIDE DEF row
<1>4. stacks' \in [Stored \cup {n} -> Row] /\ Stored \cup {n} \in SUBSET Names
  BY <1>1, <1>2, <1>3
<1>5. stacks' \in Tables
  BY <1>4 DEF Tables
<1>6. stores' \in 0..MaxStores
  BY <1>1, BoundAssumption DEF TypeOK
<1>7. TypeOK'
  BY <1>1, <1>5, <1>6 DEF TypeOK, TableOK
<1> QED  BY <1>1, <1>7 DEF Stored

(* The calls of a forced removal. *)
LEMMA CallTyped ==
  ASSUME TypeOK, NEW n \in Names, NEW children \in ChildrenRead(n)
  PROVE  /\ Call(n, children) \in Frame /\ Call(n, children).name = n
         /\ Call(n, children).left = children /\ children \subseteq Children(n)
<1>1. children \subseteq Children(n) /\ Children(n) \subseteq Names
  BY TableTypes DEF ChildrenRead, Children, TypeOK
<1> QED  BY <1>1 DEF Call, Frame

LEMMA TopTyped ==
  ASSUME TypeOK, Locked
  PROVE  /\ Len(frames) \in Nat /\ Len(frames) >= 1 /\ Top \in Frame
         /\ Top.name \in Names /\ Top.left \subseteq Names
<1>1. Len(frames) \in Nat /\ Len(frames) >= 1 /\ Top \in Frame
  BY DEF TypeOK, TableOK, Locked, Top
<1> QED  BY <1>1 DEF Frame

LEMMA RemoveChildShape ==
  ASSUME TypeOK, RemoveChild
  PROVE  \E c \in Top.left : \E children \in ChildrenRead(c) :
           LET k == Len(frames) IN
           /\ frames' \in Seq(Frame) /\ Len(frames') = k + 1
           /\ frames'[k + 1] = Call(c, children)
           /\ frames'[k].name = Top.name /\ frames'[k].left = Top.left \ {c}
           /\ \A i \in 1..(k - 1) : frames'[i] = frames[i]
<1> DEFINE k == Len(frames)
<1>1. PICK c \in Top.left : \E children \in ChildrenRead(c) :
        frames' = Append([frames EXCEPT ![k].left = @ \ {c}], Call(c, children))
  BY ZenonT(30) DEF RemoveChild
<1>2. PICK children \in ChildrenRead(c) :
        frames' = Append([frames EXCEPT ![k].left = @ \ {c}], Call(c, children))
  BY <1>1
<1>3. /\ k \in Nat /\ k >= 1 /\ Top \in Frame /\ c \in Names /\ frames \in Seq(Frame)
  BY TopTyped DEF RemoveChild, TypeOK, TableOK
<1> DEFINE top == [Top EXCEPT !.left = @ \ {c}]
           fs == [frames EXCEPT ![k] = top]
           call == Call(c, children)
<1>4. top \in Frame /\ top.name = Top.name /\ top.left = Top.left \ {c}
  BY <1>3 DEF Frame
<1>5. call \in Frame
  BY <1>2, <1>3, CallTyped
<1>6. frames' = Append(fs, call)
  BY <1>2, <1>3 DEF Top
<1> HIDE DEF top, call
<1>7. fs \in Seq(Frame) /\ Len(fs) = k /\ \A i \in 1..k : fs[i] = IF i = k THEN top ELSE frames[i]
  BY <1>3, <1>4, ExceptSeq
<1> HIDE DEF fs
<1>8. /\ frames' \in Seq(Frame) /\ Len(frames') = k + 1 /\ frames'[k + 1] = call
      /\ \A i \in 1..k : frames'[i] = fs[i]
  BY <1>5, <1>6, <1>7
<1>9. frames'[k] = top /\ \A i \in 1..(k - 1) : frames'[i] = frames[i]
  BY <1>3, <1>7, <1>8
<1> QED  BY ZenonT(30), <1>2, <1>4, <1>8, <1>9 DEF call

LEMMA RemoveSelfShape ==
  ASSUME TypeOK, RemoveSelf
  PROVE  LET k == Len(frames) IN
         /\ frames' \in Seq(Frame) /\ Len(frames') = k - 1
         /\ \A i \in 1..(k - 1) : frames'[i] = frames[i]
<1> DEFINE z == Len(frames) - 1
           fs == SubSeq(frames, 1, z)
<1>1. frames' = fs
  BY DEF RemoveSelf
<1>2. z \in Nat /\ frames \in Seq(Frame) /\ \A i \in 1..z : i \in 1..Len(frames)
  BY TopTyped DEF RemoveSelf, TypeOK, TableOK
<1>3. \A i \in 1..z : frames[i] \in Frame
  BY <1>2
<1> HIDE DEF z
<1>4. fs \in Seq(Frame) /\ Len(fs) = (IF 1 <= z THEN z - 1 + 1 ELSE 0)
      /\ \A i \in 1..(z - 1 + 1) : fs[i] = frames[1 + i - 1]
  BY <1>2, <1>3, SubSeqProperties
<1>5. fs \in Seq(Frame) /\ Len(fs) = z /\ \A i \in 1..z : fs[i] = frames[i]
  BY <1>2, <1>4
<1> QED  BY <1>1, <1>5 DEF z

(* The requests. *)
LEMMA RowTyped ==
  ASSUME TypeOK, NEW n \in Stored
  PROVE  /\ n \in Names /\ stacks[n].parent \in Names \cup {NoName}
         /\ stacks[n].apps \in Contents
<1>1. n \in Names /\ stacks[n] \in Row
  BY TableTypes DEF TypeOK
<1> QED  BY <1>1 DEF Row

LEMMA ReadStackShape ==
  ASSUME TypeOK, NEW r \in Requests, ReadStack(r)
  PROVE  LET q == requests[r]
             row == stacks[q.next]
             new == [q EXCEPT !.chain = Append(@, row.apps),
                              !.next = IF row.parent # NoName THEN row.parent ELSE q.zone,
                              !.phase = IF row.parent # NoName THEN "stack"
                                        ELSE IF q.zone # NoName THEN "zone" ELSE "done"]
         IN  q \in Request /\ new \in Request /\ requests' = [requests EXCEPT ![r] = new]
<1> DEFINE q == requests[r]
           row == stacks[q.next]
           next == IF row.parent # NoName THEN row.parent ELSE q.zone
           phase == IF row.parent # NoName THEN "stack"
                    ELSE IF q.zone # NoName THEN "zone" ELSE "done"
           chain == Append(q.chain, row.apps)
           new == [q EXCEPT !.chain = chain, !.next = next, !.phase = phase]
<1>1. /\ requests' = [requests EXCEPT ![r].chain = Append(@, row.apps),
                                      ![r].next = next, ![r].phase = phase]
      /\ q.next \in Stored
  BY DEF ReadStack
<1>2. q \in Request /\ requests \in [Requests -> Request]
  BY DEF TypeOK
<1>3. row.parent \in Names \cup {NoName} /\ row.apps \in Contents
  BY <1>1, RowTyped
<1>4. /\ next \in Names \cup {NoName} /\ phase \in {"stack", "zone", "done"}
      /\ chain \in Seq(Contents)
  BY <1>2, <1>3 DEF Request
<1> HIDE DEF row, next, phase
<1>5. new \in Request
  BY ZenonT(30), <1>2, <1>4 DEF Request
<1>6. requests' = [requests EXCEPT ![r] = new]
  BY ZenonT(30), <1>1, <1>2
<1> QED  BY <1>2, <1>5, <1>6 DEF row, next, phase

LEMMA ReadZoneShape ==
  ASSUME TypeOK, NEW r \in Requests, ReadZone(r)
  PROVE  LET q == requests[r]
             row == stacks[q.next]
             new == [q EXCEPT !.layers = Append(@, row.apps), !.next = row.parent,
                              !.phase = IF row.parent # NoName THEN "zone" ELSE "done"]
         IN  q \in Request /\ new \in Request /\ requests' = [requests EXCEPT ![r] = new]
<1> DEFINE q == requests[r]
           row == stacks[q.next]
           phase == IF row.parent # NoName THEN "zone" ELSE "done"
           layers == Append(q.layers, row.apps)
           new == [q EXCEPT !.layers = layers, !.next = row.parent, !.phase = phase]
<1>1. /\ requests' = [requests EXCEPT ![r].layers = Append(@, row.apps),
                                      ![r].next = row.parent, ![r].phase = phase]
      /\ q.next \in Stored
  BY DEF ReadZone
<1>2. q \in Request /\ requests \in [Requests -> Request]
  BY DEF TypeOK
<1>3. row.parent \in Names \cup {NoName} /\ row.apps \in Contents
  BY <1>1, RowTyped
<1>4. phase \in {"zone", "done"} /\ layers \in Seq(Contents)
  BY <1>2, <1>3 DEF Request
<1> HIDE DEF row, phase
<1>5. new \in Request
  BY ZenonT(30), <1>2, <1>3, <1>4 DEF Request
<1>6. requests' = [requests EXCEPT ![r] = new]
  BY ZenonT(30), <1>1, <1>2
<1> QED  BY <1>2, <1>5, <1>6 DEF row, phase

LEMMA RequestStepTyped ==
  ASSUME TypeOK, NEW r \in Requests,
         \/ \E n \in Names, zone \in Names \cup {NoName} : StartRequest(r, n, zone)
         \/ ReadStack(r) \/ ReadZone(r) \/ ReadFails(r)
  PROVE  requests' \in [Requests -> Request] /\ UNCHANGED <<stacks, frames, before, stores>>
<1>0. requests \in [Requests -> Request] /\ requests[r] \in Request
  BY ZenonT(30) DEF TypeOK
<1>5. UNCHANGED <<stacks, frames, before, stores>>
  BY ZenonT(30) DEF StartRequest, ReadStack, ReadZone, ReadFails
<1>1. ASSUME NEW n \in Names, NEW zone \in Names \cup {NoName}, StartRequest(r, n, zone)
      PROVE  requests' \in [Requests -> Request]
  <2> DEFINE new == [Idle EXCEPT !.phase = "stack", !.name = n, !.next = n, !.zone = zone]
  <2>1. Idle \in Request
    BY DEF Idle, Request
  <2>3. new \in Request
    BY ZenonT(30), <2>1 DEF Request
  <2> QED  BY ZenonT(30), <1>0, <1>1, <2>3 DEF StartRequest
<1>2. CASE ReadStack(r)
  BY <1>0, <1>2, <1>5, ReadStackShape
<1>3. CASE ReadZone(r)
  BY ZenonT(30), <1>0, <1>3, <1>5, ReadZoneShape
<1>4. CASE ReadFails(r)
  <2>1. [requests[r] EXCEPT !.phase = "failed"] \in Request
    BY ZenonT(30), <1>0 DEF Request
  <2>2. requests' = [requests EXCEPT ![r] = [requests[r] EXCEPT !.phase = "failed"]]
    BY <1>4 DEF ReadFails
  <2> QED  BY <1>0, <1>5, <2>1, <2>2
<1> QED  BY <1>1, <1>2, <1>3, <1>4, <1>5

LEMMA TypeStep ==
  ASSUME TypeOK, [Next]_vars
  PROVE  TypeOK'
<1>0. /\ stacks \in Tables /\ frames \in Seq(Frame) /\ before \in Tables
      /\ requests \in [Requests -> Request] /\ stores \in 0..MaxStores
      /\ <<>> \in Seq(Frame)
  BY DEF TypeOK, TableOK
<1>1. ASSUME NEW n \in Names, NEW parent \in Names \cup {NoName}, NEW apps \in Contents,
             StoreStack(n, parent, apps)
      PROVE  TypeOK'
  BY <1>1, StoreTyped
<1>2. ASSUME NEW n \in Names, RemoveStack(n)
      PROVE  TypeOK'
  <2>1. DeleteRow(n) /\ UNCHANGED <<frames, before, stores>>
    BY <1>2 DEF RemoveStack
  <2> QED  BY <1>0, <2>1, DeleteTyped DEF TypeOK, TableOK
<1>3. ASSUME NEW n \in Names, ForceRemoveStack(n)
      PROVE  TypeOK'
  <2>1. PICK children \in ChildrenRead(n) : frames' = <<Call(n, children)>>
    BY <1>3 DEF ForceRemoveStack
  <2>2. Call(n, children) \in Frame
    BY CallTyped
  <2>3. frames' \in Seq(Frame)
    BY <2>1, <2>2
  <2> QED  BY <1>0, <1>3, <2>3 DEF ForceRemoveStack, TypeOK, TableOK
<1>4. CASE RemoveChild
  <2>1. frames' \in Seq(Frame) /\ UNCHANGED <<stacks, before, requests, stores>>
    BY ZenonT(30), <1>4, RemoveChildShape DEF RemoveChild
  <2> QED  BY <1>0, <2>1 DEF TypeOK, TableOK
<1>5. CASE RemoveSelf
  <2>1. frames' \in Seq(Frame) /\ DeleteRow(Top.name) /\ UNCHANGED <<before, stores>>
    BY <1>5, RemoveSelfShape DEF RemoveSelf
  <2> QED  BY <1>0, <2>1, DeleteTyped DEF TypeOK, TableOK
<1>6. CASE RemoveFails
  <2>1. /\ frames' = <<>> /\ UNCHANGED <<before, stores>>
        /\ DeleteRow(Top.name) \/ UNCHANGED <<stacks, requests>>
    BY <1>6 DEF RemoveFails
  <2>2. CASE DeleteRow(Top.name)
    BY <1>0, <2>1, <2>2, DeleteTyped DEF TypeOK, TableOK
  <2> QED  BY <1>0, <2>1, <2>2 DEF TypeOK, TableOK
<1>7. ASSUME NEW r \in Requests,
             \/ \E n \in Names, zone \in Names \cup {NoName} : StartRequest(r, n, zone)
             \/ ReadStack(r) \/ ReadZone(r) \/ ReadFails(r)
      PROVE  TypeOK'
  BY <1>0, <1>7, RequestStepTyped DEF TypeOK, TableOK
<1>8. CASE Crash
  <2>1. \A r \in Requests : [requests[r] EXCEPT !.phase = "failed", !.quiet = FALSE] \in Request
    BY ZenonT(30), <1>0 DEF Request
  <2>2. requests' \in [Requests -> Request] /\ frames' = <<>> /\ UNCHANGED <<stacks, before, stores>>
    BY ZenonT(30), <1>0, <1>8, <2>1 DEF Crash
  <2> QED  BY <1>0, <2>2 DEF TypeOK, TableOK
<1>9. CASE UNCHANGED vars
  BY <1>9 DEF vars, TypeOK, TableOK
<1> QED  BY <1>1, <1>2, <1>3, <1>4, <1>5, <1>6, <1>7, <1>8, <1>9 DEF Next

(* Whatever queries fail and whenever the server stops, the table is one   *)
(* of rows, calls and requests are about names, and no bound is exceeded.  *)
THEOREM StoreTypes == Spec => []TypeOK
<1>1. Init => TypeOK
  <2> SUFFICES ASSUME Init PROVE TypeOK
    OBVIOUS
  <2>1. <<>> \in Tables
    <3>1. <<>> \in [{} -> Row]
      OBVIOUS
    <3> QED  BY ZenonT(30), <3>1 DEF Tables
  <2>2. Idle \in Request
    BY DEF Idle, Request
  <2> QED  BY <2>1, <2>2, BoundAssumption DEF Init, TypeOK, TableOK
<1>2. TypeOK /\ [Next]_vars => TypeOK'
  BY TypeStep
<1> QED  BY <1>1, <1>2, PTL DEF Spec
-----------------------------------------------------------------------------
(* Forced removals.                                                        *)

LEMMA FamilySelf ==
  ASSUME NEW table, NEW t \in DOMAIN table
  PROVE  t \in Family(table, t)
BY DEF Family, Ancestors

LEMMA FamilyChild ==
  ASSUME NEW table \in Tables, NEW t, NEW c \in DOMAIN table,
         table[c].parent \in Family(table, t)
  PROVE  c \in Family(table, t)
<1> DEFINE p == table[c].parent
<1>1. p \in DOMAIN table /\ t \in Ancestors(table, p)
  BY DEF Family
<1>2. p # NoName
  BY <1>1, NamesAssumption DEF Tables
<1> HIDE DEF p
<1>3. ASSUME NEW S \in SUBSET DOMAIN table, c \in S, ClosedUp(table, S)
      PROVE  t \in S
  <2>1. p \in S
    BY <1>2, <1>3 DEF ClosedUp, p
  <2> QED  BY <1>1, <1>3, <2>1 DEF Ancestors
<1>4. t \in DOMAIN table
  BY <1>1 DEF Ancestors
<1> QED  BY <1>3, <1>4 DEF Family, Ancestors

LEMMA FamilyOutside ==
  ASSUME NEW table, NEW t, NEW S \in SUBSET DOMAIN table, ClosedUp(table, S), t \notin S
  PROVE  S \cap Family(table, t) = {}
BY DEF Family, Ancestors

(* What a step of a forced removal does to table and calls. *)
LEMMA RemovalStep ==
  ASSUME TypeOK, RemovalInv, [Next]_vars, Locked
  PROVE  LET family == Family(before, frames[1].name) IN
         /\ Stored \ Stored' \subseteq family /\ Stored' \subseteq Stored
         /\ \A m \in Stored' : stacks'[m] = stacks[m]
         /\ UNCHANGED before
<1> DEFINE family == Family(before, frames[1].name)
<1>1. Top.name \in family
  BY TopTyped DEF RemovalInv, Top
<1> HIDE DEF family
<1>2. ASSUME UNCHANGED <<stacks, before>>
      PROVE  /\ Stored \ Stored' \subseteq family /\ Stored' \subseteq Stored
             /\ \A m \in Stored' : stacks'[m] = stacks[m]
             /\ UNCHANGED before
  BY <1>2 DEF Stored
<1>3. ASSUME DeleteRow(Top.name), UNCHANGED before
      PROVE  /\ Stored \ Stored' \subseteq family /\ Stored' \subseteq Stored
             /\ \A m \in Stored' : stacks'[m] = stacks[m]
             /\ UNCHANGED before
  <2>1. Stored' = Stored \ {Top.name} /\ \A m \in Stored' : stacks'[m] = stacks[m]
    BY ZenonT(30), <1>3, DeleteTyped
  <2> QED  BY <1>1, <1>3, <2>1
<1>4. \/ UNCHANGED <<stacks, before>>
      \/ DeleteRow(Top.name) /\ UNCHANGED before
  BY ZenonT(30) DEF Next, StoreStack, RemoveStack, ForceRemoveStack, RemoveChild, RemoveSelf, RemoveFails,
         StartRequest, ReadStack, ReadZone, ReadFails, Crash, vars
<1> QED  BY <1>2, <1>3, <1>4 DEF family

LEMMA CallsBelow ==
  ASSUME TypeOK, RemovalInv, [Next]_vars, Locked, Locked'
  PROVE  /\ frames'[1].name = frames[1].name
         /\ LET family == Family(before, frames[1].name) IN
            \A i \in 1..Len(frames') : frames'[i].name \in family /\ frames'[i].left \subseteq family
<1> DEFINE k == Len(frames)
           family == Family(before, frames[1].name)
<1>0. /\ k \in Nat /\ k >= 1 /\ Top \in Frame
      /\ \A i \in 1..k : frames[i].name \in family /\ frames[i].left \subseteq family
      /\ Top.name \in family /\ Top.left \subseteq family
  BY TopTyped DEF RemovalInv, Top
<1>1. CASE UNCHANGED frames
  BY <1>0, <1>1
<1>2. CASE RemoveChild
  <2>1. PICK c \in Top.left : \E children \in ChildrenRead(c) :
          /\ frames' \in Seq(Frame) /\ Len(frames') = k + 1
          /\ frames'[k + 1] = Call(c, children)
          /\ frames'[k].name = Top.name /\ frames'[k].left = Top.left \ {c}
          /\ \A i \in 1..(k - 1) : frames'[i] = frames[i]
    BY <1>2, RemoveChildShape
  <2>2. PICK children \in ChildrenRead(c) :
          /\ Len(frames') = k + 1
          /\ frames'[k + 1] = Call(c, children)
          /\ frames'[k].name = Top.name /\ frames'[k].left = Top.left \ {c}
          /\ \A i \in 1..(k - 1) : frames'[i] = frames[i]
    BY <2>1
  <2>3. c \in family /\ c \in Names
    BY <1>0, TopTyped
  <2>4. children \subseteq Children(c) /\ Call(c, children).name = c /\ Call(c, children).left = children
    BY <2>2, <2>3, CallTyped
  <2>5. Children(c) \subseteq family
    <3> SUFFICES ASSUME NEW m \in Stored, stacks[m].parent = c PROVE m \in family
      BY DEF Children
    <3>1. m \in DOMAIN before /\ before[m].parent = c /\ before \in Tables
      BY DEF RemovalInv, TypeOK
    <3> QED  BY <2>3, <3>1, FamilyChild
  <2> HIDE DEF family, k
  <2>6. \A i \in 1..(k + 1) : i \in 1..(k - 1) \/ i = k \/ i = k + 1
    BY <1>0
  <2>7. \A i \in 1..(k - 1) : i \in 1..k
    BY <1>0
  <2>8. \A i \in 1..(k + 1) : frames'[i].name \in family /\ frames'[i].left \subseteq family
    BY <1>0, <2>2, <2>3, <2>4, <2>5, <2>6, <2>7
  <2>9. frames'[1].name = frames[1].name
    <3>1. CASE k = 1
      BY <2>2, <3>1 DEF Top, k
    <3>2. CASE k # 1
      <4>1. 1 \in 1..(k - 1)
        BY <1>0, <3>2
      <4> QED  BY <2>2, <4>1
    <3> QED  BY <3>1, <3>2
  <2> QED  BY <2>2, <2>8, <2>9 DEF family, k
<1>3. CASE RemoveSelf
  <2>1. frames' \in Seq(Frame) /\ Len(frames') = k - 1 /\ \A i \in 1..(k - 1) : frames'[i] = frames[i]
    BY <1>3, RemoveSelfShape
  <2>2. Len(frames') >= 1
    BY <2>1 DEF Locked
  <2>3. 1 \in 1..(k - 1) /\ \A i \in 1..(k - 1) : i \in 1..k
    BY <1>0, <2>1, <2>2
  <2> QED  BY <1>0, <2>1, <2>3
<1>4. UNCHANGED frames \/ RemoveChild \/ RemoveSelf
  BY ZenonT(30) DEF Next, StoreStack, RemoveStack, ForceRemoveStack, RemoveFails, Locked,
         StartRequest, ReadStack, ReadZone, ReadFails, Crash, vars
<1> QED  BY <1>1, <1>2, <1>3, <1>4

LEMMA RemovalInvStep ==
  ASSUME TypeOK, RemovalInv, [Next]_vars
  PROVE  RemovalInv'
<1> SUFFICES ASSUME Locked' PROVE RemovalInv'
  BY DEF RemovalInv
<1>1. CASE Locked
  <2> DEFINE family == Family(before, frames[1].name)
  <2>1. /\ Stored \ Stored' \subseteq family /\ Stored' \subseteq Stored
        /\ \A m \in Stored' : stacks'[m] = stacks[m]
        /\ UNCHANGED before
    BY <1>1, RemovalStep
  <2>2. /\ frames'[1].name = frames[1].name
        /\ \A i \in 1..Len(frames') : frames'[i].name \in family /\ frames'[i].left \subseteq family
    BY <1>1, CallsBelow
  <2>3. /\ frames[1].name \in DOMAIN before
        /\ \A m \in Stored : m \in DOMAIN before /\ stacks[m] = before[m]
        /\ DOMAIN before \ Stored \subseteq family
    BY <1>1 DEF RemovalInv
  <2>4. Family(before, frames[1].name)' = family
    BY <2>1, <2>2 DEF Family, Ancestors, ClosedUp
  <2> HIDE DEF family
  <2>5. DOMAIN before \ Stored' \subseteq family
    BY <2>1, <2>3
  <2> QED  BY <2>1, <2>2, <2>3, <2>4, <2>5 DEF RemovalInv
<1>2. CASE ~Locked
  <2>1. PICK n \in Names : ForceRemoveStack(n)
    BY ZenonT(30), <1>2 DEF Next, StoreStack, RemoveStack, RemoveChild, RemoveSelf, RemoveFails, Locked,
                StartRequest, ReadStack, ReadZone, ReadFails, Crash, vars
  <2>2. PICK children \in ChildrenRead(n) : frames' = <<Call(n, children)>>
    BY <2>1 DEF ForceRemoveStack
  <2>3. n \in Stored /\ before' = stacks /\ UNCHANGED stacks /\ stacks \in Tables
    BY <2>1 DEF ForceRemoveStack, TypeOK, TableOK
  <2>4. /\ children \subseteq Children(n) /\ Call(n, children).name = n
        /\ Call(n, children).left = children
    BY CallTyped
  <2> DEFINE family == Family(stacks, n)
  <2>5. n \in family
    BY <2>3, FamilySelf DEF Stored
  <2>6. Children(n) \subseteq family
    BY <2>3, <2>5, FamilyChild DEF Children, Stored
  <2>7. Len(frames') = 1 /\ frames'[1] = Call(n, children)
    BY <2>2
  <2>8. Family(before, frames[1].name)' = family
    BY <2>3, <2>4, <2>7 DEF Family, Ancestors, ClosedUp
  <2> HIDE DEF family
  <2>9. \A i \in 1..Len(frames') : frames'[i].name \in family /\ frames'[i].left \subseteq family
    BY <2>4, <2>5, <2>6, <2>7
  <2>10. \A m \in Stored' : m \in DOMAIN before' /\ stacks'[m] = before'[m]
    BY <2>3 DEF Stored
  <2>11. DOMAIN before' \ Stored' = {} /\ frames'[1].name \in DOMAIN before'
    BY <2>3, <2>4, <2>7 DEF Stored
  <2> QED  BY ZenonT(30), <2>8, <2>9, <2>10, <2>11 DEF RemovalInv
<1> QED  BY <1>1, <1>2

(* As long as the children queries succeed, the last deletion of a forced  *)
(* removal leaves exactly what is not below the stack: a row below it that *)
(* was left would have its parents up to a child of the stack still there. *)
LEMMA RemovalComplete ==
  ASSUME TypeOK, Inv, RemovalInv, Locked, RemoveSelf, Len(frames) = 1
  PROVE  Stored' = DOMAIN before \ Family(before, frames[1].name)
<1> DEFINE t == frames[1].name
           family == Family(before, t)
           S == Stored \ {t}
<1>1. Top = frames[1] /\ Top.left = {} /\ DeleteRow(t)
  BY DEF RemoveSelf, Top
<1>2. Stored' = S
  BY <1>1, DeleteTyped
<1>3. /\ t \in DOMAIN before /\ DOMAIN before \ Stored \subseteq family /\ t \in family
      /\ \A m \in Stored : m \in DOMAIN before /\ stacks[m] = before[m]
  BY FamilySelf DEF RemovalInv
<1>4. Children(t) = {}
  BY <1>1 DEF Inv, CallsCover, Locked, TypeOK, TableOK
<1>5. \A m \in S : stacks[m].parent \in S \cup {NoName}
  BY <1>4 DEF Inv, ParentsExist, Children
<1>6. ClosedUp(before, S) /\ S \in SUBSET DOMAIN before
  BY <1>3, <1>5 DEF ClosedUp
<1>7. S \cap family = {}
  BY <1>6, FamilyOutside
<1> QED  BY <1>2, <1>3, <1>7

(* "remove a stack and all its children": for any table, and whatever is   *)
(* read meanwhile, RemoveStack with force deletes only the stack and its   *)
(* descendants, and all of them when it succeeds.                          *)
THEOREM ForcedRemovalsExact ==
  ASSUME QueriesSucceed
  PROVE  Spec => ForcedRemovalExact
<1> DEFINE All == TypeOK /\ Inv /\ RemovalInv
           Removes == Locked =>
             LET target == frames[1].name IN
             /\ Stored \ DOMAIN stacks' \subseteq Family(before, target)
             /\ RemoveSelf /\ Len(frames) = 1 =>
                  DOMAIN stacks' = DOMAIN before \ Family(before, target)
<1>1. Init => RemovalInv
  BY DEF Init, RemovalInv, Locked
<1>2. TypeOK /\ RemovalInv /\ [Next]_vars => RemovalInv'
  BY RemovalInvStep
<1>3. TypeOK /\ Inv /\ RemovalInv /\ [Next]_vars => [Removes]_vars
  <2> SUFFICES ASSUME TypeOK, Inv, RemovalInv, [Next]_vars, Locked
               PROVE  LET target == frames[1].name IN
                      /\ Stored \ DOMAIN stacks' \subseteq Family(before, target)
                      /\ RemoveSelf /\ Len(frames) = 1 =>
                           DOMAIN stacks' = DOMAIN before \ Family(before, target)
    OBVIOUS
  <2>1. Stored \ Stored' \subseteq Family(before, frames[1].name)
    BY RemovalStep
  <2>2. RemoveSelf /\ Len(frames) = 1 => Stored' = DOMAIN before \ Family(before, frames[1].name)
    BY RemovalComplete
  <2> QED  BY <2>1, <2>2 DEF Stored
<1> QED  BY <1>1, <1>2, <1>3, StoreTypes, TableInvariance, PTL DEF Spec, ForcedRemovalExact
-----------------------------------------------------------------------------
(* Requests.                                                               *)

LEMMA PathStart ==
  ASSUME NEW n PROVE ReadAlong(n, n, <<>>)
<1>1. Follows(<<>>, n, n, <<>>)
  BY DEF Follows
<1>2. <<>> \in Seq(Names)
  OBVIOUS
<1> QED  BY ZenonT(30), <1>1, <1>2 DEF ReadAlong

LEMMA PathFirst ==
  ASSUME NEW first, NEW next \in Stored, NEW contents, ReadAlong(first, next, contents)
  PROVE  first \in Stored
<1>1. PICK path \in Seq(Names) : Follows(path, first, next, contents)
  BY DEF ReadAlong
<1>2. CASE path = <<>>
  BY <1>1, <1>2 DEF Follows
<1>3. CASE path # <<>>
  <2>1. 1 \in 1..Len(path)
    BY <1>3
  <2> QED  BY <1>1, <1>3, <2>1 DEF Follows
<1> QED  BY <1>2, <1>3

LEMMA PathGrows ==
  ASSUME TypeOK, NEW first, NEW next \in Stored, NEW contents \in Seq(Contents),
         ReadAlong(first, next, contents)
  PROVE  ReadAlong(first, stacks[next].parent, Append(contents, stacks[next].apps))
<1> DEFINE row == stacks[next]
           apps == row.apps
           parent == row.parent
<1>1. PICK path \in Seq(Names) : Follows(path, first, next, contents)
  BY DEF ReadAlong
<1>2. next \in Names
  BY DEF TypeOK, TableOK, Tables, Stored
<1>3. apps \in Contents
  BY RowTyped
<1> DEFINE longer == Append(path, next)
           more == Append(contents, apps)
           k == Len(path)
<1> HIDE DEF row
<1>4. /\ longer \in Seq(Names) /\ Len(longer) = k + 1 /\ longer[k + 1] = next /\ longer # <<>>
      /\ k \in Nat /\ \A i \in 1..k : longer[i] = path[i]
  BY <1>2
<1>5. /\ Len(more) = k + 1 /\ more[k + 1] = apps
      /\ \A i \in 1..k : more[i] = contents[i]
  BY <1>1, <1>3 DEF Follows
<1>6. first = longer[1]
  <2>1. CASE path = <<>>
    BY <1>1, <1>4, <2>1 DEF Follows
  <2>2. CASE path # <<>>
    <3>1. first = path[1] /\ 1 \in 1..k
      BY <1>1, <2>2 DEF Follows
    <3> QED  BY <1>4, <3>1
  <2> QED  BY <2>1, <2>2
<1> HIDE DEF longer, more
<1>7. ASSUME NEW i \in 1..(k + 1)
      PROVE  /\ longer[i] \in Stored
             /\ more[i] = stacks[longer[i]].apps
             /\ stacks[longer[i]].parent = IF i = k + 1 THEN parent ELSE longer[i + 1]
  <2>1. CASE i = k + 1
    BY <1>4, <1>5, <2>1 DEF row
  <2>2. CASE i \in 1..k
    <3>1. /\ path[i] \in Stored /\ contents[i] = stacks[path[i]].apps
          /\ stacks[path[i]].parent = IF i = k THEN next ELSE path[i + 1]
      BY <1>1, <2>2 DEF Follows
    <3>2. longer[i + 1] = IF i = k THEN next ELSE path[i + 1]
      BY <1>4, <2>2
    <3>3. i # k + 1
      BY <1>4, <2>2
    <3> QED  BY <1>4, <1>5, <2>2, <3>1, <3>2, <3>3
  <2> QED  BY <1>4, <2>1, <2>2
<1>8. Follows(longer, first, parent, more)
  BY <1>4, <1>5, <1>6, <1>7 DEF Follows
<1> QED  BY <1>4, <1>8 DEF ReadAlong, row, more

LEMMA PathStays ==
  ASSUME Stored \subseteq Stored', \A m \in Stored : stacks'[m] = stacks[m],
         NEW first, NEW next, NEW contents, ReadAlong(first, next, contents)
  PROVE  ReadAlong(first, next, contents)'
<1>1. PICK path \in Seq(Names) : Follows(path, first, next, contents)
  BY DEF ReadAlong
<1>2. Follows(path, first, next, contents)'
  BY <1>1 DEF Follows
<1> QED  BY <1>2 DEF ReadAlong

(* The steps of the requests themselves read the table as it stands. *)
LEMMA RequestReads ==
  ASSUME TypeOK, QuietChains, NEW r \in Requests,
         \/ \E n \in Names, zone \in Names \cup {NoName} : StartRequest(r, n, zone)
         \/ ReadStack(r) \/ ReadZone(r) \/ ReadFails(r)
  PROVE  requests'[r].quiet => RowsRead(requests'[r])
<1> DEFINE q == requests[r]
           row == stacks[q.next]
           new == requests'[r]
<1>0. q \in Request /\ requests \in [Requests -> Request]
  BY DEF TypeOK
<1>1. ASSUME NEW n \in Names, NEW zone \in Names \cup {NoName}, StartRequest(r, n, zone)
      PROVE  new.quiet => RowsRead(new)
  <2>1. /\ new.phase = "stack" /\ new.name = n /\ new.next = n
        /\ new.chain = <<>> /\ new.layers = <<>>
    BY ZenonT(30), <1>0, <1>1 DEF StartRequest, Idle
  <2>2. n # NoName
    BY NamesAssumption
  <2> HIDE DEF new
  <2> QED  BY ZenonT(30), <2>1, <2>2, PathStart DEF RowsRead
<1>2. ASSUME ReadStack(r) PROVE new.quiet => RowsRead(new)
  <2>1. /\ new.chain = Append(q.chain, row.apps) /\ new.layers = q.layers
        /\ new.next = IF row.parent # NoName THEN row.parent ELSE q.zone
        /\ new.phase = IF row.parent # NoName THEN "stack"
                       ELSE IF q.zone # NoName THEN "zone" ELSE "done"
        /\ new.name = q.name /\ new.zone = q.zone /\ new.quiet = q.quiet
    <3>1. requests' = [requests EXCEPT ![r] =
                          [q EXCEPT !.chain = Append(@, row.apps),
                             !.next = IF row.parent # NoName THEN row.parent ELSE q.zone,
                             !.phase = IF row.parent # NoName THEN "stack"
                                       ELSE IF q.zone # NoName THEN "zone" ELSE "done"]]
      BY ZenonT(30), <1>2, ReadStackShape
    <3> HIDE DEF row
    <3> QED  BY ZenonT(30), <1>0, <3>1 DEF Request
  <2>2. q.phase = "stack" /\ q.next \in Stored /\ q.chain \in Seq(Contents)
    BY <1>0, <1>2 DEF ReadStack, Request
  <2>3. q.quiet => ReadAlong(q.name, q.next, q.chain) /\ q.layers = <<>> /\ q.name # NoName
    BY <2>2 DEF QuietChains, RowsRead
  <2>4. q.quiet => ReadAlong(q.name, row.parent, Append(q.chain, row.apps))
    BY <2>2, <2>3, PathGrows
  <2>5. ReadAlong(q.zone, q.zone, <<>>)
    BY PathStart
  <2> HIDE DEF q, row, new
  <2> QED  BY <2>1, <2>3, <2>4, <2>5 DEF RowsRead
<1>3. ASSUME ReadZone(r) PROVE new.quiet => RowsRead(new)
  <2>1. /\ new.chain = q.chain /\ new.layers = Append(q.layers, row.apps)
        /\ new.next = row.parent
        /\ new.phase = IF row.parent # NoName THEN "zone" ELSE "done"
        /\ new.name = q.name /\ new.zone = q.zone /\ new.quiet = q.quiet
    <3>1. requests' = [requests EXCEPT ![r] =
                          [q EXCEPT !.layers = Append(@, row.apps), !.next = row.parent,
                             !.phase = IF row.parent # NoName THEN "zone" ELSE "done"]]
      BY ZenonT(30), <1>3, ReadZoneShape
    <3> HIDE DEF row
    <3> QED  BY ZenonT(30), <1>0, <3>1 DEF Request
  <2>2. q.phase = "zone" /\ q.next \in Stored /\ q.layers \in Seq(Contents)
    BY <1>0, <1>3 DEF ReadZone, Request
  <2>3. q.quiet => /\ ReadAlong(q.name, NoName, q.chain) /\ q.name # NoName
                   /\ ReadAlong(q.zone, q.next, q.layers)
    BY <2>2 DEF QuietChains, RowsRead
  <2>4. q.quiet => ReadAlong(q.zone, row.parent, Append(q.layers, row.apps))
    BY <2>2, <2>3, PathGrows
  <2>5. q.quiet => q.zone # NoName
    BY <2>2, <2>3, PathFirst, NamesAssumption DEF TypeOK, TableOK, Tables, Stored
  <2> HIDE DEF q, row, new
  <2> QED  BY <2>1, <2>3, <2>4, <2>5 DEF RowsRead
<1>4. ASSUME ReadFails(r) PROVE new.quiet => RowsRead(new)
  <2>1. new.phase = "failed"
    BY <1>0, <1>4 DEF ReadFails, Request
  <2> HIDE DEF new
  <2> QED  BY <2>1 DEF RowsRead
<1> QED  BY <1>1, <1>2, <1>3, <1>4

LEMMA QuietChainsStep ==
  ASSUME TypeOK, QuietChains, [Next]_vars
  PROVE  QuietChains'
<1> SUFFICES ASSUME NEW r \in Requests, requests'[r].quiet
             PROVE  RowsRead(requests[r])'
  BY DEF QuietChains
<1>0. requests \in [Requests -> Request] /\ requests[r] \in Request
  BY DEF TypeOK
<1>1. ASSUME requests'[r] = requests[r], Stored \subseteq Stored',
             \A m \in Stored : stacks'[m] = stacks[m]
      PROVE  RowsRead(requests[r])'
  <2>1. RowsRead(requests[r])
    BY <1>1 DEF QuietChains
  <2>2. \A first, next, contents :
          ReadAlong(first, next, contents) => ReadAlong(first, next, contents)'
    BY <1>1, PathStays
  <2> QED  BY <1>1, <2>1, <2>2 DEF RowsRead
<1>2. ASSUME UNCHANGED stacks, RowsRead(requests'[r])
      PROVE  RowsRead(requests[r])'
  <2>1. \A first, next, contents :
          ReadAlong(first, next, contents) => ReadAlong(first, next, contents)'
    BY <1>2, PathStays DEF Stored
  <2> QED  BY <1>2, <2>1 DEF RowsRead
<1>3. ASSUME NEW n, DeleteRow(n) PROVE FALSE
  BY <1>0, <1>3 DEF DeleteRow, Request
<1>4. CASE UNCHANGED <<stacks, requests>>
  BY <1>1, <1>4 DEF Stored
<1>5. ASSUME NEW n \in Names, NEW parent \in Names \cup {NoName}, NEW apps \in Contents,
             StoreStack(n, parent, apps)
      PROVE  RowsRead(requests[r])'
  <2>1. Stored \subseteq Stored' /\ \A m \in Stored : stacks'[m] = stacks[m]
    BY <1>5 DEF StoreStack, Stored
  <2> QED  BY <1>1, <1>5, <2>1 DEF StoreStack
<1>6. ASSUME NEW s \in Requests,
             \/ \E n \in Names, zone \in Names \cup {NoName} : StartRequest(s, n, zone)
             \/ ReadStack(s) \/ ReadZone(s) \/ ReadFails(s)
      PROVE  RowsRead(requests[r])'
  <2>1. UNCHANGED stacks
    BY ZenonT(30), <1>6 DEF StartRequest, ReadStack, ReadZone, ReadFails
  <2>2. CASE s = r
    BY <1>2, <1>6, <2>1, <2>2, RequestReads
  <2>3. CASE s # r
    <3>1. requests'[r] = requests[r]
      BY ZenonT(30), <1>0, <1>6, <2>3 DEF StartRequest, ReadStack, ReadZone, ReadFails
    <3> QED  BY ZenonT(30), <1>1, <2>1, <3>1 DEF Stored
  <2> QED  BY ZenonT(30), <2>2, <2>3
<1>7. CASE Crash
  <2>1. requests'[r] = requests[r] /\ UNCHANGED stacks
    BY ZenonT(30), <1>0, <1>7 DEF Crash, Request
  <2> QED  BY ZenonT(30), <1>1, <2>1 DEF Stored
<1>8. \/ \E n \in Names, parent \in Names \cup {NoName}, apps \in Contents :
           StoreStack(n, parent, apps)
      \/ \E n : DeleteRow(n)
      \/ UNCHANGED <<stacks, requests>>
      \/ \E s \in Requests :
           \/ \E n \in Names, zone \in Names \cup {NoName} : StartRequest(s, n, zone)
           \/ ReadStack(s) \/ ReadZone(s) \/ ReadFails(s)
      \/ Crash
  BY DEF Next, vars, RemoveStack, ForceRemoveStack, RemoveChild, RemoveSelf, RemoveFails
<1> QED  BY <1>3, <1>4, <1>5, <1>6, <1>7, <1>8

(* GetStack while stacks are stored, but none is removed: whatever the     *)
(* depth of the tree, it reads the row of the stack asked for, then of     *)
(* every ancestor in order up to the root, then those of the zone.         *)
THEOREM QuietRequestsReadTheChain == Spec => []QuietChains
<1>1. Init => QuietChains
  <2> SUFFICES ASSUME Init, NEW r \in Requests PROVE RowsRead(requests[r])
    BY DEF QuietChains
  <2>1. requests[r].phase = "idle"
    BY DEF Init, Idle
  <2> QED  BY <2>1 DEF RowsRead
<1>2. TypeOK /\ QuietChains /\ [Next]_vars => QuietChains'
  BY QuietChainsStep
<1> QED  BY <1>1, <1>2, StoreTypes, PTL DEF Spec

LEMMA PathEnd ==
  ASSUME ParentsExist, NEW first, NEW next, next # NoName, NEW contents \in Seq(Contents),
         contents # <<>>, ReadAlong(first, next, contents)
  PROVE  next \in Stored
<1>1. PICK path \in Seq(Names) : Follows(path, first, next, contents)
  BY DEF ReadAlong
<1>2. Len(path) \in 1..Len(path)
  BY <1>1 DEF Follows
<1>3. path[Len(path)] \in Stored /\ stacks[path[Len(path)]].parent = next
  BY <1>1, <1>2 DEF Follows
<1> QED  BY <1>3 DEF ParentsExist

(* A request that no removal overlaps never fails for want of an ancestor: *)
(* the "parent" it goes on with is a stored stack.                         *)
THEOREM QuietRequestsMissNothing ==
  ASSUME QueriesSucceed
  PROVE  Spec => []QuietNext
<1>1. TypeOK /\ Inv /\ QuietChains => QuietNext
  <2> SUFFICES ASSUME TypeOK, Inv, QuietChains, NEW r \in Requests, requests[r].quiet
               PROVE  LET q == requests[r] IN
                      /\ q.phase = "stack" /\ q.chain # <<>> => q.next \in Stored
                      /\ q.phase = "zone" /\ q.layers # <<>> => q.next \in Stored
    BY DEF QuietNext
  <2>1. requests[r] \in Request
    BY DEF TypeOK
  <2>2. requests[r].chain \in Seq(Contents) /\ requests[r].layers \in Seq(Contents)
    BY <2>1 DEF Request
  <2>3. RowsRead(requests[r]) /\ ParentsExist
    BY DEF QuietChains, Inv
  <2> QED  BY <2>2, <2>3, PathEnd DEF RowsRead
<1> QED  BY <1>1, StoreTypes, TableInvariance, QuietRequestsReadTheChain, PTL
-----------------------------------------------------------------------------
(* Ancestors.  NoCycles takes the place of an induction along a chain: in  *)
(* a set of stacks that break a claim there is one whose parent keeps it.  *)

LEMMA AncestorFacts ==
  ASSUME ParentsExist, NEW n \in Stored
  PROVE  LET up == Ancestors(stacks, n) IN
         /\ n \in up /\ up \subseteq Stored /\ ClosedUp(stacks, up)
         /\ \A S \in SUBSET Stored : n \in S /\ ClosedUp(stacks, S) => up \subseteq S
<1> DEFINE up == Ancestors(stacks, n)
<1>1. n \in up /\ up \subseteq Stored
  BY DEF Ancestors, Stored
<1>2. \A S \in SUBSET Stored : n \in S /\ ClosedUp(stacks, S) => up \subseteq S
  BY DEF Ancestors, Stored
<1>3. ASSUME NEW m \in up PROVE stacks[m].parent \in up \cup {NoName}
  <2>1. stacks[m].parent \in Stored \cup {NoName}
    BY <1>1, <1>3 DEF ParentsExist
  <2>2. \A S \in SUBSET Stored :
          n \in S /\ ClosedUp(stacks, S) => stacks[m].parent \in S \cup {NoName}
    BY <1>2, <1>3 DEF ClosedUp
  <2> QED  BY <2>1, <2>2 DEF Ancestors, Stored
<1> QED  BY <1>1, <1>2, <1>3 DEF ClosedUp

LEMMA AncestorsNest ==
  ASSUME ParentsExist, NEW n \in Stored, NEW m \in Ancestors(stacks, n)
  PROVE  m \in Stored /\ Ancestors(stacks, m) \subseteq Ancestors(stacks, n)
BY AncestorFacts

LEMMA AncestorsStep ==
  ASSUME ParentsExist, NEW n \in Stored, stacks[n].parent # NoName
  PROVE  /\ stacks[n].parent \in Stored
         /\ Ancestors(stacks, n) = {n} \cup Ancestors(stacks, stacks[n].parent)
<1> DEFINE p == stacks[n].parent
           up == Ancestors(stacks, n)
           above == Ancestors(stacks, p)
<1>1. p \in Stored
  BY DEF ParentsExist
<1>2. /\ n \in up /\ up \subseteq Stored /\ ClosedUp(stacks, up)
      /\ \A S \in SUBSET Stored : n \in S /\ ClosedUp(stacks, S) => up \subseteq S
  BY AncestorFacts
<1>3. /\ p \in above /\ above \subseteq Stored /\ ClosedUp(stacks, above)
      /\ \A S \in SUBSET Stored : p \in S /\ ClosedUp(stacks, S) => above \subseteq S
  BY <1>1, AncestorFacts
<1> HIDE DEF up, above
<1>4. p \in up
  BY <1>2 DEF ClosedUp
<1>5. ClosedUp(stacks, {n} \cup above)
  BY <1>3 DEF ClosedUp
<1>6. up \subseteq {n} \cup above /\ above \subseteq up
  BY <1>2, <1>3, <1>4, <1>5
<1> QED  BY <1>1, <1>2, <1>6 DEF up, above

LEMMA AncestorsRoot ==
  ASSUME ParentsExist, NEW n \in Stored, stacks[n].parent = NoName
  PROVE  Ancestors(stacks, n) = {n}
<1>1. ClosedUp(stacks, {n})
  BY DEF ClosedUp
<1> QED  BY <1>1, AncestorFacts

LEMMA NotAboveItself ==
  ASSUME ParentsExist, NoCycles, NEW n \in Stored, stacks[n].parent # NoName
  PROVE  n \notin Ancestors(stacks, stacks[n].parent)
<1> DEFINE p == stacks[n].parent
           C == {y \in Ancestors(stacks, p) : n \in Ancestors(stacks, y)}
<1> SUFFICES ASSUME n \in Ancestors(stacks, p) PROVE FALSE
  OBVIOUS
<1>1. p \in Stored /\ p \in Ancestors(stacks, p) /\ Ancestors(stacks, p) \subseteq Stored
  BY AncestorsStep, AncestorFacts
<1>2. ClosedUp(stacks, Ancestors(stacks, p))
  BY <1>1, AncestorFacts
<1>3. p \in C /\ C \subseteq Stored
  BY <1>1
<1>4. PICK y \in C : stacks[y].parent \notin C
  BY ZenonT(30), <1>3 DEF NoCycles
<1>5. y # n
  BY <1>3, <1>4
<1>6. y \in Stored /\ n \in Ancestors(stacks, y) /\ y \in Ancestors(stacks, p)
  BY <1>3, <1>4
<1>7. stacks[y].parent # NoName
  BY <1>5, <1>6, AncestorsRoot
<1>8. n \in Ancestors(stacks, stacks[y].parent)
  BY <1>5, <1>6, <1>7, AncestorsStep
<1>9. stacks[y].parent \in Ancestors(stacks, p)
  BY <1>2, <1>6, <1>7 DEF ClosedUp
<1> QED  BY <1>4, <1>8, <1>9

LEMMA AncestorsInLine ==
  ASSUME ParentsExist, NEW n \in Stored, NEW x \in Ancestors(stacks, n),
         NEW k \in Ancestors(stacks, n)
  PROVE  x \in Ancestors(stacks, k) \/ k \in Ancestors(stacks, x)
<1> DEFINE up == Ancestors(stacks, n)
           W == Ancestors(stacks, k) \cup {y \in up : k \in Ancestors(stacks, y)}
<1>1. /\ n \in up /\ up \subseteq Stored /\ ClosedUp(stacks, up)
      /\ \A S \in SUBSET Stored : n \in S /\ ClosedUp(stacks, S) => up \subseteq S
  BY AncestorFacts
<1>2. k \in Stored /\ ClosedUp(stacks, Ancestors(stacks, k)) /\ Ancestors(stacks, k) \subseteq Stored
  BY <1>1, AncestorFacts
<1>3. n \in W /\ W \subseteq Stored
  BY <1>1, <1>2
<1>4. ASSUME NEW y \in W PROVE stacks[y].parent \in W \cup {NoName}
  <2>1. CASE y \in Ancestors(stacks, k)
    BY <1>2, <2>1 DEF ClosedUp
  <2>2. CASE y \in up /\ k \in Ancestors(stacks, y) /\ y # k /\ stacks[y].parent # NoName
    <3>1. k \in Ancestors(stacks, stacks[y].parent)
      BY <1>1, <2>2, AncestorsStep
    <3>2. stacks[y].parent \in up
      BY <1>1, <2>2 DEF ClosedUp
    <3> QED  BY <3>1, <3>2
  <2>3. k \in Ancestors(stacks, k)
    BY <1>2, AncestorFacts
  <2> QED  BY <1>4, <2>1, <2>2, <2>3
<1>5. up \subseteq W
  <2>1. ClosedUp(stacks, W)
    BY <1>4 DEF ClosedUp
  <2> HIDE DEF W, up
  <2> QED  BY <1>1, <1>3, <2>1
<1> QED  BY <1>5

(* Of some of the stacks above another, one is above all of them. *)
LEMMA TopmostExists ==
  ASSUME ParentsExist, NoCycles, NEW n \in Stored, NEW S \in SUBSET Ancestors(stacks, n), S # {}
  PROVE  Topmost(S) \in S
<1> DEFINE up == Ancestors(stacks, n)
           U == {y \in up : Ancestors(stacks, y) \cap S # {}}
<1>1. n \in up /\ up \subseteq Stored /\ ClosedUp(stacks, up)
  BY AncestorFacts
<1>2. n \in U /\ U \subseteq Stored
  BY <1>1
<1>3. PICK k \in U : stacks[k].parent \notin U
  BY ZenonT(30), <1>2 DEF NoCycles
<1>4. k \in Stored /\ k \in up
  BY <1>2, <1>3
<1>5. Ancestors(stacks, k) \cap S = {k}
  <2>1. CASE stacks[k].parent = NoName
    BY <1>3, <1>4, <2>1, AncestorsRoot
  <2>2. CASE stacks[k].parent # NoName
    <3>1. stacks[k].parent \in up
      BY <1>1, <1>4, <2>2 DEF ClosedUp
    <3>2. Ancestors(stacks, stacks[k].parent) \cap S = {}
      BY <1>3, <3>1
    <3>3. Ancestors(stacks, k) = {k} \cup Ancestors(stacks, stacks[k].parent)
      BY <1>4, <2>2, AncestorsStep
    <3> QED  BY <1>3, <3>2, <3>3
  <2> QED  BY <2>1, <2>2
<1>6. ASSUME NEW x \in S PROVE k \in Ancestors(stacks, x)
  <2>1. x \in Ancestors(stacks, k) \/ k \in Ancestors(stacks, x)
    BY <1>4, AncestorsInLine
  <2> QED  BY <1>5, <2>1, <1>4, AncestorFacts
<1>7. k \in S /\ \A x \in S : k \in Ancestors(stacks, x)
  BY <1>5, <1>6
<1> QED  BY <1>7 DEF Topmost

LEMMA NearestOwn ==
  ASSUME ParentsExist, NoCycles, NEW n \in Stored,
         NEW S \in SUBSET Ancestors(stacks, n), n \in S
  PROVE  Nearest(S) = n
<1>1. ASSUME NEW m \in S, S \subseteq Ancestors(stacks, m) PROVE m = n
  <2>1. CASE stacks[n].parent = NoName
    BY <2>1, AncestorsRoot
  <2>2. CASE stacks[n].parent # NoName
    <3> DEFINE p == stacks[n].parent
    <3>1. p \in Stored /\ Ancestors(stacks, n) = {n} \cup Ancestors(stacks, p)
      BY <2>2, AncestorsStep
    <3>2. n \notin Ancestors(stacks, p)
      BY <2>2, NotAboveItself
    <3>3. m \in Ancestors(stacks, p) => Ancestors(stacks, m) \subseteq Ancestors(stacks, p)
      BY <3>1, AncestorsNest
    <3> QED  BY <1>1, <3>1, <3>2, <3>3
  <2> QED  BY <2>1, <2>2
<1> QED  BY <1>1 DEF Nearest

LEMMA TopmostKept ==
  ASSUME ParentsExist, NoCycles, NEW n \in Stored, stacks[n].parent # NoName,
         NEW S \in SUBSET Ancestors(stacks, stacks[n].parent), S # {}
  PROVE  Topmost(S \cup {n}) = Topmost(S)
<1> DEFINE p == stacks[n].parent
           Above(m, T) == m \in T /\ \A k \in T : m \in Ancestors(stacks, k)
<1>1. p \in Stored /\ Ancestors(stacks, n) = {n} \cup Ancestors(stacks, p)
  BY AncestorsStep
<1>2. n \notin Ancestors(stacks, p)
  BY NotAboveItself
<1>3. \A k \in S : n \notin Ancestors(stacks, k)
  BY <1>1, <1>2, AncestorsNest
<1>4. \A m : Above(m, S \cup {n}) <=> Above(m, S)
  BY <1>1, <1>3
<1>5. \A m : (m \in S \cup {n} /\ \A k \in S \cup {n} : m \in Ancestors(stacks, k))
             <=> (m \in S /\ \A k \in S : m \in Ancestors(stacks, k))
  BY <1>4
<1> QED  BY <1>5 DEF Topmost
-----------------------------------------------------------------------------
(* What inheritance means is what merging a stack into its resolved parent *)
(* computes.                                                               *)

LEMMA OwnApp ==
  ASSUME TableOK, NEW n \in Stored, NEW a \in DOMAIN stacks[n].apps
  PROVE  IsApplication(AppOf(n, a))
<1>1. stacks[n].apps \in Contents
  BY DEF TableOK, Tables, Row, Stored
<1> QED  BY <1>1, ContentsAssumption DEF AppOf

LEMMA ResolvedElsewhere ==
  ASSUME NEW up, NEW above, NEW a, Having(up, a) = Having(above, a)
  PROVE  ResolvedApp(up, a) = ResolvedApp(above, a)
<1>1. Setting(up, a) = Setting(above, a) /\ \A k : Flagging(up, a, k) = Flagging(above, a, k)
  BY DEF Setting, Flagging
<1>2. \A k : FlagValue(up, a, k) = FlagValue(above, a, k)
  BY ZenonT(30), <1>1 DEF FlagValue
<1>3. Flags(up, a) = Flags(above, a)
  BY <1>1, <1>2 DEF Flags
<1> QED  BY <1>1, <1>2, <1>3 DEF ResolvedApp

LEMMA ResolvedNew ==
  ASSUME TableOK, ParentsExist, NoCycles, NEW n \in Stored, NEW up, NEW a, Having(up, a) = {n}
  PROVE  ResolvedApp(up, a) = AppOf(n, a)
<1> DEFINE own == AppOf(n, a)
<1>1. a \in DOMAIN stacks[n].apps
  BY DEF Having
<1>2. IsApplication(own)
  BY <1>1, OwnApp
<1>3. Nearest({n}) = n /\ Topmost({n}) = n
  <2>1. n \in Ancestors(stacks, n)
    BY AncestorFacts
  <2> QED  BY <2>1, NearestOwn, TopmostExists
<1>4. \A k : Flagging(up, a, k) = IF k \in DOMAIN own.sched THEN {n} ELSE {}
  BY DEF Flagging
<1>5. \A k \in DOMAIN own.sched : FlagValue(up, a, k) = own.sched[k]
  BY ZenonT(30), <1>3, <1>4 DEF FlagValue
<1>6. Flags(up, a) = DOMAIN own.sched
  BY <1>3, <1>4 DEF Flags
<1>7. Setting(up, a) = IF own.over = Empty THEN {} ELSE {n}
  BY DEF Setting
<1> HIDE DEF own
<1>8. (IF Setting(up, a) = {} THEN Empty ELSE AppOf(Nearest(Setting(up, a)), a).over) = own.over
  BY <1>3, <1>7 DEF own
<1>9. AppOf(Topmost(Having(up, a)), a).kept = own.kept
  BY <1>3 DEF own
<1>10. [k \in Flags(up, a) |-> FlagValue(up, a, k)] = own.sched
  BY <1>2, <1>5, <1>6 DEF IsApplication
<1> QED  BY <1>2, <1>8, <1>9, <1>10 DEF ResolvedApp, IsApplication, own

LEMMA ResolvedBoth ==
  ASSUME TableOK, ParentsExist, NoCycles, NEW n \in Stored, stacks[n].parent # NoName,
         NEW a \in DOMAIN stacks[n].apps,
         Having(Ancestors(stacks, stacks[n].parent), a) # {}
  PROVE  ResolvedApp(Ancestors(stacks, n), a) =
           MergeApplication(ResolvedApp(Ancestors(stacks, stacks[n].parent), a), AppOf(n, a))
<1> DEFINE p == stacks[n].parent
           up == Ancestors(stacks, n)
           above == Ancestors(stacks, p)
           own == AppOf(n, a)
           old == ResolvedApp(above, a)
<1>1. p \in Stored /\ up = {n} \cup above /\ n \notin above
  BY AncestorsStep, NotAboveItself
<1>2. Having(up, a) = Having(above, a) \cup {n} /\ Having(above, a) \subseteq above
  BY <1>1 DEF Having
<1>3. Topmost(Having(up, a)) = Topmost(Having(above, a))
  BY <1>2, TopmostKept
<1>4. Topmost(Having(up, a)) # n
  BY <1>1, <1>2, <1>3, TopmostExists
<1>5. Setting(up, a) = Setting(above, a) \cup (IF own.over = Empty THEN {} ELSE {n})
  BY <1>2 DEF Setting
<1>6. \A k : Flagging(up, a, k) = Flagging(above, a, k) \cup (IF k \in DOMAIN own.sched THEN {n} ELSE {})
  BY <1>2 DEF Flagging
<1>7. \A S \in SUBSET up : n \in S => Nearest(S) = n
  BY NearestOwn
<1>8. Setting(up, a) \subseteq up /\ \A k : Flagging(up, a, k) \subseteq up
  BY DEF Setting, Flagging, Having
<1> HIDE DEF up, above, own
<1>9. (IF Setting(up, a) = {} THEN Empty ELSE AppOf(Nearest(Setting(up, a)), a).over)
      = IF own.over = Empty
        THEN IF Setting(above, a) = {} THEN Empty ELSE AppOf(Nearest(Setting(above, a)), a).over
        ELSE own.over
  BY <1>5, <1>7, <1>8 DEF own
<1>10. \A k \in DOMAIN own.sched : Nearest(Flagging(up, a, k)) = n /\ FlagValue(up, a, k) = own.sched[k]
  BY ZenonT(30), <1>6, <1>7, <1>8 DEF FlagValue, own
<1>11. \A k : k \notin DOMAIN own.sched => /\ Flagging(up, a, k) = Flagging(above, a, k)
                                           /\ FlagValue(up, a, k) = FlagValue(above, a, k)
  BY ZenonT(30), <1>6 DEF FlagValue
<1> DEFINE deleted == {k \in DOMAIN own.sched : own.sched[k] = Empty}
           set == DOMAIN own.sched \ deleted
<1>12. UNION {DOMAIN AppOf(m, a).sched : m \in Having(up, a)}
       = DOMAIN own.sched \cup UNION {DOMAIN AppOf(m, a).sched : m \in Having(above, a)}
  BY <1>2 DEF own
<1>13. Flags(up, a) = (Flags(above, a) \ deleted) \cup set
  BY <1>3, <1>4, <1>10, <1>11, <1>12 DEF Flags
<1>14. [k \in Flags(up, a) |-> FlagValue(up, a, k)]
       = MergeScheduler([k \in Flags(above, a) |-> FlagValue(above, a, k)], own.sched)
  BY <1>10, <1>11, <1>13 DEF MergeScheduler
<1>15. AppOf(Topmost(Having(up, a)), a).kept = AppOf(Topmost(Having(above, a)), a).kept
  BY <1>3
<1>16. /\ old.over = IF Setting(above, a) = {} THEN Empty ELSE AppOf(Nearest(Setting(above, a)), a).over
       /\ old.kept = AppOf(Topmost(Having(above, a)), a).kept
       /\ old.sched = [k \in Flags(above, a) |-> FlagValue(above, a, k)]
  BY ZenonT(30) DEF ResolvedApp
<1>17. ResolvedApp(up, a) = MergeApplication(old, own)
  <2> HIDE DEF old
  <2> QED  BY ZenonT(30), <1>9, <1>14, <1>15, <1>16 DEF ResolvedApp, MergeApplication
<1> QED  BY <1>17 DEF up, above, own

LEMMA ResolvedDomain ==
  ASSUME NEW n
  PROVE  LET up == Ancestors(stacks, n) IN
         /\ Resolved(n) = [a \in DOMAIN Resolved(n) |-> ResolvedApp(up, a)]
         /\ \A a : a \in DOMAIN Resolved(n) <=> Having(up, a) # {}
BY DEF Resolved, Having

LEMMA ResolvedRoot ==
  ASSUME TableOK, ParentsExist, NoCycles, NEW n \in Stored, stacks[n].parent = NoName
  PROVE  Resolved(n) = stacks[n].apps
<1> DEFINE up == Ancestors(stacks, n)
           apps == stacks[n].apps
<1>1. up = {n}
  BY AncestorsRoot
<1>2. \A a : Having(up, a) = IF a \in DOMAIN apps THEN {n} ELSE {}
  BY <1>1 DEF Having
<1>3. DOMAIN Resolved(n) = DOMAIN apps
  BY ZenonT(30), <1>2, ResolvedDomain
<1>4. \A a \in DOMAIN apps : ResolvedApp(up, a) = apps[a]
  BY <1>2, ResolvedNew DEF AppOf
<1>5. apps = [a \in DOMAIN apps |-> apps[a]]
  BY ContentsAssumption DEF TableOK, Tables, Row, Stored
<1>6. Resolved(n) = [a \in DOMAIN apps |-> ResolvedApp(up, a)]
  BY <1>3, ResolvedDomain
<1> HIDE DEF apps, up
<1>7. [a \in DOMAIN apps |-> ResolvedApp(up, a)] = [a \in DOMAIN apps |-> apps[a]]
  BY <1>4
<1> QED  BY <1>5, <1>6, <1>7 DEF apps

LEMMA ResolvedStep ==
  ASSUME TableOK, ParentsExist, NoCycles, NEW n \in Stored, stacks[n].parent # NoName
  PROVE  Resolved(n) = Merge(Resolved(stacks[n].parent), stacks[n].apps)
<1> DEFINE p == stacks[n].parent
           up == Ancestors(stacks, n)
           above == Ancestors(stacks, p)
           apps == stacks[n].apps
           old == Resolved(p)
<1>1. up = {n} \cup above /\ n \notin above
  BY AncestorsStep, NotAboveItself
<1>2. \A a : Having(up, a) = Having(above, a) \cup (IF a \in DOMAIN apps THEN {n} ELSE {})
  BY <1>1 DEF Having
<1>3. /\ Resolved(n) = [a \in DOMAIN Resolved(n) |-> ResolvedApp(up, a)]
      /\ \A a : a \in DOMAIN Resolved(n) <=> Having(up, a) # {}
  BY ResolvedDomain
<1>4. /\ old = [a \in DOMAIN old |-> ResolvedApp(above, a)]
      /\ \A a : a \in DOMAIN old <=> Having(above, a) # {}
  BY ResolvedDomain
<1>5. DOMAIN Resolved(n) = DOMAIN old \cup DOMAIN apps
  BY ZenonT(30), <1>2, <1>3, <1>4
<1>6. \A a : a \notin DOMAIN apps => ResolvedApp(up, a) = ResolvedApp(above, a)
  BY ZenonT(30), <1>2, ResolvedElsewhere
<1>7. \A a \in DOMAIN apps : a \notin DOMAIN old => ResolvedApp(up, a) = apps[a]
  BY <1>2, <1>4, ResolvedNew DEF AppOf
<1>8. \A a \in DOMAIN apps : a \in DOMAIN old =>
        ResolvedApp(up, a) = MergeApplication(ResolvedApp(above, a), apps[a])
  BY <1>4, ResolvedBoth DEF AppOf
<1> HIDE DEF up, above, apps, old, p
<1>9. \A a \in DOMAIN old : old[a] = ResolvedApp(above, a)
  BY <1>4
<1>10. \A a \in DOMAIN old \cup DOMAIN apps : ResolvedApp(up, a) = Merge(old, apps)[a]
  BY <1>6, <1>7, <1>8, <1>9 DEF Merge
<1>11. Merge(old, apps) = [a \in DOMAIN old \cup DOMAIN apps |-> Merge(old, apps)[a]]
  BY DEF Merge
<1>12. Resolved(n) = [a \in DOMAIN old \cup DOMAIN apps |-> ResolvedApp(up, a)]
  BY <1>3, <1>5
<1>13. Resolved(n) = Merge(old, apps)
  BY <1>10, <1>11, <1>12
<1> QED  BY <1>13 DEF old, p, apps

LEMMA UnwindResolves ==
  ASSUME TableOK, ParentsExist, NoCycles, NEW first, first # NoName,
         NEW contents \in Seq(Contents), ReadAlong(first, NoName, contents)
  PROVE  Unwind(contents) = Resolved(first) /\ contents # <<>>
<1>1. PICK path \in Seq(Names) : Follows(path, first, NoName, contents)
  BY DEF ReadAlong
<1> DEFINE k == Len(path)
           Unwinds(g) == g = [i \in 1..k |-> IF i = k THEN contents[i] ELSE Merge(g[i + 1], contents[i])]
           up == [i \in 1..k |-> Resolved(path[i])]
<1>2. k \in Nat /\ k >= 1 /\ first = path[1] /\ Len(contents) = k
  BY <1>1 DEF Follows
<1>3. \A i \in 1..k : path[i] \in Stored /\ contents[i] = stacks[path[i]].apps
  BY <1>1 DEF Follows
<1>4. /\ stacks[path[k]].parent = NoName
      /\ \A i \in 1..k : i # k => stacks[path[i]].parent = path[i + 1] /\ i + 1 \in 1..k
  BY <1>1, <1>2 DEF Follows
<1>5. \A i \in 1..k : i # k => stacks[path[i]].parent # NoName
  <2>1. \A i \in 1..k : path[i] # NoName
    BY <1>3, NamesAssumption DEF TableOK, Tables, Stored
  <2> QED  BY <1>4, <2>1
<1>6. k \in 1..k /\ 1 \in 1..k
  BY <1>2
<1>7. Resolved(path[k]) = contents[k]
  BY <1>3, <1>4, <1>6, ResolvedRoot
<1>8. \A i \in 1..k : i # k => Resolved(path[i]) = Merge(Resolved(path[i + 1]), contents[i])
  BY <1>3, <1>4, <1>5, ResolvedStep
<1> HIDE DEF k
<1>9. Unwinds(up)
  BY <1>4, <1>7, <1>8
<1>10. ASSUME NEW g, Unwinds(g) PROVE g[1] = Resolved(first)
  <2> DEFINE Wrong == {path[i] : i \in {j \in 1..k : g[j] # Resolved(path[j])}}
  <2>1. /\ g[k] = contents[k]
        /\ \A i \in 1..k : i # k => g[i] = Merge(g[i + 1], contents[i])
    BY <1>6, <1>10
  <2>2. Wrong \subseteq Stored
    BY <1>3
  <2>3. ASSUME Wrong # {} PROVE FALSE
    <3>1. PICK n \in Wrong : stacks[n].parent \notin Wrong
      BY ZenonT(30), <2>2, <2>3 DEF NoCycles
    <3>2. PICK i \in 1..k : n = path[i] /\ g[i] # Resolved(path[i])
      BY <3>1
    <3>3. i # k
      BY <1>7, <2>1, <3>2
    <3>4. g[i + 1] = Resolved(path[i + 1])
      BY <1>4, <3>1, <3>2, <3>3
    <3> QED  BY <1>8, <2>1, <3>2, <3>3, <3>4
  <2> QED  BY <1>2, <1>6, <2>3
<1>11. Unwind(contents) = (CHOOSE g : Unwinds(g))[1]
  BY <1>2 DEF Unwind
<1>12. Unwinds(CHOOSE g : Unwinds(g))
  BY ZenonT(30), <1>9
<1>13. contents # <<>>
  BY <1>2
<1> HIDE DEF Unwinds
<1>14. (CHOOSE g : Unwinds(g))[1] = Resolved(first)
  BY <1>10, <1>12
<1> QED  BY <1>11, <1>13, <1>14

(* GetStack and GetLayersStack: as long as no stack is removed meanwhile,  *)
(* a request finds its stack, and its zone, resolved setting by setting as *)
(* Resolved says, for a tree of any depth, any stack files, and whatever   *)
(* is stored meanwhile.  How runStack combines the two is not claimed.     *)
THEOREM QuietReadsResolve ==
  ASSUME QueriesSucceed
  PROVE  Spec => []QuietReads
<1>1. TypeOK /\ Inv /\ QuietChains /\ QuietNext => QuietReads
  <2> SUFFICES ASSUME TypeOK, Inv, QuietChains, NEW r \in Requests,
                      requests[r].quiet, requests[r].phase = "done"
               PROVE  LET q == requests[r] IN
                      /\ Unwind(q.chain) = Resolved(q.name)
                      /\ q.zone # NoName => Unwind(q.layers) = Resolved(q.zone)
                      /\ q.zone = NoName => Answer(q) = Resolved(q.name)
    BY DEF QuietReads
  <2> DEFINE q == requests[r]
  <2>1. q \in Request /\ TableOK /\ ParentsExist /\ NoCycles
    BY DEF TypeOK, Inv
  <2>2. q.chain \in Seq(Contents) /\ q.layers \in Seq(Contents)
    BY <2>1 DEF Request
  <2>3. /\ ReadAlong(q.name, NoName, q.chain) /\ q.name # NoName
        /\ IF q.zone = NoName THEN q.layers = <<>> ELSE ReadAlong(q.zone, NoName, q.layers)
    BY DEF QuietChains, RowsRead
  <2>4. Unwind(q.chain) = Resolved(q.name)
    BY <2>1, <2>2, <2>3, UnwindResolves
  <2>5. ASSUME q.zone = NoName PROVE Answer(q) = Resolved(q.name)
    BY <2>3, <2>4, <2>5 DEF Answer
  <2>6. ASSUME q.zone # NoName PROVE Unwind(q.layers) = Resolved(q.zone)
    BY ZenonT(30), <2>1, <2>2, <2>3, <2>6, UnwindResolves
  <2> QED  BY <2>4, <2>5, <2>6
<1> QED  BY <1>1, StoreTypes, TableInvariance, QuietRequestsReadTheChain,
            QuietRequestsMissNothing, PTL
=============================================================================
