---------------------------- MODULE StackStore -----------------------------
(***************************************************************************)
(* The stacks table: CassandraStorage of framework/storage.go, with the    *)
(* handlers of framework/server.go that use it.                            *)
(*                                                                         *)
(* StoreStack and RemoveStack hold the storage's lock, so they exclude one *)
(* another; what others see of them is the rows they write.  A forced      *)
(* removal deletes row by row, children before parents, on a recursion     *)
(* whose frames the model keeps.  GetStack takes no lock: it reads a stack *)
(* and then its ancestors one query at a time, while rows come and go.     *)
(* Layers (zones, clusters and data centers) are rows like any other.      *)
(***************************************************************************)
EXTENDS StackMerge

CONSTANTS
  Names,       \* stack names
  NoName,      \* the empty name: no parent, no zone
  Contents,    \* the applications a stack file may contain
  Requests,    \* the requests that read a stack, to show or to run it
  MaxStores,   \* bound on the number of stacks stored
  Faults       \* what may go wrong: "error", "unread", "crash"

ASSUME NamesAssumption == NoName \notin Names
ASSUME ContentsAssumption ==
  \A contents \in Contents :
    /\ contents = [a \in DOMAIN contents |-> contents[a]]
    /\ \A a \in DOMAIN contents : IsApplication(contents[a])
ASSUME BoundAssumption == MaxStores \in Nat
ASSUME FaultsAssumption == Faults \subseteq {"error", "unread", "crash"}

VARIABLES
  stacks,    \* the table: from the stored names to parent and applications
  frames,    \* the calls of remove under way, for a forced removal
  before,    \* the table when that removal began
  requests,  \* how far each request has read
  stores     \* how many stacks were stored

vars == <<stacks, frames, before, requests, stores>>

Row == [parent : Names \cup {NoName}, apps : Contents]
Tables == UNION {[stored -> Row] : stored \in SUBSET Names}

(* A request reads the chain of its stack, then that of its zone.  It is   *)
(* quiet as long as no row was deleted since it began.                     *)
Request == [phase : {"idle", "stack", "zone", "done", "failed"},
            name : Names \cup {NoName}, zone : Names \cup {NoName},
            next : Names \cup {NoName},
            chain : Seq(Contents), layers : Seq(Contents), quiet : BOOLEAN]
Frame == [name : Names, left : SUBSET Names]

TableOK == stacks \in Tables /\ frames \in Seq(Frame)
TypeOK ==
  /\ TableOK
  /\ before \in Tables
  /\ requests \in [Requests -> Request]
  /\ stores \in 0..MaxStores

Idle == [phase |-> "idle", name |-> NoName, zone |-> NoName, next |-> NoName,
         chain |-> <<>>, layers |-> <<>>, quiet |-> TRUE]

Init ==
  /\ stacks = <<>>
  /\ frames = <<>>
  /\ before = <<>>
  /\ requests = [r \in Requests |-> Idle]
  /\ stores = 0

-----------------------------------------------------------------------------
Stored == DOMAIN stacks
Children(n) == {c \in Stored : stacks[c].parent = n}
Locked == frames # <<>>

(* Mutant: the parent is not looked up. *)
StoreStackUnchecked(n, parent, apps) ==
  /\ ~Locked /\ stores < MaxStores
  /\ n \notin Stored
  /\ stacks' = [m \in Stored \cup {n} |->
                  IF m = n THEN [parent |-> parent, apps |-> apps] ELSE stacks[m]]
  /\ stores' = stores + 1
  /\ UNCHANGED <<frames, before, requests>>

(* A name is stored once, and only below a stack that is there. *)
StoreStack(n, parent, apps) ==
  /\ ~Locked /\ stores < MaxStores
  /\ n \notin Stored
  /\ parent = NoName \/ parent \in Stored
  /\ stacks' = [m \in Stored \cup {n} |->
                  IF m = n THEN [parent |-> parent, apps |-> apps] ELSE stacks[m]]
  /\ stores' = stores + 1
  /\ UNCHANGED <<frames, before, requests>>

(* Mutant: the row is blanked and stays. *)
BlankRow(n) ==
  /\ stacks' = [stacks EXCEPT ![n] = [parent |-> NoName, apps |-> Empty]]
  /\ requests' = [r \in Requests |-> [requests[r] EXCEPT !.quiet = FALSE]]

DeleteRow(n) ==
  /\ stacks' = [m \in Stored \ {n} |-> stacks[m]]
  /\ requests' = [r \in Requests |-> [requests[r] EXCEPT !.quiet = FALSE]]

(* The children query.  Its error is never looked at, so that a query that *)
(* fails midway reads like one that finds no more children.                *)
ChildrenRead(n) == IF "unread" \in Faults THEN SUBSET Children(n) ELSE {Children(n)}

RemoveStack(n) ==
  /\ ~Locked /\ n \in Stored
  /\ {} \in ChildrenRead(n)
  /\ DeleteRow(n)
  /\ UNCHANGED <<frames, before, stores>>

(* remove with force: the call for a stack starts with its children query. *)
Call(n, children) == [name |-> n, left |-> children]

ForceRemoveStack(n) ==
  /\ ~Locked /\ n \in Stored
  /\ \E children \in ChildrenRead(n) : frames' = <<Call(n, children)>>
  /\ before' = stacks
  /\ UNCHANGED <<stacks, requests, stores>>

Top == frames[Len(frames)]

(* Mutant: the children of a child are forgotten. *)
RemoveChildAlone ==
  /\ Locked
  /\ \E c \in Top.left :
       frames' = Append([frames EXCEPT ![Len(frames)].left = @ \ {c}], Call(c, {}))
  /\ UNCHANGED <<stacks, before, requests, stores>>

RemoveChild ==
  /\ Locked
  /\ \E c \in Top.left : \E children \in ChildrenRead(c) :
       frames' = Append([frames EXCEPT ![Len(frames)].left = @ \ {c}], Call(c, children))
  /\ UNCHANGED <<stacks, before, requests, stores>>

RemoveSelf ==
  /\ Locked /\ Top.left = {}
  /\ DeleteRow(Top.name)
  /\ frames' = SubSeq(frames, 1, Len(frames) - 1)
  /\ UNCHANGED <<before, stores>>

(* A DELETE that reports an error, having taken effect or not, ends the    *)
(* whole recursion.                                                        *)
RemoveFails ==
  /\ "error" \in Faults
  /\ Locked /\ Top.left = {}
  /\ DeleteRow(Top.name) \/ UNCHANGED <<stacks, requests>>
  /\ frames' = <<>>
  /\ UNCHANGED <<before, stores>>

-----------------------------------------------------------------------------
(* GetStack, for the get handler (no zone) and for runStack.               *)
StartRequest(r, n, zone) ==
  /\ requests[r].phase = "idle"
  /\ requests' = [requests EXCEPT ![r] = [Idle EXCEPT !.phase = "stack", !.name = n,
                                                      !.next = n, !.zone = zone]]
  /\ UNCHANGED <<stacks, frames, before, stores>>

(* The query found the row; the parent is read next, if there is one.      *)
ReadStack(r) ==
  LET q == requests[r]
      row == stacks[q.next] IN
  /\ q.phase = "stack" /\ q.next \in Stored
  /\ requests' = [requests EXCEPT ![r].chain = Append(@, row.apps),
                                  ![r].next = IF row.parent # NoName THEN row.parent ELSE q.zone,
                                  ![r].phase = IF row.parent # NoName THEN "stack"
                                               ELSE IF q.zone # NoName THEN "zone" ELSE "done"]
  /\ UNCHANGED <<stacks, frames, before, stores>>

ReadZone(r) ==
  LET q == requests[r]
      row == stacks[q.next] IN
  /\ q.phase = "zone" /\ q.next \in Stored
  /\ requests' = [requests EXCEPT ![r].layers = Append(@, row.apps),
                                  ![r].next = row.parent,
                                  ![r].phase = IF row.parent # NoName THEN "zone" ELSE "done"]
  /\ UNCHANGED <<stacks, frames, before, stores>>

(* No row, or an error of the query. *)
ReadFails(r) ==
  /\ requests[r].phase \in {"stack", "zone"}
  /\ requests[r].next \notin Stored \/ "error" \in Faults
  /\ requests' = [requests EXCEPT ![r].phase = "failed"]
  /\ UNCHANGED <<stacks, frames, before, stores>>

(* Mutant: a child is merged into its parent before that is resolved. *)
UnwindFromLeaf(chain) ==
  LET partial[i \in 1..Len(chain)] ==
        IF i = 1 THEN chain[1] ELSE Merge(chain[i], partial[i - 1])
  IN  partial[Len(chain)]

(* The recursion unwinds: each child is merged into its parent's result,   *)
(* starting at the root, which was read last.                              *)
Unwind(chain) ==
  LET partial[i \in 1..Len(chain)] ==
        IF i = Len(chain) THEN chain[i] ELSE Merge(partial[i + 1], chain[i])
  IN  partial[1]

(* What the request gets: runStack merges the stack into its layers. *)
Answer(q) ==
  IF q.layers = <<>> THEN Unwind(q.chain) ELSE Merge(Unwind(q.layers), Unwind(q.chain))

(* The server stops; the rows stay as they are. *)
Crash ==
  /\ "crash" \in Faults /\ Locked
  /\ frames' = <<>>
  /\ requests' = [r \in Requests |->
                    IF requests[r].phase \in {"stack", "zone"}
                    THEN [requests[r] EXCEPT !.phase = "failed", !.quiet = FALSE] ELSE requests[r]]
  /\ UNCHANGED <<stacks, before, stores>>

Next ==
  \/ \E n \in Names, parent \in Names \cup {NoName}, apps \in Contents : StoreStack(n, parent, apps)
  \/ \E n \in Names : RemoveStack(n) \/ ForceRemoveStack(n)
  \/ RemoveChild \/ RemoveSelf \/ RemoveFails
  \/ \E r \in Requests, n \in Names, zone \in Names \cup {NoName} : StartRequest(r, n, zone)
  \/ \E r \in Requests : ReadStack(r) \/ ReadZone(r) \/ ReadFails(r)
  \/ Crash

Spec == Init /\ [][Next]_vars
-----------------------------------------------------------------------------
(* Every stored stack can be resolved: its parent is stored too, after     *)
(* every single row a forced removal deletes, and after the errors and     *)
(* stops that leave one half done.                                         *)
ParentsExist == \A n \in Stored : stacks[n].parent \in Stored \cup {NoName}

(* No stack is its own ancestor, so GetStack's recursion ends: every set   *)
(* of stored stacks has one whose parent is outside it.                    *)
NoCycles ==
  \A S \in SUBSET Stored : S # {} => \E n \in S : stacks[n].parent \notin S

(* A stack with its ancestors, and with its descendants. *)
ClosedUp(table, S) == \A m \in S : table[m].parent \in S \cup {NoName}
Ancestors(table, n) == {m \in DOMAIN table :
  \A S \in SUBSET DOMAIN table : n \in S /\ ClosedUp(table, S) => m \in S}
Family(table, n) == {m \in DOMAIN table : n \in Ancestors(table, m)}

(* "remove a stack and all its children": a forced removal deletes nothing *)
(* but the stack and its descendants, and when it succeeds all of them.    *)
ForcedRemovalExact ==
  [][Locked =>
       LET target == frames[1].name IN
       /\ Stored \ DOMAIN stacks' \subseteq Family(before, target)
       /\ RemoveSelf /\ Len(frames) = 1 =>
            DOMAIN stacks' = DOMAIN before \ Family(before, target)]_vars

(* What inheritance means, setting by setting and not merge by merge: the  *)
(* nearest ancestor that has a setting decides it, the topmost one that    *)
(* has the application decides what is never overridden.                   *)
AppOf(m, a) == stacks[m].apps[a]
Having(up, a) == {m \in up : a \in DOMAIN stacks[m].apps}
Nearest(S) == CHOOSE m \in S : S \subseteq Ancestors(stacks, m)
Topmost(S) == CHOOSE m \in S : \A k \in S : m \in Ancestors(stacks, k)
Setting(up, a) == {m \in Having(up, a) : AppOf(m, a).over # Empty}
Flagging(up, a, k) == {m \in Having(up, a) : k \in DOMAIN AppOf(m, a).sched}
FlagValue(up, a, k) == AppOf(Nearest(Flagging(up, a, k)), a).sched[k]
Flags(up, a) ==
  {k \in UNION {DOMAIN AppOf(m, a).sched : m \in Having(up, a)} :
     FlagValue(up, a, k) # Empty \/ Nearest(Flagging(up, a, k)) = Topmost(Having(up, a))}
ResolvedApp(up, a) ==
  [over  |-> IF Setting(up, a) = {} THEN Empty ELSE AppOf(Nearest(Setting(up, a)), a).over,
   kept  |-> AppOf(Topmost(Having(up, a)), a).kept,
   sched |-> [k \in Flags(up, a) |-> FlagValue(up, a, k)]]
Resolved(n) ==
  LET up == Ancestors(stacks, n)
  IN  [a \in UNION {DOMAIN stacks[m].apps : m \in up} |-> ResolvedApp(up, a)]

(* A request that no deletion overlaps never misses an ancestor: the       *)
(* parent it reads next is stored, however many stacks are stored while it *)
(* reads.                                                                  *)
QuietNext ==
  \A r \in Requests : LET q == requests[r] IN q.quiet =>
    /\ q.phase = "stack" /\ q.chain # <<>> => q.next \in Stored
    /\ q.phase = "zone" /\ q.layers # <<>> => q.next \in Stored

(* Such a request finds all ancestors: GetStack resolves its stack, and    *)
(* GetLayersStack its zone, the way inheritance says, and without a zone   *)
(* the stack as resolved is the answer.                                    *)
QuietReads ==
  /\ QuietNext
  /\ \A r \in Requests : LET q == requests[r] IN q.quiet /\ q.phase = "done" =>
       /\ Unwind(q.chain) = Resolved(q.name)
       /\ q.zone # NoName => Unwind(q.layers) = Resolved(q.zone)
       /\ q.zone = NoName => Answer(q) = Resolved(q.name)

(* What layer.go says of the layers, "you can merge only lower level       *)
(* layers", "Stack.Merge(DataCenter)" down to "Cluster.Merge(Zone)": the   *)
(* settings of the zone a stack runs in win over those of the stack.       *)
ZoneSettingsApply ==
  \A r \in Requests : LET q == requests[r] IN
    q.quiet /\ q.phase = "done" /\ q.zone # NoName =>
      LET zone == Resolved(q.zone) IN
      \A a \in DOMAIN zone : zone[a].over # Empty => Answer(q)[a].over = zone[a].over

(* The contents were read along a path from child to parent that starts at *)
(* first and has come to next.                                             *)
Follows(path, first, next, contents) ==
  /\ Len(path) = Len(contents)
  /\ first = IF path = <<>> THEN next ELSE path[1]
  /\ \A i \in 1..Len(path) :
       /\ path[i] \in Stored
       /\ contents[i] = stacks[path[i]].apps
       /\ stacks[path[i]].parent = IF i = Len(path) THEN next ELSE path[i + 1]
ReadAlong(first, next, contents) ==
  \E path \in Seq(Names) : Follows(path, first, next, contents)

(* A request that no deletion overlaps gets exactly the rows of its stack  *)
(* and all its ancestors, nearest first, and then those of its zone: none  *)
(* left out, none twice, none of another stack.                            *)
RowsRead(q) ==
  /\ q.phase \in {"stack", "zone", "done"} => q.name # NoName
  /\ q.phase \in {"stack", "zone"} => q.next # NoName
  /\ q.phase = "stack" => ReadAlong(q.name, q.next, q.chain) /\ q.layers = <<>>
  /\ q.phase \in {"zone", "done"} => ReadAlong(q.name, NoName, q.chain)
  /\ q.phase = "zone" => ReadAlong(q.zone, q.next, q.layers)
  /\ q.phase = "done" =>
       IF q.zone = NoName THEN q.layers = <<>> ELSE ReadAlong(q.zone, NoName, q.layers)
QuietChains == \A r \in Requests : requests[r].quiet => RowsRead(requests[r])

-----------------------------------------------------------------------------
(* Of the children of a stack under removal only those remain that its     *)
(* call has yet to come to, or is removing right now.                      *)
CallsCover ==
  \A i \in DOMAIN frames :
    Children(frames[i].name) \subseteq
      frames[i].left \cup (IF i = Len(frames) THEN {} ELSE {frames[i + 1].name})

(* The inductive invariant of the table, when the children queries of      *)
(* remove succeed.                                                         *)
Inv == TableOK /\ CallsCover /\ ParentsExist /\ NoCycles
QueriesSucceed == "unread" \notin Faults

(* A forced removal works on the table as it was when it began: rows only  *)
(* go, and what its calls have removed, or will, is below the stack.       *)
RemovalInv ==
  Locked =>
    LET family == Family(before, frames[1].name) IN
    /\ frames[1].name \in DOMAIN before
    /\ \A m \in Stored : m \in DOMAIN before /\ stacks[m] = before[m]
    /\ DOMAIN before \ Stored \subseteq family
    /\ \A i \in 1..Len(frames) : frames[i].name \in family /\ frames[i].left \subseteq family
=============================================================================
