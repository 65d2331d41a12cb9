------------------------- MODULE ServerStartProofs --------------------------
(***************************************************************************)
(* Proofs about Users, for any requests, names and failures of queries,    *)
(* and about ServerStart: a server that is started, bootstrapped and       *)
(* killed takes only steps of Users, so that what is proved of the users   *)
(* holds of the whole server; and Mesos knows it by one framework id.      *)
(***************************************************************************)
EXTENDS ServerStart, TLAPS

-----------------------------------------------------------------------------
(* Hashing keeps the UUID. *)
LEMMA ShaKey ==
  ASSUME NEW k \in Key
  PROVE  Sha(k) \in Key /\ Sha(k).uuid = k.uuid
BY DEF Key, Sha

LEMMA CreateAdminType == CreateAdmin \in Request /\ WrongKey \in Key /\ WrongKey.uuid = 0
BY UsersAssumption DEF CreateAdmin, Request, Roles, WrongKey, Uuid, Key

LEMMA RowFields ==
  ASSUME UsersTypeOK, NEW n \in Names, users[n] # NoRow
  PROVE  users[n] \in Row /\ users[n].key \in Key /\ users[n].role \in Roles
BY DEF UsersTypeOK, Row

(* Type correctness.                                                       *)

LEMMA EndType ==
  ASSUME UsersTypeOK, NEW p \in Procs, NEW position \in Positions, End(p, position)
  PROVE  /\ at' \in [Procs -> Positions] /\ req' \in [Procs -> Request]
         /\ key' \in [Procs -> Key] /\ role' \in [Procs -> Roles]
BY CreateAdminType DEF UsersTypeOK, End, Goto, Roles

LEMMA FailType ==
  ASSUME UsersTypeOK, NEW p \in Procs, Fail(p)
  PROVE  UsersTypeOK'
<1>1. "failed" \in Positions
  BY DEF Positions, Ended
<1> QED  BY <1>1, EndType DEF Fail, UsersTypeOK, table

LEMMA ArriveType ==
  ASSUME UsersTypeOK, NEW r \in Requests, Arrive(r)
  PROVE  UsersTypeOK'
<1>1. r \in Procs /\ "auth" \in Positions
  BY DEF Procs, Positions
<1>2. PICK op \in {"create", "refresh"}, user \in Names, name \in Names, ro \in Roles :
        \E k \in KeysOf(user) :
          req' = [req EXCEPT ![r] =
            [op |-> op, user |-> user, key |-> k, name |-> name, role |-> ro]]
  BY ZenonT(30) DEF Arrive
<1>3. PICK k \in KeysOf(user) :
        req' = [req EXCEPT ![r] =
          [op |-> op, user |-> user, key |-> k, name |-> name, role |-> ro]]
  BY ZenonT(30), <1>2
<1>4. k \in Key
  BY CreateAdminType DEF KeysOf, UsersTypeOK, Told
<1>5. req' \in [Procs -> Request]
  BY <1>1, <1>3, <1>4 DEF UsersTypeOK, Request
<1> QED  BY <1>1, <1>5 DEF Arrive, Goto, table, keys, UsersTypeOK

LEMMA InsertType ==
  ASSUME UsersTypeOK, NEW p \in Procs, Insert(p)
  PROVE  users' \in [Names -> Row \cup {NoRow}] /\ past' \subseteq Past
<1> DEFINE n == req[p].name
<1>1. n \in Names /\ req[p].op \in {"create", "refresh"}
  BY DEF UsersTypeOK, Request
<1>2. [key |-> Sha(key[p]), role |-> role[p]] \in Row
  BY ShaKey DEF UsersTypeOK, Row
<1>3. users[n] # NoRow => [name |-> n, key |-> users[n].key, by |-> req[p].op] \in Past
  BY <1>1, RowFields DEF Past
<1> QED  BY <1>1, <1>2, <1>3 DEF Insert, UsersTypeOK

LEMMA DrawType ==
  ASSUME UsersTypeOK, NEW p \in Procs, DrawKey(p)
  PROVE  drawn' \in Nat /\ key' \in [Procs -> Key]
BY DEF UsersTypeOK, DrawKey, Uuid, Key

LEMMA RequestStepType ==
  ASSUME UsersTypeOK, RowsStay, NEW p \in Procs,
         CheckKey(p) \/ IsAdmin(p) \/ UserNotExist(p) \/ UserExist(p) \/ UserExistRefuses(p)
           \/ GetUser(p) \/ SaveUser(p) \/ Reply(p)
  PROVE  UsersTypeOK'
<1> USE DEF Goto, table, keys, Positions, Ended
<1>1. CASE Fail(p)
  BY <1>1, FailType
<1>2. CASE UserNotExist(p)
  <2>1. req[p].role \in Roles /\ req[p].name \in Names
    BY DEF UsersTypeOK, Request
  <2> QED  BY <1>2, <2>1, DrawType DEF UsersTypeOK, UserNotExist
<1>3. CASE GetUser(p) /\ ~Fail(p)
  <2>1. req[p].name \in Names /\ users[req[p].name] # NoRow
    BY <1>3 DEF UsersTypeOK, Request, RowsStay, GetUser
  <2>2. users[req[p].name].role \in Roles
    BY <2>1, RowFields
  <2> QED  BY <1>3, <2>2, DrawType DEF UsersTypeOK, GetUser
<1>4. CASE SaveUser(p)
  BY <1>4, InsertType, EndType DEF UsersTypeOK, SaveUser
<1>5. CASE Reply(p)
  <2>1. [name |-> req[p].name, key |-> key[p]] \in Told
    BY DEF UsersTypeOK, Request, Told
  <2> QED  BY <1>5, <2>1, EndType DEF UsersTypeOK, Reply
<1> QED
  BY <1>1, <1>2, <1>3, <1>4, <1>5
  DEF UsersTypeOK, CheckKey, IsAdmin, UserExist, UserExistRefuses

(* The server stops. *)
LEMMA StopType == UsersTypeOK /\ Stop => UsersTypeOK'
<1> SUFFICES ASSUME UsersTypeOK, Stop PROVE UsersTypeOK'
  OBVIOUS
<1>1. lost' \subseteq Key
  BY DEF Stop, UsersTypeOK
<1> QED  BY <1>1, CreateAdminType DEF Stop, UsersTypeOK, table, Positions, Ended, Roles

-----------------------------------------------------------------------------
(* The user a request is sent by is an admin, unless the name has raced.   *)
AdminAsks(u) == (users[u] # NoRow /\ users[u].role = "admin") \/ u \in raced

(* A step of one process that leaves the table alone keeps all that is not *)
(* about the keys handed out or lost.                                      *)
LEMMA TableKept ==
  ASSUME UsersInv, NEW p \in Procs,
         UNCHANGED <<users, past, drawn, raced>>,
         \A q \in Procs : q # p =>
           at'[q] = at[q] /\ req'[q] = req[q] /\ key'[q] = key[q] /\ role'[q] = role[q],
         at'[p] \notin {"save", "reply"},
         key'[p].uuid <= drawn,
         at'[p] = "admin" => users[req'[p].user] # NoRow,
         at'[p] = "read" => req'[p].op = "refresh" /\ users[req'[p].name] # NoRow,
         p \in Requests /\ at'[p] \in {"exists", "read"} => AdminAsks(req'[p].user)
  PROVE  /\ KeysDrawn' /\ SavesFresh' /\ SavesAgree' /\ RowsStay' /\ RepliesLast'
         /\ KeysNeverReturn' /\ OnlyAdminsWrite'
<1> USE DEF UsersInv
<1>1. KeysDrawn'
  BY DEF KeysDrawn
<1>2. SavesFresh'
  BY DEF SavesFresh
<1>3. SavesAgree'
  BY DEF SavesAgree, Creating
<1>4. RowsStay'
  BY DEF RowsStay
<1>5. RepliesLast'
  BY DEF RepliesLast, Valid
<1>6. KeysNeverReturn'
  BY DEF KeysNeverReturn
<1>7. OnlyAdminsWrite'
  BY DEF OnlyAdminsWrite, AdminAsks, Procs
<1> QED  BY ZenonT(30), <1>1, <1>2, <1>3, <1>4, <1>5, <1>6, <1>7

(* A step of one process that leaves the table alone and is neither about  *)
(* to save nor to reply disturbs nothing, if what it has read is there.    *)
LEMMA QuietStep ==
  ASSUME UsersInv, UsersTypeOK', NEW p \in Procs,
         UNCHANGED <<users, past, drawn, raced, told, lost>>,
         \A q \in Procs : q # p =>
           at'[q] = at[q] /\ req'[q] = req[q] /\ key'[q] = key[q] /\ role'[q] = role[q],
         at[p] # "reply", at'[p] \notin {"save", "reply"},
         key'[p].uuid <= drawn,
         at'[p] = "admin" => users[req'[p].user] # NoRow,
         at'[p] = "read" => req'[p].op = "refresh" /\ users[req'[p].name] # NoRow,
         p \in Requests /\ at'[p] \in {"exists", "read"} => AdminAsks(req'[p].user)
  PROVE  UsersInv'
<1>1. /\ KeysDrawn' /\ SavesFresh' /\ SavesAgree' /\ RowsStay' /\ RepliesLast'
      /\ KeysNeverReturn' /\ OnlyAdminsWrite'
  BY ZenonT(30), TableKept
<1>2. StoredKeysHeld'
  BY DEF UsersInv, StoredKeysHeld, Valid
<1>3. KeysLast'
  BY DEF UsersInv, KeysLast, Valid
<1> QED  BY ZenonT(30), <1>1, <1>2, <1>3 DEF UsersInv

(* Drawing a key, with the name free or the role read. *)
LEMMA DrawStep ==
  ASSUME UsersInv, UsersTypeOK', NEW p \in Procs,
         UNCHANGED <<users, past, req, told, lost>>, DrawKey(p),
         at[p] \in {"exists", "read"}, at' = [at EXCEPT ![p] = "save"],
         \A q \in Procs : q # p => role'[q] = role[q],
         raced \subseteq raced',
         req[p].name \notin raced' =>
           \/ req[p].op = "create" /\ users[req[p].name] = NoRow /\ ~Creating(p, req[p].name)
           \/ /\ req[p].op = "refresh" /\ users[req[p].name] # NoRow
              /\ role'[p] = users[req[p].name].role
  PROVE  UsersInv'
<1> USE DEF UsersInv
<1>0. /\ drawn' = drawn + 1 /\ drawn \in Nat
      /\ key' = [key EXCEPT ![p] = Uuid(drawn + 1)] /\ key'[p].uuid = drawn + 1
      /\ \A q \in Procs : q # p => key'[q] = key[q] /\ at'[q] = at[q]
      /\ at'[p] = "save"
  BY DEF DrawKey, UsersTypeOK, Uuid
<1>a. \A n \in Names : users[n] # NoRow => users[n].key.uuid \in Nat
  BY RowFields DEF Key
<1>b. \A x \in past : x.key.uuid \in Nat
  BY DEF UsersTypeOK, Past, Key
<1>c. \A q \in Procs : key[q].uuid \in Nat
  BY DEF UsersTypeOK, Key
<1>1. KeysDrawn'
  BY <1>0, <1>a, <1>b, <1>c DEF KeysDrawn
<1>2. SavesFresh'
  BY SMTT(30), <1>0, <1>a, <1>b, <1>c DEF SavesFresh, KeysDrawn
<1>3. SavesAgree'
  BY <1>0 DEF SavesAgree, Creating
<1>4. RowsStay'
  BY SMTT(30), <1>0 DEF RowsStay
<1>5. RepliesLast'
  BY SMTT(30), <1>0 DEF RepliesLast, Valid
<1>6. StoredKeysHeld'
  BY SMTT(30), <1>0 DEF StoredKeysHeld, Valid
<1>7. KeysLast' /\ KeysNeverReturn'
  BY DEF KeysLast, KeysNeverReturn, Valid
<1>8. OnlyAdminsWrite'
  BY <1>0 DEF OnlyAdminsWrite, Procs
<1> QED  BY <1>1, <1>2, <1>3, <1>4, <1>5, <1>6, <1>7, <1>8

(* The row of an INSERT is overwritten in a way the other requests know.   *)
LEMMA InsertEffect ==
  ASSUME UsersInv, NEW p \in Procs, at[p] = "save", Insert(p)
  PROVE  LET n == req[p].name IN
         /\ n \in Names
         /\ users'[n] # NoRow /\ users'[n].key = Sha(key[p]) /\ users'[n].role = role[p]
         /\ users'[n].key.uuid = key[p].uuid
         /\ \A m \in Names : m # n => users'[m] = users[m]
         /\ past \subseteq past'
         /\ \A x \in past' : x \in past \/
              (users[n] # NoRow /\ x.name = n /\ x.key = users[n].key /\ x.by = req[p].op)
         /\ users[n] # NoRow => \E x \in past' :
              x.name = n /\ x.key = users[n].key /\ x.by = req[p].op
         /\ n \notin raced /\ users[n] # NoRow =>
              req[p].op = "refresh" /\ role[p] = users[n].role
<1> DEFINE n == req[p].name
           row == [key |-> Sha(key[p]), role |-> role[p]]
           old == [name |-> n, key |-> users[n].key, by |-> req[p].op]
<1>1. n \in Names /\ key[p] \in Key /\ role[p] \in Roles
  BY DEF UsersInv, UsersTypeOK, Request
<1>2. row \in Row /\ row.key = Sha(key[p]) /\ row.role = role[p] /\ row.key.uuid = key[p].uuid
  BY <1>1, ShaKey DEF Row
<1>3. users' = [users EXCEPT ![n] = row] /\ users \in [Names -> Row \cup {NoRow}]
  BY DEF Insert, UsersInv, UsersTypeOK
<1>4. users'[n] = row /\ row # NoRow /\ \A m \in Names : m # n => users'[m] = users[m]
  BY <1>1, <1>2, <1>3, NoRowAssumption
<1>5. past' = IF users[n] = NoRow THEN past ELSE past \cup {old}
  BY DEF Insert
<1>6. old.name = n /\ old.key = users[n].key /\ old.by = req[p].op
  OBVIOUS
<1>7. n \notin raced /\ users[n] # NoRow => req[p].op = "refresh" /\ role[p] = users[n].role
  BY DEF UsersInv, SavesAgree
<1> HIDE DEF old, row
<1> QED  BY <1>1, <1>2, <1>4, <1>5, <1>6, <1>7

LEMMA InsertStep ==
  ASSUME UsersInv, UsersTypeOK', NEW p \in Procs, at[p] = "save", Insert(p),
         UNCHANGED <<drawn, raced, told>>,
         \A q \in Procs : q # p =>
           at'[q] = at[q] /\ req'[q] = req[q] /\ key'[q] = key[q] /\ role'[q] = role[q],
         \/ at'[p] = "reply" /\ req'[p] = req[p] /\ key'[p] = key[p] /\ lost' = lost
         \/ at'[p] = "failed" /\ key'[p].uuid <= drawn /\ lost' = lost \cup {key[p]}
  PROVE  UsersInv'
<1> DEFINE n == req[p].name
<1> USE DEF UsersInv
<1>a. /\ n \in Names
      /\ users'[n] # NoRow /\ users'[n].key = Sha(key[p]) /\ users'[n].role = role[p]
      /\ users'[n].key.uuid = key[p].uuid
      /\ \A m \in Names : m # n => users'[m] = users[m]
      /\ past \subseteq past'
      /\ \A x \in past' : x \in past \/
           (users[n] # NoRow /\ x.name = n /\ x.key = users[n].key /\ x.by = req[p].op)
      /\ users[n] # NoRow => \E x \in past' :
           x.name = n /\ x.key = users[n].key /\ x.by = req[p].op
      /\ n \notin raced /\ users[n] # NoRow => req[p].op = "refresh" /\ role[p] = users[n].role
  BY InsertEffect
<1>b. \A q \in Procs : req[q].name \in Names /\ req[q].user \in Names
  BY ZenonT(30) DEF UsersTypeOK, Request
<1> HIDE DEF n
<1>1. KeysDrawn'
  BY <1>a DEF KeysDrawn
<1>2. SavesFresh'
  BY SMTT(30), <1>a DEF SavesFresh
<1>3. SavesAgree'
  <2> SUFFICES ASSUME NEW q \in Procs, at'[q] = "save", req'[q].name \notin raced
               PROVE  (\/ req[q].op = "create" /\ users[req[q].name] = NoRow /\ ~Creating(q, req[q].name)
                       \/ /\ req[q].op = "refresh" /\ users[req[q].name] # NoRow
                          /\ role[q] = users[req[q].name].role)'
    BY ZenonT(30) DEF SavesAgree
  <2>1. q # p /\ at[q] = "save" /\ req'[q] = req[q] /\ role'[q] = role[q]
    OBVIOUS
  <2>2. Creating(q, req[q].name)' => Creating(q, req[q].name)
    BY ZenonT(30), <2>1 DEF Creating
  <2>3. CASE req[q].name # n
    <3>1. users'[req[q].name] = users[req[q].name]
      BY ZenonT(30), <1>a, <1>b, <2>3
    <3> QED  BY ZenonT(30), <2>1, <2>2, <3>1 DEF SavesAgree
  <2>4. CASE req[q].name = n /\ req[q].op = "create"
    <3>1. users[n] = NoRow /\ ~Creating(q, n)
      BY SMTT(30), <2>1, <2>4 DEF SavesAgree
    <3>2. req[p].op = "create"
      BY SMTT(30), <2>1, <2>4, <3>1 DEF SavesAgree, n
    <3> QED  BY <2>1, <2>4, <3>1, <3>2 DEF Creating, n
  <2>5. CASE req[q].name = n /\ req[q].op # "create"
    BY SMTT(30), <1>a, <2>1, <2>5 DEF SavesAgree
  <2> QED  BY ZenonT(30), <2>3, <2>4, <2>5
<1>4. RowsStay'
  <2>1. \A m \in Names : users[m] # NoRow => users'[m] # NoRow
    BY ZenonT(30), <1>a
  <2> SUFFICES ASSUME NEW q \in Procs, at'[q] \in {"admin", "read"}
               PROVE  /\ at'[q] = "admin" => users'[req'[q].user] # NoRow
                      /\ at'[q] = "read" => req'[q].op = "refresh" /\ users'[req'[q].name] # NoRow
    BY ZenonT(30) DEF RowsStay
  <2>2. at'[q] = at[q] /\ req'[q] = req[q]
    OBVIOUS
  <2> QED  BY ZenonT(30), <1>b, <2>1, <2>2 DEF RowsStay
<1>5. RepliesLast'
  <2> SUFFICES ASSUME NEW q \in Procs, at'[q] = "reply", req'[q].name \notin raced'
               PROVE  \/ Valid(req[q].name, key[q])'
                      \/ \E x \in past' : /\ x.name = req'[q].name /\ x.key = Sha(key'[q])
                                          /\ x.by = "refresh"
    BY ZenonT(30) DEF RepliesLast
  <2>1. CASE q = p
    <3>1. req'[p] = req[p] /\ key'[p] = key[p]
      BY <2>1
    <3> QED  BY ZenonT(30), <1>a, <2>1, <3>1 DEF Valid, n
  <2>2. CASE q # p
    <3>1. req'[q] = req[q] /\ key'[q] = key[q] /\ at[q] = "reply" /\ req[q].name \notin raced
      BY ZenonT(30), <2>2
    <3>2. CASE \E x \in past : x.name = req[q].name /\ x.key = Sha(key[q]) /\ x.by = "refresh"
      BY ZenonT(30), <1>a, <3>1, <3>2
    <3>3. CASE Valid(req[q].name, key[q])
      BY ZenonT(30), <1>a, <1>b, <3>1, <3>3 DEF Valid
    <3> QED  BY ZenonT(30), <3>1, <3>2, <3>3 DEF RepliesLast
  <2> QED  BY ZenonT(30), <2>1, <2>2
<1>6. StoredKeysHeld'
  BY SMTT(30), <1>a DEF StoredKeysHeld, Valid, n
<1>7. KeysNeverReturn'
  BY SMTT(30), <1>a DEF KeysNeverReturn, SavesFresh, UsersTypeOK, Past
<1>8. KeysLast'
  BY SMTT(30), <1>a DEF KeysLast, KeysNeverReturn, Valid, UsersTypeOK, Told
<1>9. OnlyAdminsWrite'
  <2>1. \A m \in Names : users[m] # NoRow /\ m \notin raced =>
          users'[m] # NoRow /\ users'[m].role = users[m].role
    BY ZenonT(30), <1>a
  <2> SUFFICES ASSUME NEW r \in Requests, at'[r] \in {"exists", "read", "save", "reply"}
               PROVE  \/ users'[req'[r].user] # NoRow /\ users'[req'[r].user].role = "admin"
                      \/ req'[r].user \in raced'
    BY ZenonT(30) DEF OnlyAdminsWrite
  <2>2. req'[r] = req[r] /\ at[r] \in {"exists", "read", "save", "reply"} /\ r \in Procs
    BY DEF Procs
  <2> QED  BY ZenonT(30), <1>b, <2>1, <2>2 DEF OnlyAdminsWrite
<1> QED  BY ZenonT(30), <1>1, <1>2, <1>3, <1>4, <1>5, <1>6, <1>7, <1>8, <1>9

-----------------------------------------------------------------------------
(* One lemma for each action.                                              *)

LEMMA FailInv ==
  ASSUME UsersInv, NEW p \in Procs, at[p] # "reply", Fail(p)
  PROVE  UsersInv'
<1>1. UsersTypeOK'
  BY FailType DEF UsersInv
<1>2. at'[p] = "failed" /\ key'[p] = WrongKey
  BY DEF Fail, End, Goto, UsersInv, UsersTypeOK
<1>3. key'[p].uuid <= drawn
  BY <1>2, CreateAdminType DEF UsersInv, UsersTypeOK
<1> QED  BY <1>1, <1>2, <1>3, QuietStep DEF Fail, End, Goto, UsersInv, UsersTypeOK, table

LEMMA ArriveInv ==
  ASSUME UsersInv, NEW r \in Requests, Arrive(r)
  PROVE  UsersInv'
<1>1. UsersTypeOK' /\ r \in Procs
  BY ZenonT(30), ArriveType DEF UsersInv, Procs
<1>2. at[r] = "idle" /\ at'[r] = "auth" /\ UNCHANGED <<users, past, drawn, key, role, raced, told, lost>>
  BY <1>1 DEF Arrive, Goto, table, keys, UsersInv, UsersTypeOK
<1>3. \A q \in Procs : q # r => at'[q] = at[q] /\ req'[q] = req[q]
  BY DEF Arrive, Goto, UsersInv, UsersTypeOK
<1>4. key'[r].uuid <= drawn
  BY ZenonT(30), <1>1, <1>2 DEF UsersInv, KeysDrawn
<1> QED  BY <1>1, <1>2, <1>3, <1>4, QuietStep

(* A step that only goes on to another query. *)
LEMMA GotoInv ==
  ASSUME UsersInv, UsersTypeOK', NEW p \in Procs,
         NEW position \in {"admin", "exists", "read", "empty", "done"}, Goto(p, position),
         UNCHANGED <<table, keys, req, told, lost>>, at[p] # "reply",
         position = "admin" => users[req[p].user] # NoRow,
         position = "read" => req[p].op = "refresh" /\ users[req[p].name] # NoRow,
         p \in Requests /\ position \in {"exists", "read"} => AdminAsks(req[p].user)
  PROVE  UsersInv'
<1>1. at'[p] = position /\ \A q \in Procs : q # p => at'[q] = at[q]
  BY ZenonT(30) DEF Goto, UsersInv, UsersTypeOK
<1>2. key'[p].uuid <= drawn
  BY DEF UsersInv, KeysDrawn, keys
<1> QED  BY ZenonT(30), <1>1, <1>2, QuietStep DEF table, keys

LEMMA ChecksInv ==
  ASSUME UsersInv, NEW r \in Requests, CheckKey(r) \/ IsAdmin(r)
  PROVE  UsersInv'
<1>1. r \in Procs
  BY DEF Procs
<1>2. UsersTypeOK'
  BY SMTT(30), <1>1, RequestStepType DEF UsersInv
<1>3. CASE Fail(r)
  BY SMTT(30), <1>1, <1>3, FailInv DEF CheckKey, IsAdmin
<1>4. CASE CheckKey(r) /\ ~Fail(r)
  BY SMTT(30), <1>1, <1>2, <1>4, GotoInv DEF CheckKey, Valid
<1>5. CASE IsAdmin(r) /\ ~Fail(r)
  BY ZenonT(30), <1>1, <1>2, <1>5, GotoInv DEF IsAdmin, AdminAsks, UsersInv, RowsStay
<1> QED  BY <1>3, <1>4, <1>5

LEMMA UserExistInv ==
  ASSUME UsersInv, NEW r \in Requests, UserExist(r)
  PROVE  UsersInv'
<1>1. r \in Procs
  BY DEF Procs
<1>2. UsersTypeOK'
  BY SMTT(30), <1>1, RequestStepType DEF UsersInv
<1>3. AdminAsks(req[r].user)
  BY DEF UserExist, AdminAsks, UsersInv, OnlyAdminsWrite
<1> QED  BY <1>1, <1>2, <1>3, GotoInv DEF UserExist

LEMMA DrawsInv ==
  ASSUME UsersInv, NEW p \in Procs, UserNotExist(p) \/ GetUser(p)
  PROVE  UsersInv'
<1>1. UsersTypeOK'
  BY RequestStepType DEF UsersInv
<1>2. CASE Fail(p)
  BY SMTT(30), <1>2, FailInv DEF UserNotExist, GetUser
<1>3. CASE UserNotExist(p)
  <2>1. req[p].name \notin raced' => ~Creating(p, req[p].name)
    BY ZenonT(30), <1>3 DEF UserNotExist
  <2> QED  BY ZenonT(30), <1>1, <1>3, <2>1, DrawStep DEF UserNotExist, Goto, table, UsersInv, UsersTypeOK
<1>4. CASE GetUser(p) /\ ~Fail(p)
  <2>1. req[p].op = "refresh" /\ users[req[p].name] # NoRow
    BY <1>4 DEF GetUser, UsersInv, RowsStay
  <2>2. role'[p] = users[req[p].name].role /\ \A q \in Procs : q # p => role'[q] = role[q]
    BY <1>4 DEF GetUser, UsersInv, UsersTypeOK
  <2> QED  BY SMTT(30), <1>1, <1>4, <2>1, <2>2, DrawStep DEF GetUser, Goto, table
<1> QED  BY <1>2, <1>3, <1>4

LEMMA SaveInv ==
  ASSUME UsersInv, NEW p \in Procs, SaveUser(p)
  PROVE  UsersInv'
<1>1. UsersTypeOK'
  BY ZenonT(30), RequestStepType DEF UsersInv
<1>2. CASE Insert(p)
  <2>1. CASE Goto(p, "reply") /\ UNCHANGED <<key, role, req, lost>>
    BY SMTT(30), <1>1, <1>2, <2>1, InsertStep DEF SaveUser, Goto, UsersInv, UsersTypeOK
  <2>2. CASE End(p, "failed") /\ lost' = lost \cup {key[p]}
    <3>1. at'[p] = "failed" /\ key'[p] = WrongKey
      BY <2>2 DEF End, Goto, UsersInv, UsersTypeOK
    <3>2. key'[p].uuid <= drawn
      BY <3>1, CreateAdminType DEF UsersInv, UsersTypeOK
    <3>3. \A q \in Procs : q # p =>
            at'[q] = at[q] /\ req'[q] = req[q] /\ key'[q] = key[q] /\ role'[q] = role[q]
      BY <2>2 DEF End, Goto, UsersInv, UsersTypeOK
    <3> QED  BY ZenonT(30), <1>1, <1>2, <2>2, <3>1, <3>2, <3>3, InsertStep DEF SaveUser
  <2> QED  BY ZenonT(30), <1>2, <2>1, <2>2 DEF SaveUser
<1>3. CASE ~Insert(p)
  <2>1. UNCHANGED <<users, past, drawn, raced, told>> /\ lost \subseteq lost' /\ End(p, "failed")
    BY <1>3 DEF SaveUser, table
  <2>2. at'[p] = "failed" /\ key'[p] = WrongKey /\ at[p] = "save"
    BY ZenonT(30), <2>1 DEF End, Goto, UsersInv, UsersTypeOK, SaveUser
  <2>3. key'[p].uuid <= drawn
    BY <2>2, CreateAdminType DEF UsersInv, UsersTypeOK
  <2>4. \A q \in Procs : q # p =>
          at'[q] = at[q] /\ req'[q] = req[q] /\ key'[q] = key[q] /\ role'[q] = role[q]
    BY ZenonT(30), <2>1 DEF End, Goto, UsersInv, UsersTypeOK
  <2>5. /\ KeysDrawn' /\ SavesFresh' /\ SavesAgree' /\ RowsStay' /\ RepliesLast'
        /\ KeysNeverReturn' /\ OnlyAdminsWrite'
    BY ZenonT(30), <2>1, <2>2, <2>3, <2>4, TableKept
  <2>6. StoredKeysHeld'
    BY SMTT(30), <2>1, <2>2, <2>4 DEF UsersInv, StoredKeysHeld, Valid
  <2>7. KeysLast'
    BY <2>1 DEF UsersInv, KeysLast, Valid
  <2> QED  BY ZenonT(30), <1>1, <2>5, <2>6, <2>7 DEF UsersInv
<1> QED  BY <1>2, <1>3

LEMMA ReplyInv ==
  ASSUME UsersInv, NEW p \in Procs, Reply(p)
  PROVE  UsersInv'
<1> DEFINE t == [name |-> req[p].name, key |-> key[p]]
<1> USE DEF UsersInv
<1>1. UsersTypeOK'
  BY SMTT(30), RequestStepType
<1>2. /\ UNCHANGED <<users, past, drawn, raced, lost>> /\ told' = told \cup {t}
      /\ at[p] = "reply" /\ End(p, "done")
  BY DEF Reply, table
<1>3. at'[p] = "done" /\ key'[p] = WrongKey
  BY <1>2 DEF End, Goto, UsersTypeOK
<1>4. key'[p].uuid <= drawn
  BY <1>3, CreateAdminType DEF UsersTypeOK
<1>5. \A q \in Procs : q # p =>
        at'[q] = at[q] /\ req'[q] = req[q] /\ key'[q] = key[q] /\ role'[q] = role[q]
  BY SMTT(30), <1>2 DEF End, Goto, UsersTypeOK
<1>6. t.name = req[p].name /\ t.key = key[p] /\ t \in told'
  BY ZenonT(30), <1>2
<1> HIDE DEF t
<1>7. /\ KeysDrawn' /\ SavesFresh' /\ SavesAgree' /\ RowsStay' /\ RepliesLast'
      /\ KeysNeverReturn' /\ OnlyAdminsWrite'
  BY ZenonT(30), <1>2, <1>3, <1>4, <1>5, TableKept
<1>8. StoredKeysHeld'
  BY SMTT(30), <1>2, <1>3, <1>5, <1>6 DEF StoredKeysHeld, Valid
<1>9. KeysLast'
  BY SMTT(30), <1>2, <1>6 DEF KeysLast, RepliesLast, Valid
<1> QED  BY <1>1, <1>7, <1>8, <1>9

LEMMA StopInv ==
  ASSUME UsersInv, Stop
  PROVE  UsersInv'
<1> USE DEF UsersInv
<1>1. UsersTypeOK'
  BY ZenonT(30), StopType
<1>2. UNCHANGED <<users, past, drawn, raced, told>> /\ lost \subseteq lost'
  BY ZenonT(30) DEF Stop, table
<1>3. \A q \in Procs : at[q] = "reply" => key[q] \in lost'
  BY DEF Stop
<1>4. \A q \in Procs : at'[q] \in Ended /\ key'[q] = WrongKey
  BY ZenonT(30) DEF Stop, Ended
<1>5. \A q \in Procs : key'[q].uuid <= drawn
  BY SMTT(30), <1>4, CreateAdminType DEF UsersTypeOK
<1>6. KeysDrawn' /\ SavesFresh' /\ RowsStay' /\ SavesAgree' /\ RepliesLast'
  BY ZenonT(30), <1>2, <1>4, <1>5 DEF KeysDrawn, SavesFresh, RowsStay, SavesAgree, RepliesLast, Ended
<1>7. StoredKeysHeld'
  BY ZenonT(30), <1>2, <1>3 DEF StoredKeysHeld, Valid
<1>8. KeysLast' /\ KeysNeverReturn' /\ OnlyAdminsWrite'
  BY ZenonT(30), <1>2, <1>4 DEF KeysLast, KeysNeverReturn, Valid, OnlyAdminsWrite, Procs, Ended
<1> QED  BY <1>1, <1>6, <1>7, <1>8

LEMMA BootInv ==
  ASSUME UsersInv, BeginInit \/ IsEmpty
  PROVE  UsersInv'
<1>1. Boot \in Procs /\ Boot \notin Requests
  BY UsersAssumption DEF Procs
<1>2. CASE Fail(Boot)
  BY SMTT(30), <1>1, <1>2, FailInv DEF BeginInit, IsEmpty
<1>3. CASE ~Fail(Boot)
  <2>1. PICK position \in {"empty", "exists", "done"} :
          Goto(Boot, position) /\ UNCHANGED <<table, keys, req, told, lost>>
    BY <1>3 DEF BeginInit, IsEmpty
  <2>2. UsersTypeOK'
    BY <1>1, <2>1 DEF UsersInv, UsersTypeOK, Goto, table, keys, Positions, Ended
  <2>3. at[Boot] # "reply"
    BY DEF BeginInit, IsEmpty
  <2> QED  BY <1>1, <2>1, <2>2, <2>3, GotoInv
<1> QED  BY <1>2, <1>3

LEMMA UsersStep ==
  ASSUME UsersInv, [UsersNext]_usersVars
  PROVE  UsersInv'
<1>0. Boot \in Procs /\ Requests \subseteq Procs
  BY SMTT(30) DEF Procs
<1>1. CASE UNCHANGED usersVars
  BY ZenonT(30), <1>1 DEF usersVars, UsersInv, UsersTypeOK, KeysDrawn, SavesFresh, SavesAgree, Creating,
              RowsStay, RepliesLast, StoredKeysHeld, KeysLast, KeysNeverReturn,
              OnlyAdminsWrite, Valid
<1>2. ASSUME NEW r \in Requests, Arrive(r)
      PROVE  UsersInv'
  BY <1>2, ArriveInv
<1>3. ASSUME NEW r \in Requests, CheckKey(r) \/ IsAdmin(r)
      PROVE  UsersInv'
  BY <1>3, ChecksInv
<1>4. ASSUME NEW r \in Requests, UserExist(r)
      PROVE  UsersInv'
  BY <1>4, UserExistInv
<1>5. ASSUME NEW p \in Procs, UserNotExist(p) \/ GetUser(p)
      PROVE  UsersInv'
  BY <1>5, DrawsInv
<1>6. ASSUME NEW p \in Procs, UserExistRefuses(p)
      PROVE  UsersInv'
  BY <1>6, FailInv DEF UserExistRefuses
<1>7. ASSUME NEW p \in Procs, SaveUser(p)
      PROVE  UsersInv'
  BY <1>7, SaveInv
<1>8. ASSUME NEW p \in Procs, Reply(p)
      PROVE  UsersInv'
  BY <1>8, ReplyInv
<1>9. CASE BeginInit \/ IsEmpty
  BY <1>9, BootInv
<1>10. CASE Stop
  BY <1>10, StopInv
<1> QED  BY <1>0, <1>1, <1>2, <1>3, <1>4, <1>5, <1>6, <1>7, <1>8, <1>9, <1>10
         DEF UsersNext, RequestStep, InitStep

LEMMA UsersStart == UsersInit => UsersInv
<1> SUFFICES ASSUME UsersInit PROVE UsersInv
  OBVIOUS
<1>1. UsersTypeOK
  BY CreateAdminType DEF UsersInit, UsersTypeOK, Positions, Ended, Roles
<1>2. KeysDrawn
  BY CreateAdminType DEF UsersInit, KeysDrawn
<1>3. SavesFresh /\ SavesAgree /\ RowsStay /\ RepliesLast
  BY ZenonT(30) DEF UsersInit, SavesFresh, SavesAgree, RowsStay, RepliesLast
<1>4. StoredKeysHeld /\ KeysLast /\ KeysNeverReturn /\ OnlyAdminsWrite
  BY ZenonT(30) DEF UsersInit, StoredKeysHeld, KeysLast, KeysNeverReturn, OnlyAdminsWrite, Procs
<1> QED  BY <1>1, <1>2, <1>3, <1>4 DEF UsersInv

(* Only SaveUser writes rows, and what it writes back is still so. *)
LEMMA RolesStep ==
  ASSUME UsersInv, [UsersNext]_usersVars
  PROVE  \A n \in Names : users[n] # NoRow /\ n \notin raced =>
           users'[n] # NoRow /\ users'[n].role = users[n].role
<1>1. ASSUME NEW p \in Procs, at[p] = "save", Insert(p)
      PROVE  \A n \in Names : users[n] # NoRow /\ n \notin raced =>
               users'[n] # NoRow /\ users'[n].role = users[n].role
  BY <1>1, InsertEffect
<1>2. (\E p \in Procs : at[p] = "save" /\ Insert(p)) \/ users' = users
  <2>1. ASSUME NEW r \in Requests, Arrive(r) \/ RequestStep(r)
        PROVE  (\E p \in Procs : at[p] = "save" /\ Insert(p)) \/ users' = users
    BY ZenonT(30), <2>1 DEF Procs, Arrive, RequestStep, CheckKey, IsAdmin, UserNotExist, UserExist,
                UserExistRefuses, GetUser, SaveUser, Reply, Fail, table
  <2>2. CASE BeginInit \/ InitStep \/ Reply(Boot) \/ Stop
    BY <2>2 DEF Procs, BeginInit, InitStep, IsEmpty, UserNotExist, UserExistRefuses,
                SaveUser, Reply, Stop, Fail, table
  <2> QED  BY SMTT(30), <2>1, <2>2 DEF UsersNext, usersVars
<1> QED  BY ZenonT(30), <1>1, <1>2

-----------------------------------------------------------------------------
(* The invariant of the table holds for every number of requests and names *)
(* and every order of the queries of user_storage.go, whether they fail or *)
(* not, and whenever the server stops and starts.                          *)
THEOREM UsersInvariance == UsersSpec => []UsersInv
<1>1. UsersInv /\ [UsersNext]_usersVars => UsersInv'
  BY UsersStep
<1> QED  BY <1>1, UsersStart, PTL DEF UsersSpec

(* Every stored key is one that was handed out, is about to be, or was     *)
(* lost with the failed query or the process that drew it.                 *)
THEOREM KeysAreHeld == UsersSpec => []StoredKeysHeld
<1>1. UsersInv => StoredKeysHeld
  BY DEF UsersInv
<1> QED  BY <1>1, UsersInvariance, PTL

(* The key CreateUser or RefreshToken handed out is good until a refresh   *)
(* replaces it, unless two creations of the name overlapped.               *)
THEOREM HandedOutKeysLast == UsersSpec => []KeysLast
<1>1. UsersInv => KeysLast
  BY DEF UsersInv
<1> QED  BY <1>1, UsersInvariance, PTL

(* What passed Auth and Admin stays the request of an admin while its own  *)
(* queries and those of others are applied.                                *)
THEOREM WritersAreAdmins == UsersSpec => []OnlyAdminsWrite
<1>1. UsersInv => OnlyAdminsWrite
  BY DEF UsersInv
<1> QED  BY <1>1, UsersInvariance, PTL

(* The role RefreshToken writes back is the one the row has, however long  *)
(* ago it was read.                                                        *)
THEOREM RolesNeverChange == UsersSpec => RolesFixed
<1>1. UsersInv /\ [UsersNext]_usersVars =>
        [\A n \in Names : users[n] # NoRow /\ n \notin raced =>
           users'[n] # NoRow /\ users'[n].role = users[n].role]_usersVars
  BY RolesStep
<1> QED  BY <1>1, UsersInvariance, PTL DEF UsersSpec, RolesFixed
-----------------------------------------------------------------------------
(* The server.                                                             *)

(* Every step of the server is one of the users, or leaves them alone. *)
LEMMA EndsStops == Ends => Stop
BY DEF Ends

LEMMA MainStepsUsers ==
  ASSUME MainStep
  PROVE  [UsersNext]_usersVars
<1>1. CASE Launch \/ Connect \/ Load \/ Update \/ RunBootstrap \/ SaveContext
  BY <1>1, EndsStops DEF Launch, Connect, Load, Update, RunBootstrap, SaveContext,
                         Retry, Exit, UsersNext
<1>2. ASSUME NEW a \in BootApps, CreateBootApp(a) \/ BootAppUp(a)
      PROVE  [UsersNext]_usersVars
  BY <1>2, EndsStops DEF CreateBootApp, BootAppUp, Retry, Exit, UsersNext
<1>3. CASE ConnectCassandra \/ InitUsers \/ UsersReady
  BY <1>3, EndsStops DEF ConnectCassandra, InitUsers, UsersReady, Exit, UsersNext
<1>4. CASE InitStateStorage \/ PrintKey \/ StartApi
  BY <1>4, EndsStops DEF InitStateStorage, PrintKey, StartApi, Exit, UsersNext
<1> QED  BY ZenonT(30), <1>1, <1>2, <1>3, <1>4 DEF MainStep

LEMMA StepsUsers ==
  ASSUME [Next]_vars
  PROVE  [UsersNext]_usersVars
<1>1. CASE MainStep
  BY <1>1, MainStepsUsers
<1>2. CASE DriverStep
  BY <1>2 DEF DriverStep, Registered, SaveId
<1>3. CASE Crash
  BY <1>3, EndsStops DEF Crash, UsersNext
<1>4. ASSUME NEW r \in Requests, Serve(r)
      PROVE  [UsersNext]_usersVars
  BY <1>4 DEF Serve, UsersNext
<1>5. CASE UNCHANGED vars
  BY <1>5 DEF vars
<1> QED  BY <1>1, <1>2, <1>3, <1>4, <1>5 DEF Next

(* The server command, its driver and its crashes implement the users: no  *)
(* start, bootstrap or kill does to the table what user_storage.go does    *)
(* not do.                                                                 *)
THEOREM ServerImplementsUsers == Spec => UsersSpec
<1>1. Init => UsersInit
  BY DEF Init
<1>2. [Next]_vars => [UsersNext]_usersVars
  BY StepsUsers
<1> QED  BY <1>1, <1>2, PTL DEF Spec, UsersSpec

(* So the invariant of the users holds of the server, however often it is  *)
(* killed and started again.                                               *)
THEOREM ServerKeepsUsers == Spec => []UsersInv
BY ServerImplementsUsers, UsersInvariance, PTL

(* The key that was handed out before a restart is good after it. *)
THEOREM ServerKeepsKeys == Spec => []KeysLast
BY ServerImplementsUsers, HandedOutKeysLast, PTL

-----------------------------------------------------------------------------
(* Type correctness.                                                       *)
StartTypeOK ==
  /\ bootstrap \in BOOLEAN /\ storage \in Storages
  /\ saved \in Stored \cup {NoFile, Torn}
  /\ framework \in Stored
  /\ main \in MainPositions
  /\ driver \in {"off", "register", "save", "write", "on"}
  /\ attempt \in 0..Retries
  /\ created \subseteq BootApps /\ deployed \subseteq BootApps
  /\ assigned \in Nat /\ slipped \in BOOLEAN
  /\ crashes \in 0..MaxCrashes /\ failures \in 0..MaxFailures

LEMMA EmptyType == Empty \in Stored /\ Empty.id = 0
BY DEF Empty, Stored

LEMMA FrameworkType ==
  ASSUME StartTypeOK
  PROVE  /\ framework \in Stored /\ framework.id \in Nat
         /\ saved \in Stored => saved.id \in Nat /\ saved # Torn /\ saved # NoFile
BY StartAssumption DEF StartTypeOK, Stored

LEMMA EndsType ==
  ASSUME StartTypeOK, Ends, deployed' \subseteq BootApps,
         crashes' \in 0..MaxCrashes, failures' \in 0..MaxFailures
  PROVE  StartTypeOK'
BY EmptyType, StartAssumption DEF StartTypeOK, Ends, settings, MainPositions

LEMMA FailureType ==
  ASSUME StartTypeOK, CallFails
  PROVE  failures' \in 0..MaxFailures /\ crashes' \in 0..MaxCrashes
BY StartAssumption DEF CallFails, StartTypeOK

LEMMA MainType ==
  ASSUME StartTypeOK, MainStep
  PROVE  StartTypeOK'
<1> USE DEF settings, files, marathon, bounds
<1>1. CASE Launch \/ Update \/ Connect \/ InitStateStorage \/ StartApi \/ PrintKey
  <2>1. CASE Exit
    BY <2>1, EndsType, FailureType DEF Exit, StartTypeOK
  <2> QED  BY ZenonT(30), <1>1, <2>1 DEF Launch, Update, Connect, InitStateStorage, StartApi, PrintKey,
                             Goes, StartTypeOK, MainPositions
<1>2. CASE Load
  <2>1. CASE Ends /\ UNCHANGED <<deployed, bounds>>
    BY <2>1, EndsType DEF StartTypeOK
  <2>2. CASE /\ CallFails /\ framework' = Empty /\ slipped' = (slipped \/ StoredId # 0)
             /\ main' = "update"
             /\ UNCHANGED <<settings, driver, saved, marathon, assigned>>
    <3>1. slipped' \in BOOLEAN
      BY <2>2 DEF StartTypeOK
    <3> QED  BY <2>2, <3>1, FailureType, EmptyType DEF StartTypeOK, MainPositions
  <2>3. CASE /\ framework' = (IF Intact THEN saved ELSE Empty) /\ Goes("update")
             /\ UNCHANGED <<saved, slipped, marathon, assigned, failures>>
    BY <2>3, EmptyType DEF Goes, StartTypeOK, MainPositions, Intact
  <2> QED  BY <1>2, <2>1, <2>2, <2>3 DEF Load
<1>3. ASSUME Retry, deployed' \subseteq BootApps
      PROVE  StartTypeOK'
  <2>1. failures' \in 0..MaxFailures /\ crashes' \in 0..MaxCrashes
    BY <1>3, FailureType DEF Retry
  <2>2. CASE Ends
    BY <1>3, <2>1, <2>2, EndsType
  <2>3. CASE ~Ends
    BY <1>3, <2>1, <2>3, StartAssumption DEF Retry, StartTypeOK, MainPositions
  <2> QED  BY <2>2, <2>3
<1>4. CASE RunBootstrap
  BY ZenonT(30), <1>3, <1>4 DEF RunBootstrap, Goes, StartTypeOK, MainPositions
<1>5. ASSUME NEW a \in BootApps, CreateBootApp(a) \/ BootAppUp(a)
      PROVE  StartTypeOK'
  <2>1. CASE Exit
    BY ZenonT(30), <2>1, EndsType, FailureType DEF Exit, StartTypeOK
  <2>2. CASE Ends /\ UNCHANGED <<deployed, bounds>>
    BY <2>2, EndsType DEF StartTypeOK
  <2>3. CASE Retry /\ deployed' \in {deployed, deployed \cup {a}}
    BY <1>3, <2>3 DEF StartTypeOK
  <2>4. CASE Goes("deploy") /\ CreateBootApp(a) /\ UNCHANGED <<files, attempt, assigned, failures>>
             /\ deployed' = deployed \cup {a} /\ created' = created \cup {a}
    BY ZenonT(30), <2>4 DEF Goes, StartTypeOK, MainPositions
  <2> QED  BY ZenonT(30), <1>5, <2>1, <2>2, <2>3, <2>4 DEF CreateBootApp, BootAppUp
<1>6. CASE SaveContext
  BY <1>6, StartAssumption DEF SaveContext, SaveTo, StartTypeOK, MainPositions
<1>7. CASE ConnectCassandra \/ UsersReady
  <2>1. CASE Exit \/ (Ends /\ UNCHANGED <<deployed, bounds>>)
    BY ZenonT(30), <2>1, EndsType, FailureType DEF Exit, StartTypeOK
  <2> QED  BY ZenonT(30), <1>7, <2>1 DEF ConnectCassandra, UsersReady, Goes, StartTypeOK, MainPositions
<1>8. CASE InitUsers
  BY <1>8, StartAssumption DEF InitUsers, StartTypeOK
<1> QED  BY ZenonT(30), <1>1, <1>2, <1>4, <1>5, <1>6, <1>7, <1>8 DEF MainStep

LEMMA StartTypeStep ==
  ASSUME StartTypeOK, [Next]_vars
  PROVE  StartTypeOK'
<1>1. CASE MainStep
  BY <1>1, MainType
<1>2. CASE Registered
  <2>1. [framework EXCEPT !.id = IF framework.id = 0 THEN assigned + 1 ELSE framework.id] \in Stored
    BY DEF StartTypeOK, Stored
  <2>2. (IF framework.id = 0 THEN assigned + 1 ELSE assigned) \in Nat
    BY DEF StartTypeOK
  <2> QED  BY <1>2, <2>1, <2>2 DEF Registered, StartTypeOK, settings, marathon, bounds
<1>3. CASE SaveId
  BY <1>3, StartAssumption DEF SaveId, SaveTo, StartTypeOK, settings, marathon
<1>4. CASE Crash
  <2>1. crashes' \in 0..MaxCrashes
    BY <1>4, StartAssumption DEF Crash, StartTypeOK
  <2> QED  BY <1>4, <2>1, EndsType DEF Crash, StartTypeOK
<1>5. CASE UNCHANGED startVars
  BY <1>5 DEF startVars, StartTypeOK
<1> QED  BY <1>1, <1>2, <1>3, <1>4, <1>5 DEF Next, DriverStep, Serve, vars

-----------------------------------------------------------------------------
(* The framework id.                                                       *)
LEMMA EndsId ==
  ASSUME StartTypeOK, IdInv, Ends
  PROVE  IdInv'
<1>1. StoredId' = StoredId /\ framework' = Empty /\ framework'.id = 0
  BY EmptyType DEF Ends, StoredId, Intact
<1> QED  BY ZenonT(30), <1>1 DEF IdInv, Ends

(* A step that neither loads nor saves nor registers. *)
LEMMA SameId ==
  ASSUME StartTypeOK, IdInv, UNCHANGED <<saved, framework, slipped, assigned>>,
         main' \in {"down", "connect", "load"} => main \in {"down", "connect", "load"},
         main \in {"down", "connect"} => main' \in {"down", "connect", "load"},
         main # "load",
         driver' # "off" => main' = "serve"
  PROVE  IdInv'
<1>1. StoredId' = StoredId
  BY DEF StoredId, Intact
<1> QED  BY <1>1 DEF IdInv

LEMMA LoadId ==
  ASSUME StartTypeOK, IdInv, Load
  PROVE  IdInv'
<1>1. framework.id = 0 /\ driver = "off"
  BY EmptyType DEF IdInv, Load
<1>2. CASE Ends
  BY <1>2, EndsId
<1>3. CASE /\ framework' = (IF Intact THEN saved ELSE Empty) /\ Goes("update")
           /\ UNCHANGED <<saved, slipped, assigned>>
  <2>1. framework'.id = StoredId /\ StoredId' = StoredId
    BY <1>3, EmptyType DEF StoredId, Intact
  <2>2. main' = "update" /\ driver' = "off"
    BY <1>1, <1>3 DEF Goes
  <2> QED  BY <1>1, <1>3, <2>1, <2>2 DEF IdInv
<1>4. CASE /\ framework' = Empty /\ slipped' = (slipped \/ StoredId # 0) /\ main' = "update"
           /\ UNCHANGED <<driver, saved, assigned>>
  <2>1. framework'.id = 0 /\ StoredId' = StoredId
    BY <1>4, EmptyType DEF StoredId, Intact
  <2> QED  BY ZenonT(30), <1>1, <1>4, <2>1 DEF IdInv
<1> QED  BY <1>2, <1>3, <1>4 DEF Load, settings, bounds

(* A save writes the id that is in memory, or fails, or is cut short. *)
LEMMA SaveId1 ==
  ASSUME StartTypeOK, IdInv, UNCHANGED <<framework, slipped, assigned>>,
         saved' \in {saved, framework, Torn},
         main \notin {"down", "connect", "load"}, main' \notin {"down", "connect", "load"},
         driver' # "off" => main' = "serve"
  PROVE  IdInv'
<1>1. StoredId' \in {0, StoredId, framework.id}
  BY FrameworkType, StartAssumption DEF StoredId, Intact
<1> QED  BY <1>1 DEF IdInv

LEMMA MainId ==
  ASSUME StartTypeOK, IdInv, MainStep
  PROVE  IdInv'
<1> USE DEF settings, files, marathon, bounds
<1>1. CASE Ends
  BY <1>1, EndsId
<1>2. CASE Load
  BY <1>2, LoadId
<1>3. CASE SaveContext
  BY <1>3, SaveId1 DEF SaveContext, SaveTo, IdInv
<1>4. CASE ~Ends /\ ~Load /\ ~SaveContext
  <2>1. CASE Launch \/ Connect
    BY ZenonT(30), <1>4, <2>1, SameId DEF Launch, Connect, Goes, Exit, IdInv
  <2>2. CASE Update \/ InitStateStorage \/ PrintKey \/ StartApi
    BY ZenonT(30), <1>4, <2>2, SameId DEF Update, InitStateStorage, PrintKey, StartApi, Goes, Exit, IdInv
  <2>3. CASE RunBootstrap \/ \E a \in BootApps : CreateBootApp(a) \/ BootAppUp(a)
    BY ZenonT(30), <1>4, <2>3, SameId DEF RunBootstrap, CreateBootApp, BootAppUp, Retry, Goes, Exit, IdInv
  <2>4. CASE ConnectCassandra \/ InitUsers \/ UsersReady
    BY ZenonT(30), <1>4, <2>4, SameId DEF ConnectCassandra, InitUsers, UsersReady, Goes, Exit, IdInv
  <2> QED  BY ZenonT(30), <1>4, <2>1, <2>2, <2>3, <2>4 DEF MainStep
<1> QED  BY <1>1, <1>2, <1>3, <1>4

LEMMA IdStep ==
  ASSUME StartTypeOK, IdInv, [Next]_vars
  PROVE  IdInv'
<1>1. CASE MainStep
  BY <1>1, MainId
<1>2. CASE Registered
  <2>1. main = "serve" /\ main' = "serve" /\ StoredId' = StoredId
    BY <1>2 DEF Registered, IdInv, StoredId, Intact
  <2>2. /\ framework'.id = (IF framework.id = 0 THEN assigned + 1 ELSE framework.id)
        /\ assigned' = (IF framework.id = 0 THEN assigned + 1 ELSE assigned)
        /\ slipped' = slipped
    BY <1>2 DEF Registered, StartTypeOK, Stored
  <2> QED  BY <2>1, <2>2 DEF IdInv
<1>3. CASE SaveId
  <2>1. main = "serve" /\ main' = "serve"
    BY <1>3 DEF SaveId, SaveTo, IdInv
  <2> QED  BY ZenonT(30), <1>3, <2>1, SaveId1 DEF SaveId, SaveTo
<1>4. CASE Crash
  BY ZenonT(30), <1>4, EndsId DEF Crash
<1>5. CASE UNCHANGED startVars
  BY <1>5 DEF startVars, IdInv, StoredId, Intact
<1> QED  BY <1>1, <1>2, <1>3, <1>4, <1>5 DEF Next, DriverStep, Serve, vars

LEMMA StartInit == Init => StartTypeOK /\ IdInv
<1> SUFFICES ASSUME Init PROVE StartTypeOK /\ IdInv
  OBVIOUS
<1>1. saved \in Stored => saved.id \in Nat /\ saved.id <= 1
  BY StartAssumption DEF Init, Stored
<1>2. StartTypeOK
  <2>1. deployed \subseteq BootApps /\ slipped \in BOOLEAN
    BY ZenonT(30) DEF Init
  <2>2. assigned \in Nat /\ saved \in Stored \cup {NoFile, Torn}
    BY <1>1, StartAssumption DEF Init, Intact
  <2>3. attempt \in 0..Retries /\ crashes \in 0..MaxCrashes /\ failures \in 0..MaxFailures
    BY StartAssumption DEF Init
  <2> QED  BY <2>1, <2>2, <2>3, EmptyType DEF Init, StartTypeOK, MainPositions
<1>3. framework = Empty /\ framework.id = 0 /\ main = "down" /\ driver = "off"
  BY EmptyType DEF Init
<1>4. assigned = StoredId /\ StoredId \in {0, 1}
  BY <1>1 DEF Init, StoredId, Intact
<1> QED  BY <1>2, <1>3, <1>4 DEF IdInv

(* Every variable of the server keeps its type. *)
THEOREM ServerTypes == Spec => []TypeOK
<1>1. StartTypeOK /\ [Next]_vars => StartTypeOK'
  BY StartTypeStep
<1>2. UsersInv /\ StartTypeOK => TypeOK
  BY DEF UsersInv, StartTypeOK, TypeOK
<1> QED  BY <1>1, <1>2, StartInit, ServerKeepsUsers, PTL DEF Spec

(* Mesos assigns the server one framework id, whatever is stored, loaded   *)
(* and saved between its starts, unless an id was lost: the server ended   *)
(* before Registered had stored it, or Load took an error for an empty     *)
(* storage.                                                                *)
THEOREM ServerIsOneFramework == Spec => []OneFramework
<1>1. (StartTypeOK /\ IdInv) /\ [Next]_vars => (StartTypeOK /\ IdInv)'
  BY StartTypeStep, IdStep
<1>2. StartTypeOK /\ IdInv => OneFramework
  BY DEF IdInv, OneFramework
<1> QED  BY <1>1, <1>2, StartInit, PTL DEF Spec
=============================================================================
