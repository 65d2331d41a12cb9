------------------------------- MODULE Users --------------------------------
(***************************************************************************)
(* Users and their keys: the table of framework/user_storage.go, the       *)
(* checks Auth and Admin and the handlers of /createuser and /refreshtoken *)
(* of framework/server.go.                                                 *)
(*                                                                         *)
(* No lock protects the table: each query is a step, and the requests and  *)
(* the start of the server, which creates the first user, interleave.      *)
(* ServerStart tells when the server starts, serves and stops.             *)
(***************************************************************************)
EXTENDS Naturals

CONSTANTS
  Requests,  \* the requests to create a user or to refresh a token
  Boot,      \* the goroutine that starts the server
  Names,     \* names of users
  Admin,     \* the name "admin"
  NoRow,     \* a name the table does not hold
  Faults     \* may queries fail?

ASSUME UsersAssumption == Boot \notin Requests /\ Admin \in Names /\ Faults \in BOOLEAN

Procs == Requests \cup {Boot}
Roles == {"admin", "regular"}

(* A key is the n-th UUID that was drawn, and how often it was hashed.     *)
Key == [uuid : Nat, hashed : Nat]
Uuid(n) == [uuid |-> n, hashed |-> 0]
Sha(k) == [k EXCEPT !.hashed = @ + 1]

(* No UUID is the 0th: it stands for a key that was never handed out.      *)
WrongKey == Uuid(0)

Row == [key : Key, role : Roles]
ASSUME NoRowAssumption == NoRow \notin Row

VARIABLES
  users,  \* the table: name to hash of the key, and role
  drawn,  \* how many UUIDs were drawn
  at,     \* where each request, and the start of the server, is
  req,    \* what each request asks for, and who asks
  key,    \* the key it has drawn
  role,   \* the role it will save
  told,   \* the keys that were handed out, by name
  lost,   \* the keys that may be stored and will never be handed out
  past,   \* the hashes that were overwritten, by name and operation
  raced   \* the names that two requests found free at the same time

usersVars == <<users, drawn, at, req, key, role, told, lost, past, raced>>

Ended == {"idle", "done", "failed"}
Positions == Ended \cup {"auth", "admin", "empty", "exists", "read", "save", "reply"}

Request == [op : {"create", "refresh"}, user : Names, key : Key, name : Names, role : Roles]
Told == [name : Names, key : Key]
Past == [name : Names, key : Key, by : {"create", "refresh"}]

UsersTypeOK ==
  /\ users \in [Names -> Row \cup {NoRow}]
  /\ drawn \in Nat
  /\ at \in [Procs -> Positions]
  /\ req \in [Procs -> Request]
  /\ key \in [Procs -> Key]
  /\ role \in [Procs -> Roles]
  /\ told \subseteq Told
  /\ lost \subseteq Key
  /\ past \subseteq Past
  /\ raced \subseteq Names

(* What the server itself asks for when it starts on an empty table. *)
CreateAdmin == [op |-> "create", user |-> Admin, key |-> WrongKey,
                name |-> Admin, role |-> "admin"]

UsersInit ==
  /\ users = [n \in Names |-> NoRow]
  /\ drawn = 0
  /\ at = [p \in Procs |-> "idle"]
  /\ req = [p \in Procs |-> CreateAdmin]
  /\ key = [p \in Procs |-> WrongKey]
  /\ role = [p \in Procs |-> "regular"]
  /\ told = {} /\ lost = {} /\ past = {} /\ raced = {}

-----------------------------------------------------------------------------
Goto(p, position) == at' = [at EXCEPT ![p] = position]

table == <<users, past>>
keys == <<drawn, key, role, raced>>

(* A request ends, and its local variables go out of scope. *)
End(p, position) ==
  /\ Goto(p, position)
  /\ req' = [req EXCEPT ![p] = CreateAdmin]
  /\ key' = [key EXCEPT ![p] = WrongKey]
  /\ role' = [role EXCEPT ![p] = "regular"]

(* The end with an error: 403 or 500 from the middleware, 400 from the     *)
(* handler; a server that starts panics.                                   *)
Fail(p) == End(p, "failed") /\ UNCHANGED <<table, drawn, raced, told, lost>>

(* A client comes with a key that user was given, or with a wrong one; a   *)
(* refresh carries no role, which decodes as regular.                      *)
KeysOf(user) == {WrongKey} \cup {t.key : t \in {x \in told : x.name = user}}

Arrive(r) ==
  /\ at[r] = "idle"
  /\ \E op \in {"create", "refresh"}, user, name \in Names, ro \in Roles :
       \E k \in KeysOf(user) :
         /\ op = "refresh" => ro = "regular"
         /\ req' = [req EXCEPT ![r] =
              [op |-> op, user |-> user, key |-> k, name |-> name, role |-> ro]]
  /\ Goto(r, "auth")
  /\ UNCHANGED <<table, keys, told, lost>>

(* Auth: the key is hashed and compared with the row.  A name that is not  *)
(* in the table is an error of the query.                                  *)
Valid(n, k) == users[n] # NoRow /\ users[n].key = Sha(k)

CheckKey(r) ==
  /\ at[r] = "auth"
  /\ \/ /\ Valid(req[r].user, req[r].key)
        /\ Goto(r, "admin")
        /\ UNCHANGED <<table, keys, req, told, lost>>
     \/ /\ Faults \/ ~Valid(req[r].user, req[r].key)
        /\ Fail(r)

(* Mutant: only the creation of users asks for an admin. *)
IsAdminForCreation(r) ==
  /\ at[r] = "admin"
  /\ \/ /\ users[req[r].user].role = "admin" \/ req[r].op = "refresh"
        /\ Goto(r, "exists")
        /\ UNCHANGED <<table, keys, req, told, lost>>
     \/ /\ Faults \/ users[req[r].user].role # "admin"
        /\ Fail(r)

(* Admin reads the row again; rows are never deleted. *)
IsAdmin(r) ==
  /\ at[r] = "admin"
  /\ \/ /\ users[req[r].user].role = "admin"
        /\ Goto(r, "exists")
        /\ UNCHANGED <<table, keys, req, told, lost>>
     \/ /\ Faults \/ users[req[r].user].role # "admin"
        /\ Fail(r)

-----------------------------------------------------------------------------
DrawKey(p) ==
  /\ drawn' = drawn + 1
  /\ key' = [key EXCEPT ![p] = Uuid(drawn + 1)]

(* Another creation has found the same name free and not saved it yet. *)
Creating(p, n) ==
  \E q \in Procs \ {p} : at[q] = "save" /\ req[q].op = "create" /\ req[q].name = n

(* Mutant: an existing user is created again. *)
UserExistIgnored(p) ==
  /\ at[p] = "exists" /\ req[p].op = "create"
  /\ DrawKey(p)
  /\ role' = [role EXCEPT ![p] = req[p].role]
  /\ raced' = IF Creating(p, req[p].name) THEN raced \cup {req[p].name} ELSE raced
  /\ Goto(p, "save")
  /\ UNCHANGED <<table, req, told, lost>>

(* CreateUser asks whether the name is taken before it draws a key. *)
UserNotExist(p) ==
  /\ at[p] = "exists" /\ req[p].op = "create"
  /\ users[req[p].name] = NoRow
  /\ DrawKey(p)
  /\ role' = [role EXCEPT ![p] = req[p].role]
  /\ raced' = IF Creating(p, req[p].name) THEN raced \cup {req[p].name} ELSE raced
  /\ Goto(p, "save")
  /\ UNCHANGED <<table, req, told, lost>>

(* RefreshToken asks, too, and reads the row in a second query. *)
UserExist(p) ==
  /\ at[p] = "exists" /\ req[p].op = "refresh"
  /\ users[req[p].name] # NoRow
  /\ Goto(p, "read")
  /\ UNCHANGED <<table, keys, req, told, lost>>

UserExistRefuses(p) ==
  /\ at[p] = "exists"
  /\ Faults \/ (req[p].op = "create") = (users[req[p].name] # NoRow)
  /\ Fail(p)

(* Mutant: the role that was read is not kept. *)
GetUserWithoutRole(p) ==
  /\ at[p] = "read"
  /\ \/ /\ DrawKey(p)
        /\ role' = [role EXCEPT ![p] = req[p].role]
        /\ Goto(p, "save")
        /\ UNCHANGED <<table, raced, req, told, lost>>
     \/ Faults /\ Fail(p)

GetUser(p) ==
  /\ at[p] = "read"
  /\ \/ /\ DrawKey(p)
        /\ role' = [role EXCEPT ![p] = users[req[p].name].role]
        /\ Goto(p, "save")
        /\ UNCHANGED <<table, raced, req, told, lost>>
     \/ Faults /\ Fail(p)
-----------------------------------------------------------------------------
(* Mutant: the key is stored as it is. *)
InsertPlain(p) ==
  LET n == req[p].name IN
    /\ users' = [users EXCEPT ![n] = [key |-> key[p], role |-> role[p]]]
    /\ past' = IF users[n] = NoRow THEN past
               ELSE past \cup {[name |-> n, key |-> users[n].key, by |-> req[p].op]}

(* Mutant: the wrong field of the request is stored as the role. *)
InsertOperation(p) ==
  LET n == req[p].name IN
    /\ users' = [users EXCEPT ![n] = [key |-> Sha(key[p]), role |-> req[p].op]]
    /\ past' = past

(* The INSERT of SaveUser overwrites what is there. *)
Insert(p) ==
  LET n == req[p].name IN
    /\ users' = [users EXCEPT ![n] = [key |-> Sha(key[p]), role |-> role[p]]]
    /\ past' = IF users[n] = NoRow THEN past
               ELSE past \cup {[name |-> n, key |-> users[n].key, by |-> req[p].op]}

(* A write that is answered with an error may have been applied; the key   *)
(* is dropped then.                                                        *)
SaveUser(p) ==
  /\ at[p] = "save"
  /\ \/ /\ Insert(p)
        /\ Goto(p, "reply")
        /\ UNCHANGED <<key, role, req, lost>>
     \/ /\ Faults
        /\ Insert(p) \/ UNCHANGED table
        /\ lost' = lost \cup {key[p]}
        /\ End(p, "failed")
  /\ UNCHANGED <<drawn, raced, told>>

(* The handler answers with the key; the server prints it when it is about *)
(* to serve.                                                               *)
Reply(p) ==
  /\ at[p] = "reply"
  /\ told' = told \cup {[name |-> req[p].name, key |-> key[p]]}
  /\ End(p, "done")
  /\ UNCHANGED <<table, drawn, raced, lost>>

RequestStep(r) ==
  CheckKey(r) \/ IsAdmin(r) \/ UserNotExist(r) \/ UserExist(r) \/ UserExistRefuses(r)
    \/ GetUser(r) \/ SaveUser(r) \/ Reply(r)

-----------------------------------------------------------------------------
(* Init of the storage creates the table and asks whether it is empty. *)
BeginInit ==
  /\ at[Boot] = "idle"
  /\ Goto(Boot, "empty")
  /\ UNCHANGED <<table, keys, req, told, lost>>

IsEmpty ==
  /\ at[Boot] = "empty"
  /\ \/ /\ Goto(Boot, IF \A n \in Names : users[n] = NoRow THEN "exists" ELSE "done")
        /\ UNCHANGED <<table, keys, req, told, lost>>
     \/ Faults /\ Fail(Boot)

InitStep == IsEmpty \/ UserNotExist(Boot) \/ UserExistRefuses(Boot) \/ SaveUser(Boot)

(* The server stops: requests die with it, and keys nobody was told of.    *)
(* (A query that is applied and never answered is one of SaveUser's.)      *)
Stop ==
  /\ at' = [p \in Procs |-> IF p = Boot THEN "idle"
                            ELSE IF at[p] \in Ended THEN at[p] ELSE "failed"]
  /\ lost' = lost \cup {key[p] : p \in {q \in Procs : at[q] = "reply"}}
  /\ req' = [p \in Procs |-> CreateAdmin]
  /\ key' = [p \in Procs |-> WrongKey]
  /\ role' = [p \in Procs |-> "regular"]
  /\ UNCHANGED <<table, drawn, raced, told>>

UsersNext ==
  \/ \E r \in Requests : Arrive(r) \/ RequestStep(r)
  \/ BeginInit \/ InitStep \/ Reply(Boot)
  \/ Stop

UsersSpec == UsersInit /\ [][UsersNext]_usersVars

-----------------------------------------------------------------------------
(* Properties                                                              *)

(* A row never holds a key that nobody can present: what SaveUser stored   *)
(* is the hash of a key that was handed out for this name, or is about to  *)
(* be, unless the query failed or the server stopped before it was.        *)
StoredKeysHeld ==
  \A n \in Names : users[n] # NoRow =>
    \/ \E t \in told : t.name = n /\ Valid(n, t.key)
    \/ \E p \in Procs : at[p] = "reply" /\ req[p].name = n /\ Valid(n, key[p])
    \/ \E k \in lost : Valid(n, k)

(* A key that CreateUser or RefreshToken handed out opens the door until   *)
(* RefreshToken has saved another one for the same name.  (Two requests    *)
(* that create one name at the same time both succeed, and one of the keys *)
(* is void.)                                                               *)
KeysLast ==
  \A t \in told : t.name \notin raced =>
    \/ Valid(t.name, t.key)
    \/ \E x \in past : x.name = t.name /\ x.key = Sha(t.key) /\ x.by = "refresh"

(* RefreshToken writes back a role it has read two queries earlier; the    *)
(* role of a user is nevertheless the one the user was created with.       *)
RolesFixed ==
  [][\A n \in Names : users[n] # NoRow /\ n \notin raced =>
       users'[n] # NoRow /\ users'[n].role = users[n].role]_usersVars

(* A request that has passed Auth and Admin is one of an admin, also when  *)
(* rows were rewritten since the checks: "only admin users can create      *)
(* other users and refresh their tokens".                                  *)
OnlyAdminsWrite ==
  \A r \in Requests : at[r] \in {"exists", "read", "save", "reply"} =>
    \/ users[req[r].user] # NoRow /\ users[req[r].user].role = "admin"
    \/ req[r].user \in raced

-----------------------------------------------------------------------------
(* The invariant that makes them inductive.                                *)

(* A key that was replaced is not stored again: UUIDs are fresh.           *)
KeysNeverReturn ==
  \A x \in past : users[x.name] # NoRow /\ users[x.name].key # x.key

(* No key is known before its UUID is drawn. *)
KeysDrawn ==
  /\ \A n \in Names : users[n] # NoRow => users[n].key.uuid <= drawn
  /\ \A x \in past : x.key.uuid <= drawn
  /\ \A p \in Procs : key[p].uuid <= drawn

(* A key that is about to be saved is in nobody else's hands. *)
SavesFresh ==
  \A p \in Procs : at[p] = "save" =>
    /\ \A n \in Names : users[n] # NoRow => users[n].key.uuid # key[p].uuid
    /\ \A x \in past : x.key.uuid # key[p].uuid
    /\ \A q \in Procs : q # p /\ at[q] = "save" => key[q].uuid # key[p].uuid

(* What userExist and GetUser found is still so, unless names have raced. *)
SavesAgree ==
  \A p \in Procs : at[p] = "save" /\ req[p].name \notin raced =>
    \/ req[p].op = "create" /\ users[req[p].name] = NoRow /\ ~Creating(p, req[p].name)
    \/ /\ req[p].op = "refresh" /\ users[req[p].name] # NoRow
       /\ role[p] = users[req[p].name].role

RowsStay ==
  \A p \in Procs :
    /\ at[p] = "admin" => users[req[p].user] # NoRow
    /\ at[p] = "read" => req[p].op = "refresh" /\ users[req[p].name] # NoRow

(* A key about to be handed out is as good as one that was. *)
RepliesLast ==
  \A p \in Procs : at[p] = "reply" /\ req[p].name \notin raced =>
    \/ Valid(req[p].name, key[p])
    \/ \E x \in past : x.name = req[p].name /\ x.key = Sha(key[p]) /\ x.by = "refresh"

(* All of it: what holds of the table, the requests and the start of the   *)
(* server after every query, in whatever order they are applied.           *)
UsersInv ==
  /\ UsersTypeOK /\ KeysDrawn /\ SavesFresh /\ SavesAgree /\ RowsStay /\ RepliesLast
  /\ StoredKeysHeld /\ KeysLast /\ KeysNeverReturn /\ OnlyAdminsWrite
=============================================================================
