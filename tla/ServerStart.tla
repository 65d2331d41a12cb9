---------------------------- MODULE ServerStart -----------------------------
(***************************************************************************)
(* The life of a server: the server command of command/server.go with its  *)
(* bootstrap, the persistent storage of framework/framework_storage.go,    *)
(* Start and Registered of framework/scheduler.go, and the users of Users. *)
(*                                                                         *)
(* A server that exits, panics or is killed is started again, as Marathon  *)
(* does with it (marathon.json).  What survives is the persistent storage, *)
(* the users, and what was deployed in Marathon and registered with Mesos. *)
(***************************************************************************)
EXTENDS Users

CONSTANTS
  BootApps,     \* the applications the bootstrap stack begins with
  FirstSaved,   \* what the persistent storage may hold at first
  NoFile, Torn, \* no contents, and a file that was truncated and not written
  Storages,     \* "file" and "zk"
  Retries,      \* --connect.retries
  MaxCrashes,   \* bound: how often the server is killed
  MaxFailures   \* bound: how often a call fails that the start depends on

Stored == [id : Nat, context : BOOLEAN]
Empty == [id |-> 0, context |-> FALSE]

ASSUME StartAssumption ==
  /\ BootApps # {} /\ Storages \subseteq {"file", "zk"}
  /\ Retries \in Nat \ {0} /\ MaxCrashes \in Nat /\ MaxFailures \in Nat
  /\ FirstSaved \subseteq Stored \cup {NoFile}
  /\ Torn # NoFile /\ {Torn, NoFile} \cap Stored = {}
  /\ \A s \in FirstSaved \cap Stored : s.id <= 1  \* ids count the assignments

VARIABLES
  bootstrap,  \* was --bootstrap given?
  storage,    \* the kind of storage --storage names
  saved,      \* what the persistent storage holds
  framework,  \* the FrameworkStorage in memory: framework id, bootstrap context
  main,       \* where the server command is
  driver,     \* where the Mesos driver and its callback Registered are
  attempt,    \* the runs of the bootstrap stack
  created,    \* the applications this run of it has created
  deployed,   \* the applications of it in Marathon
  assigned,   \* how many framework ids Mesos has assigned
  slipped,    \* was an id lost: a load or save failed, a kill before the save?
  crashes, failures

startVars == <<bootstrap, storage, saved, framework, main, driver, attempt, created,
               deployed, assigned, slipped, crashes, failures>>
vars == <<startVars, usersVars>>
settings == <<bootstrap, storage>>
bounds == <<crashes, failures>>

MainPositions == {"down", "connect", "load", "update", "run", "deploy", "save", "write",
                  "cassandra", "users", "state", "print", "start", "serve"}

TypeOK ==
  /\ UsersTypeOK
  /\ bootstrap \in BOOLEAN /\ storage \in Storages
  /\ saved \in Stored \cup {NoFile, Torn}
  /\ framework \in Stored
  /\ main \in MainPositions
  /\ driver \in {"off", "register", "save", "write", "on"}
  /\ attempt \in 0..Retries
  /\ created \subseteq BootApps /\ deployed \subseteq BootApps
  /\ assigned \in Nat /\ slipped \in BOOLEAN
  /\ crashes \in 0..MaxCrashes /\ failures \in 0..MaxFailures

Intact == saved \in Stored
ContextStored == saved \in Stored /\ saved.context

Init ==
  /\ UsersInit
  /\ bootstrap \in BOOLEAN /\ storage \in Storages
  /\ saved \in FirstSaved
  /\ framework = Empty
  /\ main = "down" /\ driver = "off"
  /\ attempt = 0 /\ created = {}
  /\ deployed = IF ContextStored THEN BootApps ELSE {}
  /\ assigned = IF Intact THEN saved.id ELSE 0
  /\ slipped = FALSE
  /\ crashes = 0 /\ failures = 0
-----------------------------------------------------------------------------
(* log.Fatal, a panic or a kill.  An id that Mesos has assigned and that   *)
(* is not stored is lost.                                                  *)
StoredId == IF Intact THEN saved.id ELSE 0

Ends ==
  /\ main' = "down" /\ driver' = "off"
  /\ framework' = Empty
  /\ attempt' = 0 /\ created' = {}
  /\ slipped' = (slipped \/ framework.id \notin {0, StoredId})
  /\ Stop
  /\ UNCHANGED <<settings, saved, assigned>>

(* One of the calls the start depends on fails. *)
CallFails ==
  /\ Faults /\ failures < MaxFailures
  /\ failures' = failures + 1
  /\ UNCHANGED crashes

Exit == CallFails /\ Ends /\ UNCHANGED deployed

Goes(to) ==
  /\ main' = to
  /\ UNCHANGED <<settings, driver, crashes>>
files == <<saved, framework, slipped>>
marathon == <<attempt, created, deployed>>

Launch ==
  /\ main = "down" /\ Goes("connect")
  /\ UNCHANGED <<files, marathon, assigned, failures, usersVars>>

(* connectMarathon, with its retries, and the connection to the storage. *)
Connect ==
  /\ main = "connect"
  /\ \/ Goes("load") /\ UNCHANGED <<files, marathon, assigned, failures, usersVars>>
     \/ Exit

(* Mutant: only the bootstrap context is loaded. *)
LoadContext ==
  /\ main = "load"
  /\ \/ /\ saved # Torn
        /\ framework' = [Empty EXCEPT !.context = ContextStored]
        /\ Goes("update")
        /\ UNCHANGED <<saved, slipped, marathon, assigned, failures, usersVars>>
     \/ /\ saved = Torn
        /\ Ends /\ UNCHANGED <<deployed, bounds>>

(* Load takes an error for an empty storage, and panics at contents that   *)
(* are not JSON.                                                           *)
Load ==
  /\ main = "load"
  /\ \/ /\ saved # Torn
        /\ framework' = IF Intact THEN saved ELSE Empty
        /\ Goes("update")
        /\ UNCHANGED <<saved, slipped, marathon, assigned, failures, usersVars>>
     \/ /\ saved = Torn
        /\ Ends /\ UNCHANGED <<deployed, bounds>>
     \/ /\ CallFails
        /\ framework' = Empty
        /\ slipped' = (slipped \/ StoredId # 0)
        /\ main' = "update"
        /\ UNCHANGED <<settings, driver, saved, marathon, assigned, usersVars>>

(* The state of Mesos is read, and the bootstrap stack run unless an       *)
(* earlier server has stored what it set.                                  *)
Update ==
  /\ main = "update"
  /\ \/ /\ Goes(IF ~bootstrap THEN "cassandra"
                ELSE IF framework.context THEN "save" ELSE "run")
        /\ UNCHANGED <<files, marathon, assigned, failures, usersVars>>
     \/ Exit

-----------------------------------------------------------------------------
(* Bootstrap runs the stack again when Marathon was down.  The goroutines  *)
(* of an earlier run do nothing the next one could not have found done.    *)
Retry ==
  /\ CallFails
  /\ \/ /\ attempt + 1 < Retries
        /\ main' = "run"
        /\ attempt' = attempt + 1 /\ created' = {}
        /\ UNCHANGED <<settings, driver, files, assigned, usersVars>>
     \/ attempt + 1 = Retries /\ Ends

(* Stack.Run asks Marathon for its settings, and starts applications. *)
RunBootstrap ==
  /\ main = "run"
  /\ \/ Goes("deploy") /\ UNCHANGED <<files, marathon, assigned, failures, usersVars>>
     \/ Retry /\ UNCHANGED deployed

(* An application that is in Marathon already is refused, and the server   *)
(* gives up; so it does when one does not come up.                         *)
CreateBootApp(a) ==
  /\ main = "deploy" /\ a \notin created
  /\ \/ /\ a \notin deployed
        /\ deployed' = deployed \cup {a} /\ created' = created \cup {a}
        /\ Goes("deploy")
        /\ UNCHANGED <<files, attempt, assigned, failures, usersVars>>
     \/ a \in deployed /\ Ends /\ UNCHANGED <<deployed, bounds>>
     \/ a \notin deployed /\ Retry /\ deployed' \in {deployed, deployed \cup {a}}
     \/ Exit

(* Stack.Run saves the status of an application that is up.  The in-memory *)
(* state storage it is given here has no row to save it in: only runStack  *)
(* saves the status of a stack.                                            *)
BootAppUp(a) ==
  /\ main = "deploy" /\ a \in created
  /\ Ends
  /\ UNCHANGED <<deployed, bounds>>

-----------------------------------------------------------------------------
(* Save of the framework storage: a file is truncated and then written,    *)
(* a node of ZooKeeper is set at once, and an error is not looked at.  The *)
(* server command saves the bootstrap context, Registered the id.          *)
SaveTo(pos, pos1, next) ==
  \/ /\ pos = "save" /\ storage = "file"
     /\ saved' = Torn /\ pos1 = "write"
     /\ UNCHANGED failures
  \/ /\ pos = IF storage = "file" THEN "write" ELSE "save"
     /\ saved' = framework /\ pos1 = next
     /\ UNCHANGED failures
  \/ /\ pos \in {"save", "write"} /\ Faults /\ failures < MaxFailures
     /\ failures' = failures + 1
     /\ pos1 = next
     /\ UNCHANGED saved

SaveContext ==
  /\ SaveTo(main, main', "cassandra")
  /\ UNCHANGED <<settings, framework, slipped, driver, marathon, assigned, crashes, usersVars>>

(* Mutant: the callback saves a framework without bootstrap context. *)
RegisteredAnew ==
  /\ driver = "register"
  /\ LET id == IF framework.id = 0 THEN assigned + 1 ELSE framework.id IN
       /\ framework' = [id |-> id, context |-> FALSE]
       /\ assigned' = IF framework.id = 0 THEN id ELSE assigned
  /\ driver' = "save"
  /\ UNCHANGED <<settings, saved, slipped, main, marathon, bounds, usersVars>>

(* Mesos keeps the id a framework registers with, or assigns a new one. *)
Registered ==
  /\ driver = "register"
  /\ LET id == IF framework.id = 0 THEN assigned + 1 ELSE framework.id IN
       /\ framework' = [framework EXCEPT !.id = id]
       /\ assigned' = IF framework.id = 0 THEN id ELSE assigned
  /\ driver' = "save"
  /\ UNCHANGED <<settings, saved, slipped, main, marathon, bounds, usersVars>>

SaveId ==
  /\ SaveTo(driver, driver', "on")
  /\ UNCHANGED <<settings, framework, slipped, main, marathon, assigned, crashes, usersVars>>

-----------------------------------------------------------------------------
(* The connection to Cassandra, with its retries, and the table of stacks. *)
ConnectCassandra ==
  /\ main = "cassandra"
  /\ \/ Goes("users") /\ BeginInit /\ UNCHANGED <<files, marathon, assigned, failures>>
     \/ Exit

(* The table of users; only a failure makes it fail. *)
InitUsers ==
  /\ main = "users" /\ at[Boot] # "failed"
  /\ InitStep
  /\ at'[Boot] = "failed" => failures < MaxFailures
  /\ failures' = IF at'[Boot] = "failed" THEN failures + 1 ELSE failures
  /\ UNCHANGED <<settings, main, driver, files, marathon, assigned, crashes>>

UsersReady ==
  /\ main = "users"
  /\ \/ /\ at[Boot] \in {"reply", "done"} /\ Goes("state")
        /\ UNCHANGED <<files, marathon, assigned, failures, usersVars>>
     \/ at[Boot] = "failed" /\ Ends /\ UNCHANGED <<deployed, bounds>>

InitStateStorage ==
  /\ main = "state"
  /\ \/ Goes("print") /\ UNCHANGED <<files, marathon, assigned, failures, usersVars>>
     \/ Exit

PrintKey ==
  /\ main = "print"
  /\ \/ at[Boot] = "reply" /\ Reply(Boot)
     \/ at[Boot] = "done" /\ UNCHANGED usersVars
  /\ Goes("start")
  /\ UNCHANGED <<files, marathon, assigned, failures>>

(* ApiServer.Start starts the driver and listens. *)
StartApi ==
  /\ main = "start"
  /\ \/ /\ main' = "serve" /\ driver' = "register"
        /\ UNCHANGED <<settings, files, marathon, assigned, bounds, usersVars>>
     \/ Exit

(* The server is killed. *)
Crash ==
  /\ main # "down" /\ crashes < MaxCrashes
  /\ crashes' = crashes + 1
  /\ Ends
  /\ UNCHANGED <<deployed, failures>>

Serve(r) ==
  /\ main = "serve"
  /\ Arrive(r) \/ RequestStep(r)
  /\ UNCHANGED startVars

-----------------------------------------------------------------------------
MainStep ==
  \/ Launch \/ Connect \/ Load \/ Update
  \/ RunBootstrap \/ \E a \in BootApps : CreateBootApp(a) \/ BootAppUp(a)
  \/ SaveContext \/ ConnectCassandra \/ InitUsers \/ UsersReady
  \/ InitStateStorage \/ PrintKey \/ StartApi

DriverStep == Registered \/ SaveId

Next ==
  \/ MainStep \/ DriverStep \/ Crash
  \/ \E r \in Requests : Serve(r)

Spec == Init /\ [][Next]_vars

(* The server is started again and its goroutines are scheduled. *)
FairSpec == Spec /\ WF_vars(MainStep) /\ WF_vars(DriverStep)

-----------------------------------------------------------------------------
(* Properties                                                              *)

(* However often the server is killed, fails to start or is started again, *)
(* Mesos knows it by one framework id, so that its tasks are still its own:*)
(* the id Registered saved is loaded and registered with, and no save of   *)
(* the bootstrap context overwrites it.  Excepted are a server that ends   *)
(* before its id is stored and a load that fails, which Load takes for an  *)
(* empty storage.                                                          *)
OneFramework == ~slipped => assigned <= 1

(* What makes it so: until it has loaded the storage a server knows no id, *)
(* the driver runs only in a server that serves, and the one id that was   *)
(* assigned is in memory, or stored and yet to be loaded.                  *)
IdInv ==
  /\ main \in {"down", "connect", "load"} => framework = Empty
  /\ driver # "off" => main = "serve"
  /\ ~slipped =>
       \/ assigned = 0 /\ framework.id = 0 /\ StoredId = 0
       \/ /\ assigned = 1 /\ framework.id \in {0, 1} /\ StoredId \in {0, 1}
          /\ framework.id = 0 => main \in {"down", "connect", "load"} /\ StoredId = 1

(* The server comes up again whenever it stops, without --bootstrap or     *)
(* once the bootstrap context is stored: what Registered and the server    *)
(* command save never loses that context.  (Not with a file that a kill    *)
(* has left truncated: Load panics.)                                       *)
ComesUp == (~bootstrap \/ ContextStored) => []<>(main = "serve" \/ saved = Torn)

(* A server started with --bootstrap deploys the stack and then serves.    *)
BootstrapServes == bootstrap => <>(main = "serve")
=============================================================================
