-------------------------- MODULE MCApplicationRun --------------------------
(* Instances of ApplicationRun for TLC. *)
EXTENDS ApplicationRun, TLC

CONSTANTS r1, r2, zk, kafka, job, zone, api, connect

NoRefs == [s \in Sections |-> {}]

App(type, tasks, scripts, refs, dependencies, publishes, connects, healthcheck) ==
  [type |-> type, tasks |-> tasks, scripts |-> scripts, refs |-> refs,
   dependencies |-> dependencies, publishes |-> publishes, connects |-> connects,
   healthcheck |-> healthcheck]

(* An application with every script and two tasks, whose runner publishes; *)
(* one that needs it; and a run-once application that depends on nothing.  *)
Mixed ==
  (zk :> App("dse02x", 2, Scripts,
             [NoRefs EXCEPT !["beforeScheduler"] = {zone}, !["launch"] = {zone},
                            !["beforeTask"] = {api}, !["task"] = {connect},
                            !["afterTask"] = {connect}],
             {}, {api}, {connect}, TRUE)) @@
  (kafka :> App("elasticsearch", 0, {"beforeScheduler"},
                [NoRefs EXCEPT !["launch"] = {api, connect}], {zk}, {}, {}, FALSE)) @@
  (job :> App("run-once", 0, {"beforeScheduler", "afterTasks"},
              [NoRefs EXCEPT !["beforeScheduler"] = {zone}, !["afterTasks"] = {api}],
              {}, {}, {}, FALSE))

(* A request for some applications, with variables besides the zone. *)
For(apps, global, arbitrary) ==
  [variables |-> [stack |-> {zone}, global |-> global, arbitrary |-> arbitrary],
   skip |-> Apps \ apps]
Nothing == For({}, {}, {})

(* One run of everything, or of an application without the one it needs;   *)
(* two runs of one application, with and without the variables it needs.   *)
OneOrTwo ==
  LET Two(request1, request2) == [r \in Runs |-> IF r = r1 THEN request1 ELSE request2]
  IN  {Two(For(Apps, {}, {}), Nothing), Two(For({kafka}, {api}, {}), Nothing),
       Two(For({kafka}, {api, connect}, {}), For({kafka}, {connect}, {api})),
       Two(For({job}, {api}, {}), For({job}, {}, {})),
       Two(For({job}, {api}, {}), For({job}, {}, {api}))}

OnlyZone == {[r \in Runs |-> For(Apps, {}, {})]}
=============================================================================
