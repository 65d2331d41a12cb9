---------------------------- MODULE TaskRunners ----------------------------
(***************************************************************************)
(* The task runners of runners/: which calls RunTask makes to the API of a *)
(* Mesos framework, in which order, and which answers each client takes    *)
(* for a success.  The parameters of the calls are left out.               *)
(*                                                                         *)
(* An answer is "ok", "duplicate" (an error that says the thing exists),   *)
(* "error" (any other refusal, no connection, a parameter that cannot be   *)
(* sent, or a success without the fields the runner reads) or "garbage" (a *)
(* body that is not JSON).                                                 *)
(***************************************************************************)
EXTENDS Naturals, Sequences

KafkaRunTask == <<"add", "start">>
ExhibitorRunTask == <<"add", "update", "start", "await">>
DSERunTask == <<"add", "start">>
DSE02xRunTask == <<"addCluster", "add", "start">>
StatsdRunTask == <<"update", "start">>
SyslogRunTask == <<"update", "start">>
ZipkinRunTask == <<"add", "start">>
GoKafkaClientRunTask == <<"add", "update", "start">>

(* Elasticsearch runs no tasks: its RunTask only returns an error. *)
ElasticsearchRunTask == <<"unsupported">>

RunTaskCalls == [
  kafka         |-> KafkaRunTask,
  exhibitor     |-> ExhibitorRunTask,
  dse           |-> DSERunTask,
  dse02x        |-> DSE02xRunTask,
  statsd        |-> StatsdRunTask,
  syslog        |-> SyslogRunTask,
  zipkin        |-> ZipkinRunTask,
  goKafkaClient |-> GoKafkaClientRunTask,
  elasticsearch |-> ElasticsearchRunTask]

Runners == DOMAIN RunTaskCalls

(* Mutant: what is no JSON is never looked at again. *)
DSE02xTakesGarbage(call, answer) ==
  answer \in {"ok", "garbage"} \/ (call = "addCluster" /\ answer = "duplicate")

(* The DSE 0.2.x client lets a duplicate cluster pass, and a body it cannot *)
(* read; only the answer to start is read again.                           *)
DSE02xAccepts(call, answer) ==
  \/ answer = "ok"
  \/ answer = "duplicate" /\ call = "addCluster"
  \/ answer = "garbage" /\ call # "start"

Accepts(runner, call, answer) ==
  IF runner = "dse02x" THEN DSE02xAccepts(call, answer) ELSE answer = "ok"

(* The runners that publish variables read from the answer to start (that  *)
(* of Zipkin for tasks of type query only).                                *)
PublishOnStart == {"exhibitor", "dse", "dse02x", "zipkin"}
=============================================================================
