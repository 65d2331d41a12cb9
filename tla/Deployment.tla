----------------------------- MODULE Deployment -----------------------------
(***************************************************************************)
(* What running a stack promises, without channels, goroutines, phases or  *)
(* storage: each run skips applications, starts others once everything     *)
(* they need is in place, and answers its client.  StackRun implements it. *)
(***************************************************************************)
CONSTANTS Runs, Apps, Stacks

VARIABLES
  needs,    \* the dependencies of the stack, as each run read it
  started,  \* the applications each run has started to deploy
  inPlace,  \* those it skipped, or deployed without an error
  verdict   \* its answer

vars == <<needs, started, inPlace, verdict>>

Init ==
  /\ needs \in [Runs -> Stacks]
  /\ started = [r \in Runs |-> {}]
  /\ inPlace = [r \in Runs |-> {}]
  /\ verdict = [r \in Runs |-> "none"]

(* Skipping is decided before anything is started. *)
Skip(r, a) ==
  /\ verdict[r] = "none" /\ started[r] = {}
  /\ inPlace' = [inPlace EXCEPT ![r] = @ \cup {a}]
  /\ UNCHANGED <<needs, started, verdict>>

(* Applications start together when all they need is in place; none is     *)
(* started twice, or after the answer.                                     *)
Start(r, S) ==
  /\ verdict[r] = "none"
  /\ S \cap (started[r] \cup inPlace[r]) = {}
  /\ \A a \in S : needs[r][a] \subseteq inPlace[r]
  /\ started' = [started EXCEPT ![r] = @ \cup S]
  /\ UNCHANGED <<needs, inPlace, verdict>>

(* A started application comes up, even when its run has already failed.   *)
ComeUp(r, a) ==
  /\ a \in started[r] \ inPlace[r]
  /\ inPlace' = [inPlace EXCEPT ![r] = @ \cup {a}]
  /\ UNCHANGED <<needs, started, verdict>>

(* The one answer of a run is success only when everything is in place.    *)
Answer(r, v) ==
  /\ verdict[r] = "none"
  /\ v = "ok" => inPlace[r] = Apps
  /\ verdict' = [verdict EXCEPT ![r] = v]
  /\ UNCHANGED <<needs, started, inPlace>>

Next ==
  \E r \in Runs :
    \/ \E a \in Apps : Skip(r, a) \/ ComeUp(r, a)
    \/ \E S \in SUBSET Apps : Start(r, S)
    \/ \E v \in {"ok", "error"} : Answer(r, v)

Spec == Init /\ [][Next]_vars
=============================================================================
