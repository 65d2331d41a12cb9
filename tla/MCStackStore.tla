---------------------------- MODULE MCStackStore ---------------------------
(* Instances of StackStore for TLC. *)
EXTENDS StackStore, TLC

CONSTANTS app1, app2, flag, v1, v2

None == [k \in {} |-> v1]
App(over, kept, sched) == [over |-> over, kept |-> kept, sched |-> sched]

(* Stack files with settings that meet in every way Merge tells apart. *)
Files == {
  [a \in {app1} |-> App(v1, v1, [k \in {flag} |-> v1])],
  [a \in {app1} |-> App(v2, Empty, [k \in {flag} |-> Empty])],
  [a \in {app1, app2} |-> App(Empty, v2, None)]}

Symmetry == Permutations(Names)
=============================================================================
