---------------------------- MODULE StackMerge -----------------------------
(***************************************************************************)
(* Stack.Merge of framework/stack.go: how a child stack overrides its      *)
(* parent.                                                                 *)
(*                                                                         *)
(* The applications of a stack are a function from some application names  *)
(* to settings.  Settings are told apart by how Merge treats them:         *)
(*   over   a setting the child overrides when it has one (id, cpu, ports, *)
(*          dependencies, tasks, commands and so on);                      *)
(*   kept   a setting Merge leaves as the parent has it (type, instances,  *)
(*          constraints, args, env, docker and the schedule);              *)
(*   sched  the scheduler flags, where an empty value deletes the flag.    *)
(***************************************************************************)
EXTENDS Naturals, Sequences, FiniteSets

CONSTANT Empty   \* "", zero, or an empty list

IsApplication(app) ==
  /\ app = [over |-> app.over, kept |-> app.kept, sched |-> app.sched]
  /\ app.sched = [k \in DOMAIN app.sched |-> app.sched[k]]

MergeScheduler(flags, childFlags) ==
  LET deleted == {k \in DOMAIN childFlags : childFlags[k] = Empty}
      set == DOMAIN childFlags \ deleted
  IN  [k \in (DOMAIN flags \ deleted) \cup set |-> IF k \in set THEN childFlags[k] ELSE flags[k]]

MergeApplication(app, childApp) ==
  [over  |-> IF childApp.over = Empty THEN app.over ELSE childApp.over,
   kept  |-> app.kept,
   sched |-> MergeScheduler(app.sched, childApp.sched)]

Merge(parent, child) ==
  [a \in DOMAIN parent \cup DOMAIN child |->
     IF a \notin DOMAIN parent THEN child[a]
     ELSE IF a \notin DOMAIN child THEN parent[a]
     ELSE MergeApplication(parent[a], child[a])]
=============================================================================
