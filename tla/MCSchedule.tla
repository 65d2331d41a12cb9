----------------------------- MODULE MCSchedule -----------------------------
(* Instances of Schedule for TLC. *)
EXTENDS Schedule, TLC

Given(start, schedule) == [start |-> start, schedule |-> schedule]

(* The applications of stacks/scheduled.stack. *)
SampleSchedules == {Given("cron", "none"), Given("none", "cron"), Given("cron", "cron")}

(* A schedule with and without a start time, or a text that is none. *)
AnySchedules == {Given("none", "cron"), Given("cron", "cron"),
                 Given("none", "bad"), Given("cron", "bad")}

(* No application and no request is special. *)
Symmetry == Permutations(Runs) \cup Permutations(Removals)
=============================================================================
