---------------------------- MODULE MCScheduler ----------------------------
(* A rule that switches itself off after one fire.                         *)
EXTENDS Scheduler

Plain == [s \in Schedules |-> "plain"]

OneShot == [s \in Schedules |-> {"once"}]

=============================================================================
