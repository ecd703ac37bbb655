---------------------------- MODULE MCSchedules ----------------------------
(* Checking Schedules: the instance is in the cfg.                         *)
EXTENDS Schedules
=============================================================================
