----------------------------- MODULE MCSchedule -----------------------------
(* Expressions of the instances: a cron, and a one-shot time that falls    *)
(* between two of its occurrences.                                         *)
EXTENDS ScheduleService

MCExpressions == {{1, 3}, {2}}

=============================================================================
