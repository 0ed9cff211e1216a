----------------------------- MODULE MCScheduler -----------------------------
(* Small instances of Scheduler for TLC.                                    *)
EXTENDS Scheduler

AllTasks == 1..NumTasks

(* A group chat: the third message is bob's, the others are alice's.        *)
GroupChat == [t \in 1..NumTasks |-> "chat"]
GroupSpeakers == [t \in 1..NumTasks |-> IF t = 3 THEN "bob" ELSE "alice"]

(* A chat and a schedule that reports to it: the schedule's runs have an    *)
(* execution key of their own, but a cancel in the chat reaches them.       *)
ScheduleRuns == {2}
ScheduleKeys == [t \in 1..NumTasks |-> IF t \in ScheduleRuns THEN "schedule" ELSE "chat"]
OneSpeaker == [t \in 1..NumTasks |-> "alice"]

(* Only messages are steered into a turn, never the task of a schedule.     *)
ChatTasks == AllTasks \ ScheduleRuns
=============================================================================
