----------------------------- MODULE TaskRecord -----------------------------
(***************************************************************************)
(* The task_instances table as every module about tasks sees it: the       *)
(* columns that the handlers read and write, and the duration arithmetic.  *)
(* Wall-clock readings (new Date()) are members of Times.  Nothing relates *)
(* two readings: several backend instances stamp the same row and a clock  *)
(* may be stepped back, which the Math.max(0, ..) of the code admits.      *)
(***************************************************************************)
EXTENDS Integers

CONSTANTS
  Tasks,    \* the task rows that exist at the start
  Users,    \* the accounts that exist at the start
  Zones,    \* the cleaning zones
  ZoneOf,   \* the zone of each task (TaskInstance.zoneId, never rewritten)
  Times,    \* possible readings of the wall clock, in clock ticks
  Second,   \* the clock ticks of one second (1000 in the code)
  None      \* SQL null

TaskStatus ==
  {"SCHEDULED", "PENDING", "IN_PROGRESS", "DONE", "MISSED", "FLAGGED"}

ASSUME RecordAssumption ==
  /\ ZoneOf \in [Tasks -> Zones]
  /\ Times \subseteq Nat
  /\ Second \in Nat \ {0}
  /\ None \notin Nat
  /\ None \notin Users
  /\ None \notin Tasks
  /\ None \notin TaskStatus

(* durationSec of an interval: whole seconds, clamped at zero.  The clamp  *)
(* is dropped in Elapsed_Unclamped, a way to get it wrong.                 *)
Elapsed_Unclamped(from, to) == (to - from) \div Second

Elapsed(from, to) ==
  IF to < from THEN 0 ELSE (to - from) \div Second

OrNone(S) == S \cup {None}
=============================================================================
