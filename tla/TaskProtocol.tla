---------------------------- MODULE TaskProtocol ----------------------------
(***************************************************************************)
(* What the task service promises about a task row when its requests do    *)
(* not overlap: the life cycle of a task, each change in one step.         *)
(***************************************************************************)
EXTENDS TaskRecord

VARIABLES rows, status, owner, startedAt, completedAt, durationSec

stamps == <<startedAt, completedAt, durationSec>>
vars == <<rows, status, owner, startedAt, completedAt, durationSec>>

Init ==
  /\ rows = Tasks
  /\ status = [t \in Tasks |-> "SCHEDULED"]
  /\ owner \in [Tasks -> OrNone(Users)]
  /\ startedAt = [t \in Tasks |-> None]
  /\ completedAt = [t \in Tasks |-> None]
  /\ durationSec = [t \in Tasks |-> None]

\* DONE and MISSED are final: only a flag moves a task out of them.
Closed == {"DONE", "MISSED"}

\* Work on a task begins (or begins again after it was parked or flagged).
Begin(t) ==
  /\ t \in rows
  /\ status[t] \notin Closed \cup {"IN_PROGRESS"}
  /\ status' = [status EXCEPT ![t] = "IN_PROGRESS"]
  /\ \E at \in Times : startedAt' = [startedAt EXCEPT ![t] = at]
  /\ UNCHANGED <<rows, owner, completedAt, durationSec>>

\* Only work in progress is finished; a duration that is recorded is the
\* distance between the two stamps the row then carries.
Finish(t) ==
  /\ t \in rows
  /\ status[t] = "IN_PROGRESS"
  /\ status' = [status EXCEPT ![t] = "DONE"]
  /\ \E at \in Times :
       /\ completedAt' = [completedAt EXCEPT ![t] = at]
       /\ durationSec' \in
            {durationSec,
             [durationSec EXCEPT ![t] = Elapsed(startedAt[t], at)]}
  /\ UNCHANGED <<rows, owner, startedAt>>

\* A problem can be reported about any task, finished ones included.
Flag(t) ==
  /\ t \in rows
  /\ status' = [status EXCEPT ![t] = "FLAGGED"]
  /\ UNCHANGED <<rows, owner, stamps>>

\* An open task is put aside, or recorded as missed, with its stamps kept.
Park(t) ==
  /\ t \in rows
  /\ status[t] \notin Closed
  /\ \E s \in {"SCHEDULED", "PENDING", "MISSED", "FLAGGED"} :
       status' = [status EXCEPT ![t] = s]
  /\ UNCHANGED <<rows, owner, stamps>>

\* A zone goes away with its tasks; an account goes away and frees its own.
Drop(z) ==
  /\ rows' = {t \in rows : ZoneOf[t] # z}
  /\ UNCHANGED <<status, owner, stamps>>

Release(u) ==
  /\ owner' = [t \in Tasks |-> IF owner[t] = u THEN None ELSE owner[t]]
  /\ UNCHANGED <<rows, status, stamps>>

Next ==
  \/ \E t \in Tasks : Begin(t) \/ Finish(t) \/ Flag(t) \/ Park(t)
  \/ \E z \in Zones : Drop(z)
  \/ \E u \in Users : Release(u)

Spec == Init /\ [][Next]_vars
=============================================================================
