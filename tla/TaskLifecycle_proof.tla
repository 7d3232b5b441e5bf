------------------------ MODULE TaskLifecycle_proof ------------------------
(***************************************************************************)
(* Theorems about TaskLifecycle, for any number of tasks, users, zones and *)
(* requests, any clock and any set of endpoints in use.                    *)
(***************************************************************************)
EXTENDS TaskLifecycle, TLAPS

USE DEF OrNone

\* The whole seconds between two clock readings are a natural number: the
\* clamp of updateTaskStatus.
LEMMA ElapsedNat ==
  ASSUME NEW from \in Nat, NEW to \in Nat
  PROVE  Elapsed(from, to) \in Nat
<1>1. CASE to < from
  BY <1>1 DEF Elapsed
<1>2. CASE ~(to < from)
  <2>1. to - from \in Nat
    BY <1>2
  <2>2. (to - from) \div Second \in Nat
    BY <2>1, RecordAssumption, SMTT(30)
  <2> QED BY <1>2, <2>2 DEF Elapsed
<1> QED BY <1>1, <1>2

(***************************************************************************)
(* Type correctness.  TypeOK is not inductive by itself: that a handler    *)
(* which stands at its write or its scan event holds a call is needed too. *)
(***************************************************************************)
WellFormed(c) ==
  /\ c \in Calls
  /\ c.qr => c.ep \in {"start", "complete"}
  /\ c.to = None => c.ep = "put"

HoldsCall ==
  \A r \in Requests :
    pc[r] \in InFlight =>
      /\ WellFormed(call[r])
      /\ pc[r] = "scan" => call[r].qr

\* What a handler holds while it works.
ControlOK ==
  /\ pc \in [Requests -> {"idle"} \cup InFlight \cup Answers]
  /\ call \in [Requests -> OrNone(Calls)]
  /\ seenStart \in [Requests -> OrNone(Times)]
  /\ HoldsCall

ColumnsOK ==
  /\ rows \subseteq Tasks
  /\ status \in [Tasks -> TaskStatus]
  /\ owner \in [Tasks -> OrNone(Users)]
  /\ startedAt \in [Tasks -> OrNone(Times)]
  /\ completedAt \in [Tasks -> OrNone(Times)]
  /\ durationSec \in [Tasks -> OrNone(Nat)]

LogOK ==
  /\ accounts \subseteq Users
  /\ scans \subseteq [by : Requests, task : OrNone(Tasks), user : Users,
                      action : {"CHECK_IN", "CHECK_OUT"}]
  /\ told \subseteq [by : Requests, user : Users]
  /\ overridden \subseteq Tasks

TypeInv == ControlOK /\ ColumnsOK /\ LogOK

LEMMA TypeInvTypeOK == TypeInv => TypeOK
BY DEF TypeInv, TypeOK, ControlOK, ColumnsOK, LogOK

\* Answering keeps the control state well formed.
LEMMA AnswerOK ==
  ASSUME ControlOK, NEW r \in Requests, NEW code \in Answers, Answer(r, code)
  PROVE  ControlOK'
BY DEF ControlOK, Answer, HoldsCall, InFlight, Answers

\* A call built by an endpoint is well formed.
LEMMA CallOK ==
  ASSUME NEW ep \in Endpoints, NEW u \in Users, NEW t \in Tasks,
         NEW s \in OrNone(TaskStatus), NEW qr \in BOOLEAN,
         qr => ep \in {"start", "complete"}, s = None => ep = "put"
  PROVE  WellFormed(Call(ep, u, t, s, qr))
BY DEF Call, Calls, WellFormed

\* The part all writes share.
LEMMA CommitOK ==
  ASSUME TypeInv, NEW r \in Requests, NEW ep, NEW s \in TaskStatus,
         Commit(r, ep, s)
  PROVE  /\ ControlOK' /\ LogOK'
         /\ WellFormed(call[r]) /\ call[r].ep = ep /\ call[r].task \in rows
         /\ status' \in [Tasks -> TaskStatus]
         /\ rows' \subseteq Tasks /\ owner' \in [Tasks -> OrNone(Users)]
<1> USE DEF TypeInv
<1>1. WellFormed(call[r]) /\ call[r].ep = ep /\ call[r].task \in rows
  BY DEF Commit, ControlOK, HoldsCall, InFlight
<1>2. CASE call[r].qr
  BY <1>1, <1>2 DEF Commit, NeedsScan, ControlOK, LogOK, ColumnsOK, HoldsCall,
                    InFlight, Answers
<1>3. CASE ~call[r].qr
  <2>1. Answer(r, "200") /\ told' = told
    BY <1>3 DEF Commit, NeedsScan, Succeed
  <2>2. ControlOK'
    BY <2>1, AnswerOK DEF Answers
  <2> QED BY <1>1, <2>1, <2>2 DEF Commit, LogOK, ColumnsOK
<1> QED BY <1>2, <1>3

LEMMA TypeInit == Init => TypeInv
BY RecordAssumption
   DEF Init, TypeInv, ControlOK, ColumnsOK, LogOK, HoldsCall, TaskStatus,
       InFlight, Answers

(***************************************************************************)
(* The kinds of steps.  Reading, Writing and Ending sort the handlers'     *)
(* steps; ReadEffect and EndEffect say once what the many read steps and   *)
(* the many failing ends do.                                               *)
(***************************************************************************)
Reading(r) ==
  \/ StartTask(r) \/ CompleteTask(r) \/ FlagTask(r) \/ UpdateTask(r)
  \/ UpdateTaskStatus(r)

Writing(r) ==
  \/ CommitStart(r) \/ CommitComplete(r) \/ CommitFlag(r) \/ CommitPut(r)
  \/ CommitStatus(r)

Ending(r) ==
  \/ FlagWithoutReason(r) \/ CommitMissing(r) \/ ScanOrphaned(r)
  \/ DbError(r)

LEMMA StepKinds ==
  ASSUME [Next]_vars
  PROVE  \/ \E r \in Requests :
              Reading(r) \/ Writing(r) \/ RecordScan(r) \/ Ending(r)
         \/ Crash
         \/ \E z \in Zones : DeleteZone(z)
         \/ \E u \in Users : RemoveUser(u)
         \/ UNCHANGED vars
BY DEF Next, Handler, Reading, Writing, Ending

\* What the checks of a handler establish of the row they looked at.
Checked(c) ==
  /\ c.ep = "start" => ~StartRefused(c.task) /\ c.to = "IN_PROGRESS"
  /\ c.ep = "complete" => ~CompleteRefused(c.task)
  /\ c.ep = "status" => ~StatusRefused(c.task, c.to) /\ status[c.task] # c.to

GoesOn(r, c) ==
  /\ WellFormed(c) /\ Checked(c) /\ c.task \in rows
  /\ c.ep = "status" \/ owner[c.task] = c.user
  /\ pc' = [pc EXCEPT ![r] = "write"]
  /\ call' = [call EXCEPT ![r] = c]
  /\ seenStart' = [seenStart EXCEPT ![r] = startedAt[c.task]]

LEMMA ReceiveEffect ==
  ASSUME NEW r \in Requests, NEW c, NEW refused, NEW noop,
         Receive(r, c, refused, noop), WellFormed(c),
         ~refused /\ ~noop =>
           Checked(c) /\ (c.ep = "status" \/ owner[c.task] = c.user)
  PROVE  /\ UNCHANGED <<columns, accounts, scans, told, overridden>>
         /\ \/ \E code \in {"200", "400", "404"} : Answer(r, code)
            \/ GoesOn(r, c)
BY DEF Receive, GoesOn

LEMMA ReadEffect ==
  ASSUME NEW r \in Requests, Reading(r)
  PROVE  /\ Admitted(r)
         /\ UNCHANGED <<columns, accounts, scans, told, overridden>>
         /\ \/ \E code \in {"200", "400", "404"} : Answer(r, code)
            \/ \E c : GoesOn(r, c)
<1> USE RecordAssumption DEF TaskStatus
<1>1. CASE StartTask(r)
  <2>1. PICK u \in Users, t \in Tasks, qr \in BOOLEAN :
          Receive(r, Call("start", u, t, "IN_PROGRESS", qr),
                  Foreign(u, t) \/ StartRefused(t), FALSE)
    BY <1>1 DEF StartTask
  <2> DEFINE c == Call("start", u, t, "IN_PROGRESS", qr)
  <2>2. WellFormed(c)
    BY <2>1, CallOK DEF Receive, Call
  <2>3. ~(Foreign(u, t) \/ StartRefused(t)) /\ ~(FALSE) =>
          Checked(c) /\ (c.ep = "status" \/ owner[c.task] = c.user)
    BY DEF Checked, Call, Foreign
  <2> QED BY <1>1, <2>1, <2>2, <2>3, ReceiveEffect DEF StartTask
<1>2. CASE CompleteTask(r)
  <2>1. PICK u \in Users, t \in Tasks, qr \in BOOLEAN :
          Receive(r, Call("complete", u, t, "DONE", qr),
                  Foreign(u, t) \/ CompleteRefused(t), FALSE)
    BY <1>2 DEF CompleteTask
  <2> DEFINE c == Call("complete", u, t, "DONE", qr)
  <2>2. WellFormed(c)
    BY <2>1, CallOK DEF Receive, Call
  <2>3. ~(Foreign(u, t) \/ CompleteRefused(t)) /\ ~(FALSE) =>
          Checked(c) /\ (c.ep = "status" \/ owner[c.task] = c.user)
    BY DEF Checked, Call, Foreign
  <2> QED BY <1>2, <2>1, <2>2, <2>3, ReceiveEffect DEF CompleteTask
<1>3. CASE FlagTask(r)
  <2>1. PICK u \in Users, t \in Tasks :
          Receive(r, Call("flag", u, t, "FLAGGED", FALSE),
                  Foreign(u, t), FALSE)
    BY <1>3 DEF FlagTask
  <2> DEFINE c == Call("flag", u, t, "FLAGGED", FALSE)
  <2>2. WellFormed(c)
    BY <2>1, CallOK DEF Receive, Call
  <2>3. ~(Foreign(u, t)) /\ ~(FALSE) =>
          Checked(c) /\ (c.ep = "status" \/ owner[c.task] = c.user)
    BY DEF Checked, Call, Foreign
  <2> QED BY <1>3, <2>1, <2>2, <2>3, ReceiveEffect DEF FlagTask
<1>4. CASE UpdateTask(r)
  <2>1. PICK u \in Users, t \in Tasks, s \in OrNone(TaskStatus) :
          Receive(r, Call("put", u, t, s, FALSE),
                  Foreign(u, t), FALSE)
    BY <1>4 DEF UpdateTask
  <2> DEFINE c == Call("put", u, t, s, FALSE)
  <2>2. WellFormed(c)
    BY <2>1, CallOK DEF Receive, Call
  <2>3. ~(Foreign(u, t)) /\ ~(FALSE) =>
          Checked(c) /\ (c.ep = "status" \/ owner[c.task] = c.user)
    BY DEF Checked, Call, Foreign
  <2> QED BY <1>4, <2>1, <2>2, <2>3, ReceiveEffect DEF UpdateTask
<1>5. CASE UpdateTaskStatus(r)
  <2>1. PICK u \in Users, t \in Tasks, s \in TaskStatus :
          Receive(r, Call("status", u, t, s, FALSE),
                  StatusRefused(t, s), status[t] = s)
    BY <1>5 DEF UpdateTaskStatus
  <2> DEFINE c == Call("status", u, t, s, FALSE)
  <2>2. WellFormed(c)
    BY <2>1, CallOK DEF Receive, Call
  <2>3. ~(StatusRefused(t, s)) /\ ~(status[t] = s) =>
          Checked(c) /\ (c.ep = "status" \/ owner[c.task] = c.user)
    BY DEF Checked, Call, Foreign
  <2> QED BY <1>5, <2>1, <2>2, <2>3, ReceiveEffect DEF UpdateTaskStatus
<1> QED BY <1>1, <1>2, <1>3, <1>4, <1>5 DEF Reading

LEMMA EndEffect ==
  ASSUME NEW r \in Requests, Ending(r)
  PROVE  /\ UNCHANGED <<columns, accounts, scans, told, overridden>>
         /\ \E code \in {"400", "500"} : Answer(r, code)
BY DEF Ending, FlagWithoutReason, CommitMissing, ScanOrphaned, DbError

LEMMA TypeCommit ==
  ASSUME TypeInv, NEW r \in Requests, Writing(r)
  PROVE  TypeInv'
<1> USE DEF TypeInv
<1>1. CASE CommitStart(r)
  <2>1. Commit(r, "start", "IN_PROGRESS") /\ "IN_PROGRESS" \in TaskStatus
    BY <1>1 DEF CommitStart, TaskStatus
  <2> QED BY <1>1, <2>1, CommitOK DEF CommitStart, ColumnsOK
<1>2. CASE CommitComplete(r)
  <2>1. Commit(r, "complete", "DONE") /\ "DONE" \in TaskStatus
    BY <1>2 DEF CommitComplete, TaskStatus
  <2> QED BY <1>2, <2>1, CommitOK DEF CommitComplete, ColumnsOK
<1>3. CASE CommitFlag(r)
  <2>1. Commit(r, "flag", "FLAGGED") /\ "FLAGGED" \in TaskStatus
    BY <1>3 DEF CommitFlag, TaskStatus
  <2> QED BY <1>3, <2>1, CommitOK DEF CommitFlag, ColumnsOK
<1>4. CASE CommitPut(r)
  <2>1. \E s \in TaskStatus : Commit(r, "put", s)
    BY <1>4 DEF CommitPut, Commit, ColumnsOK, ControlOK, HoldsCall, InFlight,
                WellFormed, Calls
  <2> QED BY <1>4, <2>1, CommitOK DEF CommitPut, ColumnsOK
<1>5. CASE CommitStatus(r)
  <2> DEFINE s == call[r].to
  <2>1. Commit(r, "status", s)
    BY <1>5 DEF CommitStatus
  <2>2. s \in TaskStatus /\ seenStart[r] \in OrNone(Times)
    BY <2>1 DEF Commit, ControlOK, HoldsCall, InFlight, WellFormed, Calls
  <2>3. /\ startedAt' \in [Tasks -> OrNone(Times)]
        /\ completedAt' \in [Tasks -> OrNone(Times)]
    BY <1>5 DEF CommitStatus, ColumnsOK
  <2>4. durationSec' \in [Tasks -> OrNone(Nat)]
    <3>1. \A at \in Times : /\ Elapsed(at, at) \in Nat
                            /\ seenStart[r] # None =>
                                 Elapsed(seenStart[r], at) \in Nat
      BY <2>2, ElapsedNat, RecordAssumption
    <3>2. PICK d \in Nat :
            durationSec' = IF s = "DONE"
                           THEN [durationSec EXCEPT ![call[r].task] = d]
                           ELSE durationSec
      BY <1>5, <3>1 DEF CommitStatus
    <3> QED BY <3>2 DEF ColumnsOK
  <2> HIDE DEF s
  <2> QED BY <2>1, <2>2, <2>3, <2>4, CommitOK DEF ColumnsOK
<1> QED BY <1>1, <1>2, <1>3, <1>4, <1>5 DEF Writing

LEMMA TypeRead ==
  ASSUME TypeInv, NEW r \in Requests, Reading(r)
  PROVE  TypeInv'
<1>1. ColumnsOK' /\ LogOK'
  BY ReadEffect DEF columns, TypeInv, ColumnsOK, LogOK
<1>2. CASE \E code \in {"200", "400", "404"} : Answer(r, code)
  BY <1>1, <1>2, AnswerOK DEF Answers, TypeInv
<1>3. ASSUME NEW c, GoesOn(r, c) PROVE ControlOK'
  BY <1>3 DEF GoesOn, TypeInv, ControlOK, ColumnsOK, HoldsCall, WellFormed,
              Calls, InFlight, Answers
<1> QED BY <1>1, <1>2, <1>3, ReadEffect DEF TypeInv

LEMMA TypeEnd ==
  ASSUME TypeInv, NEW r \in Requests, RecordScan(r) \/ Ending(r)
  PROVE  TypeInv'
<1> USE DEF TypeInv
<1>1. CASE RecordScan(r)
  <2>1. ControlOK' /\ ColumnsOK'
    BY <1>1, AnswerOK DEF RecordScan, Succeed, Answers, columns, ColumnsOK
  <2>2. call[r] \in Calls
    BY <1>1 DEF RecordScan, ControlOK, HoldsCall, InFlight, WellFormed
  <2>3. LogOK'
    BY <1>1, <2>2 DEF RecordScan, Succeed, LogOK, Calls, ScanAction
  <2> QED BY <2>1, <2>3
<1>2. CASE Ending(r)
  BY <1>2, EndEffect, AnswerOK DEF Answers, columns, ColumnsOK, LogOK
<1> QED BY <1>1, <1>2

LEMMA TypeInvariant == Spec => []TypeInv
<1>1. TypeInv /\ [Next]_vars => TypeInv'
  <2> SUFFICES ASSUME TypeInv, [Next]_vars PROVE TypeInv'
    OBVIOUS
  <2>1. CASE \E r \in Requests :
               Reading(r) \/ Writing(r) \/ RecordScan(r) \/ Ending(r)
    BY <2>1, TypeRead, TypeCommit, TypeEnd
  <2>2. CASE Crash
    BY <2>2 DEF Crash, columns, TypeInv, ControlOK, ColumnsOK, LogOK, HoldsCall,
                InFlight, Answers
  <2>3. ASSUME NEW z \in Zones, DeleteZone(z) PROVE TypeInv'
    <3>1. LogOK'
      BY <2>3 DEF DeleteZone, TypeInv, ColumnsOK, LogOK
    <3> QED BY <2>3, <3>1 DEF DeleteZone, TypeInv, ControlOK, ColumnsOK, HoldsCall
  <2>4. ASSUME NEW u \in Users, RemoveUser(u) PROVE TypeInv'
    BY <2>4 DEF RemoveUser, TypeInv, ControlOK, ColumnsOK, LogOK, HoldsCall
  <2>5. CASE UNCHANGED vars
    BY <2>5 DEF vars, columns, TypeInv, ControlOK, ColumnsOK, LogOK, HoldsCall
  <2> QED BY <2>1, <2>2, <2>3, <2>4, <2>5, StepKinds
<1> QED BY <1>1, TypeInit, PTL DEF Spec

\* Every column keeps its type in every behaviour of the task service.
THEOREM TypeCorrect == Spec => []TypeOK
BY TypeInvariant, TypeInvTypeOK, PTL

(***************************************************************************)
(* The stamps.  StampsBacked is kept by a write that finishes a task only  *)
(* because the row had a start when the request was checked, and a start,  *)
(* once recorded, is overwritten but never erased.                         *)
(***************************************************************************)
Finishing(c) ==
  \/ c.ep = "complete"
  \/ c.ep = "status" /\ c.to = "DONE"

FinishersStarted ==
  \A r \in Requests :
    /\ pc[r] = "write" /\ Finishing(call[r])
    /\ call[r].task \notin overridden
    => startedAt[call[r].task] # None

OverriddenByPut == "put" \notin Endpoints => overridden = {}

StampsInv == StampsBacked /\ FinishersStarted /\ OverriddenByPut

\* What a request in flight holds, spelled out.
LEMMA Held ==
  ASSUME TypeInv, NEW r \in Requests, pc[r] \in InFlight
  PROVE  /\ call[r].ep \in Endpoints /\ call[r].user \in Users
         /\ call[r].task \in Tasks /\ call[r].to \in OrNone(TaskStatus)
         /\ call[r].to = None => call[r].ep = "put"
         /\ call[r].qr \in BOOLEAN
         /\ call[r].qr => call[r].ep \in {"start", "complete"}
BY DEF TypeInv, ControlOK, HoldsCall, WellFormed, Calls

\* A write leaves the other requests where they stand and its own request
\* no longer before a write.
LEMMA CommitControl ==
  ASSUME TypeInv, NEW r \in Requests, NEW ep, NEW s, Commit(r, ep, s),
         NEW q \in Requests, pc'[q] = "write"
  PROVE  q # r /\ pc[q] = "write" /\ call'[q] = call[q]
BY DEF Commit, Succeed, Answer, TypeInv, ControlOK

LEMMA StampsRead ==
  ASSUME TypeInv, StampsInv, NEW r \in Requests, Reading(r)
  PROVE  StampsInv'
<1> USE DEF StampsInv
<1>1. StampsBacked' /\ OverriddenByPut' /\ UNCHANGED <<columns, overridden>>
  BY ReadEffect DEF columns, StampsBacked, OverriddenByPut
<1>2. CASE \E code \in {"200", "400", "404"} : Answer(r, code)
  BY <1>1, <1>2 DEF Answer, columns, FinishersStarted, TypeInv, ControlOK
<1>3. ASSUME NEW c, GoesOn(r, c) PROVE FinishersStarted'
  <2>1. /\ c.task \in Tasks
        /\ Finishing(c) /\ c.task \notin overridden => startedAt[c.task] # None
    BY <1>3 DEF GoesOn, WellFormed, Calls, Checked, CompleteRefused,
                StatusRefused, Finishing, StampsBacked
  <2> QED
    BY <1>1, <1>3, <2>1 DEF GoesOn, columns, FinishersStarted, TypeInv, ControlOK
<1> QED BY <1>1, <1>2, <1>3, ReadEffect

\* A write, with what it does to the history; only PUT overrides a task.
LEMMA StampsWrite ==
  ASSUME TypeInv, StampsInv, NEW r \in Requests, Writing(r)
  PROVE  /\ pc[r] = "write" /\ call[r].task \in Tasks
         /\ FinishersStarted' /\ OverriddenByPut'
         /\ overridden \subseteq overridden'
<1> DEFINE t == call[r].task
<1> USE RecordAssumption
<1>1. PICK ep, s : Commit(r, ep, s)
  BY DEF Writing, CommitStart, CommitComplete, CommitFlag, CommitPut, CommitStatus
<1>2. pc[r] = "write" /\ t \in Tasks /\ call[r].ep \in Endpoints
  BY <1>1, Held DEF Commit, InFlight
<1>3. overridden \subseteq overridden' /\ OverriddenByPut'
  BY <1>1, <1>2 DEF Commit, StampsInv, OverriddenByPut
<1>4. \A q \in Requests : pc'[q] = "write" =>
                            pc[q] = "write" /\ call'[q] = call[q]
  BY <1>1, CommitControl
<1>5. \A u \in Tasks : startedAt[u] # None => startedAt'[u] # None
  <2>1. \/ startedAt' = startedAt
        \/ \E at \in Times : startedAt' = [startedAt EXCEPT ![t] = at]
    BY DEF Writing, CommitStart, CommitComplete, CommitFlag, CommitPut,
           CommitStatus
  <2> QED BY <1>2, <2>1 DEF TypeInv, ColumnsOK
<1>6. FinishersStarted'
  BY <1>3, <1>4, <1>5, Held DEF FinishersStarted, StampsInv, InFlight
<1> QED BY <1>2, <1>3, <1>6

LEMMA StampsCommit ==
  ASSUME TypeInv, StampsInv, NEW r \in Requests, Writing(r)
  PROVE  StampsInv'
<1> DEFINE t == call[r].task
<1> USE RecordAssumption
<1>1. pc[r] = "write" /\ t \in Tasks /\ overridden \subseteq overridden'
  BY StampsWrite
<1>2. FinishersStarted' /\ OverriddenByPut'
  BY StampsWrite
<1> SUFFICES ASSUME NEW u \in Tasks, u \notin overridden'
             PROVE  /\ status'[u] \in {"IN_PROGRESS", "DONE"} => startedAt'[u] # None
                    /\ status'[u] = "DONE" => completedAt'[u] # None
                    /\ completedAt'[u] # None => startedAt'[u] # None
                    /\ durationSec'[u] # None => completedAt'[u] # None
  BY <1>2 DEF StampsInv, StampsBacked
<1>3. /\ status[u] \in {"IN_PROGRESS", "DONE"} => startedAt[u] # None
      /\ status[u] = "DONE" => completedAt[u] # None
      /\ completedAt[u] # None => startedAt[u] # None
      /\ durationSec[u] # None => completedAt[u] # None
  BY <1>1 DEF StampsInv, StampsBacked
<1>4. CASE CommitStart(r)
  BY <1>1, <1>3, <1>4 DEF CommitStart, Commit, TypeInv, ColumnsOK
<1>5. CASE CommitComplete(r)
  <2>1. u = t => startedAt[t] # None
    BY <1>1, <1>5 DEF CommitComplete, Commit, StampsInv, FinishersStarted,
                      Finishing
  <2> QED
    BY <1>1, <1>3, <1>5, <2>1 DEF CommitComplete, Commit, TypeInv, ColumnsOK
<1>6. CASE CommitFlag(r)
  BY <1>1, <1>3, <1>6 DEF CommitFlag, Commit, TypeInv, ColumnsOK
<1>7. CASE CommitPut(r)
  <2>1. call[r].to = None \/ u # t
    BY <1>1, <1>7 DEF CommitPut, Commit
  <2>2. status'[u] = status[u]
    BY <1>1, <1>7, <2>1 DEF CommitPut, Commit, TypeInv, ColumnsOK
  <2> QED BY <1>3, <1>7, <2>2 DEF CommitPut
<1>8. CASE CommitStatus(r)
  <2>1. call[r].to = "DONE" /\ u = t => startedAt[t] # None
    BY <1>1, <1>8 DEF CommitStatus, Commit, StampsInv, FinishersStarted,
                      Finishing
  <2>2. CASE call[r].to = "DONE"
    <3>1. PICK at \in Times :
            completedAt' = [completedAt EXCEPT ![t] = at]
      BY <1>8, <2>2 DEF CommitStatus
    <3>2. \A v \in Tasks : v # t => durationSec'[v] = durationSec[v]
      BY <1>1, <1>8 DEF CommitStatus, TypeInv, ColumnsOK
    <3>3. startedAt' = startedAt /\ status' = [status EXCEPT ![t] = "DONE"]
      BY <1>8, <2>2 DEF CommitStatus, Commit
    <3> QED
      BY <1>1, <1>3, <2>1, <2>2, <3>1, <3>2, <3>3 DEF TypeInv, ColumnsOK
  <2>3. CASE call[r].to # "DONE"
    BY <1>1, <1>3, <1>8, <2>3 DEF CommitStatus, Commit, TypeInv, ColumnsOK
  <2> QED BY <2>2, <2>3
<1> QED BY <1>4, <1>5, <1>6, <1>7, <1>8 DEF Writing

LEMMA StampsInvariant == Spec => []StampsInv
<1>1. Init => StampsInv
  BY RecordAssumption
     DEF Init, StampsInv, StampsBacked, FinishersStarted, OverriddenByPut
<1>2. TypeInv /\ StampsInv /\ [Next]_vars => StampsInv'
  <2> SUFFICES ASSUME TypeInv, StampsInv, [Next]_vars PROVE StampsInv'
    OBVIOUS
  <2> USE DEF StampsInv, OverriddenByPut
  <2>1. ASSUME NEW r \in Requests, Reading(r) \/ Writing(r)
        PROVE  StampsInv'
    BY <2>1, StampsRead, StampsCommit
  <2>6. ASSUME NEW r \in Requests, RecordScan(r) \/ Ending(r)
        PROVE  StampsInv'
    <3>1. /\ UNCHANGED <<columns, overridden>>
          /\ \E code \in {"200", "400", "500"} : Answer(r, code)
      BY <2>6, EndEffect DEF RecordScan, Succeed
    <3> QED
      BY <3>1 DEF Answer, columns, StampsBacked, FinishersStarted, TypeInv,
                  ControlOK
  <2>2. CASE Crash
    BY <2>2 DEF Crash, columns, InFlight, StampsBacked, FinishersStarted
  <2>3. ASSUME NEW z \in Zones, DeleteZone(z) PROVE StampsInv'
    BY <2>3 DEF DeleteZone, StampsBacked, FinishersStarted
  <2>4. ASSUME NEW u \in Users, RemoveUser(u) PROVE StampsInv'
    BY <2>4 DEF RemoveUser, StampsBacked, FinishersStarted
  <2>5. CASE UNCHANGED vars
    BY <2>5 DEF vars, columns, StampsBacked, FinishersStarted
  <2> QED BY <2>1, <2>2, <2>3, <2>4, <2>5, <2>6, StepKinds
<1> QED BY <1>1, <1>2, TypeInvariant, PTL DEF Spec

\* Unless PUT has set its status, work in progress is started work and
\* finished work is stamped work, however the requests overlap.
THEOREM StampsCorrect == Spec => []StampsBacked
BY StampsInvariant, PTL DEF StampsInv

(***************************************************************************)
(* The event log.  An event is written after the stamp it stands for, and  *)
(* stamps are never erased; an answer is given after the event it owes.    *)
(***************************************************************************)
ScannersStamped ==
  \A r \in Requests :
    pc[r] = "scan" =>
      /\ call[r].ep = "start" => startedAt[call[r].task] # None
      /\ call[r].ep = "complete" => completedAt[call[r].task] # None

LogInv == ScanBacked /\ ScannersStamped /\ AnsweredScanned

\* No step erases a stamp.
LEMMA StampsStay ==
  ASSUME TypeInv, [Next]_vars, NEW t \in Tasks
  PROVE  /\ startedAt[t] # None => startedAt'[t] # None
         /\ completedAt[t] # None => completedAt'[t] # None
<1> USE RecordAssumption
<1>1. ASSUME NEW r \in Requests,
             CommitStart(r) \/ CommitComplete(r) \/ CommitStatus(r)
      PROVE  /\ startedAt[t] # None => startedAt'[t] # None
             /\ completedAt[t] # None => completedAt'[t] # None
  BY <1>1 DEF CommitStart, CommitComplete, CommitStatus, TypeInv, ColumnsOK
<1>2. ASSUME UNCHANGED <<startedAt, completedAt>>
      PROVE  /\ startedAt[t] # None => startedAt'[t] # None
             /\ completedAt[t] # None => completedAt'[t] # None
  BY <1>2
<1>3. ASSUME NEW r \in Requests, Writing(r)
      PROVE  \/ UNCHANGED <<startedAt, completedAt>>
             \/ CommitStart(r) \/ CommitComplete(r) \/ CommitStatus(r)
  BY <1>3 DEF Writing, CommitFlag, CommitPut
<1>4. ASSUME NEW r \in Requests, Reading(r) \/ RecordScan(r) \/ Ending(r)
      PROVE  UNCHANGED <<startedAt, completedAt>>
  BY <1>4, ReadEffect, EndEffect DEF RecordScan, columns
<1>5. ASSUME \/ Crash \/ UNCHANGED vars
             \/ \E z \in Zones : DeleteZone(z)
             \/ \E u \in Users : RemoveUser(u)
      PROVE  UNCHANGED <<startedAt, completedAt>>
  BY <1>5 DEF Crash, DeleteZone, RemoveUser, vars, columns
<1> QED BY <1>1, <1>2, <1>3, <1>4, <1>5, StepKinds

\* A request comes to its scan event only from its own write, with the
\* stamp of that write in the row.
LEMMA ScannersKept ==
  ASSUME TypeInv, LogInv, [Next]_vars
  PROVE  ScannersStamped'
<1> SUFFICES ASSUME NEW q \in Requests, pc'[q] = "scan"
             PROVE  /\ call'[q].ep = "start" => startedAt'[call'[q].task] # None
                    /\ call'[q].ep = "complete" =>
                         completedAt'[call'[q].task] # None
  BY DEF ScannersStamped
<1>1. CASE pc[q] = "scan" /\ call'[q] = call[q]
  BY <1>1, Held, StampsStay DEF LogInv, ScannersStamped, InFlight
<1>2. ASSUME NEW r \in Requests, Reading(r)
      PROVE  pc[q] = "scan" /\ call'[q] = call[q]
  BY <1>2, ReadEffect DEF Answer, GoesOn, TypeInv, ControlOK
<1>3. ASSUME NEW r \in Requests, RecordScan(r) \/ Ending(r)
      PROVE  pc[q] = "scan" /\ call'[q] = call[q]
  <2>1. \E code \in {"200", "400", "500"} : Answer(r, code)
    BY <1>3, EndEffect DEF RecordScan, Succeed
  <2> QED BY <2>1 DEF Answer, TypeInv, ControlOK
<1>4. ASSUME \/ UNCHANGED vars
             \/ \E z \in Zones : DeleteZone(z)
             \/ \E u \in Users : RemoveUser(u)
      PROVE  pc[q] = "scan" /\ call'[q] = call[q]
  BY <1>4 DEF DeleteZone, RemoveUser, vars
<1>5. ~Crash
  BY DEF Crash, InFlight, TypeInv, ControlOK
<1>6. ASSUME NEW r \in Requests, Writing(r), r # q
      PROVE  pc[q] = "scan" /\ call'[q] = call[q]
  BY <1>6 DEF Writing, CommitStart, CommitComplete, CommitFlag, CommitPut,
              CommitStatus, Commit, Succeed, Answer, TypeInv, ControlOK
<1>7. ASSUME Writing(q)
      PROVE  /\ call'[q].ep = "start" => startedAt'[call'[q].task] # None
             /\ call'[q].ep = "complete" => completedAt'[call'[q].task] # None
  <2>1. pc[q] = "write" /\ call[q].task \in Tasks
    BY <1>7, Held DEF Writing, CommitStart, CommitComplete, CommitFlag,
                      CommitPut, CommitStatus, Commit, InFlight
  <2>2. call' = call
    BY <1>7 DEF Writing, CommitStart, CommitComplete, CommitFlag, CommitPut,
                CommitStatus, Commit, Succeed, Answer, TypeInv, ControlOK
  <2> QED
    BY <1>7, <2>1, <2>2, RecordAssumption
       DEF Writing, CommitStart, CommitComplete, CommitFlag, CommitPut,
           CommitStatus, Commit, TypeInv, ColumnsOK
<1> QED BY <1>1, <1>2, <1>3, <1>4, <1>5, <1>6, <1>7, StepKinds

LEMMA ScanBackedKept ==
  ASSUME TypeInv, LogInv, [Next]_vars
  PROVE  ScanBacked'
<1> USE DEF LogInv
<1>1. ASSUME NEW s \in scans, s.task # None
      PROVE  /\ s.action = "CHECK_IN" => startedAt'[s.task] # None
             /\ s.action = "CHECK_OUT" => completedAt'[s.task] # None
  BY <1>1, StampsStay DEF ScanBacked, TypeInv, LogOK
<1>2. ASSUME NEW r \in Requests, RecordScan(r) PROVE ScanBacked'
  <2>1. call[r].ep \in {"start", "complete"} /\ call[r].task \in Tasks
    BY <1>2, Held DEF RecordScan, InFlight, TypeInv, ControlOK, HoldsCall
  <2>2. /\ call[r].ep = "start" => startedAt[call[r].task] # None
        /\ call[r].ep = "complete" => completedAt[call[r].task] # None
    BY <1>2 DEF RecordScan, ScannersStamped
  <2> QED
    BY <1>1, <1>2, <2>1, <2>2 DEF RecordScan, ScanBacked, ScanAction, columns
<1>3. ASSUME NEW z \in Zones, DeleteZone(z) PROVE ScanBacked'
  <2> SUFFICES ASSUME NEW s \in scans', s.task # None
               PROVE  /\ s.action = "CHECK_IN" => startedAt'[s.task] # None
                      /\ s.action = "CHECK_OUT" => completedAt'[s.task] # None
    BY DEF ScanBacked
  <2>1. PICK e \in scans : s = [e EXCEPT !.task =
                                  IF e.task \in rows' THEN e.task ELSE None]
    BY <1>3 DEF DeleteZone
  <2>2. s.task = e.task /\ s.action = e.action
    BY <2>1 DEF TypeInv, LogOK
  <2> QED BY <1>1, <2>2
<1>4. ASSUME NEW u \in Users, RemoveUser(u) PROVE ScanBacked'
  BY <1>1, <1>4 DEF RemoveUser, ScanBacked
<1>5. CASE UNCHANGED scans
  BY <1>1, <1>5 DEF ScanBacked
<1>6. ASSUME NEW r \in Requests, Reading(r) \/ Writing(r) \/ Ending(r)
      PROVE  UNCHANGED scans
  BY <1>6, ReadEffect, EndEffect
     DEF Writing, CommitStart, CommitComplete, CommitFlag, CommitPut,
         CommitStatus, Commit
<1>7. ASSUME Crash \/ UNCHANGED vars PROVE UNCHANGED scans
  BY <1>7 DEF Crash, vars
<1> QED BY <1>2, <1>3, <1>4, <1>5, <1>6, <1>7, StepKinds

LEMMA AnsweredKept ==
  ASSUME TypeInv, LogInv, [Next]_vars
  PROVE  AnsweredScanned'
<1> USE DEF LogInv
<1>1. ASSUME NEW r \in Requests, RecordScan(r) PROVE AnsweredScanned'
  <2> DEFINE e == [by |-> r, task |-> call[r].task, user |-> call[r].user,
                   action |-> ScanAction(call[r].ep)]
  <2>1. scans' = scans \cup {e} /\ accounts' = accounts
    BY <1>1 DEF RecordScan
  <2>2. \A x \in told' : x \in told \/ x = [by |-> r, user |-> call[r].user]
    BY <1>1 DEF RecordScan, Succeed
  <2>3. e.by = r /\ e.user = call[r].user
    OBVIOUS
  <2> HIDE DEF e
  <2> QED BY <2>1, <2>2, <2>3 DEF AnsweredScanned
<1>2. ASSUME NEW z \in Zones, DeleteZone(z) PROVE AnsweredScanned'
  <2> SUFFICES ASSUME NEW x \in told, x.user \in accounts
               PROVE  \E s \in scans' : s.by = x.by /\ s.user = x.user
    BY <1>2 DEF DeleteZone, AnsweredScanned
  <2>1. PICK e \in scans : e.by = x.by /\ e.user = x.user
    BY DEF AnsweredScanned
  <2> DEFINE s == [e EXCEPT !.task = IF e.task \in rows' THEN e.task ELSE None]
  <2>2. s \in scans'
    BY <1>2 DEF DeleteZone
  <2>3. s.by = e.by /\ s.user = e.user
    BY DEF TypeInv, LogOK
  <2> QED BY <2>1, <2>2, <2>3
<1>3. ASSUME NEW u \in Users, RemoveUser(u) PROVE AnsweredScanned'
  <2>1. \A s \in scans : s.user # u => s \in scans'
    BY <1>3 DEF RemoveUser
  <2> QED BY <1>3, <2>1 DEF RemoveUser, AnsweredScanned
<1>4. CASE UNCHANGED <<told, scans, accounts>>
  BY <1>4 DEF AnsweredScanned
<1>5. ASSUME NEW r \in Requests, Reading(r) \/ Writing(r) \/ Ending(r)
      PROVE  UNCHANGED <<told, scans, accounts>>
  BY <1>5, ReadEffect, EndEffect
     DEF Writing, CommitFlag, CommitPut, CommitStart, CommitComplete,
         CommitStatus, Commit, NeedsScan, Succeed
<1>6. ASSUME Crash \/ UNCHANGED vars PROVE UNCHANGED <<told, scans, accounts>>
  BY <1>6 DEF Crash, vars
<1> QED BY <1>1, <1>2, <1>3, <1>4, <1>5, <1>6, StepKinds

LEMMA LogInvariant == Spec => []LogInv
<1>1. Init => LogInv
  BY DEF Init, LogInv, ScanBacked, ScannersStamped, AnsweredScanned
<1>2. TypeInv /\ LogInv /\ [Next]_vars => LogInv'
  BY ScannersKept, ScanBackedKept, AnsweredKept DEF LogInv
<1> QED BY <1>1, <1>2, TypeInvariant, PTL DEF Spec

\* No event on a task that was never started, or never completed.
THEOREM ScansCorrect == Spec => []ScanBacked
BY LogInvariant, PTL DEF LogInv

\* No 200 to a QR request without its event in the log.
THEOREM AnswersCorrect == Spec => []AnsweredScanned
BY LogInvariant, PTL DEF LogInv

(***************************************************************************)
(* Ownership.  Between the check and the write the owner of a task can be  *)
(* erased with the account, never replaced.                                *)
(***************************************************************************)
OwnerInv ==
  \A r \in Requests :
    pc[r] = "write" =>
      call[r].ep = "status" \/ owner[call[r].task] \in {call[r].user, None}

LEMMA OwnerInvariant == Spec => []OwnerInv
<1>1. Init => OwnerInv
  BY DEF Init, OwnerInv
<1>2. TypeInv /\ OwnerInv /\ [Next]_vars => OwnerInv'
  <2> SUFFICES ASSUME TypeInv, OwnerInv, [Next]_vars PROVE OwnerInv'
    OBVIOUS
  <2>1. ASSUME NEW r \in Requests, Reading(r) PROVE OwnerInv'
    <3>1. CASE \E code \in {"200", "400", "404"} : Answer(r, code)
      BY <2>1, <3>1, ReadEffect DEF Answer, columns, OwnerInv, TypeInv, ControlOK
    <3>2. ASSUME NEW c, GoesOn(r, c) PROVE OwnerInv'
      BY <2>1, <3>2, ReadEffect DEF GoesOn, columns, OwnerInv, TypeInv, ControlOK
    <3> QED BY <2>1, <3>1, <3>2, ReadEffect
  <2>2. ASSUME NEW r \in Requests, Writing(r) PROVE OwnerInv'
    <3>1. PICK ep, s : Commit(r, ep, s)
      BY <2>2 DEF Writing, CommitStart, CommitComplete, CommitFlag, CommitPut,
                  CommitStatus
    <3>2. owner' = owner
      BY <3>1 DEF Commit
    <3> QED BY <3>1, <3>2, CommitControl DEF OwnerInv
  <2>3. ASSUME NEW r \in Requests, RecordScan(r) \/ Ending(r) PROVE OwnerInv'
    <3>1. UNCHANGED columns /\ \E code \in {"200", "400", "500"} : Answer(r, code)
      BY <2>3, EndEffect DEF RecordScan, Succeed
    <3> QED
      BY <3>1 DEF Answer, columns, OwnerInv, TypeInv, ControlOK
  <2>4. CASE Crash
    BY <2>4 DEF Crash, columns, InFlight, OwnerInv
  <2>5. ASSUME NEW z \in Zones, DeleteZone(z) PROVE OwnerInv'
    BY <2>5 DEF DeleteZone, OwnerInv
  <2>6. ASSUME NEW u \in Users, RemoveUser(u) PROVE OwnerInv'
    BY <2>6, Held DEF RemoveUser, OwnerInv, InFlight, TypeInv, ColumnsOK
  <2>7. CASE UNCHANGED vars
    BY <2>7 DEF vars, columns, OwnerInv
  <2> QED BY <2>1, <2>2, <2>3, <2>4, <2>5, <2>6, <2>7, StepKinds
<1> QED BY <1>1, <1>2, TypeInvariant, PTL DEF Spec

\* A task moves only by its owner's request, by a request checked before the
\* owner's account went, or by the endpoint that checks no owner.
THEOREM OwnersCorrect == Spec => OnlyOwnerMovesTask
<1>1. TypeInv /\ OwnerInv /\ [Next]_vars =>
      [\A t \in Tasks :
         <<status[t], startedAt[t], completedAt[t]>>'
           # <<status[t], startedAt[t], completedAt[t]>> =>
           \E r \in Requests :
             /\ pc[r] = "write" /\ pc'[r] # "write"
             /\ call[r].task = t
             /\ call[r].ep = "status" \/ owner[t] \in {call[r].user, None}]_vars
  <2> SUFFICES ASSUME TypeInv, OwnerInv, [Next]_vars, NEW t \in Tasks,
                      <<status[t], startedAt[t], completedAt[t]>>'
                        # <<status[t], startedAt[t], completedAt[t]>>
               PROVE  \E r \in Requests :
                        /\ pc[r] = "write" /\ pc'[r] # "write"
                        /\ call[r].task = t
                        /\ call[r].ep = "status"
                           \/ owner[t] \in {call[r].user, None}
    OBVIOUS
  <2>1. PICK r \in Requests : Writing(r)
    <3>1. ASSUME NEW r \in Requests, Reading(r) \/ RecordScan(r) \/ Ending(r)
          PROVE  UNCHANGED columns
      BY <3>1, ReadEffect, EndEffect DEF RecordScan
    <3>2. ASSUME \/ Crash \/ UNCHANGED vars
                 \/ \E z \in Zones : DeleteZone(z)
                 \/ \E u \in Users : RemoveUser(u)
          PROVE  UNCHANGED <<status, startedAt, completedAt>>
      BY <3>2 DEF Crash, DeleteZone, RemoveUser, vars, columns
    <3> QED BY <3>1, <3>2, StepKinds DEF columns
  <2>2. pc[r] = "write" /\ pc'[r] # "write"
    BY <2>1 DEF Writing, CommitStart, CommitComplete, CommitFlag, CommitPut,
                CommitStatus, Commit, Succeed, Answer, TypeInv, ControlOK
  <2>3. call[r].task = t
    BY <2>1, <2>2, Held
       DEF Writing, CommitStart, CommitComplete, CommitFlag, CommitPut,
           CommitStatus, Commit, TypeInv, ColumnsOK, InFlight
  <2> QED BY <2>2, <2>3 DEF OwnerInv
<1> QED
  BY <1>1, TypeInvariant, OwnerInvariant, PTL DEF Spec, OnlyOwnerMovesTask

(***************************************************************************)
(* The life cycle.  With one request in flight at a time, what its checks  *)
(* found is still so at its write: only a deletion can come in between,    *)
(* and a deletion leaves status and stamps alone.                          *)
(***************************************************************************)
OneInFlight ==
  \A p, q \in Requests : pc[p] \in InFlight /\ pc[q] \in InFlight => p = q

StillSo ==
  \A r \in Requests :
    pc[r] = "write" =>
      Checked(call[r]) /\ seenStart[r] = startedAt[call[r].task]

SerialInv == OneInFlight /\ StillSo

\* Where the request that acts is the one in flight, nothing else is.
LEMMA SerialAnswer ==
  ASSUME TypeInv, SerialInv, NEW r \in Requests, pc[r] \in InFlight,
         NEW code \in Answers, Answer(r, code)
  PROVE  SerialInv'
<1>1. \A q \in Requests : pc'[q] \notin InFlight
  BY DEF SerialInv, OneInFlight, Answer, Answers, InFlight, TypeInv, ControlOK
<1> QED BY <1>1 DEF SerialInv, OneInFlight, StillSo, InFlight

LEMMA SerialRead ==
  ASSUME ~Concurrent, TypeInv, SerialInv, NEW r \in Requests, Reading(r)
  PROVE  SerialInv'
<1>1. \A q \in Requests : pc[q] \notin InFlight
  BY ReadEffect DEF Admitted
<1>2. UNCHANGED columns
  BY ReadEffect
<1>3. CASE \E code \in {"200", "400", "404"} : Answer(r, code)
  BY <1>1, <1>3 DEF Answer, InFlight, SerialInv, OneInFlight, StillSo, TypeInv,
                    ControlOK
<1>4. ASSUME NEW c, GoesOn(r, c) PROVE SerialInv'
  <2>1. \A q \in Requests : q # r => pc'[q] \notin InFlight
    BY <1>1, <1>4 DEF GoesOn, TypeInv, ControlOK
  <2>2. call'[r] = c /\ seenStart'[r] = startedAt'[c.task] /\ Checked(c)'
    BY <1>2, <1>4 DEF GoesOn, columns, Checked, StartRefused, CompleteRefused,
                      StatusRefused, TypeInv, ControlOK
  <2> QED BY <2>1, <2>2 DEF SerialInv, OneInFlight, StillSo, InFlight, Checked
<1> QED BY <1>3, <1>4, ReadEffect

LEMMA SerialStep ==
  ASSUME ~Concurrent, TypeInv, SerialInv, [Next]_vars
  PROVE  SerialInv'
<1>1. ASSUME NEW r \in Requests, Reading(r) PROVE SerialInv'
  BY <1>1, SerialRead
<1>2. ASSUME NEW r \in Requests, Writing(r) PROVE SerialInv'
  <2>1. PICK ep, s : Commit(r, ep, s)
    BY <1>2 DEF Writing, CommitStart, CommitComplete, CommitFlag, CommitPut,
                CommitStatus
  <2>2. \A q \in Requests : pc'[q] # "write" /\ (q # r => pc'[q] \notin InFlight)
    BY <2>1 DEF Commit, Succeed, Answer, InFlight, SerialInv, OneInFlight,
                TypeInv, ControlOK
  <2> QED BY <2>2 DEF SerialInv, OneInFlight, StillSo, InFlight
<1>3. ASSUME NEW r \in Requests, RecordScan(r) \/ Ending(r) PROVE SerialInv'
  <2>1. \A q \in Requests : pc'[q] \in InFlight =>
          /\ pc[q] \in InFlight /\ pc'[q] = pc[q] /\ call'[q] = call[q]
          /\ seenStart'[q] = seenStart[q]
    <3>1. \E code \in {"200", "400", "500"} : Answer(r, code)
      BY <1>3, EndEffect DEF RecordScan, Succeed
    <3> QED BY <3>1 DEF Answer, InFlight, TypeInv, ControlOK
  <2>2. UNCHANGED columns
    BY <1>3, EndEffect DEF RecordScan
  <2> QED
    BY <2>1, <2>2 DEF columns, SerialInv, OneInFlight, StillSo, InFlight,
                      Checked, StartRefused, CompleteRefused, StatusRefused
<1>4. CASE Crash
  BY <1>4 DEF Crash, InFlight, SerialInv, OneInFlight, StillSo
<1>5. ASSUME \/ UNCHANGED vars
             \/ \E z \in Zones : DeleteZone(z)
             \/ \E u \in Users : RemoveUser(u)
      PROVE  SerialInv'
  <2>1. UNCHANGED <<status, startedAt, pc, call, seenStart>>
    BY <1>5 DEF DeleteZone, RemoveUser, vars, columns
  <2> QED
    BY <2>1 DEF SerialInv, OneInFlight, StillSo, Checked, StartRefused,
                CompleteRefused, StatusRefused
<1> QED BY <1>1, <1>2, <1>3, <1>4, <1>5, StepKinds

\* A write is a step of the life cycle.
LEMMA WriteImplements ==
  ASSUME "put" \notin Endpoints, TypeInv, SerialInv, StampsInv,
         NEW r \in Requests, Writing(r)
  PROVE  Protocol!Next
<1> DEFINE t == call[r].task
<1> USE DEF TypeInv, ColumnsOK
<1>1. /\ pc[r] = "write" /\ t \in rows /\ call[r].ep \in Endpoints
      /\ call[r].to \in TaskStatus
  BY Held DEF Writing, CommitStart, CommitComplete, CommitFlag, CommitPut,
              CommitStatus, Commit, InFlight
<1>2. Checked(call[r]) /\ seenStart[r] = startedAt[t]
  BY <1>1 DEF SerialInv, StillSo
<1>3. CASE CommitStart(r)
  BY <1>1, <1>2, <1>3
     DEF CommitStart, Commit, Checked, StartRefused, Protocol!Next,
         Protocol!Begin, Protocol!Closed
<1>4. CASE CommitComplete(r)
  BY <1>1, <1>2, <1>4
     DEF CommitComplete, Commit, Checked, CompleteRefused, Protocol!Next,
         Protocol!Finish
<1>5. CASE CommitFlag(r)
  BY <1>1, <1>5
     DEF CommitFlag, Commit, Protocol!Next, Protocol!Flag, Protocol!stamps
<1>6. CASE CommitStatus(r)
  <2>1. /\ status' = [status EXCEPT ![t] = call[r].to] /\ UNCHANGED <<rows, owner>>
        /\ ~StatusRefused(t, call[r].to) /\ status[t] # call[r].to
    BY <1>2, <1>6 DEF CommitStatus, Commit, Checked
  <2>2. CASE call[r].to = "IN_PROGRESS"
    <3>1. Protocol!Begin(t)
      BY <1>1, <1>6, <2>1, <2>2
         DEF CommitStatus, StatusRefused, Protocol!Begin, Protocol!Closed
    <3> QED BY <1>1, <3>1 DEF Protocol!Next
  <2>3. CASE call[r].to = "DONE"
    <3>1. status[t] = "IN_PROGRESS" /\ seenStart[r] # None
      BY <1>1, <1>2, <2>1, <2>3 DEF StatusRefused, StampsInv, StampsBacked, OverriddenByPut
    <3>2. PICK at \in Times :
            /\ completedAt' = [completedAt EXCEPT ![t] = at]
            /\ durationSec' = [durationSec EXCEPT ![t] =
                                 Elapsed(startedAt[t], at)]
            /\ startedAt' = startedAt
      BY <1>2, <1>6, <2>3, <3>1 DEF CommitStatus
    <3>3. Protocol!Finish(t)
      BY <1>1, <2>1, <2>3, <3>1, <3>2 DEF Protocol!Finish, Elapsed, Protocol!Elapsed
    <3> QED BY <1>1, <3>3 DEF Protocol!Next
  <2>4. CASE call[r].to \in {"SCHEDULED", "PENDING", "MISSED", "FLAGGED"}
    <3>1. Protocol!Park(t)
      BY <1>1, <1>6, <2>1, <2>4
         DEF CommitStatus, StatusRefused, Protocol!Park, Protocol!Closed,
             Protocol!stamps
    <3> QED BY <1>1, <3>1 DEF Protocol!Next
  <2> QED BY <1>1, <2>2, <2>3, <2>4 DEF TaskStatus
<1>7. ~CommitPut(r)
  BY <1>1 DEF CommitPut, Commit
<1> QED BY <1>3, <1>4, <1>5, <1>6, <1>7 DEF Writing

\* One request at a time and no PUT: the service is the life cycle.
THEOREM SerialRefinement ==
  ASSUME ~Concurrent, "put" \notin Endpoints
  PROVE  Spec => ImplementsProtocol
<1>1. Init => SerialInv /\ Protocol!Init
  BY DEF Init, SerialInv, OneInFlight, StillSo, InFlight, Protocol!Init, Protocol!OrNone
<1>2. TypeInv /\ SerialInv /\ [Next]_vars => SerialInv'
  BY SerialStep
<1>3. TypeInv /\ SerialInv /\ StampsInv /\ [Next]_vars =>
        [Protocol!Next]_(Protocol!vars)
  <2> SUFFICES ASSUME TypeInv, SerialInv, StampsInv, [Next]_vars
               PROVE  Protocol!Next \/ UNCHANGED Protocol!vars
    OBVIOUS
  <2>1. ASSUME NEW r \in Requests, Writing(r) PROVE Protocol!Next
    BY <2>1, WriteImplements
  <2>2. ASSUME NEW r \in Requests, Reading(r) \/ RecordScan(r) \/ Ending(r)
        PROVE  UNCHANGED Protocol!vars
    BY <2>2, ReadEffect, EndEffect DEF RecordScan, columns, Protocol!vars
  <2>3. ASSUME Crash \/ UNCHANGED vars PROVE UNCHANGED Protocol!vars
    BY <2>3 DEF Crash, vars, columns, Protocol!vars
  <2>4. ASSUME NEW z \in Zones, DeleteZone(z) PROVE Protocol!Next
    BY <2>4 DEF DeleteZone, Protocol!Next, Protocol!Drop, Protocol!stamps
  <2>5. ASSUME NEW u \in Users, RemoveUser(u) PROVE Protocol!Next
    BY <2>5 DEF RemoveUser, Protocol!Next, Protocol!Release, Protocol!stamps
  <2> QED BY <2>1, <2>2, <2>3, <2>4, <2>5, StepKinds
<1> QED
  BY <1>1, <1>2, <1>3, StampsInvariant, TypeInvariant, PTL
     DEF Spec, ImplementsProtocol, Protocol!Spec
=============================================================================
