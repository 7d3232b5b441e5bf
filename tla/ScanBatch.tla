----------------------------- MODULE ScanBatch -----------------------------
(***************************************************************************)
(* POST /scans/batch: ScansService.processBatchScans of the backend.       *)
(*                                                                         *)
(* For one scan of the batch after the other the handler awaits a SET NX   *)
(* in Redis on the clientEventId; the scans whose key was free are then    *)
(* inserted in one transaction.  The key is never taken back: not when the *)
(* transaction fails, not when the process dies.  It expires after a day.  *)
(* The client of Redis sends a command again when the connection breaks    *)
(* before the reply, and a SET NX that had been executed finds its own key *)
(* the second time.                                                        *)
(***************************************************************************)
EXTENDS Integers, Sequences

CONSTANTS
  Requests,  \* the POSTs the backend gets, first tries and retries alike
  Scans,     \* the scans that devices send
  EventOf,   \* the clientEventId of each scan
  KeyOf,     \* its idempotencyKey, unique in the scan_events table
  Payloads   \* the batches that may be sent

Events == {EventOf[s] : s \in Scans}
Keys == {KeyOf[s] : s \in Scans}

ASSUME BatchAssumption ==
  /\ Payloads \subseteq Seq(Scans)
  /\ \A s \in Scans : s \in DOMAIN EventOf /\ s \in DOMAIN KeyOf

VARIABLES
  claimed,  \* the clientEventIds whose key is set in Redis
  rows,     \* scan_events written by the handler
  pc,       \* where the handler of each request stands
  batch,    \* dto.scans
  at,       \* the position in the batch the loop has come to
  kept,     \* the positions of processedScans
  skipped,  \* skippedClientEventIds
  acked,    \* history: events answered 201 as processed
  passed,   \* history: events answered 201 as skipped
  orphaned, \* history: events claimed by a request that then failed
  resent,   \* history: events whose SET NX was executed twice
  lapsed    \* history: events whose key has expired

local == <<pc, batch, at, kept, skipped>>
history == <<acked, passed, orphaned, resent, lapsed>>
vars == <<claimed, rows, local, history>>

Init ==
  /\ claimed = {}
  /\ rows = {}
  /\ pc = [r \in Requests |-> "idle"]
  /\ batch = [r \in Requests |-> << >>]
  /\ at = [r \in Requests |-> 1]
  /\ kept = [r \in Requests |-> {}]
  /\ skipped = [r \in Requests |-> {}]
  /\ acked = {}
  /\ passed = {}
  /\ orphaned = {}
  /\ resent = {}
  /\ lapsed = {}

----------------------------------------------------------------------------
EventAt(r, i) == EventOf[batch[r][i]]
Held(r) == {EventAt(r, i) : i \in kept[r]}

Looping(r) == pc[r] = "working" /\ at[r] <= Len(batch[r])
LoopOver(r) == pc[r] = "working" /\ at[r] > Len(batch[r])

\* A handler that answers is over, and what it held is gone.
Answer_Leaky(r, code) ==
  /\ pc' = [pc EXCEPT ![r] = code]
  /\ batch' = [batch EXCEPT ![r] = << >>]
  /\ kept' = [kept EXCEPT ![r] = {}]
  /\ skipped' = [skipped EXCEPT ![r] = {}]
  /\ UNCHANGED at

Answer(r, code) ==
  /\ pc' = [pc EXCEPT ![r] = code]
  /\ batch' = [batch EXCEPT ![r] = << >>]
  /\ at' = [at EXCEPT ![r] = 1]
  /\ kept' = [kept EXCEPT ![r] = {}]
  /\ skipped' = [skipped EXCEPT ![r] = {}]

Receive(r) ==
  /\ pc[r] = "idle"
  /\ \E p \in Payloads : batch' = [batch EXCEPT ![r] = p]
  /\ pc' = [pc EXCEPT ![r] = "working"]
  /\ UNCHANGED <<claimed, rows, at, kept, skipped, history>>

\* SET key PROCESSED EX 86400 NX, one key at a time.
Fresh_NoNX(e) == TRUE
Fresh(e) == e \notin claimed

Claim(r) ==
  /\ Looping(r)
  /\ LET e == EventAt(r, at[r])
     IN  \/ /\ Fresh(e)
            /\ claimed' = claimed \cup {e}
            /\ kept' = [kept EXCEPT ![r] = @ \cup {at[r]}]
            /\ UNCHANGED skipped
         \/ /\ ~Fresh(e)
            /\ skipped' = [skipped EXCEPT ![r] = @ \cup {e}]
            /\ UNCHANGED <<claimed, kept>>
  /\ at' = [at EXCEPT ![r] = @ + 1]
  /\ UNCHANGED <<rows, pc, batch, history>>

\* The connection breaks between the execution and the reply.  ioredis sends
\* the command again, it returns nil, and the handler passes over a scan that
\* nobody else has.
ClaimResent(r) ==
  /\ Looping(r)
  /\ LET e == EventAt(r, at[r])
     IN  /\ Fresh(e)
         /\ claimed' = claimed \cup {e}
         /\ skipped' = [skipped EXCEPT ![r] = @ \cup {e}]
         /\ resent' = resent \cup {e}
  /\ at' = [at EXCEPT ![r] = @ + 1]
  /\ UNCHANGED <<rows, pc, batch, kept, acked, passed, orphaned, lapsed>>

\* Whether there is anything to insert.
HasWork_OffByOne(r) == \E i, j \in kept[r] : i # j
HasWork(r) == kept[r] # {}

NewRows_ButLast(r) ==
  {[event |-> EventAt(r, i), key |-> KeyOf[batch[r][i]]] :
     i \in {j \in kept[r] : j < Len(batch[r])}}

NewRows(r) ==
  {[event |-> EventAt(r, i), key |-> KeyOf[batch[r][i]]] : i \in kept[r]}

\* The unique index on idempotencyKey accepts the whole batch or nothing.
Insertable(r) ==
  /\ \A i, j \in kept[r] : KeyOf[batch[r][i]] = KeyOf[batch[r][j]] => i = j
  /\ \A i \in kept[r], x \in rows : x.key # KeyOf[batch[r][i]]

\* The transaction is committed, and the client is told so.
Store(r) ==
  /\ LoopOver(r) /\ HasWork(r) /\ Insertable(r)
  /\ rows' = rows \cup NewRows(r)
  /\ acked' = acked \cup Held(r)
  /\ passed' = passed \cup skipped[r]
  /\ Answer(r, "201")
  /\ UNCHANGED <<claimed, orphaned, resent, lapsed>>

\* Everything was skipped: there is no transaction.
AllSkipped(r) ==
  /\ LoopOver(r) /\ ~HasWork(r)
  /\ passed' = passed \cup skipped[r]
  /\ Answer(r, "201")
  /\ UNCHANGED <<claimed, rows, acked, orphaned, resent, lapsed>>

\* Redis or the database refuses what the handler waits for: a connection
\* that is down, a key that is not unique, a user or task that is not there.
Fail(r) ==
  /\ Looping(r) \/ (LoopOver(r) /\ HasWork(r))
  /\ orphaned' = orphaned \cup Held(r)
  /\ Answer(r, "500")
  /\ UNCHANGED <<claimed, rows, acked, passed, resent, lapsed>>

\* The same, when what was asked for had been done and the reply was lost.
ClaimUnheard(r) ==
  /\ Looping(r)
  /\ LET e == EventAt(r, at[r])
     IN  /\ Fresh(e)
         /\ claimed' = claimed \cup {e}
         /\ orphaned' = orphaned \cup Held(r) \cup {e}
  /\ Answer(r, "500")
  /\ UNCHANGED <<rows, acked, passed, resent, lapsed>>

StoreUnheard(r) ==
  /\ LoopOver(r) /\ HasWork(r) /\ Insertable(r)
  /\ rows' = rows \cup NewRows(r)
  /\ Answer(r, "500")
  /\ UNCHANGED <<claimed, acked, passed, orphaned, resent, lapsed>>

\* The backend process dies.
Crash ==
  /\ \E r \in Requests : pc[r] = "working"
  /\ orphaned' = orphaned \cup UNION {Held(r) : r \in Requests}
  /\ pc' = [r \in Requests |-> IF pc[r] = "working" THEN "lost" ELSE pc[r]]
  /\ batch' = [r \in Requests |-> << >>]
  /\ at' = [r \in Requests |-> 1]
  /\ kept' = [r \in Requests |-> {}]
  /\ skipped' = [r \in Requests |-> {}]
  /\ UNCHANGED <<claimed, rows, acked, passed, resent, lapsed>>

\* A day has passed since the key was set; no request takes that long.
Lapse(e) ==
  /\ e \in claimed
  /\ \A r \in Requests : e \notin Held(r)
  /\ claimed' = claimed \ {e}
  /\ lapsed' = lapsed \cup {e}
  /\ UNCHANGED <<rows, local, acked, passed, orphaned, resent>>

Handler(r) ==
  \/ Receive(r) \/ Claim(r) \/ ClaimResent(r) \/ Store(r) \/ AllSkipped(r)
  \/ Fail(r) \/ ClaimUnheard(r) \/ StoreUnheard(r)

Next ==
  \/ \E r \in Requests : Handler(r)
  \/ Crash
  \/ \E e \in Events : Lapse(e)

Spec == Init /\ [][Next]_vars

----------------------------------------------------------------------------
(* Properties. *)

\* Types, and the loop stays inside its batch: what it has kept is behind
\* the position it has come to.
TypeOK ==
  /\ claimed \subseteq Events
  /\ rows \subseteq [event : Events, key : Keys]
  /\ pc \in [Requests -> {"idle", "working", "201", "500", "lost"}]
  /\ batch \in [Requests -> Payloads \cup {<< >>}]
  /\ at \in [Requests -> Nat]
  /\ kept \in [Requests -> SUBSET Nat]
  /\ \A r \in Requests : at[r] \in 1..(Len(batch[r]) + 1)
  /\ \A r \in Requests : kept[r] \subseteq 1..(at[r] - 1)
  /\ skipped \in [Requests -> SUBSET Events]
  /\ acked \subseteq Events
  /\ passed \subseteq Events
  /\ orphaned \subseteq Events
  /\ resent \subseteq Events
  /\ lapsed \subseteq Events

\* An event is written once, however often and by however many requests at
\* a time it is sent, whichever of them fail or are not heard of, as long
\* as its key has not expired (setNx before the transaction).
OncePerEvent ==
  \A x, y \in rows : (x.event = y.event /\ x.event \notin lapsed) => x = y

\* What a client was told is processed is in the table (the await of the
\* transaction before the answer).
AckedPersisted ==
  \A e \in acked : \E x \in rows : x.event = e

\* Written, about to be, given up with an error or in a crash, or claimed by
\* a command that was executed twice.
Accounted(e) ==
  \/ \E x \in rows : x.event = e
  \/ \E r \in Requests : e \in Held(r)
  \/ e \in orphaned
  \/ e \in resent

\* A key that stands for nothing has two causes and no third: its request
\* ended in an error or with the process, or the command that set it was sent
\* again and took its own key for a duplicate.  The same holds of what a
\* client is told was skipped: it is written, or about to be, or one of the
\* two has happened to it (processBatchScans takes no key back, and setNx
\* cannot tell whose key it has met).
ClaimsAccounted == \A e \in claimed \cup passed : Accounted(e)
=============================================================================
