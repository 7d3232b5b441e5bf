-------------------------- MODULE ScanBatch_proof --------------------------
(***************************************************************************)
(* Theorems about ScanBatch, for any number of requests, any batches and   *)
(* any assignment of event ids and idempotency keys to scans.              *)
(***************************************************************************)
EXTENDS ScanBatch, TLAPS

(***************************************************************************)
(* The inductive invariant.  A handler that is not working holds nothing.  *)
(* A position that is held has its key set, has no row yet unless the key  *)
(* has lapsed, and no other position of any request holds the same event;  *)
(* every row whose key has not lapsed still has its key.                   *)
(***************************************************************************)
Resting == \A r \in Requests : pc[r] # "working" => at[r] = 1 /\ kept[r] = {}

ClaimInv ==
  /\ \A x \in rows : x.event \in lapsed \/ x.event \in claimed
  /\ \A r \in Requests : \A i \in kept[r] : EventAt(r, i) \in claimed
  /\ \A r \in Requests : \A i \in kept[r] : \A x \in rows :
       x.event = EventAt(r, i) => x.event \in lapsed
  /\ \A r, s \in Requests : \A i \in kept[r] : \A j \in kept[s] :
       EventAt(r, i) = EventAt(s, j) => r = s /\ i = j

TypeInv == TypeOK /\ Resting
Inv == TypeInv /\ ClaimInv /\ OncePerEvent

----------------------------------------------------------------------------
(* What a handler's answer and its other steps leave of the local state. *)

\* Positions that are held are positions of the batch.
LEMMA HeldEvents ==
  ASSUME TypeInv, NEW r \in Requests
  PROVE  /\ batch[r] \in Seq(Scans)
         /\ \A i \in 1..Len(batch[r]) :
              /\ batch[r][i] \in Scans
              /\ EventAt(r, i) \in Events
              /\ KeyOf[batch[r][i]] \in Keys
         /\ kept[r] \subseteq 1..Len(batch[r])
         /\ Held(r) \subseteq Events
         /\ NewRows(r) \subseteq [event : Events, key : Keys]
<1>1. batch[r] \in Seq(Scans) /\ Len(batch[r]) \in Nat
  <2>1. batch[r] \in Payloads \cup {<< >>}
    BY DEF TypeInv, TypeOK
  <2>2. << >> \in Seq(Scans)
    OBVIOUS
  <2>3. batch[r] \in Seq(Scans)
    BY <2>1, <2>2, BatchAssumption
  <2> QED BY <2>3
<1>2. \A i \in 1..Len(batch[r]) : batch[r][i] \in Scans
  BY <1>1
<1>3. \A i \in 1..Len(batch[r]) :
        EventAt(r, i) \in Events /\ KeyOf[batch[r][i]] \in Keys
  BY <1>2 DEF EventAt, Events, Keys
<1>4. kept[r] \subseteq 1..Len(batch[r])
  <2>1. at[r] \in 1..(Len(batch[r]) + 1) /\ kept[r] \subseteq 1..(at[r] - 1)
    BY DEF TypeInv, TypeOK
  <2> QED BY <1>1, <2>1
<1> QED BY <1>1, <1>2, <1>3, <1>4 DEF Held, NewRows

\* An answer frees what the request held and touches no other request.
LEMMA AnswerFrees ==
  ASSUME TypeInv, NEW r \in Requests, NEW code \in {"201", "500"},
         Answer(r, code)
  PROVE  /\ pc' \in [Requests -> {"idle", "working", "201", "500", "lost"}]
         /\ batch' \in [Requests -> Payloads \cup {<< >>}]
         /\ at' \in [Requests -> Nat]
         /\ kept' \in [Requests -> SUBSET Nat]
         /\ skipped' \in [Requests -> SUBSET Events]
         /\ kept'[r] = {} /\ at'[r] = 1 /\ batch'[r] = << >> /\ pc'[r] = code
         /\ \A s \in Requests \ {r} :
              /\ kept'[s] = kept[s] /\ at'[s] = at[s]
              /\ batch'[s] = batch[s] /\ pc'[s] = pc[s]
BY DEF Answer, TypeInv, TypeOK

\* The parts of the type invariant about single requests, after an answer.
LEMMA AnswerTyped ==
  ASSUME TypeInv, NEW r \in Requests, NEW code \in {"201", "500"},
         Answer(r, code)
  PROVE  /\ \A s \in Requests : at'[s] \in 1..(Len(batch'[s]) + 1)
         /\ \A s \in Requests : kept'[s] \subseteq 1..(at'[s] - 1)
         /\ Resting'
<1>1. Len(<< >>) = 0
  OBVIOUS
<1>2. \A s \in Requests : \/ s = r
                          \/ /\ kept'[s] = kept[s] /\ at'[s] = at[s]
                             /\ batch'[s] = batch[s] /\ pc'[s] = pc[s]
  BY AnswerFrees
<1>3. kept'[r] = {} /\ at'[r] = 1 /\ batch'[r] = << >> /\ pc'[r] = code
  BY AnswerFrees
<1>4. ASSUME NEW s \in Requests
      PROVE  at'[s] \in 1..(Len(batch'[s]) + 1) /\ kept'[s] \subseteq 1..(at'[s] - 1)
  <2>1. CASE s = r
    BY <1>1, <1>3, <2>1
  <2>2. CASE s # r
    BY <1>2, <2>2 DEF TypeInv, TypeOK
  <2> QED BY <2>1, <2>2
<1>5. Resting'
  BY <1>2, <1>3 DEF TypeInv, Resting
<1> QED BY <1>4, <1>5

----------------------------------------------------------------------------
(* Types. *)

LEMMA TypeInit == Init => TypeInv
BY DEF Init, TypeInv, TypeOK, Resting

LEMMA TypeStep == TypeInv /\ [Next]_vars => TypeInv'
<1> SUFFICES ASSUME TypeInv, [Next]_vars PROVE TypeInv'
  OBVIOUS
<1> USE DEF history
<1>1. ASSUME NEW r \in Requests, Receive(r) PROVE TypeInv'
  <2>1. at[r] = 1 /\ kept[r] = {} /\ \A p \in Payloads : Len(p) \in Nat
    BY <1>1, BatchAssumption DEF Receive, TypeInv, Resting
  <2>2. /\ batch'[r] \in Payloads
        /\ \A s \in Requests \ {r} : batch'[s] = batch[s] /\ pc'[s] = pc[s]
        /\ pc'[r] = "working"
    BY <1>1 DEF Receive, TypeInv, TypeOK
  <2>3. \A s \in Requests : /\ at[s] \in 1..(Len(batch'[s]) + 1)
                            /\ pc'[s] # "working" => pc[s] # "working"
    BY <2>1, <2>2 DEF TypeInv, TypeOK
  <2>4. pc' \in [Requests -> {"idle", "working", "201", "500", "lost"}]
        /\ batch' \in [Requests -> Payloads \cup {<< >>}]
    BY <1>1 DEF Receive, TypeInv, TypeOK
  <2> QED BY <1>1, <2>3, <2>4 DEF Receive, TypeInv, TypeOK, Resting
<1>2. ASSUME NEW r \in Requests, Claim(r) \/ ClaimResent(r) PROVE TypeInv'
  <2>1. at[r] \in Nat /\ at[r] \in 1..Len(batch[r]) /\ Len(batch[r]) \in Nat
    BY <1>2, HeldEvents DEF Claim, ClaimResent, Looping, TypeInv, TypeOK
  <2>2. EventAt(r, at[r]) \in Events
    BY <2>1, HeldEvents
  <2>3. /\ at' = [at EXCEPT ![r] = at[r] + 1]
        /\ \/ kept' = kept
           \/ kept' = [kept EXCEPT ![r] = kept[r] \cup {at[r]}]
        /\ \/ skipped' = skipped
           \/ skipped' = [skipped EXCEPT ![r] =
                            skipped[r] \cup {EventAt(r, at[r])}]
        /\ claimed' = claimed \/ claimed' = claimed \cup {EventAt(r, at[r])}
        /\ resent' = resent \/ resent' = resent \cup {EventAt(r, at[r])}
        /\ UNCHANGED <<rows, pc, batch, acked, passed, orphaned, lapsed>>
        /\ pc[r] = "working"
    BY <1>2 DEF Claim, ClaimResent, Looping
  <2>4. /\ at' \in [Requests -> Nat] /\ kept' \in [Requests -> SUBSET Nat]
        /\ skipped' \in [Requests -> SUBSET Events]
    <3>1. at' \in [Requests -> Nat]
      BY <2>1, <2>3 DEF TypeInv, TypeOK
    <3>2. kept' \in [Requests -> SUBSET Nat]
      <4>1. kept \in [Requests -> SUBSET Nat] /\ kept[r] \cup {at[r]} \in SUBSET Nat
        BY <2>1 DEF TypeInv, TypeOK
      <4> QED BY <2>3, <4>1
    <3>3. skipped' \in [Requests -> SUBSET Events]
      <4>1. /\ skipped \in [Requests -> SUBSET Events]
            /\ skipped[r] \cup {EventAt(r, at[r])} \in SUBSET Events
        BY <2>2 DEF TypeInv, TypeOK
      <4> QED BY <2>3, <4>1
    <3> QED BY <3>1, <3>2, <3>3
  <2>5. \A s \in Requests : at'[s] \in 1..(Len(batch'[s]) + 1)
    BY <2>1, <2>3 DEF TypeInv, TypeOK
  <2>6. \A s \in Requests : kept'[s] \subseteq 1..(at'[s] - 1)
    <3>1. CASE kept' = kept
      BY <2>1, <2>3, <3>1 DEF TypeInv, TypeOK
    <3>2. CASE kept' = [kept EXCEPT ![r] = kept[r] \cup {at[r]}]
      BY <2>1, <2>3, <3>2 DEF TypeInv, TypeOK
    <3> QED BY <2>3, <3>1, <3>2
  <2>7. Resting'
    BY <2>3 DEF TypeInv, TypeOK, Resting
  <2> QED BY <2>2, <2>3, <2>4, <2>5, <2>6, <2>7 DEF TypeInv, TypeOK
<1>3. ASSUME NEW r \in Requests, Store(r) PROVE TypeInv'
  BY <1>3, AnswerFrees, AnswerTyped, HeldEvents DEF Store, TypeInv, TypeOK
<1>4. ASSUME NEW r \in Requests, AllSkipped(r) PROVE TypeInv'
  BY <1>4, AnswerFrees, AnswerTyped DEF AllSkipped, TypeInv, TypeOK
<1>5. ASSUME NEW r \in Requests, Fail(r) PROVE TypeInv'
  BY <1>5, AnswerFrees, AnswerTyped, HeldEvents DEF Fail, TypeInv, TypeOK
<1>6. ASSUME NEW r \in Requests, ClaimUnheard(r) PROVE TypeInv'
  <2>1. EventAt(r, at[r]) \in Events
    BY <1>6, HeldEvents DEF ClaimUnheard, Looping, TypeInv, TypeOK
  <2>2. Answer(r, "500")
    BY <1>6 DEF ClaimUnheard
  <2> QED
    BY <1>6, <2>1, <2>2, AnswerFrees, AnswerTyped, HeldEvents
    DEF ClaimUnheard, TypeInv, TypeOK
<1>7. ASSUME NEW r \in Requests, StoreUnheard(r) PROVE TypeInv'
  BY <1>7, AnswerFrees, AnswerTyped, HeldEvents DEF StoreUnheard, TypeInv, TypeOK
<1>8. ASSUME Crash PROVE TypeInv'
  <2>1. UNION {Held(r) : r \in Requests} \subseteq Events
    BY HeldEvents
  <2>2. Len(<< >>) = 0
    OBVIOUS
  <2> QED BY <1>8, <2>1, <2>2 DEF Crash, TypeInv, TypeOK, Resting
<1>9. ASSUME NEW e \in Events, Lapse(e) PROVE TypeInv'
  BY <1>9 DEF Lapse, local, TypeInv, TypeOK, Resting
<1>10. CASE UNCHANGED vars
  BY <1>10 DEF vars, local, TypeInv, TypeOK, Resting
<1> QED
  BY <1>1, <1>2, <1>3, <1>4, <1>5, <1>6, <1>7, <1>8, <1>9, <1>10
  DEF Next, Handler

\* Types are kept, and the loop stays inside its batch.
THEOREM TypeCorrect == Spec => []TypeOK
<1>1. TypeInv => TypeOK
  BY DEF TypeInv
<1> QED BY TypeInit, TypeStep, <1>1, PTL DEF Spec

----------------------------------------------------------------------------
(* An event is written once. *)

\* An answer that writes nothing keeps what is known of the claims: the key
\* of an event that was held may only have been set.
LEMMA AnswerKeeps ==
  ASSUME Inv, NEW r \in Requests, NEW code \in {"201", "500"},
         Answer(r, code), rows' = rows, lapsed' = lapsed,
         claimed \subseteq claimed'
  PROVE  ClaimInv' /\ OncePerEvent'
<1>1. \A s \in Requests : \A i \in kept'[s] :
        i \in kept[s] /\ EventAt(s, i)' = EventAt(s, i)
  BY AnswerFrees DEF Inv, EventAt
<1> QED BY <1>1 DEF Inv, ClaimInv, OncePerEvent

\* The rows of a batch are of events it held, and of one position each.
LEMMA StoreKeeps ==
  ASSUME Inv, NEW r \in Requests, NEW code \in {"201", "500"},
         Answer(r, code), rows' = rows \cup NewRows(r),
         UNCHANGED <<claimed, lapsed>>
  PROVE  ClaimInv' /\ OncePerEvent'
<1>1. \A s \in Requests : \A i \in kept'[s] :
        s # r /\ i \in kept[s] /\ EventAt(s, i)' = EventAt(s, i)
  BY AnswerFrees DEF Inv, EventAt
<1>2. \A x \in NewRows(r) : \E i \in kept[r] :
        x = [event |-> EventAt(r, i), key |-> KeyOf[batch[r][i]]]
  BY DEF NewRows
<1>3. \A x \in NewRows(r) : x.event \in claimed
  BY <1>2 DEF Inv, ClaimInv
<1>4. \A x \in NewRows(r), y \in rows :
        x.event = y.event => y.event \in lapsed
  BY <1>2 DEF Inv, ClaimInv
<1>5. \A x, y \in NewRows(r) : x.event = y.event => x = y
  BY <1>2 DEF Inv, ClaimInv
<1>6. OncePerEvent'
  BY <1>4, <1>5 DEF Inv, OncePerEvent
<1>7. \A s \in Requests : \A i \in kept'[s] : \A x \in NewRows(r) :
        x.event # EventAt(s, i)
  BY <1>1, <1>2 DEF Inv, ClaimInv
<1> QED BY <1>1, <1>3, <1>6, <1>7 DEF Inv, ClaimInv

LEMMA OnceStep == Inv /\ [Next]_vars => Inv'
<1> SUFFICES ASSUME Inv, [Next]_vars PROVE ClaimInv' /\ OncePerEvent'
  BY TypeStep DEF Inv
<1> USE DEF history
<1>1. ASSUME NEW r \in Requests, Receive(r) PROVE ClaimInv' /\ OncePerEvent'
  <2>1. kept[r] = {} /\ kept' = kept /\ UNCHANGED <<claimed, rows, lapsed>>
    BY <1>1 DEF Receive, Inv, TypeInv, Resting
  <2>2. \A s \in Requests : \A i \in kept'[s] :
          i \in kept[s] /\ EventAt(s, i)' = EventAt(s, i)
    BY <1>1, <2>1 DEF Receive, EventAt, Inv, TypeInv, TypeOK
  <2> QED BY <2>1, <2>2 DEF Inv, ClaimInv, OncePerEvent
<1>2. ASSUME NEW r \in Requests, Claim(r) \/ ClaimResent(r)
      PROVE  ClaimInv' /\ OncePerEvent'
  <2> DEFINE e == EventAt(r, at[r])
  <2>1. \A s \in Requests : \A i : EventAt(s, i)' = EventAt(s, i)
    BY <1>2 DEF Claim, ClaimResent, EventAt
  <2>2. UNCHANGED <<rows, lapsed>>
    BY <1>2 DEF Claim, ClaimResent
  <2>3. CASE kept' = kept /\ claimed \subseteq claimed'
    BY <2>1, <2>2, <2>3 DEF Inv, ClaimInv, OncePerEvent
  <2>4. CASE /\ e \notin claimed /\ claimed' = claimed \cup {e}
             /\ kept' = [kept EXCEPT ![r] = kept[r] \cup {at[r]}]
    <3>1. \A s \in Requests : \A i \in kept'[s] :
            \/ i \in kept[s]
            \/ s = r /\ i = at[r]
      BY <2>4 DEF Inv, TypeInv, TypeOK
    <3>2. \A s \in Requests : \A i \in kept[s] : EventAt(s, i) # e
      BY <2>4 DEF Inv, ClaimInv
    <3>3. \A x \in rows : x.event = e => x.event \in lapsed
      BY <2>4 DEF Inv, ClaimInv
    <3> HIDE DEF e
    <3>4. \A s \in Requests : \A i \in kept'[s] :
            \/ i \in kept[s] /\ EventAt(s, i) # e
            \/ s = r /\ i = at[r] /\ EventAt(s, i) = e
      BY <3>1, <3>2 DEF e
    <3>5. \A s, t \in Requests : \A i \in kept'[s] : \A j \in kept'[t] :
            EventAt(s, i) = EventAt(t, j) => s = t /\ i = j
      BY <3>4 DEF Inv, ClaimInv
    <3> QED BY <2>1, <2>2, <2>4, <3>3, <3>4, <3>5 DEF Inv, ClaimInv, OncePerEvent
  <2> QED BY <1>2, <2>3, <2>4 DEF Claim, ClaimResent, Fresh
<1>3. ASSUME NEW r \in Requests, Store(r) PROVE ClaimInv' /\ OncePerEvent'
  BY <1>3, StoreKeeps DEF Store
<1>4. ASSUME NEW r \in Requests, AllSkipped(r) PROVE ClaimInv' /\ OncePerEvent'
  BY <1>4, AnswerKeeps DEF AllSkipped
<1>5. ASSUME NEW r \in Requests, Fail(r) PROVE ClaimInv' /\ OncePerEvent'
  BY <1>5, AnswerKeeps DEF Fail
<1>6. ASSUME NEW r \in Requests, ClaimUnheard(r) PROVE ClaimInv' /\ OncePerEvent'
  BY <1>6, AnswerKeeps DEF ClaimUnheard
<1>7. ASSUME NEW r \in Requests, StoreUnheard(r) PROVE ClaimInv' /\ OncePerEvent'
  BY <1>7, StoreKeeps DEF StoreUnheard
<1>8. ASSUME Crash PROVE ClaimInv' /\ OncePerEvent'
  <2>1. \A r \in Requests : kept'[r] = {}
    BY <1>8 DEF Crash
  <2> QED BY <1>8, <2>1 DEF Crash, Inv, ClaimInv, OncePerEvent
<1>9. ASSUME NEW e \in Events, Lapse(e) PROVE ClaimInv' /\ OncePerEvent'
  <2>1. /\ claimed' = claimed \ {e} /\ lapsed' = lapsed \cup {e}
        /\ UNCHANGED <<rows, kept, batch>>
        /\ \A r \in Requests : \A i \in kept[r] : EventAt(r, i) # e
    BY <1>9 DEF Lapse, local, Held
  <2>2. \A r \in Requests : \A i : EventAt(r, i)' = EventAt(r, i)
    BY <2>1 DEF EventAt
  <2> QED BY <2>1, <2>2 DEF Inv, ClaimInv, OncePerEvent
<1>10. CASE UNCHANGED vars
  BY <1>10 DEF vars, local, Inv, ClaimInv, OncePerEvent, EventAt
<1> QED
  BY <1>1, <1>2, <1>3, <1>4, <1>5, <1>6, <1>7, <1>8, <1>9, <1>10
  DEF Next, Handler

\* However often and however concurrently an event is sent, and whichever
\* of its requests fail, it is written once until its key expires
\* (processBatchScans).
THEOREM OnceCorrect == Spec => []OncePerEvent
<1>1. Init => Inv
  BY TypeInit DEF Init, Inv, ClaimInv, OncePerEvent
<1>2. Inv => OncePerEvent
  BY DEF Inv
<1> QED BY <1>1, OnceStep, <1>2, PTL DEF Spec

----------------------------------------------------------------------------
(* What an answer promises, and what a key stands for. *)

\* Everything a request held is written by its transaction.
LEMMA StoreWrites ==
  ASSUME NEW r \in Requests, NEW e \in Held(r), rows' = rows \cup NewRows(r)
  PROVE  \E x \in rows' : x.event = e
<1>1. PICK i \in kept[r] : e = EventAt(r, i)
  BY DEF Held
<1>2. [event |-> EventAt(r, i), key |-> KeyOf[batch[r][i]]] \in NewRows(r)
  BY DEF NewRows
<1> QED BY <1>1, <1>2

\* Rows are only added.
LEMMA RowsGrow == [Next]_vars => rows \subseteq rows'
BY DEF Next, Handler, Receive, Claim, ClaimResent, Store, AllSkipped, Fail, ClaimUnheard,
       StoreUnheard, Crash, Lapse, vars

\* What a client was told is processed is in the table.
THEOREM AckedCorrect == Spec => []AckedPersisted
<1>1. Init => AckedPersisted
  BY DEF Init, AckedPersisted
<1>2. AckedPersisted /\ [Next]_vars => AckedPersisted'
  <2> SUFFICES ASSUME AckedPersisted, [Next]_vars, NEW e \in acked'
               PROVE  \E x \in rows' : x.event = e
    BY DEF AckedPersisted
  <2>1. CASE e \in acked
    BY <2>1, RowsGrow DEF AckedPersisted
  <2>2. CASE e \notin acked
    <3>1. PICK r \in Requests : Store(r)
      BY <2>2 DEF Next, Handler, Receive, Claim, ClaimResent, AllSkipped, Fail, ClaimUnheard,
                  StoreUnheard, Crash, Lapse, vars, history
    <3> QED BY <2>2, <3>1, StoreWrites DEF Store
  <2> QED BY <2>1, <2>2
<1> QED BY <1>1, <1>2, PTL DEF Spec

\* An answer gives up what the request held, and nothing else.
LEMMA AnswerHeld ==
  ASSUME TypeInv, NEW r \in Requests, NEW code \in {"201", "500"},
         Answer(r, code), NEW s \in Requests \ {r}
  PROVE  Held(s)' = Held(s)
BY AnswerFrees DEF Held, EventAt

\* What is accounted for stays so: a request that gives an event up has
\* written it, or leaves an error behind.
LEMMA AccountedStays ==
  ASSUME TypeInv, [Next]_vars, NEW e, Accounted(e)
  PROVE  Accounted(e)'
<1> SUFFICES ASSUME ~ \E x \in rows' : x.event = e, e \notin orphaned',
                    e \notin resent'
             PROVE  \E r \in Requests : e \in Held(r)'
  BY DEF Accounted
<1> USE DEF history
<1>0. /\ ~ \E x \in rows : x.event = e
      /\ e \notin orphaned => \E r \in Requests : e \in Held(r)
  <2>1. resent \subseteq resent'
    BY DEF Next, Handler, Receive, Claim, ClaimResent, Store, AllSkipped, Fail,
           ClaimUnheard, StoreUnheard, Crash, Lapse, vars
  <2> QED BY <2>1, RowsGrow DEF Accounted
<1>1. ASSUME NEW r \in Requests, Receive(r)
      PROVE  \E s \in Requests : e \in Held(s)'
  <2>1. kept[r] = {} /\ kept' = kept /\ UNCHANGED orphaned
    BY <1>1 DEF Receive, TypeInv, Resting
  <2>2. \A s \in Requests : Held(s)' = Held(s)
    BY <1>1, <2>1 DEF Receive, Held, EventAt, TypeInv, TypeOK
  <2> QED BY <1>0, <2>1, <2>2
<1>2. ASSUME NEW r \in Requests, Claim(r) \/ ClaimResent(r)
      PROVE  \E s \in Requests : e \in Held(s)'
  <2>1. batch' = batch /\ orphaned' = orphaned
    BY <1>2 DEF Claim, ClaimResent
  <2>2. \A s \in Requests : kept[s] \subseteq kept'[s]
    BY <1>2 DEF Claim, ClaimResent, TypeInv, TypeOK
  <2>3. \A s \in Requests : Held(s) \subseteq Held(s)'
    BY <2>1, <2>2 DEF Held, EventAt
  <2> QED BY <1>0, <2>1, <2>3
<1>3. ASSUME NEW r \in Requests, NEW code \in {"201", "500"}, Answer(r, code),
             e \notin orphaned, e \notin Held(r)
      PROVE  \E s \in Requests : e \in Held(s)'
  BY <1>0, <1>3, AnswerHeld
<1>4. ASSUME NEW r \in Requests, Store(r) \/ StoreUnheard(r)
      PROVE  \E s \in Requests : e \in Held(s)'
  <2>1. /\ Answer(r, "201") \/ Answer(r, "500")
        /\ rows' = rows \cup NewRows(r) /\ UNCHANGED orphaned
    BY <1>4 DEF Store, StoreUnheard
  <2>2. e \notin Held(r)
    BY <2>1, StoreWrites
  <2> QED BY <1>3, <2>1, <2>2
<1>5. ASSUME NEW r \in Requests, AllSkipped(r)
      PROVE  \E s \in Requests : e \in Held(s)'
  <2>1. Held(r) = {} /\ Answer(r, "201") /\ UNCHANGED orphaned
    BY <1>5 DEF AllSkipped, HasWork, Held
  <2> QED BY <1>3, <2>1
<1>6. ASSUME NEW r \in Requests, Fail(r)
      PROVE  \E s \in Requests : e \in Held(s)'
  <2>1. orphaned' = orphaned \cup Held(r) /\ Answer(r, "500")
    BY <1>6 DEF Fail
  <2> QED BY <1>3, <2>1
<1>7. ASSUME NEW r \in Requests, ClaimUnheard(r)
      PROVE  \E s \in Requests : e \in Held(s)'
  <2>1. /\ orphaned' = orphaned \cup Held(r) \cup {EventAt(r, at[r])}
        /\ Answer(r, "500")
    BY <1>7 DEF ClaimUnheard
  <2> QED BY <1>3, <2>1
<1>8. ASSUME Crash PROVE \E s \in Requests : e \in Held(s)'
  BY <1>0, <1>8 DEF Crash
<1>9. ASSUME NEW f \in Events, Lapse(f)
      PROVE  \E s \in Requests : e \in Held(s)'
  <2>1. UNCHANGED <<kept, batch, orphaned>>
    BY <1>9 DEF Lapse, local
  <2> QED BY <1>0, <2>1 DEF Held, EventAt
<1>10. CASE UNCHANGED vars
  BY <1>0, <1>10 DEF vars, local, Held, EventAt
<1> QED
  BY <1>1, <1>2, <1>4, <1>5, <1>6, <1>7, <1>8, <1>9, <1>10 DEF Next, Handler

\* The inductive invariant: a request may go on to pass over what it has
\* already found claimed.
ClaimsInv ==
  \A e \in claimed \cup passed \cup UNION {skipped[r] : r \in Requests} :
    Accounted(e)

\* A key that is new is held by the request that set it, or given up at once.
LEMMA NewClaims ==
  ASSUME TypeInv, [Next]_vars, NEW e \in claimed', e \notin claimed
  PROVE  Accounted(e)'
<1>1. \/ \E r \in Requests : Claim(r) \/ ClaimResent(r) \/ ClaimUnheard(r)
      \/ UNCHANGED claimed
      \/ \E f \in Events : Lapse(f)
  BY DEF Next, Handler, Receive, Store, AllSkipped, Fail, StoreUnheard, Crash, vars
<1>2. ASSUME NEW r \in Requests, Claim(r) PROVE Accounted(e)'
  <2>1. /\ e = EventAt(r, at[r]) /\ batch' = batch
        /\ kept' = [kept EXCEPT ![r] = kept[r] \cup {at[r]}]
    BY <1>2 DEF Claim
  <2>2. at[r] \in kept'[r]
    BY <2>1 DEF TypeInv, TypeOK
  <2> QED BY <2>1, <2>2 DEF Accounted, Held, EventAt
<1>3. ASSUME NEW r \in Requests, ClaimUnheard(r) PROVE Accounted(e)'
  BY <1>3 DEF ClaimUnheard, Accounted
<1>4. ASSUME NEW r \in Requests, ClaimResent(r) PROVE Accounted(e)'
  BY <1>4 DEF ClaimResent, Accounted
<1>5. ASSUME NEW f \in Events, Lapse(f) PROVE FALSE
  BY <1>5 DEF Lapse
<1> QED BY <1>1, <1>2, <1>3, <1>4, <1>5

\* What is passed over was found claimed by the request that says so, or was
\* claimed by it with a command that was sent twice.
LEMMA NewSkips ==
  ASSUME TypeInv, [Next]_vars,
         NEW e \in passed' \cup UNION {skipped'[r] : r \in Requests}
  PROVE  e \in claimed \cup passed \cup UNION {skipped[r] : r \in Requests}
           \/ e \in resent'
<1> USE DEF TypeInv, TypeOK
<1>1. ASSUME NEW r \in Requests, Claim(r)
      PROVE  e \in claimed \cup passed \cup UNION {skipped[s] : s \in Requests}
  <2>1. /\ passed' = passed
        /\ \/ skipped' = skipped
           \/ /\ EventAt(r, at[r]) \in claimed
              /\ skipped' = [skipped EXCEPT ![r] = skipped[r] \cup {EventAt(r, at[r])}]
    BY <1>1 DEF Claim, Fresh, history
  <2> QED BY <2>1
<1>2. ASSUME NEW r \in Requests, NEW code,
             Answer(r, code), passed' \subseteq passed \cup skipped[r]
      PROVE  e \in claimed \cup passed \cup UNION {skipped[s] : s \in Requests}
  BY <1>2 DEF Answer
<1>3. CASE Crash
  BY <1>3 DEF Crash
<1>4. CASE UNCHANGED <<passed, skipped>>
  BY <1>4
<1>5. ASSUME NEW r \in Requests, ClaimResent(r)
      PROVE  e \in passed \cup UNION {skipped[s] : s \in Requests}
             \/ e \in resent'
  BY <1>5 DEF ClaimResent
<1> QED
  BY <1>1, <1>2, <1>3, <1>4, <1>5
     DEF Next, Handler, Receive, Store, AllSkipped, Fail, ClaimUnheard,
         StoreUnheard, Lapse, vars, local, history

\* A key stands for nothing, and a scan is passed over for nothing, only if a
\* request that claimed it got an error or died, or set the key with a command
\* that was executed twice.
THEOREM ClaimsCorrect == Spec => []ClaimsAccounted
<1>1. Init => TypeInv /\ ClaimsInv
  BY TypeInit DEF Init, ClaimsInv
<1>2. TypeInv /\ ClaimsInv /\ [Next]_vars => ClaimsInv'
  <2> SUFFICES ASSUME TypeInv, ClaimsInv, [Next]_vars,
                      NEW e \in claimed' \cup passed'
                                \cup UNION {skipped'[r] : r \in Requests}
               PROVE  Accounted(e)'
    BY DEF ClaimsInv
  <2>1. CASE e \in claimed \cup passed \cup UNION {skipped[r] : r \in Requests}
    BY <2>1, AccountedStays DEF ClaimsInv
  <2>2. CASE e \notin claimed \cup passed \cup UNION {skipped[r] : r \in Requests}
    BY <2>2, NewClaims, NewSkips DEF Accounted
  <2> QED BY <2>1, <2>2
<1>3. ClaimsInv => ClaimsAccounted
  BY DEF ClaimsInv, ClaimsAccounted
<1> QED BY <1>1, <1>2, <1>3, TypeStep, PTL DEF Spec
=============================================================================
