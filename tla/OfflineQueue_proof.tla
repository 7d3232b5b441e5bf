------------------------- MODULE OfflineQueue_proof -------------------------
(***************************************************************************)
(* Theorems about OfflineQueue, for any number of tabs, users and records, *)
(* any MAX_ATTEMPTS and any faults.                                        *)
(***************************************************************************)
EXTENDS OfflineQueue, TLAPS

USE DEF OrNone

(***************************************************************************)
(* The inductive invariant.  A flush in the middle of its loop works on    *)
(* the oldest record of what is left of its snapshot; what is in the store *)
(* and not in the snapshot is younger than all of it; the counts it read   *)
(* and the counts in the store never exceed the 5xx answers there were.    *)
(***************************************************************************)
Busy == {"sending", "removing", "burying", "updating"}

TabOK(b) ==
  pc[b] \in Busy =>
    /\ item[b] \in todo[b]
    /\ \A j \in todo[b] : item[b] <= j /\ j < next
    /\ \A j \in store : j \in todo[b] \/ \A i \in todo[b] : i < j
    /\ \A i \in Ids : seen[b][i] <= fails[i]
    /\ pc[b] = "removing" => verdicts[item[b]] # {}
    /\ pc[b] = "burying" => fails[item[b]] >= MaxAttempts
    /\ pc[b] = "updating" => /\ seen[b][item[b]] + 1 < MaxAttempts
                             /\ seen[b][item[b]] + 1 <= fails[item[b]]

QueueOK ==
  /\ \A i \in store : i < next
  /\ \A i \in Ids : attempts[i] <= fails[i]
  /\ NoSilentLoss

Inv == TypeOK /\ QueueOK /\ \A b \in Tabs : TabOK(b)

\* A tab whose flush does not move, or is over, stays coherent while the
\* others work: records come with a new key, go, and collect answers.
LEMMA OtherTab ==
  ASSUME TypeOK, NEW b \in Tabs, TabOK(b), TypeOK',
         \/ pc'[b] \notin Busy
         \/ /\ pc'[b] = pc[b] /\ todo'[b] = todo[b]
            /\ item'[b] = item[b] /\ seen'[b] = seen[b],
         \A j \in store' : j \in store \/ j = next,
         next <= next',
         \A i \in Ids : fails[i] <= fails'[i] /\ verdicts[i] \subseteq verdicts'[i]
  PROVE  TabOK(b)'
<1> SUFFICES ASSUME pc'[b] \in Busy PROVE TabOK(b)'
  BY DEF TabOK
<1>1. /\ pc'[b] = pc[b] /\ todo'[b] = todo[b]
      /\ item'[b] = item[b] /\ seen'[b] = seen[b] /\ todo[b] \subseteq Ids
      /\ item[b] \in Ids
  BY DEF TypeOK, TabOK
<1>2. \A j \in todo[b] : j < next /\ j < next'
  BY <1>1 DEF TabOK, TypeOK, Ids
<1>3. \A j \in store' : j \in todo[b] \/ \A i \in todo[b] : i < j
  BY <1>1, <1>2 DEF TabOK
<1>4. ASSUME NEW i \in Ids PROVE seen[b][i] <= fails'[i]
  <2>1. seen[b][i] \in Int /\ fails[i] \in Int /\ fails'[i] \in Int
    BY QueueAssumption DEF TypeOK, FailureCap
  <2>2. seen[b][i] <= fails[i] /\ fails[i] <= fails'[i]
    BY <1>1 DEF TabOK
  <2> QED BY <2>1, <2>2
<1>5. /\ pc[b] = "removing" => verdicts'[item[b]] # {}
      /\ pc[b] = "burying" => fails'[item[b]] >= MaxAttempts
      /\ pc[b] = "updating" => seen[b][item[b]] + 1 <= fails'[item[b]]
  <2>1. /\ seen[b][item[b]] \in Int /\ fails[item[b]] \in Int
        /\ fails'[item[b]] \in Int /\ fails[item[b]] <= fails'[item[b]]
    BY <1>1, QueueAssumption DEF TypeOK, FailureCap
  <2>2. verdicts[item[b]] \subseteq verdicts'[item[b]]
    BY <1>1
  <2> QED BY <1>1, <2>1, <2>2, QueueAssumption DEF TabOK
<1> QED BY <1>1, <1>2, <1>3, <1>4, <1>5 DEF TabOK

\* The types of what a flush holds, apart from the rest.
FlushTypes ==
  /\ pc \in [Tabs -> {"idle", "reading"} \cup Busy]
  /\ todo \in [Tabs -> SUBSET Ids]
  /\ seen \in [Tabs -> [Ids -> 0..(MaxAttempts - 1)]]
  /\ item \in [Tabs -> OrNone(Ids)]
  /\ token \in [Tabs -> OrNone(Users)]
  /\ sentAs \in [Tabs -> OrNone(Users)]

QueueTypes ==
  /\ next \in 1..(MaxRecords + 1)
  /\ store \subseteq Ids
  /\ attempts \in [Ids -> 0..(MaxAttempts - 1)]
  /\ author \in [Ids -> OrNone(Users)]
  /\ stalled \subseteq store

RestTypes ==
  /\ adding \in [Tabs -> OrNone(Users)]
  /\ online \in BOOLEAN
  /\ cookie \in OrNone(Users)
  /\ stored \in OrNone(Users)
  /\ expired \subseteq Users
  /\ verdicts \in [Ids -> SUBSET {"ok", "rejected", "foreign"}]
  /\ fails \in [Ids -> 0..FailureCap]

LEMMA Types == TypeOK <=> FlushTypes /\ QueueTypes /\ RestTypes
BY DEF TypeOK, FlushTypes, QueueTypes, RestTypes, Busy

LEMMA TypesNext == TypeOK' <=> FlushTypes' /\ QueueTypes' /\ RestTypes'
BY Types, PTL

LEMMA FinishEffect ==
  ASSUME FlushTypes, NEW b \in Tabs, Finish(b)
  PROVE  /\ FlushTypes' /\ pc'[b] \notin Busy
         /\ \A c \in Tabs \ {b} :
              /\ pc'[c] = pc[c] /\ todo'[c] = todo[c]
              /\ item'[c] = item[c] /\ seen'[c] = seen[c]
<1>1. [i \in Ids |-> 0] \in [Ids -> 0..(MaxAttempts - 1)]
  BY QueueAssumption
<1> QED BY <1>1 DEF FlushTypes, Finish, Busy

LEMMA WakeEffect ==
  ASSUME FlushTypes, RestTypes, NEW B \in SUBSET Tabs, NEW f, WakeIn(B, f)
  PROVE  /\ FlushTypes'
         /\ \A c \in Tabs :
              \/ pc'[c] \notin Busy
              \/ /\ pc'[c] = pc[c] /\ todo'[c] = todo[c]
                 /\ item'[c] = item[c] /\ seen'[c] = seen[c]
BY DEF FlushTypes, RestTypes, WakeIn, Busy

LEMMA SendEffect ==
  ASSUME FlushTypes, RestTypes, NEW b \in Tabs, NEW left \in SUBSET Ids,
         NEW counts \in [Ids -> 0..(MaxAttempts - 1)],
         SendNext(b, left, counts)
  PROVE  /\ FlushTypes'
         /\ \/ pc'[b] \notin Busy
            \/ /\ pc'[b] = "sending" /\ todo'[b] = left /\ seen'[b] = counts
               /\ item'[b] \in left /\ \A j \in left : item'[b] <= j
         /\ \A c \in Tabs \ {b} :
              /\ pc'[c] = pc[c] /\ todo'[c] = todo[c]
              /\ item'[c] = item[c] /\ seen'[c] = seen[c]
<1>1. CASE left = {} /\ Finish(b)
  BY <1>1, FinishEffect
<1>2. CASE \E i \in Oldest(left) :
             /\ pc' = [pc EXCEPT ![b] = "sending"]
             /\ todo' = [todo EXCEPT ![b] = left]
             /\ seen' = [seen EXCEPT ![b] = counts]
             /\ item' = [item EXCEPT ![b] = i]
             /\ sentAs' = [sentAs EXCEPT ![b] = Identity(b)]
             /\ UNCHANGED token
  <2>1. Identity(b) \in OrNone(Users)
    BY DEF Identity, FlushTypes, RestTypes
  <2> QED BY <1>2, <2>1 DEF FlushTypes, Oldest, Busy
<1> QED BY <1>1, <1>2 DEF SendNext

LEMMA InvInit == Init => Inv
<1> SUFFICES ASSUME Init PROVE Inv
  OBVIOUS
<1>1. TypeOK
  BY QueueAssumption DEF Init, TypeOK, FailureCap
<1>2. QueueOK
  BY DEF Init, QueueOK, NoSilentLoss, Ids
<1>3. \A b \in Tabs : TabOK(b)
  BY DEF Init, TabOK, Busy
<1> QED BY <1>1, <1>2, <1>3 DEF Inv

\* Steps that leave the records and the answers alone and move no flush
\* into its loop.
LEMMA QuietStep ==
  ASSUME Inv, FlushTypes', RestTypes', UNCHANGED <<queue, history>>,
         stalled' \subseteq store,
         \A c \in Tabs : \/ pc'[c] \notin Busy
                        \/ /\ pc'[c] = pc[c] /\ todo'[c] = todo[c]
                           /\ item'[c] = item[c] /\ seen'[c] = seen[c]
  PROVE  Inv'
<1>1. TypeOK'
  BY Types, TypesNext DEF Inv, QueueTypes, queue
<1>2. QueueOK'
  BY DEF Inv, QueueOK, NoSilentLoss, queue, history
<1>3. /\ \A i \in Ids : fails[i] <= fails'[i] /\ verdicts[i] \subseteq verdicts'[i]
      /\ next <= next'
  BY QueueAssumption DEF Inv, TypeOK, FailureCap, queue, history
<1>4. ASSUME NEW c \in Tabs PROVE TabOK(c)'
  BY <1>1, <1>3, OtherTab DEF Inv, queue
<1> QED BY <1>1, <1>2, <1>4 DEF Inv

LEMMA AddKeepsInv ==
  ASSUME Inv, NEW b \in Tabs, AddRecord(b)
  PROVE  Inv'
<1> USE DEF Inv
<1>1. /\ FlushTypes'
      /\ \A c \in Tabs : \/ pc'[c] \notin Busy
                         \/ /\ pc'[c] = pc[c] /\ todo'[c] = todo[c]
                            /\ item'[c] = item[c] /\ seen'[c] = seen[c]
  BY WakeEffect, Types DEF AddRecord
<1>2. /\ next \in Ids /\ next' = next + 1 /\ next \in Int
      /\ stalled' \subseteq store'
  BY QueueAssumption DEF AddRecord, TypeOK, Ids
<1>3. TypeOK'
  BY <1>1, <1>2, Types, TypesNext, QueueAssumption
     DEF AddRecord, QueueTypes, RestTypes, session, history, Ids
<1>4. QueueOK'
  <2>1. \A i \in store' : i < next'
    BY <1>2 DEF AddRecord, QueueOK, TypeOK, Ids
  <2>2. ASSUME NEW i \in Ids, i < next', i \notin store'
        PROVE  i < next /\ i \notin store
    BY <1>2, <2>2 DEF AddRecord, Ids
  <2> QED BY <2>1, <2>2 DEF AddRecord, QueueOK, NoSilentLoss, history
<1>5. \A i \in Ids : fails[i] <= fails'[i] /\ verdicts[i] \subseteq verdicts'[i]
  BY QueueAssumption DEF AddRecord, TypeOK, FailureCap, history
<1>6. ASSUME NEW c \in Tabs PROVE TabOK(c)'
  BY <1>1, <1>2, <1>3, <1>5, OtherTab DEF AddRecord
<1> QED BY <1>3, <1>4, <1>6

\* An answer that goes into the history, and the flush that got it moves on
\* to deal with it.
LEMMA AnswerKeepsInv ==
  ASSUME Inv, NEW b \in Tabs,
         ServerError(b) \/ \E v \in {"ok", "rejected", "foreign"} : FinalAnswer(b, v)
  PROVE  Inv'
<1> USE DEF Inv
<1> DEFINE i == item[b]
<1>1. i \in Ids /\ TabOK(b) /\ pc[b] = "sending"
  BY DEF TabOK, TypeOK, Busy, ServerError, FinalAnswer
<1>2. /\ UNCHANGED <<queue, todo, seen, item, token, sentAs, adding, online, session, stalled>>
      /\ pc' \in [Tabs -> {"idle", "reading"} \cup Busy]
      /\ \A c \in Tabs : c # b => pc'[c] = pc[c]
      /\ pc'[b] \in {"removing", "burying", "updating"}
  BY Types DEF ServerError, FinalAnswer, FlushTypes, Busy
<1>3. \A j \in Ids : fails[j] \in 0..FailureCap /\ FailureCap \in Int
  BY QueueAssumption DEF TypeOK, FailureCap
<1>4. /\ fails' \in [Ids -> 0..FailureCap]
      /\ verdicts' \in [Ids -> SUBSET {"ok", "rejected", "foreign"}]
      /\ \A j \in Ids : fails[j] <= fails'[j] /\ verdicts[j] \subseteq verdicts'[j]
  <2>1. CASE ServerError(b)
    <3> DEFINE n == IF fails[i] < FailureCap THEN fails[i] + 1 ELSE fails[i]
    <3>0. n \in 0..FailureCap /\ fails[i] <= n
      BY <1>1, <1>3
    <3>1. fails' = [fails EXCEPT ![i] = n]
      BY <2>1 DEF ServerError
    <3>2. verdicts' = verdicts
      BY <2>1 DEF ServerError
    <3> HIDE DEF n
    <3>3. fails' \in [Ids -> 0..FailureCap]
      BY <3>0, <3>1 DEF TypeOK
    <3>4. \A j \in Ids : fails[j] <= fails'[j]
      BY <1>1, <1>3, <3>0, <3>1 DEF TypeOK
    <3> QED BY <3>2, <3>3, <3>4 DEF TypeOK
  <2>2. CASE \E v \in {"ok", "rejected", "foreign"} : FinalAnswer(b, v)
    <3>1. PICK v \in {"ok", "rejected", "foreign"} :
            verdicts' = [verdicts EXCEPT ![i] = @ \cup {v}]
      BY <2>2 DEF FinalAnswer
    <3>2. fails' = fails
      BY <2>2 DEF FinalAnswer
    <3>3. /\ verdicts' \in [Ids -> SUBSET {"ok", "rejected", "foreign"}]
          /\ \A j \in Ids : verdicts[j] \subseteq verdicts'[j]
      BY <1>1, <3>1 DEF TypeOK
    <3>4. \A j \in Ids : fails[j] <= fails[j]
      BY <1>3
    <3> QED BY <3>2, <3>3, <3>4 DEF TypeOK
  <2> QED BY <2>1, <2>2
<1>5. TypeOK'
  BY <1>2, <1>4 DEF TypeOK, queue, session, Busy
<1>6. QueueOK'
  <2>1. ASSUME NEW j \in Ids PROVE attempts'[j] <= fails'[j]
    <3>1. attempts[j] \in Int /\ fails'[j] \in Int
      BY <1>4, QueueAssumption DEF TypeOK, FailureCap
    <3> QED BY <1>2, <1>3, <1>4, <3>1 DEF QueueOK, queue
  <2>2. NoSilentLoss'
    <3> SUFFICES ASSUME NEW j \in Ids, j < next, j \notin store,
                        verdicts'[j] = {}
                 PROVE  fails'[j] >= MaxAttempts
      BY <1>2 DEF NoSilentLoss, queue
    <3>1. verdicts[j] = {}
      BY <1>4
    <3>2. fails[j] >= MaxAttempts /\ fails[j] <= fails'[j]
      BY <1>4, <3>1 DEF QueueOK, NoSilentLoss
    <3>3. fails[j] \in Int /\ fails'[j] \in Int
      BY <1>3, <1>4
    <3> QED BY <3>2, <3>3, QueueAssumption
  <2> QED BY <1>2, <2>1, <2>2 DEF QueueOK, queue
<1>7. ASSUME NEW c \in Tabs, c # b PROVE TabOK(c)'
  <2>1. next <= next' /\ store' = store
    BY <1>2 DEF TypeOK, queue
  <2> QED BY <1>2, <1>4, <1>5, <1>7, <2>1, OtherTab
<1>8. TabOK(b)'
  <2>1. /\ i \in todo'[b] /\ item'[b] = i
        /\ \A j \in todo'[b] : i <= j /\ j < next'
        /\ \A j \in store' : j \in todo'[b] \/ \A k \in todo'[b] : k < j
    BY <1>1, <1>2 DEF TabOK, Busy, queue
  <2>2. ASSUME NEW j \in Ids PROVE seen'[b][j] <= fails'[j]
    <3>1. seen[b][j] \in Int /\ fails[j] \in Int /\ fails'[j] \in Int
      BY <1>3, <1>4, QueueAssumption DEF TypeOK
    <3>2. seen[b][j] <= fails[j] /\ fails[j] <= fails'[j]
      BY <1>1, <1>4 DEF TabOK, Busy
    <3> QED BY <1>2, <3>1, <3>2
  <2>3. CASE ServerError(b)
    <3>1. /\ fails' = [fails EXCEPT ![i] = IF @ < FailureCap THEN @ + 1 ELSE @]
          /\ pc' = [pc EXCEPT ![b] = IF Exhausted(Counted(seen[b][i]))
                                     THEN "burying" ELSE "updating"]
      BY <2>3 DEF ServerError
    <3>2. /\ seen[b][i] \in 0..(MaxAttempts - 1) /\ fails[i] \in 0..FailureCap
          /\ seen[b][i] <= fails[i]
      BY <1>1 DEF TypeOK, TabOK, Busy
    <3>3. seen[b][i] + 1 <= fails'[i]
      BY <1>1, <3>1, <3>2, QueueAssumption DEF TypeOK, FailureCap
    <3>4. \/ /\ pc'[b] = "burying" /\ seen[b][i] + 1 >= MaxAttempts
          \/ /\ pc'[b] = "updating" /\ seen[b][i] + 1 < MaxAttempts
      BY <3>1, <3>2, QueueAssumption DEF Exhausted, Counted, TypeOK
    <3>5. pc'[b] = "burying" => fails'[i] >= MaxAttempts
      <4>1. fails'[i] \in Int
        BY <1>1, <1>4, QueueAssumption DEF FailureCap
      <4> QED BY <3>2, <3>3, <3>4, <4>1, QueueAssumption
    <3> QED BY <1>2, <2>1, <2>2, <3>3, <3>4, <3>5 DEF TabOK
  <2>4. CASE \E v \in {"ok", "rejected", "foreign"} : FinalAnswer(b, v)
    <3>1. pc'[b] = "removing" /\ verdicts'[i] # {}
      BY <1>1, <2>4 DEF FinalAnswer, TypeOK
    <3> QED BY <1>2, <2>1, <2>2, <3>1 DEF TabOK
  <2> QED BY <2>3, <2>4
<1> QED BY <1>5, <1>6, <1>7, <1>8

\* A step of a flush that takes the record it works on out of the store, and
\* sends the next one or is over.
LEMMA RemoveKeepsInv ==
  ASSUME Inv, NEW b \in Tabs, Remove(b) \/ Bury(b)
  PROVE  Inv'
<1> USE DEF Inv
<1> DEFINE i == item[b]
           left == todo[b] \ {i}
<1>1. /\ i \in Ids /\ i \in todo[b] /\ TabOK(b) /\ pc[b] \in {"removing", "burying"}
      /\ left \in SUBSET Ids /\ seen[b] \in [Ids -> 0..(MaxAttempts - 1)]
  BY DEF TabOK, TypeOK, Busy, Remove, Bury
<1>2. /\ store' = store \ {i} /\ stalled' \subseteq store'
      /\ UNCHANGED <<next, attempts, author, adding, online, session, history>>
  BY DEF Remove, Bury, TypeOK
<1>3. /\ FlushTypes'
      /\ \/ pc'[b] \notin Busy
         \/ /\ pc'[b] = "sending" /\ todo'[b] = left /\ seen'[b] = seen[b]
            /\ item'[b] \in left /\ \A j \in left : item'[b] <= j
      /\ \A c \in Tabs \ {b} :
           /\ pc'[c] = pc[c] /\ todo'[c] = todo[c]
           /\ item'[c] = item[c] /\ seen'[c] = seen[c]
  <2>1. CASE Remove(b)
    BY <1>1, <2>1, SendEffect, Types DEF Remove
  <2>2. CASE Bury(b)
    BY <2>2, FinishEffect, Types DEF Bury
  <2> QED BY <2>1, <2>2
<1>4. TypeOK'
  BY <1>2, <1>3, Types, TypesNext DEF QueueTypes, RestTypes, session, history
<1>5. QueueOK'
  <2>1. verdicts[i] # {} \/ fails[i] >= MaxAttempts
    BY <1>1 DEF TabOK, Busy
  <2> QED BY <1>2, <2>1 DEF QueueOK, NoSilentLoss, history
<1>6. /\ \A j \in Ids : fails[j] <= fails'[j] /\ verdicts[j] \subseteq verdicts'[j]
      /\ next <= next'
  BY <1>2, QueueAssumption DEF TypeOK, FailureCap, history
<1>7. ASSUME NEW c \in Tabs, c # b PROVE TabOK(c)'
  BY <1>2, <1>3, <1>4, <1>6, <1>7, OtherTab
<1>8. TabOK(b)'
  <2>1. CASE pc'[b] \notin Busy
    BY <2>1 DEF TabOK
  <2>2. CASE /\ pc'[b] = "sending" /\ todo'[b] = left /\ seen'[b] = seen[b]
             /\ item'[b] \in left /\ \A j \in left : item'[b] <= j
    BY <1>1, <1>2, <2>2 DEF TabOK, Busy, history
  <2> QED BY <1>3, <2>1, <2>2
<1> QED BY <1>4, <1>5, <1>7, <1>8

LEMMA ReadKeepsInv ==
  ASSUME Inv, NEW b \in Tabs, ReadQueue(b)
  PROVE  Inv'
<1> USE DEF Inv
<1>1. UNCHANGED <<queue, adding, online, session, history>> /\ stalled' = {}
  BY DEF ReadQueue
<1>2. /\ FlushTypes'
      /\ \/ pc'[b] \notin Busy
         \/ /\ pc'[b] = "sending" /\ todo'[b] = store /\ seen'[b] = attempts
            /\ item'[b] \in store /\ \A j \in store : item'[b] <= j
      /\ \A c \in Tabs \ {b} :
           /\ pc'[c] = pc[c] /\ todo'[c] = todo[c]
           /\ item'[c] = item[c] /\ seen'[c] = seen[c]
  BY SendEffect, Types DEF ReadQueue, QueueTypes
<1>3. TypeOK'
  BY <1>1, <1>2, Types, TypesNext DEF QueueTypes, RestTypes, queue, session, history
<1>4. QueueOK'
  BY <1>1 DEF QueueOK, NoSilentLoss, queue, history
<1>5. /\ \A j \in Ids : fails[j] <= fails'[j] /\ verdicts[j] \subseteq verdicts'[j]
      /\ next <= next'
  BY <1>1, QueueAssumption DEF TypeOK, FailureCap, queue, history
<1>6. ASSUME NEW c \in Tabs, c # b PROVE TabOK(c)'
  BY <1>1, <1>2, <1>3, <1>5, <1>6, OtherTab DEF queue
<1>7. TabOK(b)'
  BY <1>1, <1>2 DEF TabOK, QueueOK, queue, history
<1> QED BY <1>3, <1>4, <1>6, <1>7

LEMMA UpdateKeepsInv ==
  ASSUME Inv, NEW b \in Tabs, Update(b)
  PROVE  Inv'
<1> USE DEF Inv
<1> DEFINE i == item[b]
<1>1. /\ i \in Ids /\ seen[b][i] + 1 < MaxAttempts /\ seen[b][i] + 1 <= fails[i]
      /\ seen[b][i] \in 0..(MaxAttempts - 1)
  BY DEF TabOK, TypeOK, Busy, Update
<1>2. /\ UNCHANGED <<next, store, author, adding, online, session, history>>
      /\ attempts' = attempts \/ attempts' = [attempts EXCEPT ![i] = seen[b][i] + 1]
      /\ stalled' \subseteq store
  BY DEF Update, Counted, GiveUp, TypeOK
<1>3. /\ FlushTypes' /\ pc'[b] \notin Busy
      /\ \A c \in Tabs \ {b} :
           /\ pc'[c] = pc[c] /\ todo'[c] = todo[c]
           /\ item'[c] = item[c] /\ seen'[c] = seen[c]
  BY FinishEffect, Types DEF Update, GiveUp
<1>4. seen[b][i] + 1 \in 0..(MaxAttempts - 1)
  BY <1>1, QueueAssumption
<1>5. attempts' \in [Ids -> 0..(MaxAttempts - 1)]
  BY <1>2, <1>4 DEF TypeOK
<1>6. TypeOK'
  BY <1>2, <1>3, <1>5, Types, TypesNext DEF QueueTypes, RestTypes, session, history
<1>7. QueueOK'
  <2>1. \A j \in Ids : attempts'[j] <= fails[j]
    BY <1>1, <1>2 DEF QueueOK, TypeOK
  <2> QED BY <1>2, <2>1 DEF QueueOK, NoSilentLoss, history
<1>8. /\ \A j \in Ids : fails[j] <= fails'[j] /\ verdicts[j] \subseteq verdicts'[j]
      /\ next <= next'
  BY <1>2, QueueAssumption DEF TypeOK, FailureCap, history
<1>9. ASSUME NEW c \in Tabs PROVE TabOK(c)'
  BY <1>2, <1>3, <1>6, <1>8, OtherTab
<1> QED BY <1>6, <1>7, <1>9

LEMMA QuietFlush ==
  ASSUME Inv, NEW b \in Tabs, Unauthorized(b) \/ NetworkError(b) \/ StorageError(b)
  PROVE  Inv'
<1>1. FlushTypes /\ RestTypes
  BY Types DEF Inv
<1>2. /\ FlushTypes' /\ pc'[b] \notin Busy
      /\ \A c \in Tabs \ {b} :
           /\ pc'[c] = pc[c] /\ todo'[c] = todo[c]
           /\ item'[c] = item[c] /\ seen'[c] = seen[c]
  BY <1>1, FinishEffect DEF Unauthorized, NetworkError, StorageError, GiveUp
<1>3. UNCHANGED <<queue, adding, online, session, history>> /\ stalled' \subseteq store
  BY DEF Unauthorized, NetworkError, StorageError, GiveUp, Inv, TypeOK
<1>4. RestTypes'
  BY <1>1, <1>3 DEF RestTypes, session, history
<1> QED BY <1>2, <1>3, <1>4, QuietStep

LEMMA QuietTab ==
  ASSUME Inv, NEW b \in Tabs, Perform(b) \/ AddFails(b) \/ Reload(b)
  PROVE  Inv'
<1>1. FlushTypes /\ RestTypes
  BY Types DEF Inv
<1>2. UNCHANGED <<queue, online, session, history>> /\ RestTypes'
  <2>1. UNCHANGED <<queue, online, session, history>>
    BY DEF Perform, AddFails, Reload
  <2>2. \E v \in OrNone(Users) : adding' = [adding EXCEPT ![b] = v]
    BY <1>1 DEF Perform, AddFails, Reload, RestTypes, OrNone
  <2>3. adding' \in [Tabs -> OrNone(Users)]
    BY <1>1, <2>2 DEF RestTypes
  <2> QED BY <1>1, <2>1, <2>3 DEF RestTypes, session, history
<1>3. stalled' \subseteq store
  <2>1. stalled \subseteq store BY DEF Inv, TypeOK
  <2>2. stalled' \in {stalled, store} BY DEF Perform, AddFails, Reload
  <2> QED BY <2>1, <2>2
<1>4. CASE Perform(b) \/ AddFails(b)
  <2>1. UNCHANGED flush
    BY <1>4 DEF Perform, AddFails
  <2>2. FlushTypes'
    BY <1>1, <2>1 DEF FlushTypes, flush
  <2> QED BY <1>2, <1>3, <2>1, <2>2, QuietStep DEF flush
<1>5. CASE Reload(b)
  <2>1. [j \in Ids |-> 0] \in [Ids -> 0..(MaxAttempts - 1)]
    BY QueueAssumption
  <2>2. FlushTypes' /\ pc'[b] \notin Busy
    BY <1>1, <1>5, <2>1 DEF Reload, FlushTypes, RestTypes, Busy
  <2>3. \A c \in Tabs \ {b} :
          /\ pc'[c] = pc[c] /\ todo'[c] = todo[c]
          /\ item'[c] = item[c] /\ seen'[c] = seen[c]
    BY <1>1, <1>5 DEF Reload, FlushTypes
  <2> QED BY <1>2, <1>3, <2>2, <2>3, QuietStep
<1> QED BY <1>4, <1>5

LEMMA QuietBrowser ==
  ASSUME Inv,
         \/ GoOffline \/ GoOnline \/ DropCookie \/ Logout
         \/ \E u \in Users : Expire(u) \/ Login(u)
  PROVE  Inv'
<1>1. FlushTypes /\ RestTypes
  BY Types DEF Inv
<1>2. UNCHANGED <<queue, history>> /\ RestTypes' /\ stalled' \subseteq store
  BY <1>1 DEF GoOffline, GoOnline, DropCookie, Logout, Expire, Login, RestTypes,
              session, history, Inv, TypeOK
<1>3. CASE GoOnline
  <2>1. WakeIn(Tabs, TRUE)
    BY <1>3 DEF GoOnline
  <2> QED BY <1>1, <1>2, <2>1, WakeEffect, QuietStep
<1>4. CASE UNCHANGED flush
  <2>1. FlushTypes'
    BY <1>1, <1>4 DEF FlushTypes, flush
  <2> QED BY <1>2, <1>4, <2>1, QuietStep DEF flush
<1> QED BY <1>3, <1>4 DEF GoOffline, DropCookie, Logout, Expire, Login

\* The invariant holds in every reachable state of the store and the flushes.
THEOREM Invariant == Spec => []Inv
<1>1. Inv /\ [Next]_vars => Inv'
  <2> SUFFICES ASSUME Inv, [Next]_vars PROVE Inv'
    OBVIOUS
  <2>1. ASSUME NEW b \in Tabs, FlushStep(b) PROVE Inv'
    BY <2>1, ReadKeepsInv, AnswerKeepsInv, RemoveKeepsInv, UpdateKeepsInv,
       QuietFlush DEF FlushStep
  <2>2. ASSUME NEW b \in Tabs, Tab(b) PROVE Inv'
    BY <2>1, <2>2, AddKeepsInv, QuietTab DEF Tab
  <2>3. CASE UNCHANGED vars
    <3>1. /\ UNCHANGED <<queue, flush, adding, online, session, history>>
          /\ stalled' \subseteq store
      BY <2>3 DEF vars, Inv, TypeOK
    <3>2. FlushTypes' /\ RestTypes'
      BY <3>1, Types DEF Inv, FlushTypes, RestTypes, flush, session, history
    <3> QED BY <3>1, <3>2, QuietStep DEF flush
  <2> QED BY <2>2, <2>3, QuietBrowser DEF Next
<1> QED BY <1>1, InvInit, PTL DEF Spec

\* Types, and no stored record beyond its attempts.
THEOREM TypeCorrect == Spec => []TypeOK
BY Invariant, PTL DEF Inv

\* A record leaves the store only for a final answer or enough 5xx.
THEOREM LossCorrect == Spec => []NoSilentLoss
BY Invariant, PTL DEF Inv, QueueOK

\* Oldest first, however many tabs flush the same store.
THEOREM FifoCorrect == Spec => []FifoReplay
<1>1. Inv => FifoReplay
  <2> SUFFICES ASSUME Inv, NEW b \in Tabs, pc[b] = "sending", NEW j \in store
               PROVE  item[b] <= j
    BY DEF FifoReplay
  <2>1. TabOK(b) /\ pc[b] \in Busy /\ item[b] \in Ids /\ j \in Ids
    BY DEF Inv, Busy, TabOK, TypeOK
  <2> QED BY <2>1 DEF TabOK, Ids
<1> QED BY <1>1, Invariant, PTL

\* The store of all tabs is one queue: a step puts a record in behind all
\* others, takes the oldest one out, or leaves it alone, and whose action a
\* record is never changes.
QueueStep ==
  /\ \A i \in store : author'[i] = author[i]
  /\ \/ store' = store
     \/ store' = store \cup {next} /\ \A i \in store : i < next
     \/ \E i \in Oldest(store) : store' = store \ {i}

\* However many tabs flush, and whatever reloads and late removals there are,
\* no record is taken out before an older one (the removals of flushQueue,
\* getPendingScans' order and store.add's keys): what the model of the page,
\* which has one flush, takes the store for.
THEOREM QueueCorrect == Spec => [][QueueStep]_vars
<1>1. Inv /\ [Next]_vars => [QueueStep]_vars
  <2> SUFFICES ASSUME Inv, Next PROVE QueueStep
    OBVIOUS
  <2>1. CASE store' = store /\ author' = author
    BY <2>1 DEF QueueStep
  <2>2. ASSUME NEW b \in Tabs, AddRecord(b) PROVE QueueStep
    BY <2>2 DEF AddRecord, QueueStep, Inv, QueueOK, TypeOK, Ids
  <2>3. ASSUME NEW b \in Tabs, Remove(b) \/ Bury(b) PROVE QueueStep
    <3>1. /\ store' = store \ {item[b]} /\ author' = author
          /\ pc[b] \in Busy
      BY <2>3 DEF Remove, Bury, Busy
    <3>2. \A j \in store : item[b] <= j
      BY <3>1 DEF Inv, TabOK, TypeOK, Ids
    <3>3. CASE item[b] \in store
      BY <3>1, <3>2, <3>3 DEF QueueStep, Oldest
    <3>4. CASE item[b] \notin store
      BY <3>1, <3>4 DEF QueueStep
    <3> QED BY <3>3, <3>4
  <2>4. ASSUME NEW b \in Tabs, FlushStep(b) PROVE QueueStep
    BY <2>1, <2>3, <2>4
    DEF FlushStep, ReadQueue, FinalAnswer, Unauthorized, ServerError,
        NetworkError, Update, StorageError, queue
  <2>5. ASSUME NEW b \in Tabs, Tab(b) PROVE QueueStep
    BY <2>1, <2>2, <2>4, <2>5 DEF Tab, Perform, AddFails, Reload, queue
  <2> QED
    BY <2>1, <2>5 DEF Next, GoOffline, GoOnline, DropCookie, Logout, Expire,
                      Login, queue
<1> QED BY <1>1, Invariant, PTL DEF Spec

----------------------------------------------------------------------------
(***************************************************************************)
(* What a flush leaves behind.  LeftForCause speaks of a device that is    *)
(* online; to be inductive it must say of one that is offline who will     *)
(* take the record up when the connection comes back: an idle tab, which   *)
(* the online event wakes.                                                 *)
(***************************************************************************)
TakenUp(i) == ~online /\ \E b \in Tabs : pc[b] = "idle"

LeftInv == \A i \in store : InHand(i) \/ i \in stalled \/ TakenUp(i)

\* A step that leaves the flush of every tab where it is, or takes it on to
\* another await with the same snapshot.
LEMMA LeftStays ==
  ASSUME TypeOK, LeftInv, UNCHANGED <<todo, store, stalled>>,
         \A b \in Tabs : \/ pc'[b] = pc[b]
                         \/ pc[b] = "sending" /\ pc'[b] # "idle",
         online' => online
  PROVE  LeftInv'
BY DEF LeftInv, InHand, TakenUp

LEMMA GiveUpLeaves ==
  ASSUME TypeOK, LeftInv, NEW b \in Tabs, GiveUp(b), UNCHANGED <<store, online>>
  PROVE  LeftInv'
<1>1. \A c \in Tabs \ {b} : pc'[c] = pc[c] /\ todo'[c] = todo[c]
  BY DEF GiveUp, Finish, TypeOK
<1>2. pc'[b] = "idle"
  BY DEF GiveUp, Finish, TypeOK
<1>3. \A i \in store : pc[b] = "reading" \/ i \in todo[b] => i \in stalled'
  BY DEF GiveUp
<1>4. stalled \subseteq stalled'
  BY DEF GiveUp
<1> QED BY <1>1, <1>2, <1>3, <1>4 DEF LeftInv, InHand, TakenUp

LEMMA RemoveLeaves ==
  ASSUME TypeOK, LeftInv, NEW b \in Tabs, Remove(b) \/ Bury(b)
  PROVE  LeftInv'
<1> DEFINE i == item[b]
<1>1. /\ store' = store \ {i} /\ online' = online
      /\ pc[b] \in {"removing", "burying"}
      /\ \A j \in stalled : j = i \/ j \in stalled'
  BY DEF Remove, Bury
<1>2. \A c \in Tabs \ {b} : pc'[c] = pc[c] /\ todo'[c] = todo[c]
  BY DEF Remove, Bury, SendNext, Finish, TypeOK
<1>3. ASSUME NEW j \in store', j \in todo[b]
      PROVE  j \in todo'[b] \/ j \in stalled'
  <2>1. j \in todo[b] \ {i} /\ j \in store
    BY <1>1, <1>3
  <2>2. CASE Remove(b)
    BY <2>1, <2>2 DEF Remove, SendNext, TypeOK
  <2>3. CASE Bury(b)
    BY <2>1, <2>3 DEF Bury
  <2> QED BY <2>2, <2>3
<1>4. ASSUME NEW j \in store', InHand(j) PROVE InHand(j)' \/ j \in stalled'
  BY <1>1, <1>2, <1>3, <1>4 DEF InHand
<1>5. ASSUME NEW j \in store', TakenUp(j) PROVE TakenUp(j)'
  BY <1>1, <1>2, <1>5 DEF TakenUp
<1> QED BY <1>1, <1>4, <1>5 DEF LeftInv

LEMMA AddLeaves ==
  ASSUME TypeOK, LeftInv, NEW b \in Tabs, AddRecord(b)
  PROVE  LeftInv'
<1>1. /\ store' = store \cup {next} /\ online' = online /\ todo' = todo
      /\ stalled \subseteq stalled'
      /\ pc[b] # "idle" \/ (online /\ stored = None) => next \in stalled'
  BY DEF AddRecord, WakeIn
<1>2. \A c \in Tabs :
        \/ pc'[c] = pc[c]
        \/ c = b /\ pc'[c] = "reading" /\ online
  BY DEF AddRecord, WakeIn
<1>3. pc[b] = "idle" /\ online /\ stored # None => pc'[b] = "reading"
  BY DEF AddRecord, WakeIn
<1>4. \A i \in store : InHand(i) => InHand(i)'
  BY <1>1, <1>2 DEF InHand
<1>5. \A i \in store' : TakenUp(i) => TakenUp(i)'
  BY <1>1, <1>2 DEF TakenUp
<1>6. ASSUME NEW i, i = next
      PROVE  InHand(i)' \/ i \in stalled' \/ TakenUp(i)'
  <2>1. CASE pc[b] # "idle" \/ (online /\ stored = None)
    BY <1>1, <1>6, <2>1
  <2>2. CASE pc[b] = "idle" /\ online /\ stored # None
    BY <1>3, <2>2 DEF InHand
  <2>3. CASE pc[b] = "idle" /\ ~online
    BY <1>1, <1>2, <2>3 DEF TakenUp
  <2> QED BY <2>1, <2>2, <2>3
<1>7. ASSUME NEW i \in store
      PROVE  InHand(i)' \/ i \in stalled' \/ TakenUp(i)'
  BY <1>1, <1>4, <1>5, <1>7 DEF LeftInv
<1> QED BY <1>1, <1>6, <1>7 DEF LeftInv

LEMMA ReadLeaves ==
  ASSUME TypeOK, NEW b \in Tabs, ReadQueue(b)
  PROVE  LeftInv'
<1>1. store' = store /\ SendNext(b, store, attempts)
  BY DEF ReadQueue, queue
<1>2. store = {} \/ todo'[b] = store
  BY <1>1 DEF SendNext, TypeOK
<1> QED BY <1>1, <1>2 DEF LeftInv, InHand

LEMMA ReloadLeaves ==
  ASSUME TypeOK, NEW b \in Tabs, Reload(b)
  PROVE  LeftInv'
<1>1. CASE stored = None
  BY <1>1 DEF Reload, LeftInv, queue
<1>2. CASE stored # None /\ online
  BY <1>2 DEF Reload, LeftInv, InHand, TypeOK
<1>3. CASE stored # None /\ ~online
  BY <1>3 DEF Reload, LeftInv, TakenUp, TypeOK
<1> QED BY <1>1, <1>2, <1>3 DEF TypeOK

LEMMA OnlineLeaves ==
  ASSUME TypeOK, LeftInv, GoOnline
  PROVE  LeftInv'
<1>1. CASE stored = None
  BY <1>1 DEF GoOnline, LeftInv, queue
<1>2. CASE stored # None
  <2>1. /\ UNCHANGED <<store, todo, stalled>>
        /\ \A b \in Tabs : IF pc[b] = "idle" THEN pc'[b] = "reading"
                                             ELSE pc'[b] = pc[b]
    BY <1>2 DEF GoOnline, WakeIn, queue
  <2> QED BY <2>1 DEF LeftInv, InHand, TakenUp
<1> QED BY <1>1, <1>2

\* Whatever the tabs, the network and the people do, a record waits on a
\* device that is online only for one of the causes LeftForCause names (the
\* triggers of initBackgroundSync, the first returns and the breaks of
\* flushQueue).
THEOREM LeftCorrect == Spec => []LeftForCause
<1>1. Init => LeftInv
  BY DEF Init, LeftInv
<1>2. Inv /\ LeftInv /\ [Next]_vars => LeftInv'
  <2> SUFFICES ASSUME TypeOK, LeftInv, [Next]_vars PROVE LeftInv'
    BY DEF Inv
  <2>1. ASSUME NEW b \in Tabs, Unauthorized(b) \/ NetworkError(b)
                                \/ StorageError(b) \/ Update(b)
        PROVE  LeftInv'
    BY <2>1, GiveUpLeaves
    DEF Unauthorized, NetworkError, StorageError, Update, queue
  <2>2. ASSUME NEW b \in Tabs,
               ServerError(b) \/ \E v \in {"ok", "rejected", "foreign"} :
                                   FinalAnswer(b, v)
        PROVE  LeftInv'
    <3>1. /\ UNCHANGED <<store, todo, stalled, online>> /\ pc[b] = "sending"
          /\ pc'[b] # "idle" /\ \A c \in Tabs \ {b} : pc'[c] = pc[c]
      BY <2>2 DEF ServerError, FinalAnswer, queue, TypeOK
    <3> QED BY <3>1, LeftStays
  <2>3. ASSUME NEW b \in Tabs, FlushStep(b) PROVE LeftInv'
    BY <2>1, <2>2, <2>3, ReadLeaves, RemoveLeaves DEF FlushStep
  <2>4. CASE /\ UNCHANGED <<pc, todo, store, stalled>>
             /\ online' => online
    BY <2>4, LeftStays
  <2>5. ASSUME NEW b \in Tabs, Tab(b) PROVE LeftInv'
    BY <2>3, <2>4, <2>5, AddLeaves, ReloadLeaves
    DEF Tab, Perform, AddFails, queue, flush
  <2>6. CASE UNCHANGED vars
    BY <2>4, <2>6 DEF vars, queue, flush
  <2> QED
    BY <2>4, <2>5, <2>6, OnlineLeaves
    DEF Next, GoOffline, DropCookie, Logout, Expire, Login, queue, flush
<1>3. LeftInv => LeftForCause
  BY DEF LeftInv, LeftForCause, TakenUp
<1> QED BY <1>1, <1>2, <1>3, Invariant, PTL DEF Spec
=============================================================================
