------------------------ MODULE Administration_proof ------------------------
(***************************************************************************)
(* Proofs about Administration, for any rows, requests, codes, addresses   *)
(* and number of runs of the nightly job.                                  *)
(***************************************************************************)
EXTENDS Administration, TLAPS

\* What a request in flight asks for.
Called ==
  \A r \in Requests : pc[r] \in Waiting =>
    /\ call[r].op # "get"
    /\ call[r].op = "create" => call[r].id = r
    /\ call[r].key # None => call[r].key \in KeysOf(call[r].table)

\* The row a request may still create is nobody's yet.
Fresh ==
  \A r \in Requests : pc[r] \in {"idle"} \cup Waiting =>
    table[r] = "none" /\ r \notin job.zones

\* What the checks have established holds, or there is an excuse.
Explained ==
  \A r \in Requests : pc[r] \in Waiting =>
    \/ r \in excused
    \/ /\ RowThere(call[r]) /\ RefThere(call[r])
       /\ pc[r] = "write" => KeyFree(call[r])

Backed ==
  \A r \in Requests : pc[r] = "200" /\ call[r].op # "get" => r \in wrote

\* The part of the loop that is behind the job.
Covered ==
  /\ job.state = "loop" => job.run > 0
  /\ job.state = "done" => job.todo = {}
  /\ job.state \in {"loop", "done"} =>
       \A z \in job.zones \ job.todo :
         table[z] = "zone" => [zone |-> z, run |-> job.run] \in tasks \/ z \in skipped

Inv ==
  /\ TypeOK /\ ReferencesHold /\ Called /\ Fresh /\ Explained
  /\ ServerErrorExplained /\ Backed /\ AuditBacked /\ Covered

\* A row's name is neither None nor Gone, and no table is called "none".
LEMMA Names ==
  /\ None \notin Ids /\ Gone \notin Ids /\ None # Gone
  /\ None \notin Keys /\ "none" \notin Tables
  /\ \A k \in Tables : KeysOf(k) \subseteq Keys /\ Above(k) # "none"
  /\ \A k \in Tables : Above(k) \in Tables \cup {None}
  /\ None \notin Tables \cup {"none"} /\ Gone \notin Tables \cup {"none"}
  /\ Requests \subseteq Ids
  BY RowsAssumption DEF Ids, Tables, KeysOf, Above, Keys

\* The initial state satisfies the invariant.
LEMMA InitInv == Init => Inv
  <1> SUFFICES ASSUME Init PROVE Inv
    OBVIOUS
  <1> USE DEF Init
  <1>1. TypeOK
    <2>1. SeedTable \in [Ids -> Tables \cup {"none"}]
      BY RowsAssumption DEF SeedTable, Ids
    <2>2. SeedUp \in [Ids -> Ids \cup {None}]
      BY RowsAssumption DEF SeedUp, RowsConsistent
    <2>3. SeedKey \in [Ids -> Keys \cup {None}]
      <3>1. \A i \in Ids : SeedKey[i] \in Keys \cup {None}
        BY RowsAssumption DEF RowsConsistent, KeysOf, Keys
      <3> QED BY <3>1 DEF SeedKey
    <2>4. job.run < MaxRuns
      BY RunsAssumption
    <2> QED BY <2>1, <2>2, <2>3, <2>4, RunsAssumption, CallAssumption DEF TypeOK, Waiting, JobStates
  <1>2. ReferencesHold
    BY RowsAssumption DEF ReferencesHold
  <1>3. Fresh
    BY RowsAssumption DEF Fresh, SeedTable, Ids
  <1> QED BY <1>1, <1>2, <1>3
      DEF Inv, Called, Explained, ServerErrorExplained, Backed, AuditBacked, Covered, Waiting

----------------------------------------------------------------------------
\* What every endpoint hands to its first step.
Sound(r, c, found, then) ==
  /\ c \in Calls /\ c.op # "get" /\ then \in Waiting
  /\ c.op = "create" => c.id = r
  /\ c.key # None => c.key \in KeysOf(c.table)
  /\ found => /\ RowThere(c)
              /\ RefThere(c) \/ Unchecked(c)
              /\ then = "write" => KeyFree(c)

Change(r) ==
  \/ CreateBuilding(r) \/ UpdateBuilding(r) \/ DeleteBuilding(r)
  \/ CreateFloor(r) \/ UpdateFloor(r) \/ DeleteFloor(r)
  \/ CreateZone(r) \/ UpdateZone(r) \/ DeleteZone(r)
  \/ CreateUser(r) \/ UpdateUser(r) \/ RemoveUser(r)

\* Every endpoint that changes rows is a Receive of a sound call: the
\* controllers' routes against the services' checks.
LEMMA Begins ==
  ASSUME Inv, NEW r \in Requests, Change(r)
  PROVE  \E c, found, then : Receive(r, c, found, then) /\ Sound(r, c, found, then)
  <1> USE Names DEF Calls, Call, Tables, Waiting, RowThere, RefThere, KeyFree, Found,
                    Named, Unchecked, Above, KeysOf, Keys
  <1>1. CASE CreateBuilding(r)
    <2>1. Sound(r, Call("create", "building", r, None, None), TRUE, "write")
      BY DEF Sound
    <2> QED BY <1>1, <2>1 DEF CreateBuilding
  <1>2. CASE UpdateBuilding(r)
    <2>1. PICK i \in Named("building") :
            Receive(r, Call("update", "building", i, None, None), Found("building", i), "write")
      BY <1>2 DEF UpdateBuilding
    <2>2. Sound(r, Call("update", "building", i, None, None), Found("building", i), "write")
      BY DEF Sound
    <2> QED BY <2>1, <2>2
  <1>3. CASE DeleteBuilding(r)
    <2>1. PICK i \in Named("building") :
            Receive(r, Call("delete", "building", i, None, None), Found("building", i), "write")
      BY <1>3 DEF DeleteBuilding
    <2>2. Sound(r, Call("delete", "building", i, None, None), Found("building", i), "write")
      BY DEF Sound
    <2> QED BY <2>1, <2>2
  <1>4. CASE CreateFloor(r)
    <2>1. PICK b \in Named("building") \cup {None} :
            Receive(r, Call("create", "floor", r, b, None), b = None \/ Found("building", b), "write")
      BY <1>4 DEF CreateFloor
    <2>2. Sound(r, Call("create", "floor", r, b, None), b = None \/ Found("building", b), "write")
      BY DEF Sound
    <2> QED BY <2>1, <2>2
  <1>5. CASE UpdateFloor(r)
    <2>1. PICK i \in Named("floor"), b \in Named("building") \cup {None} :
            Receive(r, Call("update", "floor", i, b, None), Found("floor", i), "write")
      BY <1>5 DEF UpdateFloor
    <2>2. Sound(r, Call("update", "floor", i, b, None), Found("floor", i), "write")
      BY DEF Sound
    <2> QED BY <2>1, <2>2
  <1>6. CASE DeleteFloor(r)
    <2>1. PICK i \in Named("floor") :
            Receive(r, Call("delete", "floor", i, None, None), Found("floor", i), "write")
      BY <1>6 DEF DeleteFloor
    <2>2. Sound(r, Call("delete", "floor", i, None, None), Found("floor", i), "write")
      BY DEF Sound
    <2> QED BY <2>1, <2>2
  <1>7. CASE CreateZone(r)
    <2>1. PICK f \in Named("floor") \cup {None}, c \in Codes :
            Receive(r, Call("create", "zone", r, f, c), f = None \/ Found("floor", f), "key")
      BY <1>7 DEF CreateZone
    <2>2. Sound(r, Call("create", "zone", r, f, c), f = None \/ Found("floor", f), "key")
      BY DEF Sound
    <2> QED BY <2>1, <2>2
  <1>8. CASE UpdateZone(r)
    <2>1. PICK i \in Named("zone"), f \in Named("floor") \cup {None}, c \in Codes \cup {None} :
            Receive(r, Call("update", "zone", i, f, c), Found("zone", i), ZoneNext(c))
      BY <1>8 DEF UpdateZone
    <2>2. Sound(r, Call("update", "zone", i, f, c), Found("zone", i), ZoneNext(c))
      BY DEF Sound, ZoneNext
    <2> QED BY <2>1, <2>2
  <1>9. CASE DeleteZone(r)
    <2>1. PICK i \in Named("zone") :
            Receive(r, Call("delete", "zone", i, None, None), Found("zone", i), "write")
      BY <1>9 DEF DeleteZone
    <2>2. Sound(r, Call("delete", "zone", i, None, None), Found("zone", i), "write")
      BY DEF Sound
    <2> QED BY <2>1, <2>2
  <1>10. CASE CreateUser(r)
    <2>1. PICK e \in Emails :
            Receive(r, Call("create", "user", r, None, e), TRUE, "key")
      BY <1>10 DEF CreateUser
    <2>2. Sound(r, Call("create", "user", r, None, e), TRUE, "key")
      BY DEF Sound
    <2> QED BY <2>1, <2>2
  <1>11. CASE UpdateUser(r)
    <2>1. PICK i \in Named("user"), e \in Emails \cup {None} :
            Receive(r, Call("update", "user", i, None, e), Found("user", i), AddressNext(i, e))
      BY <1>11 DEF UpdateUser
    <2>2. ASSUME i \in Ids, key[i] = e, e # None
          PROVE  \A j \in Ids : key[j] = e => j = i
      BY <2>2 DEF Inv, ReferencesHold, RowsConsistent
    <2>3. Sound(r, Call("update", "user", i, None, e), Found("user", i), AddressNext(i, e))
      BY <2>2 DEF Sound, AddressNext
    <2> QED BY <2>1, <2>3
  <1>12. CASE RemoveUser(r)
    <2>1. PICK i \in Named("user") :
            Receive(r, Call("delete", "user", i, None, None), Found("user", i), "write")
      BY <1>12 DEF RemoveUser
    <2>2. Sound(r, Call("delete", "user", i, None, None), Found("user", i), "write")
      BY DEF Sound
    <2> QED BY <2>1, <2>2
  <1> QED BY <1>1, <1>2, <1>3, <1>4, <1>5, <1>6, <1>7, <1>8, <1>9, <1>10, <1>11, <1>12
          DEF Change

\* A request that waits is of the right type.
LEMMA ReceiveInv ==
  ASSUME Inv, NEW r \in Requests, NEW c, NEW found, NEW then,
         Receive(r, c, found, then), Sound(r, c, found, then)
  PROVE  Inv'
  <1> USE CallAssumption DEF Receive, Answer, Sound, Inv, Waiting, Answers
  <1>1. CASE found
    <2>1. TypeOK'
      BY <1>1 DEF TypeOK, rows
    <2>2. ReferencesHold'
      BY <1>1 DEF ReferencesHold, RowsConsistent, rows
    <2>3. Called' /\ Fresh' /\ Backed' /\ AuditBacked' /\ ServerErrorExplained'
      BY <1>1 DEF TypeOK, Called, Fresh, Backed, AuditBacked, ServerErrorExplained, rows
    <2>4. Explained'
      BY <1>1 DEF TypeOK, Explained, RowThere, RefThere, KeyFree, Found, rows
    <2>5. Covered'
      BY <1>1 DEF Covered, rows
    <2> QED BY <2>1, <2>2, <2>3, <2>4, <2>5
  <1>2. CASE ~found
    <2>1. TypeOK'
      BY <1>2 DEF TypeOK, rows
    <2>2. ReferencesHold'
      BY <1>2 DEF ReferencesHold, RowsConsistent, rows
    <2>3. Called' /\ Fresh' /\ Backed' /\ AuditBacked' /\ ServerErrorExplained'
      BY <1>2 DEF TypeOK, Called, Fresh, Backed, AuditBacked, ServerErrorExplained, rows
    <2>4. Explained'
      BY <1>2 DEF TypeOK, Explained, RowThere, RefThere, KeyFree, Found, rows
    <2>5. Covered'
      BY <1>2 DEF Covered, rows
    <2> QED BY <2>1, <2>2, <2>3, <2>4, <2>5
  <1> QED BY <1>1, <1>2

\* The steps of a handler that write no row.
Quiet(r) ==
  FindAll(r) \/ Forbidden(r) \/ CheckKey(r) \/ Refused(r) \/ DbError(r) \/ AuditEntry(r)

LEMMA QuietInv ==
  ASSUME Inv, NEW r \in Requests, Quiet(r)
  PROVE  Inv'
  <1> USE CallAssumption DEF Inv, Waiting, Answers, Answer, history, rows
  <1>1. CASE FindAll(r)
    <2>1. TypeOK'
      BY <1>1, Names DEF FindAll, Call, TypeOK, Calls, Tables
    <2>2. ReferencesHold' /\ Covered'
      BY <1>1 DEF FindAll, ReferencesHold, RowsConsistent, Covered
    <2>3. Called' /\ Fresh'
      BY <1>1 DEF FindAll, Called, Fresh, TypeOK
    <2>4. Backed' /\ AuditBacked'
      BY <1>1 DEF FindAll, Call, Calls, Backed, AuditBacked, TypeOK
    <2>5. Explained' /\ ServerErrorExplained'
      BY <1>1 DEF FindAll, Call, Calls, Explained, ServerErrorExplained, TypeOK, RowThere, RefThere, KeyFree, Found
    <2> QED BY <2>1, <2>2, <2>3, <2>4, <2>5
  <1>2. CASE Forbidden(r)
    <2>1. TypeOK'
      BY <1>2 DEF Forbidden, TypeOK
    <2>2. ReferencesHold' /\ Covered'
      BY <1>2 DEF Forbidden, ReferencesHold, RowsConsistent, Covered
    <2>3. Called' /\ Fresh'
      BY <1>2 DEF Forbidden, Called, Fresh, TypeOK
    <2>4. Backed' /\ AuditBacked'
      BY <1>2 DEF Forbidden, Backed, AuditBacked, TypeOK
    <2>5. Explained' /\ ServerErrorExplained'
      BY <1>2 DEF Forbidden, Explained, ServerErrorExplained, TypeOK, RowThere, RefThere, KeyFree, Found
    <2> QED BY <2>1, <2>2, <2>3, <2>4, <2>5
  <1>3. CASE CheckKey(r)
    <2>1. TypeOK'
      BY <1>3 DEF CheckKey, Duplicate, TypeOK
    <2>2. ReferencesHold' /\ Covered'
      BY <1>3 DEF CheckKey, ReferencesHold, RowsConsistent, Covered
    <2>3. Called' /\ Fresh'
      BY <1>3 DEF CheckKey, Called, Fresh, TypeOK
    <2>4. Backed' /\ AuditBacked'
      BY <1>3 DEF CheckKey, Duplicate, Backed, AuditBacked, TypeOK
    <2>5. Explained' /\ ServerErrorExplained'
      BY <1>3 DEF CheckKey, Duplicate, Explained, ServerErrorExplained, TypeOK, RowThere, RefThere, KeyFree, Found
    <2> QED BY <2>1, <2>2, <2>3, <2>4, <2>5
  <1>4. CASE Refused(r)
    <2>1. TypeOK'
      BY <1>4 DEF Refused, Writable, TypeOK
    <2>2. ReferencesHold' /\ Covered'
      BY <1>4 DEF Refused, ReferencesHold, RowsConsistent, Covered
    <2>3. Called' /\ Fresh'
      BY <1>4 DEF Refused, Called, Fresh, TypeOK
    <2>4. Backed' /\ AuditBacked'
      BY <1>4 DEF Refused, Writable, Backed, AuditBacked, TypeOK
    <2>5. Explained' /\ ServerErrorExplained'
      BY <1>4 DEF Refused, Writable, Explained, ServerErrorExplained, TypeOK, RowThere, RefThere, KeyFree, Found
    <2> QED BY <2>1, <2>2, <2>3, <2>4, <2>5
  <1>5. CASE DbError(r)
    <2>1. TypeOK'
      BY <1>5 DEF DbError, TypeOK
    <2>2. ReferencesHold' /\ Covered'
      BY <1>5 DEF DbError, ReferencesHold, RowsConsistent, Covered
    <2>3. Called' /\ Fresh'
      BY <1>5 DEF DbError, Called, Fresh, TypeOK
    <2>4. Backed' /\ AuditBacked'
      BY <1>5 DEF DbError, Backed, AuditBacked, TypeOK
    <2>5. Explained' /\ ServerErrorExplained'
      BY <1>5 DEF DbError, Explained, ServerErrorExplained, TypeOK, RowThere, RefThere, KeyFree, Found
    <2> QED BY <2>1, <2>2, <2>3, <2>4, <2>5
  <1>6. CASE AuditEntry(r)
    <2>1. TypeOK'
      BY <1>6 DEF AuditEntry, MutatingMethod, TypeOK
    <2>2. ReferencesHold' /\ Covered'
      BY <1>6 DEF AuditEntry, ReferencesHold, RowsConsistent, Covered
    <2>3. Called' /\ Fresh'
      BY <1>6 DEF AuditEntry, Called, Fresh, TypeOK
    <2>4. Backed' /\ AuditBacked'
      BY <1>6 DEF AuditEntry, MutatingMethod, Backed, AuditBacked, TypeOK
    <2>5. Explained' /\ ServerErrorExplained'
      BY <1>6 DEF AuditEntry, MutatingMethod, Explained, ServerErrorExplained, TypeOK, RowThere, RefThere, KeyFree, Found
    <2> QED BY <2>1, <2>2, <2>3, <2>4, <2>5
  <1> QED BY <1>1, <1>2, <1>3, <1>4, <1>5, <1>6 DEF Quiet

----------------------------------------------------------------------------
\* What the constraints leave of a committed call, and where its row was.
LEMMA Committed ==
  ASSUME Inv, NEW r \in Requests, Commit(r)
  PROVE  LET c == call[r]
         IN  /\ c \in Calls /\ c.id \in Ids /\ c.up \in Ids \cup {None}
             /\ c.key \in KeysOf(c.table) \cup {None}
             /\ c.op = "create" => c.id = r /\ table[c.id] = "none" /\ c.id \notin job.zones
             /\ c.op # "create" => table[c.id] = c.table
             /\ c.up # None => table[c.up] = Above(c.table)
             /\ \A j \in Ids : key[j] = c.key /\ c.key # None => j = c.id
  <1>1. call[r] \in Calls
    BY DEF Commit, Inv, TypeOK, Waiting
  <1>2. call[r].op = "create" => call[r].id = r /\ table[r] = "none" /\ r \notin job.zones
    BY DEF Commit, Inv, Called, Fresh, Waiting
  <1>3. call[r].key \in KeysOf(call[r].table) \cup {None}
    BY DEF Commit, Inv, Called, Waiting
  <1>4. call[r].id \in Ids
    BY <1>1, <1>2, Names DEF Commit, Writable, RowThere, Found, Calls
  <1> QED BY <1>1, <1>2, <1>3, <1>4, Names
          DEF Commit, Writable, RowThere, RefThere, KeyFree, Found, Calls

\* The row of a request that has not written is still nobody's after an
\* insert of another request, an update or a deletion.
LEMMA CommitRows ==
  ASSUME Inv, NEW r \in Requests, Commit(r)
  PROVE  /\ table' \in [Ids -> Tables \cup {"none"}]
         /\ up' \in [Ids -> Ids \cup {None}]
         /\ key' \in [Ids -> Keys \cup {None}]
         /\ tasks' \subseteq tasks
         /\ \A i \in Ids : table'[i] # table[i] =>
              \/ table'[i] = "none"
              \/ i = r /\ r \notin job.zones
         /\ \A t \in tasks \ tasks' : table'[t.zone] = "none"
         /\ ReferencesHold'
  <1> DEFINE c == call[r]
             gone == WithRow(table, up, c.id)
  <1>c. /\ c \in Calls /\ c.id \in Ids /\ c.up \in Ids \cup {None}
        /\ c.key \in KeysOf(c.table) \cup {None}
        /\ c.op = "create" => c.id = r /\ table[c.id] = "none" /\ c.id \notin job.zones
        /\ c.op # "create" => table[c.id] = c.table
        /\ c.up # None => table[c.up] = Above(c.table)
        /\ \A j \in Ids : key[j] = c.key /\ c.key # None => j = c.id
    BY Committed
  <1>k. c.table \in Tables /\ c.key \in Keys \cup {None}
    BY <1>c, Names DEF Calls
  <1>t. /\ table \in [Ids -> Tables \cup {"none"}]
        /\ up \in [Ids -> Ids \cup {None}]
        /\ key \in [Ids -> Keys \cup {None}]
        /\ tasks \subseteq [zone : Ids, run : 1..MaxRuns]
    BY DEF Inv, TypeOK
  <1>r. RowsConsistent(table, up, key) /\ \A t \in tasks : table[t.zone] = "zone"
    BY DEF Inv, ReferencesHold
  <1> HIDE DEF c, gone
  <1>1. CASE c.op = "create" /\ Insert(c)
    <2>1. /\ table' \in [Ids -> Tables \cup {"none"}]
          /\ up' \in [Ids -> Ids \cup {None}]
          /\ key' \in [Ids -> Keys \cup {None}]
          /\ tasks' = tasks
      BY <1>1, <1>c, <1>k, <1>t DEF Insert
    <2>2. \A i \in Ids : table[i] # "none" => table'[i] = table[i]
      BY <1>1, <1>c, <1>t DEF Insert
    <2>3. \A i \in Ids : up'[i] # None => up'[i] \in Ids /\ table'[up'[i]] = Above(table'[i])
      <3> TAKE i \in Ids
      <3>1. CASE i = c.id
        BY <3>1, <2>2, <1>1, <1>c, <1>k, <1>t, Names DEF Insert
      <3>2. CASE i # c.id
        <4>1. up'[i] = up[i] /\ table'[i] = table[i]
          BY <3>2, <1>1, <1>c, <1>t DEF Insert
        <4>2. up[i] # None => Above(table[i]) # "none"
          BY <1>r, <1>t, Names DEF RowsConsistent, Above
        <4> QED BY <4>1, <4>2, <2>2, <1>r DEF RowsConsistent
      <3> QED BY <3>1, <3>2
    <2>4. \A i \in Ids : key'[i] # None => key'[i] \in KeysOf(table'[i])
      BY <1>1, <1>c, <1>k, <1>t, <1>r DEF Insert, RowsConsistent
    <2>5. \A i, j \in Ids : key'[i] = key'[j] /\ key'[i] # None => i = j
      BY <1>1, <1>c, <1>k, <1>t, <1>r DEF Insert, RowsConsistent
    <2>6. \A t \in tasks : t.zone \in Ids /\ table'[t.zone] = "zone"
      BY <1>t, <1>r, <2>2
    <2>7. \A i \in Ids : table'[i] # table[i] => i = r /\ r \notin job.zones
      BY <1>1, <1>c, <1>t DEF Insert
    <2> QED BY <2>1, <2>3, <2>4, <2>5, <2>6, <2>7 DEF ReferencesHold, RowsConsistent
  <1>2. CASE c.op = "update" /\ Update(c)
    <2>1. /\ table' = table /\ tasks' = tasks
          /\ up' \in [Ids -> Ids \cup {None}]
          /\ key' \in [Ids -> Keys \cup {None}]
      BY <1>2, <1>c, <1>k, <1>t DEF Update
    <2>2. \A i \in Ids : up'[i] # None => up'[i] \in Ids /\ table[up'[i]] = Above(table[i])
      BY <1>2, <1>c, <1>k, <1>t, <1>r DEF Update, RowsConsistent
    <2>3. \A i \in Ids : key'[i] # None => key'[i] \in KeysOf(table[i])
      BY <1>2, <1>c, <1>k, <1>t, <1>r DEF Update, RowsConsistent
    <2>4. \A i, j \in Ids : key'[i] = key'[j] /\ key'[i] # None => i = j
      BY <1>2, <1>c, <1>k, <1>t, <1>r DEF Update, RowsConsistent
    <2> QED BY <2>1, <2>2, <2>3, <2>4, <1>r, <1>t DEF ReferencesHold, RowsConsistent
  <1>3. CASE c.op = "delete" /\ Delete(c)
    <2>1. /\ table' = [i \in Ids |-> IF i \in gone THEN "none" ELSE table[i]]
          /\ up' = [i \in Ids |-> IF i \in gone \/ up[i] \in gone THEN None ELSE up[i]]
          /\ key' = [i \in Ids |-> IF i \in gone THEN None ELSE key[i]]
          /\ tasks' = {t \in tasks : t.zone \notin gone}
      BY <1>3 DEF Delete, gone, Unlinked
    <2>2. /\ table' \in [Ids -> Tables \cup {"none"}]
          /\ up' \in [Ids -> Ids \cup {None}]
          /\ key' \in [Ids -> Keys \cup {None}]
          /\ tasks' \subseteq tasks
      BY <2>1, <1>t
    <2>3. RowsConsistent(table', up', key')
      BY <2>1, <1>r, <1>t DEF RowsConsistent
    <2>4. \A t \in tasks' : table'[t.zone] = "zone"
      BY <2>1, <1>r, <1>t
    <2>5. \A i \in Ids : table'[i] # table[i] => table'[i] = "none"
      BY <2>1, <1>t
    <2>6. \A t \in tasks \ tasks' : table'[t.zone] = "none"
      BY <2>1, <1>t
    <2> QED BY <2>2, <2>3, <2>4, <2>5, <2>6 DEF ReferencesHold
  <1> QED BY <1>1, <1>2, <1>3 DEF Commit, c

LEMMA CommitInv ==
  ASSUME Inv, NEW r \in Requests, Commit(r)
  PROVE  Inv'
  <1>1. /\ table' \in [Ids -> Tables \cup {"none"}]
        /\ up' \in [Ids -> Ids \cup {None}]
        /\ key' \in [Ids -> Keys \cup {None}]
        /\ tasks' \subseteq tasks
        /\ \A i \in Ids : table'[i] # table[i] =>
             \/ table'[i] = "none"
             \/ i = r /\ r \notin job.zones
        /\ \A t \in tasks \ tasks' : table'[t.zone] = "none"
        /\ ReferencesHold'
    BY CommitRows
  <1> USE DEF Inv, Commit, Waiting
  <1>2. TypeOK'
    BY <1>1, CallAssumption DEF TypeOK, Answers
  <1>3. Called' /\ Backed' /\ AuditBacked' /\ ServerErrorExplained'
    BY DEF TypeOK, Called, Backed, AuditBacked, ServerErrorExplained
  <1>4. Fresh'
    BY <1>1, Names DEF TypeOK, Fresh
  <1>5. Explained'
    BY DEF TypeOK, Explained
  <1>6. Covered'
    BY <1>1 DEF TypeOK, Covered
  <1> QED BY <1>1, <1>2, <1>3, <1>4, <1>5, <1>6

LEMMA CrashInv ==
  ASSUME Inv, Crash
  PROVE  Inv'
  <1> USE CallAssumption DEF Crash, Inv, Waiting, history, rows
  <1>1. TypeOK'
    BY DEF TypeOK, Answers, JobStates
  <1>2. ReferencesHold' /\ Called' /\ Backed' /\ AuditBacked'
    BY DEF TypeOK, ReferencesHold, RowsConsistent, Called, Backed, AuditBacked
  <1>3. Explained' /\ ServerErrorExplained'
    BY DEF TypeOK, Explained, ServerErrorExplained
  <1>4. Fresh' /\ Covered'
    BY DEF TypeOK, Fresh, Covered
  <1> QED BY <1>1, <1>2, <1>3, <1>4

\* A zone whose insert is behind the job has its task or is not there.
LEMMA NightlyInv ==
  ASSUME Inv, Nightly
  PROVE  Inv'
  <1> USE DEF Inv, history, rows
  <1>1. Called' /\ Backed' /\ AuditBacked' /\ Explained' /\ ServerErrorExplained'
    BY DEF Nightly, JobStart, JobReadFails, JobEnd, JobCreate, JobCreateFails, Called,
       Backed, AuditBacked, Explained, ServerErrorExplained, RowThere, RefThere, KeyFree, Found
  <1>2. CASE JobStart
    <2>1. TypeOK'
      BY <1>2, RunsAssumption DEF JobStart, TypeOK, JobStates
    <2>2. ReferencesHold' /\ Fresh' /\ Covered'
      BY <1>2, RunsAssumption DEF JobStart, TypeOK, ReferencesHold, RowsConsistent, Fresh, Covered
    <2> QED BY <1>1, <2>1, <2>2
  <1>3. CASE JobReadFails
    <2>1. TypeOK'
      <3>1. job.run < MaxRuns /\ job.run \in Nat
        BY <1>3, RunsAssumption DEF JobReadFails, TypeOK
      <3>2. job.run + 1 \in 0..MaxRuns
        BY <3>1, RunsAssumption
      <3> QED BY <1>3, <3>2 DEF JobReadFails, TypeOK, JobStates
    <2>2. ReferencesHold' /\ Fresh' /\ Covered'
      BY <1>3 DEF JobReadFails, TypeOK, ReferencesHold, RowsConsistent, Fresh, Covered
    <2> QED BY <1>1, <2>1, <2>2
  <1>4. CASE JobEnd
    <2>1. TypeOK'
      BY <1>4 DEF JobEnd, TypeOK, JobStates
    <2>2. ReferencesHold' /\ Fresh' /\ Covered'
      BY <1>4 DEF JobEnd, TypeOK, ReferencesHold, RowsConsistent, Fresh, Covered
    <2> QED BY <1>1, <2>1, <2>2
  <1>5. ASSUME NEW z \in Ids, JobCreate(z) PROVE Inv'
    <2>1. job.run \in 1..MaxRuns
      BY <1>5, RunsAssumption DEF JobCreate, TypeOK, Covered
    <2>2. TypeOK'
      BY <1>5, <2>1 DEF JobCreate, Remaining, CaughtRest, TypeOK
    <2>3. ReferencesHold' /\ Fresh'
      BY <1>5 DEF JobCreate, Found, ReferencesHold, RowsConsistent, Fresh, TypeOK
    <2>4. Covered'
      BY <1>5 DEF JobCreate, Found, Remaining, CaughtRest, TypeOK, Covered
    <2> QED BY <1>1, <2>2, <2>3, <2>4
  <1>6. ASSUME NEW z \in Ids, JobCreateFails(z) PROVE Inv'
    <2>1. TypeOK'
      BY <1>6 DEF JobCreateFails, Remaining, CaughtRest, TypeOK
    <2>2. ReferencesHold' /\ Fresh'
      BY <1>6 DEF JobCreateFails, ReferencesHold, RowsConsistent, Fresh, TypeOK
    <2>3. Covered'
      BY <1>6 DEF JobCreateFails, Remaining, CaughtRest, TypeOK, Covered
    <2> QED BY <1>1, <2>1, <2>2, <2>3
  <1> QED BY <1>2, <1>3, <1>4, <1>5, <1>6 DEF Nightly

LEMMA StutterInv == Inv /\ UNCHANGED vars => Inv'
  BY DEF vars, rows, history, Inv, TypeOK, ReferencesHold, RowsConsistent, Called, Fresh,
     Explained, ServerErrorExplained, Backed, AuditBacked, Covered, RowThere, RefThere,
     KeyFree, Found

LEMMA NextInv == Inv /\ [Next]_vars => Inv'
  <1> SUFFICES ASSUME Inv, [Next]_vars PROVE Inv'
    OBVIOUS
  <1>1. ASSUME NEW r \in Requests, First(r) PROVE Inv'
    BY <1>1, Begins, ReceiveInv, QuietInv DEF First, Change, Quiet, Register
  <1>2. ASSUME NEW r \in Requests, Quiet(r) PROVE Inv'
    BY <1>2, QuietInv
  <1>3. ASSUME NEW r \in Requests, Commit(r) PROVE Inv'
    BY <1>3, CommitInv
  <1> QED BY <1>1, <1>2, <1>3, NightlyInv, CrashInv, StutterInv DEF Next, Quiet

\* The invariant holds in every reachable state of the endpoints and the job.
THEOREM Invariance == Spec => []Inv
  BY InitInv, NextInv, PTL DEF Spec

\* Every variable keeps its type.
THEOREM TypeCorrect == Spec => []TypeOK
  <1>1. Inv => TypeOK
    BY DEF Inv
  <1> QED BY <1>1, Invariance, PTL

\* Whatever overlaps, no row refers to a row that is gone, and no code or
\* address is given twice.
THEOREM ReferencesCorrect == Spec => []ReferencesHold
  <1>1. Inv => ReferencesHold
    BY DEF Inv
  <1> QED BY <1>1, Invariance, PTL

\* A server error has a committed write of somebody else, an unchecked place
\* or a database error behind it.
THEOREM ErrorsCorrect == Spec => []ServerErrorExplained
  <1>1. Inv => ServerErrorExplained
    BY DEF Inv
  <1> QED BY <1>1, Invariance, PTL

\* A finished nightly job has covered the zones that are still there.
THEOREM NightlyCorrect == Spec => []NightlyCovers
  <1>1. Inv => NightlyCovers
    BY DEF Inv, Covered, NightlyCovers
  <1> QED BY <1>1, Invariance, PTL

\* An audit entry stands for a committed change.
THEOREM AuditCorrect == Spec => []AuditBacked
  <1>1. Inv => AuditBacked
    BY DEF Inv
  <1> QED BY <1>1, Invariance, PTL

----------------------------------------------------------------------------
(* The refinement: a commit is one step of the registry, all else none. *)

Held == [k \in Keys |-> {i \in Ids : key[i] = k}]

\* The registry's constants are the administration's.
LEMMA SameRows ==
  /\ Reg!Ids = Ids /\ Reg!Keys = Keys /\ Reg!Tables = Tables
  /\ \A k : Reg!Above(k) = Above(k) /\ Reg!KeysOf(k) = KeysOf(k)
  BY DEF Reg!Ids, Ids, Reg!Keys, Keys, Reg!Tables, Tables, Reg!Above, Above, Reg!KeysOf, KeysOf

LEMMA InitReg == Init => Reg!Init
  <1>1. SeedTable = Reg!SeedTable /\ SeedUp = Reg!SeedUp /\ SeedKey = Reg!SeedKey
    BY SameRows DEF SeedTable, SeedUp, SeedKey, Reg!SeedTable, Reg!SeedUp, Reg!SeedKey
  <1> QED BY <1>1, SameRows DEF Init, Reg!Init

\* A request's write is one step of the registry on one row.
LEMMA CommitReg ==
  ASSUME Inv, NEW r \in Requests, Commit(r)
  PROVE  Reg!Next
  <1>0. PICK c : c = call[r]
    OBVIOUS
  <1>c. /\ c \in Calls /\ c.id \in Ids /\ c.up \in Ids \cup {None}
        /\ c.key \in KeysOf(c.table) \cup {None}
        /\ c.op = "create" => c.id = r /\ table[c.id] = "none" /\ c.id \notin job.zones
        /\ c.op # "create" => table[c.id] = c.table
        /\ c.up # None => table[c.up] = Above(c.table)
        /\ \A j \in Ids : key[j] = c.key /\ c.key # None => j = c.id
    BY <1>0, Committed
  <1>k. c.table \in Tables /\ c.key \in Keys \cup {None} /\ c.table # "none"
    BY <1>c, Names DEF Calls
  <1>t. /\ table \in [Ids -> Tables \cup {"none"}]
        /\ up \in [Ids -> Ids \cup {None}]
        /\ key \in [Ids -> Keys \cup {None}]
    BY DEF Inv, TypeOK
  <1>r. RowsConsistent(table, up, key)
    BY DEF Inv, ReferencesHold
  <1>h. c.key # None => Held[c.key] \subseteq {c.id}
    BY <1>c, <1>k DEF Held
  <1>1. CASE c.op = "create" /\ Insert(c)
    <2>1. Reg!Placed(c.table, c.up)
      BY <1>c, SameRows DEF Reg!Placed
    <2>2. Held' = [h \in Keys |-> IF h = c.key THEN {c.id} ELSE Held[h] \ {c.id}]
      <3>1. \A h \in Keys :
              {i \in Ids : key'[i] = h} = IF h = c.key THEN {c.id} ELSE Held[h] \ {c.id}
        BY <1>1, <1>c, <1>k, <1>t, <1>h, Names DEF Insert, Held
      <3> QED BY <3>1 DEF Held
    <2>3. Reg!Hold(c.id, c.key)
      BY <2>2, <1>h, SameRows DEF Reg!Hold, Held
    <2>4. Reg!Enter(c.id)
      BY <1>1, <2>1, <2>3, <1>c, <1>k, SameRows DEF Reg!Enter, Insert
    <2> QED BY <2>4, <1>c, SameRows DEF Reg!Next
  <1>2. CASE c.op = "update" /\ Update(c)
    <2>0. PICK u : u = IF c.up = None THEN up[c.id] ELSE c.up
      OBVIOUS
    <2>1. Reg!Placed(table[c.id], u) /\ u \in Ids \cup {None}
      BY <1>2, <2>0, <1>c, <1>t, <1>r, SameRows DEF Reg!Placed, RowsConsistent
    <2>2. up' = [up EXCEPT ![c.id] = u] /\ table' = table
      BY <1>2, <2>0, <1>c, <1>t DEF Update
    <2>3. CASE c.key = None
      <3>1. key' = key
        BY <2>3, <1>2, <1>c, <1>t DEF Update
      <3>2. Reg!Change(c.id)
        BY <1>2, <3>1, <2>1, <2>2, <1>c, <1>k, SameRows DEF Reg!Change
      <3> QED BY <3>2, <1>c, SameRows DEF Reg!Next
    <2>4. CASE c.key # None
      <3>1. \A h \in Keys :
              {i \in Ids : key'[i] = h} = IF h = c.key THEN {c.id} ELSE Held[h] \ {c.id}
        BY <2>4, <1>2, <1>c, <1>k, <1>t, <1>h, Names DEF Update, Held
      <3>2. Held' = [h \in Keys |-> IF h = c.key THEN {c.id} ELSE Held[h] \ {c.id}]
        BY <3>1 DEF Held
      <3>3. Reg!Hold(c.id, c.key)
        BY <3>2, <1>h, SameRows DEF Reg!Hold, Held
      <3>4. Reg!Change(c.id)
        BY <1>2, <3>3, <2>1, <2>2, <2>4, <1>c, <1>k, SameRows DEF Reg!Change
      <3> QED BY <3>4, <1>c, SameRows DEF Reg!Next
    <2> QED BY <2>3, <2>4
  <1>3. CASE c.op = "delete" /\ Delete(c)
    <2> DEFINE gone == WithRow(table, up, c.id)
    <2>1. Reg!WithRow(table, up, c.id) = gone
      BY SameRows DEF WithRow, Reg!WithRow
    <2>2. /\ table' = [i \in Ids |-> IF i \in gone THEN "none" ELSE table[i]]
          /\ up' = [i \in Ids |-> IF i \in gone \/ up[i] \in gone THEN None ELSE up[i]]
          /\ key' = [i \in Ids |-> IF i \in gone THEN None ELSE key[i]]
      BY <1>3 DEF Delete, Unlinked
    <2> HIDE DEF gone
    <2>3. \A k \in Keys : {i \in Ids : key'[i] = k} = Held[k] \ gone
      BY <2>2, <1>t, Names DEF Held
    <2>4. Held' = [k \in Keys |-> Held[k] \ gone]
      BY <2>3 DEF Held
    <2>5. Reg!Leave(c.id)
      BY <1>3, <2>1, <2>2, <2>4, <1>c, <1>k, SameRows DEF Reg!Leave, Held
    <2> QED BY <2>5, <1>c, SameRows DEF Reg!Next
  <1> QED BY <1>0, <1>1, <1>2, <1>3 DEF Commit

\* All other steps leave the rows alone.
LEMMA StepReg == Inv /\ [Next]_vars => [Reg!Next]_(Reg!vars)
  <1> SUFFICES ASSUME Inv, [Next]_vars PROVE [Reg!Next]_(Reg!vars)
    OBVIOUS
  <1>1. ASSUME UNCHANGED rows PROVE UNCHANGED Reg!vars
    BY <1>1 DEF rows, Reg!vars, Reg!Keys, Reg!Ids
  <1>2. ASSUME NEW r \in Requests, First(r) PROVE UNCHANGED rows
    BY <1>2, Begins DEF First, Change, Register, Receive, FindAll, Forbidden
  <1>3. ASSUME NEW r \in Requests, Quiet(r) PROVE UNCHANGED rows
    BY <1>3 DEF Quiet, FindAll, Forbidden, CheckKey, Refused, DbError, AuditEntry
  <1>4. ASSUME Nightly \/ Crash \/ UNCHANGED vars PROVE UNCHANGED rows
    BY <1>4 DEF Nightly, JobStart, JobReadFails, JobEnd, JobCreate, JobCreateFails, Crash, vars
  <1> QED BY <1>1, <1>2, <1>3, <1>4, CommitReg DEF Next, Quiet

\* The administration implements the registry for any number of rows and
\* overlapping requests.
THEOREM RegistryRefinement == Spec => ImplementsRegistry
  BY Invariance, InitReg, StepReg, PTL DEF Spec, ImplementsRegistry, Reg!Spec
=============================================================================
