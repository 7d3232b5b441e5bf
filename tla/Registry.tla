------------------------------ MODULE Registry ------------------------------
(***************************************************************************)
(* What the administration endpoints promise: places nested in places and  *)
(* accounts, changed one row at a time, where a code or an address names   *)
(* one row at most and nothing hangs in the air.                           *)
(***************************************************************************)
EXTENDS DirectoryRows

VARIABLES
  table,   \* the kind of each row, "none" where there is no row
  up,      \* the place a place lies in
  holders  \* the rows a code or an address belongs to

vars == <<table, up, holders>>

Init ==
  /\ table = SeedTable
  /\ up = SeedUp
  /\ holders = [k \in Keys |-> {i \in Ids : SeedKey[i] = k}]

Placed(k, u) == u = None \/ (u \in Ids /\ table[u] = Above(k))

\* Row i now has the unique value k, which nobody else may have.
Hold(i, k) ==
  /\ k # None => holders[k] \subseteq {i}
  /\ holders' = [h \in Keys |-> IF h = k THEN {i} ELSE holders[h] \ {i}]

Enter(i) ==
  /\ table[i] = "none"
  /\ \E t \in Tables, u \in Ids \cup {None} :
       /\ Placed(t, u)
       /\ table' = [table EXCEPT ![i] = t]
       /\ up' = [up EXCEPT ![i] = u]
       /\ \E k \in KeysOf(t) \cup {None} : Hold(i, k)

Change(i) ==
  /\ table[i] # "none"
  /\ \E u \in Ids \cup {None} :
       /\ Placed(table[i], u)
       /\ up' = [up EXCEPT ![i] = u]
  /\ \/ UNCHANGED holders
     \/ \E k \in KeysOf(table[i]) : Hold(i, k)
  /\ UNCHANGED table

Leave(i) ==
  /\ table[i] # "none"
  /\ LET gone == WithRow(table, up, i)
     IN  /\ table' = [j \in Ids |-> IF j \in gone THEN "none" ELSE table[j]]
         /\ up' = [j \in Ids |->
                     IF j \in gone \/ up[j] \in gone THEN None ELSE up[j]]
         /\ holders' = [k \in Keys |-> holders[k] \ gone]

Next == \E i \in Ids : Enter(i) \/ Change(i) \/ Leave(i)

Spec == Init /\ [][Next]_vars
=============================================================================
