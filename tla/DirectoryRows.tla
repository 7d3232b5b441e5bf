--------------------------- MODULE DirectoryRows ---------------------------
(***************************************************************************)
(* The rows the administration works on: buildings, floors, zones and the  *)
(* accounts of people, with the columns other rows depend on.              *)
(***************************************************************************)
EXTENDS Naturals

CONSTANTS
  Seed,      \* the rows at the start: id -> [table, up, key]
  Requests,  \* HTTP requests; the row a request creates is named after it
  Codes,     \* zone codes
  Emails,    \* e-mail addresses
  None,      \* SQL null, or a field a request body does not have
  Gone       \* an id whose row does not exist

Tables == {"building", "floor", "zone", "user"}
Ids == DOMAIN Seed \cup Requests
Keys == Codes \cup Emails

\* The table a foreign key of a row points into, and the unique column.
Above(k) == IF k = "floor" THEN "building" ELSE IF k = "zone" THEN "floor" ELSE None
KeysOf(k) == IF k = "zone" THEN Codes ELSE IF k = "user" THEN Emails ELSE {}

\* What the constraints of the schema say of columns tb, up and key.
RowsConsistent(tb, up, key) ==
  /\ \A i \in Ids : up[i] # None => up[i] \in Ids /\ tb[up[i]] = Above(tb[i])
  /\ \A i \in Ids : key[i] # None => key[i] \in KeysOf(tb[i])
  /\ \A i, j \in Ids : key[i] = key[j] /\ key[i] # None => i = j

SeedTable == [i \in Ids |-> IF i \in DOMAIN Seed THEN Seed[i].table ELSE "none"]
SeedUp == [i \in Ids |-> IF i \in DOMAIN Seed THEN Seed[i].up ELSE None]
SeedKey == [i \in Ids |-> IF i \in DOMAIN Seed THEN Seed[i].key ELSE None]

ASSUME RowsAssumption ==
  /\ {None, Gone} \cap (Ids \cup Keys \cup Tables \cup {"none"}) = {}
  /\ None # Gone
  /\ Codes \cap Emails = {}
  /\ DOMAIN Seed \cap Requests = {}
  /\ \A i \in DOMAIN Seed : Seed[i].table \in Tables
  /\ RowsConsistent(SeedTable, SeedUp, SeedKey)

\* Deleting row i takes the floors of a building along (onDelete: Cascade).
WithRow(tb, up, i) == {i} \cup {f \in Ids : tb[f] = "floor" /\ up[f] = i}
=============================================================================
