--------------------------- MODULE MCScanHistory ---------------------------
(* ScanHistory on a small table: two stays of one person, of a minute and  *)
(* a half and of three minutes, and a scan of another person that falls    *)
(* together with the end of the first.                                     *)
EXTENDS ScanHistory

CONSTANTS u, v

Scan(w, seconds, act) == [who |-> w, at |-> 1000 * seconds, action |-> act]

MCScans ==
  {Scan(u, 0, "CHECK_IN"), Scan(u, 90, "CHECK_OUT"),
   Scan(u, 120, "CHECK_IN"), Scan(u, 300, "CHECK_OUT"),
   Scan(v, 90, "CHECK_IN")}
=============================================================================
