---------------------------- MODULE MCScanBatch ----------------------------
(* Instances of ScanBatch for TLC: two scans of one event under different  *)
(* keys, and a scan of another event that shares a key with one of them.   *)
EXTENDS ScanBatch, TLC

CONSTANTS a, b, c, e1, e2, k1, k2

MCScans == {a, b, c}
MCEventOf == (a :> e1) @@ (b :> e1) @@ (c :> e2)
MCKeyOf == (a :> k1) @@ (b :> k2) @@ (c :> k2)
MCPayloads == UNION {[1..n -> MCScans] : n \in 0..2}
Symmetric == Permutations(Requests)
=============================================================================
