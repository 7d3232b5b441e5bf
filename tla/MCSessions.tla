----------------------------- MODULE MCSessions -----------------------------
(* Sessions on small instances: two tabs, of one browser or of two.        *)
EXTENDS Sessions, TLC

CONSTANTS staff, boss, b1, b2, t1, t2

MCRoles == (staff :> "STAFF") @@ (boss :> "ADMIN")
MCStarts ==
  {[browser |-> (t1 :> b1) @@ (t2 :> b1), held |-> (b1 :> boss) @@ (b2 :> None),
    roles |-> MCRoles],
   [browser |-> (t1 :> b1) @@ (t2 :> b2), held |-> (b1 :> None) @@ (b2 :> None),
    roles |-> MCRoles]}
MCChanges == {<<boss, "STAFF">>}
MCDeviceOf == (b1 :> "d1") @@ (b2 :> "d2")
=============================================================================
