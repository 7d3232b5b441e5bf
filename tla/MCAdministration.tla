-------------------------- MODULE MCAdministration --------------------------
(* A building with a floor with a zone, and an account. *)
EXTENDS Administration, TLC

CONSTANTS b1, f1, z1, u1, c1, c2, e1, e2

Row(t, u, k) == [table |-> t, up |-> u, key |-> k]
MCSeed == (b1 :> Row("building", None, None)) @@ (f1 :> Row("floor", b1, None))
          @@ (z1 :> Row("zone", f1, c1)) @@ (u1 :> Row("user", None, e1))

MCCodes == {c1, c2}
MCEmails == {e1, e2}
Alike == Permutations(Requests)
=============================================================================
