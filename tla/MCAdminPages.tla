---------------------------- MODULE MCAdminPages ----------------------------
(* AdminPages on small instances: which texts these are makes no          *)
(* difference, and no liveness is checked here.                            *)
EXTENDS AdminPages, TLC

CONSTANTS a, x, y

Symmetric == Permutations(Texts)
=============================================================================
