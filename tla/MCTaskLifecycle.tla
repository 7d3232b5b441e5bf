-------------------------- MODULE MCTaskLifecycle --------------------------
(* Instances of TaskLifecycle for TLC: one zone per task. *)
EXTENDS TaskLifecycle, TLC

MCZoneOf == CHOOSE f \in [Tasks -> Zones] :
              \A t, u \in Tasks : f[t] = f[u] => t = u
MCTimes == 0..2
MCShortTimes == 0..1
Symmetric == Permutations(Requests) \cup Permutations(Users)

\* The endpoints the web client calls, and PATCH :id/status.
PatchEndpoints == {"start", "complete", "flag", "status"}
EveryEndpoint == AllEndpoints
=============================================================================
