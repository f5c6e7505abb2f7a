----------------------------- MODULE MCWorkJobs -----------------------------
(* Small instances of WorkJobs for TLC.  A request is given per job id; two *)
(* ids with the same kind and key are two attempts to schedule the same     *)
(* work.                                                                    *)
EXTENDS WorkJobs

CONSTANTS j1, j2, k1, k2

Build(key, backend, fallback) ==
  [kind |-> "codex_build", key |-> key, backend |-> backend, units |-> 1, fallback |-> fallback]
Translation(key, backend, units, fallback) ==
  [kind |-> "translate", key |-> key, backend |-> backend, units |-> units,
   fallback |-> fallback]

(* Two API builds of one novel                                              *)
ApiTwins == [j \in Jobs |-> Build(k1, "api", FALSE)]

(* A translation and a build on the subscription backend                    *)
SubPair ==
  [j \in Jobs |-> IF j = j1 THEN Translation(k1, "sub", 1, TRUE) ELSE Build(k2, "sub", FALSE)]

Limits == [q \in QuotaKinds |-> 2]

=============================================================================
