---------------------------- MODULE HealthVerdict ----------------------------
(***************************************************************************)
(* What the health check of an endpoint promises, told over the complete   *)
(* history of check results: a healthy endpoint becomes unhealthy exactly  *)
(* when the latest ConsiderUnhealthyThreshold results are all failures,    *)
(* and an unhealthy one becomes healthy exactly when the latest            *)
(* ConsiderHealthyThreshold results are all successes (the field comments  *)
(* of HealthCheck in src/config.rs and the comments of status() in         *)
(* src/daemon/health.rs).  HealthMaster, which forgets old results,        *)
(* implements this specification.                                          *)
(***************************************************************************)
EXTENDS Integers, Sequences

CONSTANTS ConsiderHealthyThreshold, ConsiderUnhealthyThreshold

VARIABLES healthy, history   \* history: every result so far, newest first

vars == <<healthy, history>>

\* The latest k results exist and all equal b.
LatestAll(h, k, b) == k <= Len(h) /\ \A i \in 1..k : h[i] = b

Init == healthy = FALSE /\ history = <<>>

Observe(result) ==
    /\ history' = <<result>> \o history
    /\ healthy' = IF healthy
                  THEN ~LatestAll(history', ConsiderUnhealthyThreshold, FALSE)
                  ELSE LatestAll(history', ConsiderHealthyThreshold, TRUE)

Next == \E result \in BOOLEAN : Observe(result)

Spec == Init /\ [][Next]_vars
=============================================================================
