--------------------------- MODULE MCHealthMaster ---------------------------
(* HealthMasterHistory for TLC: at most MaxChecks reports.                 *)
EXTENDS HealthMasterHistory

CONSTANT MaxChecks   \* bound on the number of health checks explored

MCNext == \E result \in BOOLEAN : Len(history) < MaxChecks /\ HReport(result)

MCSpec == HInit /\ [][MCNext]_hvars
=============================================================================
