---------------------------- MODULE HealthMaster ----------------------------
(***************************************************************************)
(* The health verdict of one endpoint (src/daemon/health.rs).              *)
(*                                                                         *)
(* HealthMasterInner keeps the current verdict and a deque of the latest   *)
(* check results, newest first.  Every check result is pushed on the front *)
(* and the deque is cut to the larger of the two thresholds before the     *)
(* verdict is recomputed.  The time stamps stored with the results are     *)
(* only shown to the user and are left out.                                *)
(***************************************************************************)
EXTENDS Integers, Sequences

CONSTANTS
    ConsiderHealthyThreshold,   \* consecutive successes that make it healthy
    ConsiderUnhealthyThreshold  \* consecutive failures that make it unhealthy

\* Both thresholds are u16 values of the configuration; zero is accepted.
ASSUME ThresholdAssumption ==
    /\ ConsiderHealthyThreshold \in Nat
    /\ ConsiderUnhealthyThreshold \in Nat

VARIABLES
    healthy,  \* HealthMasterInner.healthy
    recent    \* HealthMasterInner.recent, newest result first

vars == <<healthy, recent>>

-----------------------------------------------------------------------------

\* std::cmp::max of the two thresholds: the length the deque is cut to.
Capacity ==
    IF ConsiderHealthyThreshold >= ConsiderUnhealthyThreshold
    THEN ConsiderHealthyThreshold
    ELSE ConsiderUnhealthyThreshold

(* Bug_... operators are plausible mistakes in the definition that follows  *)
(* them; they are not part of the specification.                           *)
\* The deque is cut to the threshold of the failures only.
Bug_TruncatedForFailures(s) ==
    SubSeq(s, 1, IF Len(s) > ConsiderUnhealthyThreshold
                 THEN ConsiderUnhealthyThreshold ELSE Len(s))

\* The pop_back loop: only the Capacity newest results are kept.
Truncated(s) == SubSeq(s, 1, IF Len(s) > Capacity THEN Capacity ELSE Len(s))

\* n is the number of results equal to b at the front of s.
IsLeadingRun(n, s, b) ==
    /\ n \in 0..Len(s)
    /\ \A i \in 1..n : s[i] = b
    /\ n < Len(s) => s[n + 1] # b

\* The counting loops of status(): count until the first other result.
LeadingRun(s, b) == CHOOSE n \in 0..Len(s) : IsLeadingRun(n, s, b)

\* The verdict of status() on an already truncated deque.
Verdict(h, s) ==
    IF h THEN ~(LeadingRun(s, FALSE) >= ConsiderUnhealthyThreshold)
         ELSE LeadingRun(s, TRUE) >= ConsiderHealthyThreshold

-----------------------------------------------------------------------------

\* HealthMasterInner::new
Init == healthy = FALSE /\ recent = <<>>

\* push_back instead of push_front.
Bug_ReportAtBack(result) ==
    /\ recent' = Truncated(Append(recent, result))
    /\ healthy' = Verdict(healthy, recent')

\* HealthMaster::report_check_result: push, cut, decide.
Report(result) ==
    /\ recent' = Truncated(<<result>> \o recent)
    /\ healthy' = Verdict(healthy, recent')

Next == \E result \in BOOLEAN : Report(result)

Spec == Init /\ [][Next]_vars

-----------------------------------------------------------------------------

\* Type invariant: the verdict is a flag and the deque of
\* HealthMasterInner never holds more than Capacity results.
TypeOK ==
    /\ healthy \in BOOLEAN
    /\ recent \in Seq(BOOLEAN)
    /\ Len(recent) <= Capacity
=============================================================================
