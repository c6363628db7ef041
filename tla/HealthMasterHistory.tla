------------------------ MODULE HealthMasterHistory ------------------------
(***************************************************************************)
(* HealthMaster with a history variable that remembers every check result. *)
(* It only observes: it shows that HealthMaster, which keeps a bounded     *)
(* deque, decides as HealthVerdict does on the complete history.           *)
(***************************************************************************)
EXTENDS HealthMaster

VARIABLE history   \* every result reported so far, newest first

hvars == <<healthy, recent, history>>

HInit == Init /\ history = <<>>

HReport(result) == Report(result) /\ history' = <<result>> \o history

HNext == \E result \in BOOLEAN : HReport(result)

HSpec == HInit /\ [][HNext]_hvars

-----------------------------------------------------------------------------

\* The deque is exactly the newest part of the history, cut at Capacity:
\* status() pops only results that can no longer decide the verdict.
RecentIsNewest == recent = Truncated(history)

HTypeOK == TypeOK /\ history \in Seq(BOOLEAN)

Abstract == INSTANCE HealthVerdict

\* The bounded deque of status() decides, at every report, as the whole
\* history would: implementation of HealthVerdict.
ImplementsVerdict == Abstract!Spec
=============================================================================
