------------------------- MODULE HealthMasterProofs -------------------------
(***************************************************************************)
(* For all thresholds, the bounded deque of HealthMaster decides as        *)
(* HealthVerdict does on the complete history of results.                  *)
(***************************************************************************)
EXTENDS HealthMasterHistory, WellFoundedInduction, TLAPS

\* The counting loops of status() terminate with a count: every sequence has
\* a leading run of b.
LEMMA LeadingRunExists ==
    ASSUME NEW s \in Seq(BOOLEAN), NEW b \in BOOLEAN
    PROVE  \E n \in 0..Len(s) : IsLeadingRun(n, s, b)
<1> DEFINE T == {n \in 0..Len(s) : n < Len(s) => s[n + 1] # b}
           R == OpToRel(<, Nat)
<1>1. T \subseteq Nat /\ Len(s) \in T
  OBVIOUS
<1>2. IsWellFoundedOn(R, Nat)
  BY NatLessThanWellFounded
<1>3. \E x \in T : \A y \in T : ~(<<y, x>> \in R)
  <2> HIDE DEF T, R
  <2> QED BY <1>1, <1>2, WFMin
<1>4. PICK n \in T : \A y \in T : ~(<<y, n>> \in R)
  BY <1>3
<1>5. \A y \in T : ~(y < n)
  <2>1. \A y \in T : <<y, n>> \in Nat \X Nat
    BY <1>1, <1>4
  <2> QED BY <1>4, <2>1 DEF OpToRel
<1>6. \A i \in 1..n : s[i] = b
  <2> SUFFICES ASSUME NEW i \in 1..n, s[i] # b PROVE FALSE
    OBVIOUS
  <2>0. n \in 0..Len(s) /\ Len(s) \in Nat
    <3> HIDE DEF R
    <3> QED OBVIOUS
  <2>1. i - 1 \in 0..Len(s) /\ i - 1 < n /\ (i - 1) + 1 = i
    BY <2>0
  <2>2. i - 1 \in T
    BY <2>1
  <2> QED BY <2>1, <2>2, <1>5
<1> QED BY <1>4, <1>6 DEF IsLeadingRun

\* Comparing the count with a threshold k asks whether the first k results
\* exist and all equal b.
LEMMA LeadingRunThreshold ==
    ASSUME NEW s \in Seq(BOOLEAN), NEW b \in BOOLEAN, NEW k \in Nat
    PROVE  (LeadingRun(s, b) >= k) <=> (k <= Len(s) /\ \A i \in 1..k : s[i] = b)
<1> DEFINE n == LeadingRun(s, b)
<1>1. IsLeadingRun(n, s, b)
  BY LeadingRunExists DEF LeadingRun
<1> HIDE DEF n
<1>2. n \in 0..Len(s) /\ Len(s) \in Nat
  BY <1>1 DEF IsLeadingRun
<1>3. ASSUME n >= k PROVE k <= Len(s) /\ \A i \in 1..k : s[i] = b
  BY <1>1, <1>2, <1>3 DEF IsLeadingRun
<1>4. ASSUME k <= Len(s), \A i \in 1..k : s[i] = b PROVE n >= k
  <2> SUFFICES ASSUME n < k PROVE FALSE
    BY <1>2
  <2>1. n < Len(s) /\ n + 1 \in 1..k
    BY <1>2, <1>4
  <2> QED BY <1>1, <1>4, <2>1 DEF IsLeadingRun
<1> QED BY <1>3, <1>4 DEF n

\* Truncation keeps the front of the sequence.
LEMMA TruncatedFacts ==
    ASSUME NEW s \in Seq(BOOLEAN)
    PROVE  /\ Truncated(s) \in Seq(BOOLEAN)
           /\ Capacity \in Nat
           /\ Len(Truncated(s)) = IF Len(s) > Capacity THEN Capacity ELSE Len(s)
           /\ \A i \in 1..Len(Truncated(s)) : Truncated(s)[i] = s[i]
BY ThresholdAssumption DEF Truncated, Capacity

\* A threshold within Capacity is met by the truncated sequence exactly when
\* the whole sequence meets it.
LEMMA TruncationKeepsThreshold ==
    ASSUME NEW s \in Seq(BOOLEAN), NEW b \in BOOLEAN,
           NEW k \in Nat, k <= Capacity
    PROVE  (LeadingRun(Truncated(s), b) >= k) <=> Abstract!LatestAll(s, k, b)
<1>1. (LeadingRun(Truncated(s), b) >= k)
        <=> (k <= Len(Truncated(s)) /\ \A i \in 1..k : Truncated(s)[i] = b)
  BY LeadingRunThreshold, TruncatedFacts
<1>2. k <= Len(Truncated(s)) <=> k <= Len(s)
  BY TruncatedFacts
<1>3. ASSUME k <= Len(s), NEW i \in 1..k PROVE Truncated(s)[i] = s[i]
  <2>1. i \in 1..Len(Truncated(s))
    BY <1>2, <1>3, TruncatedFacts
  <2> QED BY <2>1, TruncatedFacts
<1> QED BY <1>1, <1>2, <1>3 DEF Abstract!LatestAll

\* Cutting after every push loses nothing that cutting once would keep.
LEMMA TruncatedPush ==
    ASSUME NEW s \in Seq(BOOLEAN), NEW r \in BOOLEAN
    PROVE  Truncated(<<r>> \o Truncated(s)) = Truncated(<<r>> \o s)
<1> DEFINE t == <<r>> \o Truncated(s)
           u == <<r>> \o s
<1>1. t \in Seq(BOOLEAN) /\ u \in Seq(BOOLEAN)
  BY TruncatedFacts
<1>2. /\ Len(t) = 1 + Len(Truncated(s)) /\ Len(u) = 1 + Len(s)
      /\ \A i \in 1..Len(t) : t[i] = IF i = 1 THEN r ELSE Truncated(s)[i - 1]
      /\ \A i \in 1..Len(u) : u[i] = IF i = 1 THEN r ELSE s[i - 1]
  BY TruncatedFacts
<1> HIDE DEF t, u
<1>a. Capacity \in Nat /\ Len(s) \in Nat /\ Len(t) \in Nat /\ Len(u) \in Nat
  BY <1>1, ThresholdAssumption DEF Capacity
<1>b. Len(Truncated(s)) = IF Len(s) > Capacity THEN Capacity ELSE Len(s)
  BY TruncatedFacts
<1>c. Len(Truncated(t)) = IF Len(t) > Capacity THEN Capacity ELSE Len(t)
  BY <1>1, TruncatedFacts
<1>d. Len(Truncated(u)) = IF Len(u) > Capacity THEN Capacity ELSE Len(u)
  BY <1>1, TruncatedFacts
<1>3. Len(Truncated(t)) = Len(Truncated(u))
  BY <1>2, <1>a, <1>b, <1>c, <1>d
<1>4. ASSUME NEW i \in 1..Len(Truncated(t)) PROVE Truncated(t)[i] = Truncated(u)[i]
  <2>1. i \in 1..Len(t) /\ i \in 1..Len(u) /\ i \in 1..Len(Truncated(u))
    <3>1. Len(Truncated(t)) <= Len(t) /\ Len(t) \in Nat
      BY <1>a, <1>c
    <3>2. Len(Truncated(u)) <= Len(u) /\ Len(u) \in Nat
      BY <1>a, <1>d
    <3> QED BY <1>3, <3>1, <3>2
  <2>2. Truncated(t)[i] = t[i] /\ Truncated(u)[i] = u[i]
    BY <1>1, <2>1, TruncatedFacts
  <2>3. i # 1 => i - 1 \in 1..Len(Truncated(s))
    BY <1>2, <2>1, TruncatedFacts
  <2>4. i # 1 => Truncated(s)[i - 1] = s[i - 1]
    BY <2>3, TruncatedFacts
  <2>5. t[i] = IF i = 1 THEN r ELSE Truncated(s)[i - 1]
    BY <1>2, <2>1
  <2>6. u[i] = IF i = 1 THEN r ELSE s[i - 1]
    BY <1>2, <2>1
  <2> QED BY <2>2, <2>4, <2>5, <2>6
<1>5. Truncated(t) \in Seq(BOOLEAN) /\ Truncated(u) \in Seq(BOOLEAN)
  BY <1>1, TruncatedFacts
<1>6. Truncated(t) = Truncated(u)
  BY <1>3, <1>4, <1>5
<1> QED BY <1>6 DEF t, u

-----------------------------------------------------------------------------

HInv == HTypeOK /\ RecentIsNewest

\* The deque is the newest part of the history initially.
LEMMA HInvInit == HInit => HInv
<1> SUFFICES ASSUME HInit PROVE HInv
  OBVIOUS
<1>1. <<>> \in Seq(BOOLEAN) /\ Len(<<>>) = 0 /\ Capacity \in Nat
  BY ThresholdAssumption DEF Capacity
<1>2. ASSUME NEW s \in Seq(BOOLEAN), Len(s) = 0 PROVE Truncated(s) = s
  <2>1. Truncated(s) \in Seq(BOOLEAN) /\ Len(Truncated(s)) = 0
    <3>1. Len(Truncated(s)) = IF Len(s) > Capacity THEN Capacity ELSE Len(s)
      BY TruncatedFacts
    <3>2. Truncated(s) \in Seq(BOOLEAN)
      BY TruncatedFacts
    <3> QED BY <1>1, <1>2, <3>1, <3>2
  <2> QED BY <2>1, <1>2
<1>3. Truncated(<<>>) = <<>>
  BY <1>1, <1>2
<1>4. history = <<>> /\ recent = <<>> /\ healthy = FALSE
  BY DEF HInit, Init
<1>5. Len(recent) <= Capacity /\ recent = Truncated(history)
  BY <1>1, <1>3, <1>4
<1>6. recent \in Seq(BOOLEAN) /\ history \in Seq(BOOLEAN)
  BY <1>1, <1>4
<1>7. healthy \in BOOLEAN
  BY <1>4
<1> QED BY <1>5, <1>6, <1>7 DEF HInv, HTypeOK, TypeOK, RecentIsNewest

\* ... and every report keeps it so.
LEMMA HInvNext == HInv /\ [HNext]_hvars => HInv'
<1> SUFFICES ASSUME HInv, [HNext]_hvars PROVE HInv'
  OBVIOUS
<1>1. ASSUME NEW r \in BOOLEAN, HReport(r) PROVE HInv'
  <2>1. history' \in Seq(BOOLEAN)
    BY <1>1 DEF HInv, HTypeOK, HReport
  <2>2. recent' = Truncated(history')
    BY <1>1, TruncatedPush DEF HReport, Report, HInv, RecentIsNewest, HTypeOK
  <2>3. recent' \in Seq(BOOLEAN) /\ Len(recent') <= Capacity
    <3>1. Len(Truncated(history')) <= Capacity
      BY <2>1, TruncatedFacts
    <3> QED BY <2>1, <2>2, <3>1, TruncatedFacts
  <2>4. healthy' \in BOOLEAN
    <3>1. Verdict(healthy, recent') \in BOOLEAN
      <4>1. CASE healthy
        BY <4>1 DEF Verdict
      <4>2. CASE ~healthy
        BY <4>2 DEF Verdict
      <4> QED BY <4>1, <4>2
    <3> QED BY <1>1, <3>1 DEF HReport, Report
  <2> QED BY <2>1, <2>2, <2>3, <2>4 DEF HInv, HTypeOK, TypeOK, RecentIsNewest
<1>2. CASE UNCHANGED hvars
  BY <1>2 DEF hvars, HInv, HTypeOK, TypeOK, RecentIsNewest
<1> QED BY <1>1, <1>2 DEF HNext

\* The deque of HealthMasterInner stays bounded and holds exactly the newest
\* results, for every pair of thresholds.
THEOREM RecentCorrect == HSpec => [](TypeOK /\ RecentIsNewest)
<1>1. HInv => TypeOK /\ RecentIsNewest
  BY DEF HInv, HTypeOK
<1> QED BY <1>1, HInvInit, HInvNext, PTL DEF HSpec

\* HealthMaster implements HealthVerdict: forgetting all but the Capacity
\* newest results never changes a verdict, whatever the thresholds.
THEOREM VerdictRefinement == HSpec => ImplementsVerdict
<1>1. HInit => Abstract!Init
  BY DEF HInit, Init, Abstract!Init
<1>2. HInv /\ HInv' /\ [HNext]_hvars => [Abstract!Next]_(Abstract!vars)
  <2> SUFFICES ASSUME HInv, HInv', [HNext]_hvars
               PROVE  [Abstract!Next]_(Abstract!vars)
    OBVIOUS
  <2>1. ASSUME NEW r \in BOOLEAN, HReport(r) PROVE Abstract!Observe(r)
    <3>1. history' \in Seq(BOOLEAN) /\ recent' = Truncated(history')
      BY DEF HInv, HTypeOK, RecentIsNewest
    <3>2. /\ ConsiderHealthyThreshold \in Nat
          /\ ConsiderHealthyThreshold <= Capacity
          /\ ConsiderUnhealthyThreshold \in Nat
          /\ ConsiderUnhealthyThreshold <= Capacity
      BY ThresholdAssumption DEF Capacity
    <3>3. (LeadingRun(recent', FALSE) >= ConsiderUnhealthyThreshold)
            <=> Abstract!LatestAll(history', ConsiderUnhealthyThreshold, FALSE)
      BY <3>1, <3>2, TruncationKeepsThreshold
    <3>4. (LeadingRun(recent', TRUE) >= ConsiderHealthyThreshold)
            <=> Abstract!LatestAll(history', ConsiderHealthyThreshold, TRUE)
      BY <3>1, <3>2, TruncationKeepsThreshold
    <3>5. /\ history' = <<r>> \o history
          /\ healthy' = Verdict(healthy, recent')
          /\ healthy \in BOOLEAN
      BY <2>1 DEF HReport, Report, HInv, HTypeOK, TypeOK
    <3>6. Abstract!LatestAll(history', ConsiderUnhealthyThreshold, FALSE) \in BOOLEAN
          /\ Abstract!LatestAll(history', ConsiderHealthyThreshold, TRUE) \in BOOLEAN
      BY DEF Abstract!LatestAll
    <3>7. healthy' = IF healthy
            THEN ~Abstract!LatestAll(history', ConsiderUnhealthyThreshold, FALSE)
            ELSE Abstract!LatestAll(history', ConsiderHealthyThreshold, TRUE)
      <4>1. CASE healthy = TRUE
        BY <3>3, <3>5, <4>1 DEF Verdict
      <4>2. CASE healthy = FALSE
        <5>1. healthy' = (LeadingRun(recent', TRUE) >= ConsiderHealthyThreshold)
          BY <3>5, <4>2 DEF Verdict
        <5>2. CASE Abstract!LatestAll(history', ConsiderHealthyThreshold, TRUE)
          BY <3>4, <3>6, <4>2, <5>1, <5>2
        <5>3. CASE ~Abstract!LatestAll(history', ConsiderHealthyThreshold, TRUE)
          <6>0. healthy' \in BOOLEAN
            BY DEF HInv, HTypeOK, TypeOK
          <6>a. ~(LeadingRun(recent', TRUE) >= ConsiderHealthyThreshold)
            BY <3>4, <5>3
          <6>1. healthy' = FALSE
            BY <5>1, <6>0, <6>a
          <6>2. Abstract!LatestAll(history', ConsiderHealthyThreshold, TRUE) = FALSE
            BY <3>6, <5>3
          <6> QED BY <4>2, <6>1, <6>2
        <5> QED BY <5>2, <5>3
      <4> QED BY <3>5, <4>1, <4>2
    <3> QED BY <3>5, <3>7 DEF Abstract!Observe
  <2>2. CASE UNCHANGED hvars
    BY <2>2 DEF hvars, Abstract!vars
  <2> QED BY <2>1, <2>2 DEF HNext, Abstract!Next
<1> QED BY <1>1, <1>2, HInvInit, HInvNext, PTL
        DEF HSpec, ImplementsVerdict, Abstract!Spec
=============================================================================
