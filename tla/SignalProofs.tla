---------------------------- MODULE SignalProofs ----------------------------
(***************************************************************************)
(* For any set of receivers: no wake-up of a signal is lost, and the       *)
(* signal implements the latch its users rely on.                          *)
(***************************************************************************)
EXTENDS Signal, TLAPS

\* The value is stored before its version becomes visible.
StoredFirst ==
    /\ version > 1 => value
    /\ value => version > 1 \/ sender = "stored"
    /\ sender = "stored" => value

\* A receiver that has not read true has seen no version but the first.
SeenOld ==
    \A r \in Receivers :
        /\ phase[r] \in {"unborn", "idle", "register", "compare", "parked"}
              => seen[r] <= 1
        /\ phase[r] = "read" => (seen[r] > 1 => value)

\* The waker of a receiver past its registration is registered or was used.
Armed ==
    \A r \in Receivers :
        phase[r] \in {"compare", "read", "parked"} => r \in wakers \cup scheduled

\* A parked receiver that nobody woke has seen all there is, or the sender
\* is about to wake it.
UpToDate ==
    \A r \in Receivers :
        (phase[r] = "parked" /\ r \notin scheduled) =>
            (seen[r] = version /\ ~closed) \/ sender \in {"bumped", "closing"}

SInv == TypeOK /\ StoredFirst /\ SeenOld /\ Armed /\ UpToDate

\* The invariant explains why no wake-up is lost.
LEMMA SInvNoLostWakeup == SInv => NoLostWakeup
BY DEF SInv, TypeOK, StoredFirst, SeenOld, Armed, UpToDate, NoLostWakeup, Fired

\* The invariant holds initially.
LEMMA SInvInit == Init => SInv
<1> SUFFICES ASSUME Init PROVE SInv
  OBVIOUS
<1>1. TypeOK
  <2>1. value \in BOOLEAN /\ closed \in BOOLEAN
    BY DEF Init
  <2>2. version \in Nat \ {0} /\ sends \in 0..MaxSends
    BY MaxSendsAssumption DEF Init
  <2>3. sender \in Sender
    BY DEF Init, Sender
  <2>4. phase \in [Receivers -> Phases]
    BY DEF Init, Phases, Waiting
  <2>5. seen \in [Receivers -> Nat]
    BY DEF Init
  <2>6. wakers \subseteq Receivers /\ scheduled \subseteq Receivers
    BY DEF Init
  <2> QED BY <2>1, <2>2, <2>3, <2>4, <2>5, <2>6 DEF TypeOK
<1>2. StoredFirst
  BY DEF Init, StoredFirst
<1>3. SeenOld /\ Armed /\ UpToDate
  <2>1. \A r \in Receivers : phase[r] = "unborn" /\ seen[r] = 0
    BY DEF Init
  <2> QED BY <2>1 DEF SeenOld, Armed, UpToDate
<1> QED BY <1>1, <1>2, <1>3 DEF SInv

\* Every step of the sender and of every receiver preserves the invariant.
LEMMA SInvNext == SInv /\ [Next]_vars => SInv'
<1> SUFFICES ASSUME SInv, [Next]_vars PROVE SInv'
  OBVIOUS
<1> USE DEF SInv, TypeOK, StoredFirst, SeenOld, Armed, UpToDate, Sender,
            Phases, Waiting, Polling, channel
<1>1. CASE SendSignal
  BY <1>1, MaxSendsAssumption DEF SendSignal
<1>2. CASE BumpVersion
  BY <1>2 DEF BumpVersion
<1>3. CASE DropSender
  BY <1>3 DEF DropSender
<1>4. CASE NotifyAll
  BY <1>4 DEF NotifyAll
<1>5. ASSUME NEW r \in Receivers, Receiver(r) PROVE SInv'
  <2>1. CASE NewReceiver(r)
    BY <2>1 DEF NewReceiver
  <2>2. CASE Wait(r)
    BY <2>2 DEF Wait
  <2>3. CASE Register(r)
    BY <2>3 DEF Register
  <2>4. CASE Compare(r)
    BY <2>4 DEF Compare
  <2>5. CASE Read(r)
    BY <2>5 DEF Read
  <2>6. CASE Resume(r)
    BY <2>6 DEF Resume
  <2>7. CASE Repoll(r)
    BY <2>7 DEF Repoll
  <2>8. CASE Drop(r)
    BY <2>8 DEF Drop
  <2>9. ASSUME NEW s \in Receivers, Clone(r, s) PROVE SInv'
    BY <2>9 DEF Clone
  <2> QED BY <1>5, <2>1, <2>2, <2>3, <2>4, <2>5, <2>6, <2>7, <2>8, <2>9
          DEF Receiver, PollStep
<1>6. CASE UNCHANGED vars
  BY <1>6 DEF vars
<1> QED BY <1>1, <1>2, <1>3, <1>4, <1>5, <1>6 DEF Next, SenderNext

\* Every variable of the signal keeps its type.
THEOREM TypeCorrect == Spec => []TypeOK
<1>1. SInv => TypeOK
  BY DEF SInv
<1> QED BY <1>1, SInvInit, SInvNext, PTL DEF Spec

\* No task stays parked in wait() (signal.rs 39-51) after the signal.
THEOREM WakeupTheorem == Spec => [](TypeOK /\ NoLostWakeup)
<1>1. SInv => TypeOK /\ NoLostWakeup
  BY SInvNoLostWakeup DEF SInv
<1> QED BY <1>1, SInvInit, SInvNext, PTL DEF Spec

\* A receiver step is a return of the latch or leaves it alone.
LEMMA ReceiverIsLatchStep ==
    ASSUME SInv, NEW r \in Receivers, Receiver(r)
    PROVE  Latch!Return(r) \/ UNCHANGED <<Fired, Returned>>
<1> USE DEF SInv, TypeOK, Fired, Returned, channel
<1>1. CASE Compare(r) \/ Read(r)
  <2>1. CASE phase'[r] = "returned"
    <3>1. phase[r] # "returned" /\ phase' = [phase EXCEPT ![r] = "returned"]
      BY <1>1, <2>1 DEF Compare, Read
    <3>2. Fired /\ UNCHANGED Fired
      BY <1>1, <2>1 DEF Compare, Read
    <3>3. Returned' = Returned \cup {r}
      BY <3>1
    <3> QED BY <3>1, <3>2, <3>3 DEF Latch!Return
  <2>2. CASE phase'[r] # "returned"
    <3>1. phase[r] # "returned" /\ \A s \in Receivers \ {r} : phase'[s] = phase[s]
      BY <1>1 DEF Compare, Read
    <3>2. Returned' = Returned
      BY <2>2, <3>1
    <3>3. UNCHANGED Fired
      BY <1>1 DEF Compare, Read
    <3> QED BY <3>2, <3>3
  <2> QED BY <2>1, <2>2
<1>2. CASE ~(Compare(r) \/ Read(r))
  <2>1. /\ phase[r] # "returned" /\ phase'[r] # "returned"
        /\ \A s \in Receivers \ {r} : phase'[s] = phase[s]
    BY <1>2 DEF Receiver, PollStep, NewReceiver, Wait, Register, Resume, Repoll,
                Drop, Clone
  <2>2. UNCHANGED Fired
    BY <1>2 DEF Receiver, PollStep, NewReceiver, Wait, Register, Resume, Repoll,
                Drop, Clone
  <2>3. Returned' = Returned
    BY <2>1
  <2> QED BY <2>2, <2>3
<1> QED BY <1>1, <1>2

\* wait() returns only after the signal, and the signal stays.
THEOREM LatchRefinement == Spec => ImplementsLatch
<1>1. Init => Latch!Init
  BY DEF Init, Latch!Init, Fired, Returned
<1>2. SInv /\ [Next]_vars => [Latch!Next]_(Latch!vars)
  <2> SUFFICES ASSUME SInv, [Next]_vars
               PROVE  Latch!Next \/ UNCHANGED <<Fired, Returned>>
    BY DEF Latch!vars
  <2>1. CASE SenderNext
    <3>1. Returned' = Returned
      BY <2>1 DEF SenderNext, SendSignal, BumpVersion, DropSender, NotifyAll, Returned
    <3>2. UNCHANGED Fired \/ (~Fired /\ Fired' = TRUE)
      BY <2>1 DEF SInv, TypeOK, SenderNext, SendSignal, BumpVersion, DropSender,
                  NotifyAll, Fired
    <3> QED BY <3>1, <3>2 DEF Latch!Next, Latch!Fire
  <2>2. ASSUME NEW r \in Receivers, Receiver(r)
        PROVE  Latch!Next \/ UNCHANGED <<Fired, Returned>>
    BY <2>2, ReceiverIsLatchStep DEF Latch!Next
  <2>3. CASE UNCHANGED vars
    BY <2>3 DEF vars, Fired, Returned
  <2> QED BY <2>1, <2>2, <2>3 DEF Next
<1> QED BY <1>1, <1>2, SInvInit, SInvNext, PTL DEF Spec, ImplementsLatch, Latch!Spec
=============================================================================
