------------------------------- MODULE Signal -------------------------------
(***************************************************************************)
(* One signal (src/signal.rs): a SignalSender, the receivers made from it  *)
(* and SignalReceiver::wait, on top of the watch channel of tokio 0.2.     *)
(*                                                                         *)
(* The channel is external; it is modelled at the grain that matters to a  *)
(* waiter: the sender stores the value, then bumps the version, then wakes *)
(* the registered wakers; recv registers its waker, then compares the      *)
(* version with the one it has seen, then reads the value.                 *)
(***************************************************************************)
EXTENDS Integers

CONSTANTS Receivers,   \* identities of receivers
          MaxSends     \* bound on the calls of send_signal explored

ASSUME MaxSendsAssumption == MaxSends \in Nat

VARIABLES
    value,      \* the value in the channel
    version,    \* its version; a receiver that has seen none has seen 0
    closed,     \* the sender was dropped
    sender,     \* what the owner of the SignalSender is doing
    sends,      \* number of calls of send_signal so far
    phase,      \* phase[r]: what the owner of receiver r is doing
    seen,       \* seen[r]: the version r saw last
    wakers,     \* receivers whose waker is registered
    scheduled   \* waiting tasks the executor will poll again

vars == <<value, version, closed, sender, sends, phase, seen, wakers, scheduled>>
channel == <<value, version, closed, sender, sends>>

Sender == {"alive", "stored", "bumped", "closing", "gone"}

Polling == {"register",   \* recv is entered, its waker not registered yet
            "compare",    \* waker registered, version not compared yet
            "read"}       \* a new version was found, value not read yet
Waiting == Polling \cup {"parked"}   \* parked: recv is pending
Phases == Waiting \cup {"unborn", "idle", "returned", "dropped"}

-----------------------------------------------------------------------------

\* SignalSender::new: a channel that holds false
Init ==
    /\ value = FALSE /\ version = 1 /\ closed = FALSE
    /\ sender = "alive" /\ sends = 0
    /\ phase = [r \in Receivers |-> "unborn"]
    /\ seen = [r \in Receivers |-> 0]
    /\ wakers = {} /\ scheduled = {}

\* SignalSender::new_receiver clones a receiver on which nobody waits.
NewReceiver(r) ==
    /\ phase[r] = "unborn" /\ sender # "gone"
    /\ phase' = [phase EXCEPT ![r] = "idle"]
    /\ UNCHANGED <<channel, seen, wakers, scheduled>>

\* A clone of a receiver that is still to wait, as every clone in the code.
Clone(r, s) ==
    /\ phase[r] = "unborn" /\ phase[s] = "idle"
    /\ phase' = [phase EXCEPT ![r] = "idle"]
    /\ seen' = [seen EXCEPT ![r] = seen[s]]
    /\ UNCHANGED <<channel, wakers, scheduled>>

\* A message that was already in the channel does not count.
Bug_WaitStartsAtPresent(r) ==
    /\ phase[r] = "idle"
    /\ phase' = [phase EXCEPT ![r] = "register"]
    /\ seen' = [seen EXCEPT ![r] = version]
    /\ UNCHANGED <<channel, wakers, scheduled>>

\* SignalReceiver::wait is called
Wait(r) ==
    /\ phase[r] = "idle"
    /\ phase' = [phase EXCEPT ![r] = "register"]
    /\ UNCHANGED <<channel, seen, wakers, scheduled>>

\* recv: the waker is registered first ...
Register(r) ==
    /\ phase[r] = "register"
    /\ phase' = [phase EXCEPT ![r] = "compare"]
    /\ wakers' = wakers \cup {r}
    /\ UNCHANGED <<channel, seen, scheduled>>

\* ... then the version is compared: a new value, None, or pending
Compare(r) ==
    /\ phase[r] = "compare"
    /\ \/ /\ version # seen[r]
          /\ seen' = [seen EXCEPT ![r] = version]
          /\ phase' = [phase EXCEPT ![r] = "read"]
       \/ /\ version = seen[r]
          /\ phase' = [phase EXCEPT ![r] = IF closed THEN "returned" ELSE "parked"]
          /\ UNCHANGED seen
    /\ UNCHANGED <<channel, wakers, scheduled>>

\* Any value ends the wait, the initial false included.
Bug_AnyValueReturns(r) ==
    /\ phase[r] = "read"
    /\ phase' = [phase EXCEPT ![r] = "returned"]
    /\ UNCHANGED <<channel, seen, wakers, scheduled>>

\* true ends the wait, false means another turn of its loop
Read(r) ==
    /\ phase[r] = "read"
    /\ phase' = [phase EXCEPT ![r] = IF value THEN "returned" ELSE "register"]
    /\ UNCHANGED <<channel, seen, wakers, scheduled>>

\* The executor polls a woken task.
Resume(r) ==
    /\ phase[r] = "parked" /\ r \in scheduled
    /\ phase' = [phase EXCEPT ![r] = "register"]
    /\ scheduled' = scheduled \ {r}
    /\ UNCHANGED <<channel, seen, wakers>>

\* The other side of a select woke the task, and the wait is polled again ...
Repoll(r) ==
    /\ phase[r] = "parked"
    /\ phase' = [phase EXCEPT ![r] = "register"]
    /\ UNCHANGED <<channel, seen, wakers, scheduled>>

\* ... or has won it, and the receiver is dropped.
Drop(r) ==
    /\ phase[r] \in {"idle", "parked"}
    /\ phase' = [phase EXCEPT ![r] = "dropped"]
    /\ wakers' = wakers \ {r}
    /\ scheduled' = scheduled \ {r}
    /\ UNCHANGED <<channel, seen>>

-----------------------------------------------------------------------------

\* SignalSender::send_signal: broadcast(true) stores the value.  It cannot
\* fail for want of receivers, the sender keeps one itself.
SendSignal ==
    /\ sender = "alive" /\ sends < MaxSends
    /\ sends' = sends + 1
    /\ value' = TRUE
    /\ sender' = "stored"
    /\ UNCHANGED <<version, closed, phase, seen, wakers, scheduled>>

\* The version is one bit that is toggled.
Bug_VersionToggled ==
    /\ sender = "stored"
    /\ version' = 1 - version
    /\ sender' = "bumped"
    /\ UNCHANGED <<value, closed, sends, phase, seen, wakers, scheduled>>

\* broadcast makes the value known as a new version
BumpVersion ==
    /\ sender = "stored"
    /\ version' = version + 1
    /\ sender' = "bumped"
    /\ UNCHANGED <<value, closed, sends, phase, seen, wakers, scheduled>>

\* The owner drops the SignalSender: the channel is marked closed.
DropSender ==
    /\ sender = "alive"
    /\ closed' = TRUE
    /\ sender' = "closing"
    /\ UNCHANGED <<value, version, sends, phase, seen, wakers, scheduled>>

\* Only one of the waiting tasks is woken.
Bug_NotifyOne ==
    /\ sender \in {"bumped", "closing"}
    /\ sender' = IF sender = "bumped" THEN "alive" ELSE "gone"
    /\ IF wakers = {} THEN UNCHANGED <<wakers, scheduled>>
       ELSE \E r \in wakers : /\ wakers' = wakers \ {r}
                              /\ scheduled' = scheduled \cup {r}
    /\ UNCHANGED <<value, version, closed, sends, phase, seen>>

\* broadcast and drop end by waking every registered task
NotifyAll ==
    /\ sender \in {"bumped", "closing"}
    /\ sender' = IF sender = "bumped" THEN "alive" ELSE "gone"
    /\ scheduled' = scheduled \cup wakers
    /\ wakers' = {}
    /\ UNCHANGED <<value, version, closed, sends, phase, seen>>

-----------------------------------------------------------------------------

PollStep(r) == Register(r) \/ Compare(r) \/ Read(r) \/ Resume(r)

Receiver(r) ==
    \/ NewReceiver(r) \/ Wait(r) \/ PollStep(r) \/ Repoll(r) \/ Drop(r)
    \/ \E s \in Receivers : Clone(r, s)

SenderNext == SendSignal \/ BumpVersion \/ DropSender \/ NotifyAll

Next == SenderNext \/ \E r \in Receivers : Receiver(r)

Spec == Init /\ [][Next]_vars

(* Fairness: a call of send_signal or a drop completes, and the executor   *)
(* goes on with a poll and with every woken task.                          *)
Fairness ==
    /\ WF_vars(BumpVersion \/ NotifyAll)
    /\ \A r \in Receivers : WF_vars(PollStep(r))

FairSpec == Spec /\ Fairness
-----------------------------------------------------------------------------
(* Properties.                                                             *)

\* Type invariant.
TypeOK ==
    /\ value \in BOOLEAN /\ closed \in BOOLEAN
    /\ version \in Nat \ {0}
    /\ sender \in Sender
    /\ sends \in 0..MaxSends
    /\ phase \in [Receivers -> Phases]
    /\ seen \in [Receivers -> Nat]
    /\ wakers \subseteq Receivers /\ scheduled \subseteq Receivers

Fired == value \/ closed

\* A task parked in wait() although the signal was sent or its sender
\* dropped is about to be polled: it is scheduled, or the sender has not
\* come to wake it yet, whenever the receiver was cloned and wherever the
\* send fell between the registration, the comparison and the read of recv.
NoLostWakeup ==
    \A r \in Receivers :
        (phase[r] = "parked" /\ Fired) =>
            r \in scheduled \/ (r \in wakers /\ sender \in {"stored", "bumped", "closing"})

Returned == {r \in Receivers : phase[r] = "returned"}

Latch == INSTANCE SignalLatch WITH fired <- Fired, returned <- Returned

\* wait() never returns before the signal (the initial false of the channel
\* does not end it) and a signal is never taken back.
ImplementsLatch == Latch!Spec

\* Every wait ends once the signal is sent or the sender dropped, even if
\* the receiver was made or the wait begun afterwards.
WaitReturns ==
    \A r \in Receivers :
        (phase[r] \in Waiting /\ Fired) ~> phase[r] \in {"returned", "dropped"}
=============================================================================
