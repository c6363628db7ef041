----------------------------- MODULE SignalLatch -----------------------------
(***************************************************************************)
(* What a signal (src/signal.rs) promises to its users: it fires at most   *)
(* once and for good, and a wait returns only after that.  Module Endpoint *)
(* relies on it: its variable `signalled` is one such latch per            *)
(* generation, its variable `stop` another one.                            *)
(***************************************************************************)
CONSTANT Receivers

VARIABLES fired,     \* the signal was sent or its sender dropped
          returned   \* receivers whose wait has returned

vars == <<fired, returned>>

Init == fired = FALSE /\ returned = {}

Fire == ~fired /\ fired' = TRUE /\ UNCHANGED returned

Return(r) == fired /\ r \notin returned /\ returned' = returned \cup {r}
             /\ UNCHANGED fired

Next == Fire \/ \E r \in Receivers : Return(r)

Spec == Init /\ [][Next]_vars
=============================================================================
