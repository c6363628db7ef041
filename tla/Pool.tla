-------------------------------- MODULE Pool --------------------------------
(***************************************************************************)
(* What an endpoint promises about the connections it serves: they are     *)
(* admitted in generations, only while a generation is open and up to its  *)
(* limit; a closed generation only drains; and the next one opens only     *)
(* after that one was closed.  The limit is one of each generation, not of *)
(* the endpoint: a generation that drains does not count against the next. *)
(***************************************************************************)
EXTENDS Integers, FiniteSets

CONSTANTS Members,      \* connections
          Generations,  \* 1 .. n
          Limit         \* connections a generation serves at once

VARIABLES opened,       \* number of generations opened so far
          closed,       \* generations closed
          serving       \* serving[g]: the connections of generation g

vars == <<opened, closed, serving>>

Init ==
    /\ opened = 0 /\ closed = {}
    /\ serving = [g \in Generations |-> {}]

Open ==
    /\ opened + 1 \in Generations /\ 1 .. opened \subseteq closed
    /\ opened' = opened + 1
    /\ UNCHANGED <<closed, serving>>

Close(g) ==
    /\ g \in 1 .. opened
    /\ closed' = closed \cup {g}
    /\ UNCHANGED <<opened, serving>>

Admit(g, c) ==
    /\ g \in 1 .. opened /\ g \notin closed
    /\ \A h \in Generations : c \notin serving[h]
    /\ Cardinality(serving[g] \cup {c}) <= Limit
    /\ serving' = [serving EXCEPT ![g] = @ \cup {c}]
    /\ UNCHANGED <<opened, closed>>

Leave(g, c) ==
    /\ c \in serving[g]
    /\ serving' = [serving EXCEPT ![g] = @ \ {c}]
    /\ UNCHANGED <<opened, closed>>

Next ==
    \/ Open
    \/ \E g \in Generations :
          Close(g) \/ \E c \in Members : Admit(g, c) \/ Leave(g, c)

Spec == Init /\ [][Next]_vars
=============================================================================
