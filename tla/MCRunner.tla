------------------------------ MODULE MCRunner ------------------------------
(* Runner for TLC: configurations between which every kind of change       *)
(* happens: an entry added, removed, disabled, given other settings, listed *)
(* twice; SSH added, removed, changed, enabled and disabled.               *)
EXTENDS Runner

CONSTANTS a, b   \* endpoint names

Ep(d, settings, enabled) == [dns |-> d, settings |-> settings, enabled |-> enabled]
Sh(settings, enabled) == [settings |-> settings, enabled |-> enabled]
Cfg(es, s) == [endpoints |-> es, ssh |-> s]

MCConfigs == { Cfg(<<Ep(a, 1, TRUE)>>, Sh(1, FALSE)),
               Cfg(<<Ep(b, 1, TRUE), Ep(a, 1, FALSE)>>, Sh(2, TRUE)),
               Cfg(<<Ep(a, 1, TRUE), Ep(a, 2, TRUE)>>, None) }
=============================================================================
