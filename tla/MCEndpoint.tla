----------------------------- MODULE MCEndpoint -----------------------------
(* Endpoint for TLC.  Connection tasks are interchangeable.                *)
EXTENDS Endpoint, TLC

ConnSymmetry == Permutations(Conns)
=============================================================================
