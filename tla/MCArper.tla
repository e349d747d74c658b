------------------------------ MODULE MCArper ------------------------------
(* The resolver for model checking: every address answers every request. *)
EXTENDS Arper, TLC

MCMatches == [r \in Requests |-> Addrs]

\* The requests are interchangeable; used by the run without liveness only.
Symmetry == Permutations(Requests)
=============================================================================
