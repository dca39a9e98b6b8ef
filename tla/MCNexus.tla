------------------------------ MODULE MCNexus ------------------------------
EXTENDS Nexus, TLC

(* One build for each revision. *)
Distinct == [r \in Releases |-> r]

(* Callers are alike; no liveness property is checked with this. *)
CallerSymmetry == Permutations(Callers)

=============================================================================
