------------------------------- MODULE MCTrust -------------------------------
(***************************************************************************)
(* Instances of AttestationTrust for TLC.  Keys are interchangeable.       *)
(***************************************************************************)
EXTENDS AttestationTrust, TLC

Symmetry == Permutations(Keys)
=============================================================================
