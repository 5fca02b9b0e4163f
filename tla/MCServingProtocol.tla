-------------------------- MODULE MCServingProtocol --------------------------
(* The serving gate under two sync clients and a restricting control plane. *)
EXTENDS ServingProtocol, TLC

CONSTANTS t1, t2, c1, c2, a1

MCTenants == {t1, t2}
MCCallers == {c1, c2}
MCAuthorities == {a1}
MCChallenges == 0..3

Symmetry == Permutations(MCTenants) \cup Permutations(MCCallers)
=============================================================================
