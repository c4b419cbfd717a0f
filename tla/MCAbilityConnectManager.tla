---------------------- MODULE MCAbilityConnectManager ----------------------
(* Small instances of AbilityConnectManager. *)
EXTENDS AbilityConnectManager, TLC

CONSTANTS a1, a2, b1, b2, A, B, c1, c2

MCServiceOf == [r \in Records |-> IF r \in {a1, a2} THEN A ELSE B]
MCTokenOf == [r \in Records |-> "token"]
MCBundleOf == [t \in Tokens |-> "bundle"]

\* The records of a service, and the clients, are interchangeable.
Symmetry == Permutations({a1, a2}) \cup Permutations({b1, b2}) \cup Permutations({c1, c2})
=============================================================================
