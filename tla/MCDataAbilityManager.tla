---------------------- MODULE MCDataAbilityManager ----------------------
(* Values of the constants of DataAbilityManager for TLC. *)
EXTENDS DataAbilityManager, TLC

CONSTANTS d1, d2, d3, A, page, data, system

MCNameOf == [d \in Records |-> A]
MCKindOf == [c \in Callers |-> IF c = page THEN "page" ELSE IF c = data THEN "data" ELSE "system"]

Symmetry == Permutations(Records)
=============================================================================
