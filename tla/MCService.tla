------------------------------ MODULE MCService ------------------------------
(* Small instances of the service. *)
EXTENDS ValidationPromise, TLC

MCCosts   == {1, 2}
MCHeavy   == {2}
MCLimits  == {2}
MCLowered == {1, 2}
NoKeys    == [r \in Run |-> NoKey]
AgentsKey == [r \in Run |-> IF r \in Agent THEN CHOOSE k \in Key : TRUE ELSE NoKey]
Symmetry  == Permutations(Run)
=============================================================================
