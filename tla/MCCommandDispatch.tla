--------------------------- MODULE MCCommandDispatch ---------------------------
(* Instances of CommandDispatch for TLC.                                   *)
EXTENDS CommandDispatch, TLC

CONSTANTS a, f, h, m, o1, o2, s1, s2, key, scope

\* a and f are ordinary commands, h a HALT, m a HALT that is filtered.
MCRoute == [c \in Commands |-> IF c \in Halts THEN <<>> ELSE <<key, scope>>]
MCReach == [c \in Halts |-> Topics]

MCSymmetry == Permutations(Offerers) \union Permutations(Subscribers)
=============================================================================
