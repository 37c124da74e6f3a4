--------------------------- MODULE MCDelayHandler ---------------------------
(* Instances of DelayHandler for TLC.                                      *)
EXTENDS DelayHandler, TLC

CONSTANTS r1, r2, r3, k1, k2, c1, c2

\* r1 and r2 address one engine, r3 another.
MCKeyOf == (r1 :> k1) @@ (r2 :> k1) @@ (r3 :> k2)
\* Two requests for one engine.
MCKeyOf2 == (r1 :> k1) @@ (r2 :> k1)

\* The caller threads are interchangeable.
MCSymmetry == Permutations(Callers)
=============================================================================
