--------------------------- MODULE MCRingLifetime ---------------------------
(***************************************************************************)
(* RingLifetime for TLC: one thread with two objects, one with one, fewer  *)
(* descriptors than they and a temporary file need.                        *)
(***************************************************************************)
EXTENDS RingLifetime, TLC

CONSTANTS a1, a2, b1, A, B

ThreeObjs == {a1, a2, b1}
TwoThreads == a1 :> A @@ a2 :> A @@ b1 :> B

\* The objects of one thread are alike.
Symmetry == Permutations({a1, a2})
=============================================================================
