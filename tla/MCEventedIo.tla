---------------------------- MODULE MCEventedIo ----------------------------
(***************************************************************************)
(* EventedIo for TLC.  Requests are alike.  A ring of one entry with three *)
(* requests overflows its two completions.                                 *)
(***************************************************************************)
EXTENDS EventedIo, TLC

Rings == {<<FALSE, 1>>, <<FALSE, 2>>, <<TRUE, 1>>, <<TRUE, 2>>}
SqPollRing == {<<TRUE, 2>>}

Symmetry == Permutations(Reqs)
=============================================================================
