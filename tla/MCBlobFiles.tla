---------------------------- MODULE MCBlobFiles ----------------------------
(* Instance of BlobFiles for TLC: two puts of one blob, written in two pieces. *)
EXTENDS BlobFiles, TLC

CONSTANTS t1, t2, a, b

\* The puts are alike, and so are the pieces.
Symmetry == Permutations({t1, t2}) \cup Permutations({a, b})
=============================================================================
