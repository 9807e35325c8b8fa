-------------------------- MODULE MCOptimizerState --------------------------
(* Instances of OptimizerState for TLC: origin run has blocks a and b, origin *)
(* other has block c; every payload may be the content of every block.        *)
EXTENDS OptimizerState, TLC

CONSTANTS a, b, c, p, q, run, other

Owners == a :> run @@ b :> run @@ c :> other
Owner  == a :> run @@ b :> run

\* The blocks of one origin are alike, and so are the payloads.
Symmetry == Permutations({a, b}) \cup Permutations({p, q})
=============================================================================
