------------------------------ MODULE MCSealing ------------------------------
(***************************************************************************)
(* Two epochs, of 3 and 9 nodes: fewer than workers, and more with a rest. *)
(***************************************************************************)
EXTENDS Sealing, TLC

CONSTANTS h1, h2

MCHandlers == {h1, h2}
MCNodeCount == [e \in 0..1 |-> 3 + 6 * e]
Symmetry == Permutations(MCHandlers)
=============================================================================
