----------------------------- MODULE BestChain ------------------------------
(***************************************************************************)
(* What chain selection promises, without goroutines, maps or files: among *)
(* the blocks it has considered the node follows the one with the most     *)
(* chain work, ties going to the smaller hash.  A restart may forget what  *)
(* was not saved, blocks and the choice among them together.               *)
(***************************************************************************)
EXTENDS Integers

CONSTANTS
    Block,      \* block hashes, ordered as their hexadecimal strings are
    Work,       \* the work of the chain that ends in each block
    None        \* no tip yet

VARIABLES
    known,      \* the blocks considered
    tip,        \* the chain followed
    saved       \* <<known, tip>> as a restart finds them

bestChainVars == <<known, tip, saved>>

BetterChain(a, b) == Work[a] > Work[b] \/ (Work[a] = Work[b] /\ a < b)

BestChainInit == known = {} /\ tip = None /\ saved = <<{}, None>>

Consider(b) ==
    /\ b \notin known
    /\ known' = known \cup {b}
    /\ tip' = IF tip = None \/ BetterChain(b, tip) THEN b ELSE tip
    /\ saved' \in {saved, <<known', tip'>>}

Save == saved' = <<known, tip>> /\ UNCHANGED <<known, tip>>

Forget == known' = saved[1] /\ tip' = saved[2] /\ UNCHANGED saved

BestChainNext ==
    \/ \E b \in Block : Consider(b)
    \/ Save
    \/ Forget

BestChainSpec == BestChainInit /\ [][BestChainNext]_bestChainVars
=============================================================================
