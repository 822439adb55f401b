------------------------------ MODULE MCNetwork ------------------------------
(***************************************************************************)
(* Two nodes.  Two genesis blocks, two blocks on top of each, and chains   *)
(* without a fork from there: block h is made on block h \div 4.           *)
(***************************************************************************)
EXTENDS Network, TLC

CONSTANTS n1, n2

TwoNodes == {n1, n2}
Symmetry == Permutations(TwoNodes)
Mutual == {<<n1, n2>>, <<n2, n1>>}
Joining == {<<n2, n1>>}

Genesis == 1..2
Children(S) == {4 * h + i : h \in S, i \in IF S = Genesis THEN 1..2 ELSE {1}}
Generation[n \in 0..MaxHeight] == IF n = 0 THEN Genesis ELSE Children(Generation[n - 1])

\* A table, because of @@, that TLC computes once.  What a .cfg puts in the place
\* of a constant it evaluates at every use, and so MCHeader is but its name.
HeaderOf ==
    [h \in UNION {Generation[n] : n \in 0..MaxHeight} |->
       LET height == CHOOSE n \in 0..MaxHeight : h \in Generation[n]
       IN  [algorithmVersion |-> ChainSpec.algorithmVersion, height |-> height,
            parentHash |-> h \div 4, timestamp |-> height, target |-> Bits,
            epochSeed |-> EpochSeedForHeight(ChainSpec, height),
            dagSize |-> DAGSizeForHeight(ChainSpec, height), pow |-> TRUE]] @@ <<>>
Tree == DOMAIN HeaderOf

MCHash == Tree
MCHeader == HeaderOf

\* One node mines two blocks while the other one only listens, or each may mine one.
TwoOrOneEach == {f \in [TwoNodes -> 0..2] : f[n1] + f[n2] = 2}
ToMaxHeight == {[n \in TwoNodes |-> MaxHeight]}

SameGenesis == {[n \in TwoNodes |-> 1]}
OwnGenesis == {[n \in TwoNodes |-> IF n = n1 THEN 1 ELSE 2]}
=============================================================================
