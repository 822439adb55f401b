------------------------------- MODULE MCNode -------------------------------
(***************************************************************************)
(* Blocks for the runs of a node: all chains whose blocks are made no      *)
(* earlier than their parents, one of the same second among them.  A hash  *)
(* is that of the parent with the block's second as one more digit.        *)
(***************************************************************************)
EXTENDS Node, TLC

CONSTANTS
    miner, peer,    \* the goroutines
    LastSecond,     \* the latest timestamp of a block
    MaxGap,         \* how many seconds a block may come after its parent
    GenesisSeconds  \* when a genesis block may have been made

Base == LastSecond + 1

Generation[n \in 0..MaxHeight] ==
    IF n = 0 THEN GenesisSeconds
    ELSE {Base * b[1] + b[2] : b \in
            {c \in Generation[n - 1] \X (1..LastSecond) : c[2] - (c[1] % Base) \in 0..MaxGap}}

\* A table, because of @@, that TLC computes once.  What a .cfg puts in the place
\* of a constant it evaluates at every use, and so MCHeader is but its name.
HeaderOf ==
    [h \in UNION {Generation[n] : n \in 0..MaxHeight} |->
       LET height == CHOOSE n \in 0..MaxHeight : h \in (Base^n)..(Base^(n + 1) - 1)
       IN  [algorithmVersion |-> ChainSpec.algorithmVersion, height |-> height,
            parentHash |-> h \div Base, timestamp |-> h % Base, target |-> Bits,
            epochSeed |-> EpochSeedForHeight(ChainSpec, height),
            dagSize |-> DAGSizeForHeight(ChainSpec, height), pow |-> TRUE]] @@ <<>>
Tree == DOMAIN HeaderOf

MCHash == Tree
MCHeader == HeaderOf

Solo == {miner}
WithPeer == {miner, peer}
=============================================================================
