---------------------------- MODULE MCValidator -----------------------------
(***************************************************************************)
(* A small tree of blocks for the runs of the validator.  With             *)
(* TargetSpace = 16, targets 7, 3 and 1 are worth 2, 4 and 8.              *)
(*                                                                         *)
(*      5 genesis -+- 4 (work 2) --- 2 (work 4)                            *)
(*                 +- 3 (work 2, ties with 4 and has the smaller hash)     *)
(*                 +- 1 (work 4, valid once the clock has moved)           *)
(*      6 another genesis (work 4)                                         *)
(*                                                                         *)
(* and 7..14, each of which breaks one rule.  Every height is an epoch of  *)
(* its own: with a word of at most 5, their DAGs have sizes 2, 4 and 4.    *)
(***************************************************************************)
EXTENDS ValidatorRefinement, Verifier

CONSTANTS c1, c2

Header0(height, parent, time, target) ==
    [algorithmVersion |-> ChainSpec.algorithmVersion, height |-> height,
     parentHash |-> parent, timestamp |-> time, target |-> target,
     epochSeed |-> EpochSeedForHeight(ChainSpec, height),
     dagSize |-> DAGSizeForHeight(ChainSpec, height), pow |-> TRUE]

AllHeaders ==
    << Header0(1, 5, 5, 3),
       Header0(2, 4, 3, 3),
       Header0(1, 5, 2, 7),
       Header0(1, 5, 2, 7),
       Header0(0, 0, 1, 7),
       Header0(0, 0, 1, 3),
       Header0(2, 5, 2, 1),                                 \* skips a height
       Header0(1, 5, 1, 1),                                 \* no later than its parent
       [Header0(1, 5, 2, 1) EXCEPT !.pow = FALSE],
       [Header0(2, 4, 3, 1) EXCEPT !.epochSeed = <<1, 4>>], \* last epoch's seed
       [Header0(1, 5, 2, 1) EXCEPT !.dagSize = 2],
       Header0(1, 5, 2, 0),                                 \* zero target
       Header0(0, 4, 3, 1),                                 \* a genesis with a parent
       [Header0(1, 5, 2, 1) EXCEPT !.algorithmVersion = 2] >>

AllHash == DOMAIN AllHeaders
TreeHash == 1..5

HeadersOf(S) == [h \in S |-> AllHeaders[h]]
MCAllHeader == HeadersOf(AllHash)
MCTreeHeader == HeadersOf(TreeHash)

MCChainWork[h \in Hash] ==
    CalcBlockWork(Header[h].target)
      + IF Header[h].height > 0 /\ Header[h].parentHash \in Hash
        THEN MCChainWork[Header[h].parentHash] ELSE 0

Callers1 == {c1}
Callers2 == {c1, c2}
=============================================================================
