------------------------------- MODULE Rules --------------------------------
(***************************************************************************)
(* pkg/consensus: the rules a block must obey, and what a chain is worth,  *)
(* as functions of a snapshot of the store.                                *)
(***************************************************************************)
EXTENDS Chain

CONSTANT MaxFuture      \* how far ahead of the clock a timestamp may be (2h)

ASSUME RulesAssumption == MaxFuture \in Nat

ValidEpoch(spec, hd) ==
    /\ hd.algorithmVersion = spec.algorithmVersion
    /\ hd.dagSize = DAGSizeForHeight(spec, hd.height)
    /\ hd.epochSeed = EpochSeedForHeight(spec, hd.height)

ValidParent(s, hd) ==
    IF hd.height = 0
    THEN hd.parentHash = ZeroHash
    ELSE /\ HasBlock(s, hd.parentHash)
         /\ hd.height = Header[hd.parentHash].height + 1
         /\ hd.timestamp > Header[hd.parentHash].timestamp

\* The rules on a header that mention neither the store nor the clock.
ValidAlone(hd) == ValidEpoch(ChainSpec, hd) /\ hd.target # 0 /\ hd.pow

\* Mutant of ValidateHeader: a block is not checked against its parent.
ValidateHeaderAlone(s, hd, time) ==
    ValidAlone(hd) /\ hd.timestamp <= time + MaxFuture

ValidateHeader(s, hd, time) ==
    /\ ValidAlone(hd)
    /\ ValidParent(s, hd)
    /\ hd.timestamp <= time + MaxFuture

\* The work of the chain that ends in block h, whose parent s holds.
AddWork(s, h) ==
    CalcBlockWork(Header[h].target)
      + IF Header[h].height > 0 THEN s.totalWork[Header[h].parentHash] ELSE 0

Stored(s, h) == WithBlock(s, h, AddWork(s, h))

\* The snapshot after a call of InsertBlock with a new and valid block that
\* nothing disturbs.
StoredAndCompared(s, h) ==
    LET t == Stored(s, h)
    IN  Decided(t, h, SelectBestChainByTotalWork(t.currentTip, TipWork(t), h, AddWork(s, h)))

-----------------------------------------------------------------------------
\* Every block of the snapshot obeys the rules against the rest of it.
ChainRules(s) ==
    \A h \in s.blocks : ValidAlone(Header[h]) /\ ValidParent(s, Header[h])

\* Every recorded work is the block's own on top of its parent's record.
WorkSums(s) ==
    \A h \in s.blocks : s.totalWork[h] = AddWork(s, h)

\* Block g of snapshot s would win the tip comparison against block h of it.
Beats(s, g, h) == Better(g, s.totalWork[g], h, s.totalWork[h])

BestOfDecided(s) ==
    \A h \in s.decided : ~Beats(s, h, s.currentTip)
=============================================================================
