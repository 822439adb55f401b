------------------------------- MODULE Chain --------------------------------
(***************************************************************************)
(* pkg/chain: what a block store holds, as a value.                        *)
(*                                                                         *)
(* A snapshot is the contents of the maps of MemoryStore and DiskStore,    *)
(* and of chain.json.  It has one field that the code has not, "decided",  *)
(* a piece of history that no rule reads: the blocks that were compared    *)
(* with the tip (or became the first tip).                                 *)
(***************************************************************************)
EXTENDS Blocks

EmptyMap == [x \in {} |-> ZeroHash]

Empty ==
    [genesisHash |-> ZeroHash, currentTip |-> ZeroHash, blocks |-> {},
     heights |-> EmptyMap, totalWork |-> EmptyMap, decided |-> {}]

HasBlock(s, h) == h \in s.blocks

\* The work CurrentTip reports: the recorded one, zero when none is.
TipWork(s) ==
    IF s.currentTip \in DOMAIN s.totalWork THEN s.totalWork[s.currentTip] ELSE 0

\* Mutant of WithBlock: only the block itself is recorded.
WithBlockUnindexed(s, h, w) ==
    [s EXCEPT !.currentTip = IF @ = ZeroHash THEN h ELSE @,
              !.genesisHash = IF @ = ZeroHash /\ Header[h].height = 0 THEN h ELSE @,
              !.blocks = @ \cup {h}]

\* The maps after StoreBlock: the block is indexed under its hash and, over
\* whatever was there, under its height; the first one becomes the tip.
WithBlock(s, h, w) ==
    [genesisHash |-> IF Header[h].height = 0 /\ s.genesisHash = ZeroHash
                     THEN h ELSE s.genesisHash,
     currentTip  |-> IF s.currentTip = ZeroHash THEN h ELSE s.currentTip,
     blocks      |-> s.blocks \cup {h},
     heights     |-> [n \in DOMAIN s.heights \cup {Header[h].height} |->
                        IF n = Header[h].height THEN h ELSE s.heights[n]],
     totalWork   |-> [b \in DOMAIN s.totalWork \cup {h} |->
                        IF b = h THEN w ELSE s.totalWork[b]],
     decided     |-> IF s.currentTip = ZeroHash
                     THEN s.decided \cup {h} ELSE s.decided]

\* Block h has been compared with the tip, and "tip" is the outcome.
Decided(s, h, tip) ==
    [genesisHash |-> s.genesisHash, currentTip |-> tip, blocks |-> s.blocks,
     heights |-> s.heights, totalWork |-> s.totalWork,
     decided |-> s.decided \cup {h}]

WithTip(s, h) == Decided(s, h, h)

-----------------------------------------------------------------------------
HeightsOf(S) == {Header[h].height : h \in S}

IsMap(f, D, R) == DOMAIN f \subseteq D /\ f \in [DOMAIN f -> R]

\* The shape Go gives the fields.
IsStore(s) ==
    /\ s = [genesisHash |-> s.genesisHash, currentTip |-> s.currentTip,
            blocks |-> s.blocks, heights |-> s.heights,
            totalWork |-> s.totalWork, decided |-> s.decided]
    /\ s.genesisHash \in Hash \cup {ZeroHash}
    /\ s.currentTip \in Hash \cup {ZeroHash}
    /\ s.blocks \subseteq Hash
    /\ IsMap(s.heights, HeightsOf(Hash), Hash)
    /\ IsMap(s.totalWork, Hash, Nat)
    /\ s.decided \subseteq Hash

\* Following a hash from one map into the next finds it there.
Coherent(s) ==
    /\ DOMAIN s.totalWork = s.blocks
    /\ s.currentTip \in s.blocks \/ (s.currentTip = ZeroHash /\ s.blocks = {})
    /\ s.decided \subseteq s.blocks
    /\ s.genesisHash # ZeroHash =>
         s.genesisHash \in s.blocks /\ Header[s.genesisHash].height = 0
    /\ s.genesisHash = ZeroHash => \A h \in s.blocks : Header[h].height # 0

\* The height index has a block of the right height for each height in use.
HeightIndex(s) ==
    /\ DOMAIN s.heights = HeightsOf(s.blocks)
    /\ \A n \in DOMAIN s.heights :
         s.heights[n] \in s.blocks /\ Header[s.heights[n]].height = n
=============================================================================
