---------------------------- MODULE ChainProofs -----------------------------
(***************************************************************************)
(* Facts about chains that no goroutine is part of: the sizes of DAGs for  *)
(* every width of a machine word, all flags and all heights, what storing  *)
(* a block or moving the tip makes of a snapshot of the store, and which   *)
(* of its blocks is the best.                                              *)
(***************************************************************************)
EXTENDS Rules, TLAPS

-----------------------------------------------------------------------------
\* Multiples of n, as the "%" of the code tells them.
LEMMA MultipleOf ==
    ASSUME NEW n \in Nat \ {0}, NEW a \in Nat, a % n = 0
    PROVE  \E k \in Nat : a = n * k
  BY Z3

LEMMA ProductIsMultiple ==
    ASSUME NEW n \in Nat \ {0}, NEW k \in Nat
    PROVE  (n * k) % n = 0
  BY Z3

LEMMA DivisionInverts ==
    ASSUME NEW n \in Nat \ {0}, NEW k \in Nat
    PROVE  (n * k) \div n = k
  BY Z3

LEMMA Remainder ==
    ASSUME NEW n \in Nat \ {0}, NEW a \in Nat
    PROVE  /\ a - (a % n) \in Nat /\ (a - (a % n)) % n = 0
           /\ a - n < a - (a % n) /\ a - (a % n) <= a
<1>1. a % n \in 0..(n - 1) /\ a % n <= a
  BY Z3
<1>2. (a - (a % n)) % n = 0
  <2>1. a = n * (a \div n) + (a % n) /\ a \div n \in Nat
    BY Z3
  <2>2. a - (a % n) = n * (a \div n)
    BY <1>1, <2>1
  <2> QED BY <2>1, <2>2, ProductIsMultiple
<1>3. ASSUME NEW r \in 0..(n - 1), r <= a
      PROVE  a - r \in Nat /\ a - n < a - r /\ a - r <= a
  BY <1>3
<1> QED BY <1>1, <1>2, <1>3

LEMMA SumIsMultiple ==
    ASSUME NEW n \in Nat \ {0}, NEW a \in Nat, NEW b \in Nat, NEW e \in Nat,
           a % n = 0, b % n = 0
    PROVE  (a + e * b) % n = 0
<1>1. PICK i \in Nat : a = n * i
  BY MultipleOf
<1>2. PICK g \in Nat : b = n * g
  BY MultipleOf
<1>3. e * g \in Nat /\ i + e * g \in Nat
  OBVIOUS
<1>4. a + e * b = n * (i + e * g)
  BY <1>1, <1>2, <1>3, Z3
<1> QED BY <1>3, <1>4, ProductIsMultiple

\* a - (a % n) is the largest multiple of n up to a.
LEMMA FloorIsLargest ==
    ASSUME NEW n \in Nat \ {0}, NEW a \in Nat, NEW b \in Nat, b % n = 0, b <= a
    PROVE  b <= a - (a % n)
<1>1. PICK k \in Nat : b = n * k
  BY MultipleOf
<1>2. a - (a % n) \in Nat /\ a - n < a - (a % n)
  BY Remainder
<1>3. PICK q \in Nat : a - (a % n) = n * q
  BY <1>2, Remainder, MultipleOf
<1>4. n * k < n * q + n
  BY <1>1, <1>2, <1>3
<1>5. k <= q
  BY <1>4, Z3
<1>6. n * k <= n * q
  BY <1>5, Z3
<1> QED BY <1>1, <1>3, <1>6

LEMMA QuotientBounds ==
    ASSUME NEW n \in Nat \ {0}, NEW e \in Nat, NEW m \in Nat, ~(e > m \div n)
    PROVE  e * n <= m
  BY Z3

LEMMA QuotientGrows ==
    ASSUME NEW n \in Nat \ {0}, NEW a \in Nat
    PROVE  a \div n \in Nat /\ (a + 1) \div n \in Nat /\ a \div n <= (a + 1) \div n
  BY Z3

-----------------------------------------------------------------------------
\* The specs of the nodes that start.
NodeSpecs == {s \in {ParseFlags(f) : f \in Flags} : ValidSpec(s)}

\* The options are words once their defaults are filled in.
LEMMA OptionValues ==
    ASSUME NEW f \in Flags
    PROVE  /\ f.mode \in {"strict", "research"}
           /\ InitialDAG(f) \in Word /\ Value(f.dagGrowth, DefaultDAGGrowth) \in Word
           /\ Value(f.epochBlocks, DefaultEpochBlocks) \in Word
  BY SpecAssumption DEF Flags, Option, Value, InitialDAG, OrElse, Word

\* What Spec.Validate and the flags leave of the possible specs.
LEMMA NodeSpecOK ==
    ASSUME NEW spec \in NodeSpecs
    PROVE  /\ spec.initialDAGSize \in Word \ {0}
           /\ InitialSize(spec) = spec.initialDAGSize /\ InitialSize(spec) % NodeSize = 0
           /\ Growth(spec) \in Word \ {0} /\ Growth(spec) % NodeSize = 0
           /\ spec.epochBlocks \in Word \ {0}
           /\ spec \in SpecType
<1>1. PICK f \in Flags : spec = ParseFlags(f)
  BY DEF NodeSpecs
<1>2. ValidSpec(spec)
  BY DEF NodeSpecs
<1>3. CASE f.mode = "strict"
  BY <1>1, <1>2, <1>3, OptionValues, SpecAssumption
  DEF ParseFlags, StrictSpec, ValidSpec, InitialSize, Growth, OrElse, Word, SpecType
<1>4. CASE f.mode # "strict"
  BY <1>1, <1>2, <1>4, OptionValues, SpecAssumption
  DEF ParseFlags, ResearchSpecWithGrowth, ValidSpec, InitialSize, Growth, OrElse,
      Word, SpecType
<1> QED BY <1>3, <1>4

\* One epoch: its size is a word, a multiple, and no smaller than the first.
LEMMA SizeOfEpoch ==
    ASSUME NEW spec \in NodeSpecs, NEW epoch \in Nat
    PROVE  /\ DAGSizeForEpoch(spec, epoch) \in Word \ {0}
           /\ DAGSizeForEpoch(spec, epoch) % NodeSize = 0
<1> DEFINE I == InitialSize(spec)
           G == Growth(spec)
<1>1. /\ MaxUint \in Nat /\ NodeSize \in Nat \ {0}
      /\ I \in Nat \ {0} /\ I <= MaxUint /\ I % NodeSize = 0
      /\ G \in Nat \ {0} /\ G % NodeSize = 0
  BY NodeSpecOK, SpecAssumption DEF Word
<1>2. CASE epoch > (MaxUint - I) \div G
  <2>1. DAGSizeForEpoch(spec, epoch) = MaxUint - (MaxUint % NodeSize)
    BY <1>2, Zenon DEF DAGSizeForEpoch
  <2>2. I <= MaxUint - (MaxUint % NodeSize)
    BY <1>1, FloorIsLargest
  <2>3. /\ MaxUint - (MaxUint % NodeSize) \in Nat
        /\ (MaxUint - (MaxUint % NodeSize)) % NodeSize = 0
        /\ MaxUint - (MaxUint % NodeSize) <= MaxUint
    BY <1>1, Remainder
  <2> QED BY <1>1, <2>1, <2>2, <2>3 DEF Word
<1>3. CASE ~(epoch > (MaxUint - I) \div G)
  <2>1. DAGSizeForEpoch(spec, epoch) = I + epoch * G
    BY <1>3 DEF DAGSizeForEpoch
  <2>2. epoch * G <= MaxUint - I
    <3> MaxUint - I \in Nat BY <1>1
    <3> QED BY <1>1, <1>3, QuotientBounds
  <2>3. epoch * G \in Nat
    BY <1>1
  <2>4. (I + epoch * G) % NodeSize = 0
    BY <1>1, SumIsMultiple
  <2> QED BY <1>1, <2>1, <2>2, <2>3, <2>4 DEF Word
<1> QED BY <1>2, <1>3

LEMMA SizesGrow ==
    ASSUME NEW spec \in NodeSpecs, NEW e \in Nat, NEW f \in Nat, e <= f
    PROVE  DAGSizeForEpoch(spec, e) <= DAGSizeForEpoch(spec, f)
<1> DEFINE I == InitialSize(spec)
           G == Growth(spec)
<1>1. /\ MaxUint \in Nat /\ NodeSize \in Nat \ {0}
      /\ I \in Nat \ {0} /\ I <= MaxUint /\ G \in Nat \ {0}
      /\ MaxUint - I \in Nat /\ (MaxUint - I) \div G \in Nat
  <2>1. /\ MaxUint \in Nat /\ NodeSize \in Nat \ {0}
        /\ I \in Nat \ {0} /\ I <= MaxUint /\ G \in Nat \ {0}
    BY NodeSpecOK, SpecAssumption DEF Word
  <2>2. MaxUint - I \in Nat
    BY <2>1
  <2> QED BY <2>1, <2>2, QuotientGrows
<1>2. CASE e > (MaxUint - I) \div G
  <2>1. f > (MaxUint - I) \div G
    BY <1>1, <1>2
  <2>2. DAGSizeForEpoch(spec, e) = DAGSizeForEpoch(spec, f)
    BY <1>2, <2>1 DEF DAGSizeForEpoch
  <2>3. DAGSizeForEpoch(spec, e) \in Nat
    BY SizeOfEpoch, <1>1 DEF Word
  <2> QED BY <2>2, <2>3
<1>3. CASE /\ ~(e > (MaxUint - I) \div G)
           /\ f > (MaxUint - I) \div G
  <2>1. DAGSizeForEpoch(spec, f) = MaxUint - (MaxUint % NodeSize)
    BY <1>3, Zenon DEF DAGSizeForEpoch
  <2>2. /\ DAGSizeForEpoch(spec, e) \in Nat /\ DAGSizeForEpoch(spec, e) <= MaxUint
        /\ DAGSizeForEpoch(spec, e) % NodeSize = 0
    BY <1>1, SizeOfEpoch DEF Word
  <2>3. DAGSizeForEpoch(spec, e) <= MaxUint - (MaxUint % NodeSize)
    BY <1>1, <2>2, FloorIsLargest
  <2> QED BY <2>1, <2>3
<1>4. CASE /\ ~(e > (MaxUint - I) \div G)
           /\ ~(f > (MaxUint - I) \div G)
  <2>1. /\ DAGSizeForEpoch(spec, e) = I + e * G
        /\ DAGSizeForEpoch(spec, f) = I + f * G
    BY <1>4 DEF DAGSizeForEpoch
  <2>2. e * G <= f * G
    BY <1>1, Z3
  <2> QED BY <1>1, <2>1, <2>2
<1> QED BY <1>2, <1>3, <1>4

-----------------------------------------------------------------------------
\* Whatever the flags, the DAG of a height is a whole number of nodes that a
\* machine word can hold, and no height has a smaller one than those below.
THEOREM SizeOfHeight ==
    ASSUME NEW spec \in NodeSpecs, NEW height \in Nat
    PROVE  /\ DAGSizeForHeight(spec, height) \in Word \ {0}
           /\ DAGSizeForHeight(spec, height) % NodeSize = 0
           /\ DAGSizeForHeight(spec, height) <= DAGSizeForHeight(spec, height + 1)
<1>1. spec.epochBlocks \in Nat \ {0}
  BY NodeSpecOK, SpecAssumption DEF Word
<1>2. /\ EpochOf(spec, height) \in Nat /\ EpochOf(spec, height + 1) \in Nat
      /\ EpochOf(spec, height) <= EpochOf(spec, height + 1)
  BY <1>1, QuotientGrows DEF EpochOf
<1> QED BY <1>2, SizeOfEpoch, SizesGrow DEF DAGSizeForHeight

\* A header is made from the spec resolved for its height and checked against
\* the unresolved one: both give the height its size and its seed, and the DAG
\* made from the resolved one has that size.
THEOREM ResolvedSpecAgrees ==
    ASSUME NEW spec \in NodeSpecs, NEW height \in Nat
    PROVE  LET resolved == ResolvedForHeight(spec, height)
           IN  /\ resolved.dagSize = DAGSizeForHeight(spec, height)
               /\ EpochSeedForHeight(resolved, height) = EpochSeedForHeight(spec, height)
               /\ NodeCount(resolved) * NodeSize = DAGSizeForHeight(spec, height)
<1> DEFINE resolved == ResolvedForHeight(spec, height)
           size == DAGSizeForHeight(spec, height)
<1>1. NodeSize \in Nat \ {0}
  BY SpecAssumption
<1>2. size \in Nat \ {0} /\ size % NodeSize = 0
  BY SizeOfHeight, SpecAssumption DEF Word
<1>3. /\ resolved.dagSize = size /\ resolved.dagGrowth = spec.dagGrowth
      /\ resolved.initialDAGSize = spec.initialDAGSize
      /\ resolved.epochBlocks = spec.epochBlocks
  BY NodeSpecOK DEF ResolvedForHeight, SpecType
<1>4. InitialSize(resolved) = InitialSize(spec) /\ Growth(resolved) = Growth(spec)
  BY <1>3, NodeSpecOK DEF InitialSize, Growth, OrElse
<1>5. DAGSizeForHeight(resolved, height) = size /\ EpochOf(resolved, height) = EpochOf(spec, height)
  BY <1>3, <1>4 DEF DAGSizeForHeight, DAGSizeForEpoch, EpochOf
<1>6. EpochSeedForHeight(resolved, height) = EpochSeedForHeight(spec, height)
  BY <1>5 DEF EpochSeedForHeight
<1>7. NodeCount(resolved) = size \div NodeSize
  BY <1>2, <1>3 DEF NodeCount, OrElse
<1>8. PICK k \in Nat : size = NodeSize * k
  BY <1>1, <1>2, MultipleOf
<1>9. size \div NodeSize = k
  BY <1>1, <1>8, DivisionInverts
<1>10. k * NodeSize = size
  BY <1>1, <1>8
<1> QED BY <1>3, <1>6, <1>7, <1>9, <1>10

-----------------------------------------------------------------------------
\* What one snapshot, in memory or on disk, satisfies by itself.
Consistent(s) ==
    /\ IsStore(s)
    /\ Coherent(s)
    /\ HeightIndex(s)
    /\ ChainRules(s)
    /\ WorkSums(s)

\* Snapshot t holds every block of s, with the same total work.
Extends(t, s) ==
    /\ s.blocks \subseteq t.blocks
    /\ \A b \in s.blocks : t.totalWork[b] = s.totalWork[b]

LEMMA HeaderType ==
    ASSUME NEW h \in Hash
    PROVE  /\ Header[h].height \in Nat
           /\ Header[h].target \in Nat
           /\ Header[h].parentHash \in Hash \cup {ZeroHash}
           /\ h # ZeroHash
           /\ Header[h].height \in HeightsOf(Hash)
  BY BlocksAssumption DEF BlockHeader, HeightsOf

LEMMA CalcBlockWorkType ==
    ASSUME NEW target \in Nat
    PROVE  CalcBlockWork(target) \in Nat
<1>1. CASE target = 0
  BY <1>1 DEF CalcBlockWork
<1>2. CASE target # 0
  BY <1>2, BlocksAssumption DEF CalcBlockWork
<1> QED BY <1>1, <1>2

\* The chain work of a block whose parent is stored is a number.
LEMMA AddWorkType ==
    ASSUME NEW s, Consistent(s), NEW h \in Hash, ValidParent(s, Header[h])
    PROVE  AddWork(s, h) \in Nat
<1>1. CalcBlockWork(Header[h].target) \in Nat
  BY HeaderType, CalcBlockWorkType
<1>2. CASE Header[h].height = 0
  BY <1>1, <1>2 DEF AddWork
<1>3. CASE Header[h].height # 0
  <2>1. Header[h].parentHash \in DOMAIN s.totalWork
    BY <1>3 DEF ValidParent, HasBlock, Consistent, Coherent
  <2>2. s.totalWork[Header[h].parentHash] \in Nat
    BY <2>1 DEF Consistent, IsStore, IsMap
  <2> QED BY <1>1, <2>2 DEF AddWork
<1> QED BY <1>2, <1>3

LEMMA ExtendsTransitive ==
    ASSUME NEW s, NEW t, NEW u, Extends(t, s), Extends(u, t)
    PROVE  Extends(u, s)
  BY DEF Extends

\* Checks made against a snapshot stay true of the snapshots that extend it.
LEMMA ChecksPersist ==
    ASSUME NEW s, NEW t, Extends(t, s),
           NEW h \in Hash, ValidParent(s, Header[h])
    PROVE  ValidParent(t, Header[h]) /\ AddWork(t, h) = AddWork(s, h)
  BY HeaderType DEF Extends, ValidParent, AddWork, HasBlock

-----------------------------------------------------------------------------
\* Storing a checked block leaves the older blocks and their work alone,
\* even when the block was there before.
LEMMA WithBlockExtends ==
    ASSUME NEW s, Consistent(s), NEW h \in Hash,
           ValidParent(s, Header[h])
    PROVE  Extends(WithBlock(s, h, AddWork(s, h)), s)
<1> DEFINE t == WithBlock(s, h, AddWork(s, h))
<1>1. s.blocks \subseteq t.blocks
  BY DEF WithBlock
<1>2. ASSUME NEW b \in s.blocks PROVE t.totalWork[b] = s.totalWork[b]
  BY <1>2 DEF WithBlock, Consistent, Coherent, WorkSums
<1> QED BY <1>1, <1>2 DEF Extends

LEMMA WithBlockConsistent ==
    ASSUME NEW s, Consistent(s), NEW h \in Hash,
           ValidAlone(Header[h]), ValidParent(s, Header[h])
    PROVE  Consistent(WithBlock(s, h, AddWork(s, h)))
<1> DEFINE w == AddWork(s, h)
           t == WithBlock(s, h, w)
<1>0. w \in Nat /\ Extends(t, s)
  BY AddWorkType, WithBlockExtends
<1>1. IsStore(t)
  <2>1. IsMap(t.heights, HeightsOf(Hash), Hash)
    BY HeaderType DEF WithBlock, Consistent, IsStore, IsMap
  <2>2. IsMap(t.totalWork, Hash, Nat)
    BY <1>0 DEF WithBlock, Consistent, IsStore, IsMap
  <2> QED BY <2>1, <2>2 DEF WithBlock, Consistent, IsStore
<1>2. Coherent(t)
  BY HeaderType DEF WithBlock, Consistent, Coherent, IsStore
<1>3. HeightIndex(t)
  BY HeaderType DEF WithBlock, Consistent, HeightIndex, HeightsOf
<1>4. ASSUME NEW b \in t.blocks
      PROVE  /\ b \in Hash /\ ValidAlone(Header[b])
             /\ ValidParent(s, Header[b])
  BY <1>4 DEF WithBlock, Consistent, ChainRules, IsStore
<1>5. ChainRules(t)
  BY <1>0, <1>4, ChecksPersist DEF ChainRules
<1>6. ASSUME NEW b \in t.blocks PROVE t.totalWork[b] = AddWork(t, b)
  <2>1. AddWork(t, b) = AddWork(s, b)
    BY <1>0, <1>4, ChecksPersist
  <2>2. CASE b = h
    BY <2>1, <2>2 DEF WithBlock
  <2>3. CASE b # h
    BY <1>0, <2>1, <2>3 DEF WithBlock, Consistent, WorkSums, Extends
  <2> QED BY <2>2, <2>3
<1> QED BY <1>1, <1>2, <1>3, <1>5, <1>6 DEF Consistent, WorkSums

\* Deciding on a stored block, and moving the tip to a stored one, touches
\* none of the maps.
LEMMA DecidedConsistent ==
    ASSUME NEW s, Consistent(s), NEW h \in s.blocks, NEW tip \in s.blocks
    PROVE  Consistent(Decided(s, h, tip)) /\ Extends(Decided(s, h, tip), s)
<1> DEFINE t == Decided(s, h, tip)
<1>1. IsStore(t) /\ Coherent(t)
  BY DEF Decided, Consistent, IsStore, Coherent
<1>2. HeightIndex(t) /\ ChainRules(t) /\ WorkSums(t)
  BY DEF Decided, Consistent, HeightIndex, ChainRules, WorkSums, ValidParent,
         HasBlock, AddWork
<1>3. Extends(t, s)
  BY DEF Decided, Extends
<1> QED BY <1>1, <1>2, <1>3 DEF Consistent

LEMMA EmptyConsistent == Consistent(Empty)
<1>1. IsStore(Empty)
  BY DEF Empty, EmptyMap, IsStore, IsMap
<1>2. Coherent(Empty) /\ ChainRules(Empty) /\ WorkSums(Empty)
  BY DEF Empty, EmptyMap, Coherent, ChainRules, WorkSums
<1>3. HeightIndex(Empty)
  BY DEF Empty, EmptyMap, HeightIndex, HeightsOf
<1> QED BY <1>1, <1>2, <1>3 DEF Consistent

-----------------------------------------------------------------------------
\* A tip has been decided on, and no block decided on is better.
Selected(s) ==
    /\ s.currentTip # ZeroHash => s.currentTip \in s.decided
    /\ BestOfDecided(s)

\* The tip of t is that of s, or better.
NotBehind(t, s) ==
    \/ s.currentTip = ZeroHash
    \/ s.currentTip = t.currentTip
    \/ Beats(t, t.currentTip, s.currentTip)

\* Block h may become the tip of s.
Deserves(s, h) == h = s.currentTip \/ Beats(s, h, s.currentTip)

LEMMA WorkIsNumber ==
    ASSUME NEW s, Consistent(s), NEW h \in s.blocks
    PROVE  h \in Hash /\ h \in Nat /\ s.totalWork[h] \in Nat
<1>1. h \in Hash /\ h \in Nat
  BY BlocksAssumption DEF Consistent, IsStore
<1>2. s.totalWork[h] \in Nat
  BY DEF Consistent, Coherent, IsStore, IsMap
<1> QED BY <1>1, <1>2

\* Of three stored blocks, one that does not lose to a winner does not lose.
LEMMA BeatsTransitive ==
    ASSUME NEW s, Consistent(s),
           NEW a \in s.blocks, NEW b \in s.blocks, NEW c \in s.blocks,
           Beats(s, a, b), ~Beats(s, c, b)
    PROVE  ~Beats(s, c, a)
<1>1. /\ a \in Nat /\ b \in Nat /\ c \in Nat
      /\ s.totalWork[a] \in Nat /\ s.totalWork[b] \in Nat /\ s.totalWork[c] \in Nat
  BY WorkIsNumber
<1> QED BY <1>1 DEF Beats, Better

LEMMA BeatsIrreflexive ==
    ASSUME NEW s, Consistent(s), NEW a \in s.blocks
    PROVE  ~Beats(s, a, a)
  BY WorkIsNumber DEF Beats, Better

\* Making a stored block the tip is sound when it is the tip or beats it.
LEMMA SetTipSelects ==
    ASSUME NEW s, Consistent(s), Selected(s), NEW h \in s.blocks,
           h = s.currentTip \/ Beats(s, h, s.currentTip)
    PROVE  Selected(Decided(s, h, h)) /\ NotBehind(Decided(s, h, h), s)
<1> DEFINE t == Decided(s, h, h)
<1>1. t.totalWork = s.totalWork /\ t.currentTip = h /\ t.decided = s.decided \cup {h}
  BY DEF Decided
<1>2. s.currentTip \in s.blocks /\ s.decided \subseteq s.blocks
  BY DEF Consistent, Coherent
<1>3. ASSUME NEW d \in t.decided PROVE ~Beats(s, d, h)
  <2>1. CASE d = h
    BY <2>1, BeatsIrreflexive
  <2>2. CASE d \in s.decided
    <3>1. ~Beats(s, d, s.currentTip)
      BY <2>2 DEF Selected, BestOfDecided
    <3> QED BY <1>2, <2>2, <3>1, BeatsTransitive
  <2> QED BY <1>1, <1>3, <2>1, <2>2
<1> QED BY <1>1, <1>3 DEF Selected, BestOfDecided, NotBehind, Beats

\* Leaving the tip alone is sound when the block does not beat it.
LEMMA SideSelects ==
    ASSUME NEW s, Consistent(s), Selected(s), NEW h \in s.blocks,
           ~Beats(s, h, s.currentTip)
    PROVE  /\ Selected(Decided(s, h, s.currentTip))
           /\ NotBehind(Decided(s, h, s.currentTip), s)
  BY DEF Decided, Selected, BestOfDecided, NotBehind, Beats

\* Storing a block disturbs no decision, unless there was no tip before.
LEMMA StoreSelects ==
    ASSUME NEW s, Consistent(s), Selected(s), NEW h \in Hash,
           ValidAlone(Header[h]), ValidParent(s, Header[h])
    PROVE  /\ Selected(WithBlock(s, h, AddWork(s, h)))
           /\ NotBehind(WithBlock(s, h, AddWork(s, h)), s)
<1> DEFINE t == WithBlock(s, h, AddWork(s, h))
<1>1. Consistent(t) /\ Extends(t, s)
  BY WithBlockConsistent, WithBlockExtends
<1>2. CASE s.currentTip = ZeroHash
  <2>0. s.decided = {}
    BY <1>2, BlocksAssumption DEF Consistent, Coherent, IsStore
  <2>1. t.currentTip = h /\ t.decided = {h} /\ h \in t.blocks
    BY <1>2, <2>0 DEF WithBlock
  <2> QED BY <1>1, <1>2, <2>1, BeatsIrreflexive DEF Selected, BestOfDecided, NotBehind
<1>3. CASE s.currentTip # ZeroHash
  <2>1. t.currentTip = s.currentTip /\ t.decided = s.decided
    BY <1>3 DEF WithBlock
  <2>2. s.currentTip \in s.blocks /\ s.decided \subseteq s.blocks
    BY <1>3 DEF Consistent, Coherent
  <2> QED BY <1>1, <2>1, <2>2 DEF Selected, BestOfDecided, NotBehind, Beats, Extends
<1> QED BY <1>2, <1>3

LEMMA NotBehindTransitive ==
    ASSUME NEW s, NEW t, NEW u, Consistent(s), Consistent(t), Consistent(u),
           Extends(t, s), Extends(u, t), NotBehind(t, s), NotBehind(u, t)
    PROVE  NotBehind(u, s)
<1>1. CASE s.currentTip = ZeroHash
  BY <1>1 DEF NotBehind
<1>2. CASE s.currentTip # ZeroHash
  <2>1. /\ s.currentTip \in s.blocks /\ t.currentTip \in t.blocks
        /\ t.currentTip # ZeroHash
    <3>1. s.currentTip \in s.blocks
      BY <1>2 DEF Consistent, Coherent
    <3>2. t.currentTip \in t.blocks
      BY <3>1 DEF Consistent, Coherent, Extends
    <3> QED BY <3>1, <3>2, BlocksAssumption DEF Consistent, IsStore
  <2>2. u.currentTip \in u.blocks
    BY <2>1 DEF Consistent, Coherent, Extends
  <2>3. /\ s.currentTip \in t.blocks /\ s.currentTip \in u.blocks
        /\ t.currentTip \in u.blocks
        /\ u.totalWork[s.currentTip] = t.totalWork[s.currentTip]
        /\ u.totalWork[t.currentTip] = t.totalWork[t.currentTip]
    BY <2>1 DEF Extends
  <2>4. /\ s.currentTip \in Nat /\ t.currentTip \in Nat /\ u.currentTip \in Nat
        /\ u.totalWork[s.currentTip] \in Nat
        /\ u.totalWork[t.currentTip] \in Nat
        /\ u.totalWork[u.currentTip] \in Nat
    BY <2>2, <2>3, WorkIsNumber
  <2> QED BY <1>2, <2>1, <2>3, <2>4 DEF NotBehind, Beats, Better
<1> QED BY <1>1, <1>2

LEMMA NotBehindReflexive == ASSUME NEW s PROVE NotBehind(s, s)
  BY DEF NotBehind

=============================================================================
