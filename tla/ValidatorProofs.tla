-------------------------- MODULE ValidatorProofs ---------------------------
(***************************************************************************)
(* What InsertBlock keeps true of the store for any number of concurrent   *)
(* callers, any blocks, any failing rewrites and any restarts, and what    *)
(* colossusxverify makes of the headers it is given.                       *)
(***************************************************************************)
EXTENDS Verifier, ChainProofs

\* What a caller has established about its block by the time it gets to a
\* step: the checks made in earlier steps still hold.
PastValidation == {"hasBlock", "parentWork", "store", "compare", "setTip"}
PastWork == {"store", "compare", "setTip"}
PastStore == {"compare", "setTip"}

InFlight(p) ==
    /\ pc[p] \in PastValidation =>
         ValidAlone(Header[arg[p]]) /\ ValidParent(store, Header[arg[p]])
    /\ pc[p] \in PastWork => work[p] = AddWork(store, arg[p])
    /\ pc[p] \in PastStore => HasBlock(store, arg[p])

\* The inductive invariant.
IInv ==
    /\ TypeOK
    /\ Consistent(store)
    /\ Consistent(file)
    /\ Extends(store, file)
    /\ acked \subseteq file.blocks
    /\ \A p \in Caller : InFlight(p)

-----------------------------------------------------------------------------
LEMMA InitInv == Init => IInv
  BY EmptyConsistent, ValidatorAssumption
     DEF Init, IInv, TypeOK, StoreTypeOK, Consistent, InFlight, Empty,
         PastValidation, PastWork, PastStore, Extends

\* A step that replaces the store by an extension of it keeps what the other
\* callers have established.
LEMMA OthersInFlight ==
    ASSUME IInv, Extends(store', store), NEW p \in Caller, NEW q \in Caller,
           q # p,
           pc' = [pc EXCEPT ![p] = pc'[p]],
           UNCHANGED <<arg, work>>
    PROVE  InFlight(q)'
<1>1. pc'[q] = pc[q]
  BY DEF IInv, TypeOK
<1>2. arg[q] \in Hash \/ pc[q] = "idle"
  BY DEF IInv, TypeOK
<1>3. ASSUME pc[q] \in PastValidation
      PROVE  /\ ValidAlone(Header[arg[q]])
             /\ ValidParent(store', Header[arg[q]])
             /\ AddWork(store', arg[q]) = AddWork(store, arg[q])
  <2>1. arg[q] \in Hash
    BY <1>2, <1>3 DEF PastValidation
  <2>2. ValidAlone(Header[arg[q]]) /\ ValidParent(store, Header[arg[q]])
    BY <1>3 DEF IInv, InFlight
  <2> QED BY <2>1, <2>2, ChecksPersist
<1>4. PastWork \subseteq PastValidation /\ PastStore \subseteq PastValidation
  BY DEF PastWork, PastStore, PastValidation
<1>5. pc[q] \in PastWork => work[q] = AddWork(store, arg[q])
  BY DEF IInv, InFlight
<1>6. pc[q] \in PastStore => HasBlock(store', arg[q])
  BY DEF IInv, InFlight, Extends, HasBlock
<1> QED BY <1>1, <1>3, <1>4, <1>5, <1>6 DEF InFlight

LEMMA CallInv ==
    ASSUME IInv, NEW p \in Caller, NEW h \in Hash, Call(p, h)
    PROVE  IInv'
<1>1. TypeOK'
  BY DEF IInv, TypeOK, StoreTypeOK, Call, Goto, storeVars, Steps
<1>2. ASSUME NEW q \in Caller PROVE InFlight(q)'
  BY DEF IInv, TypeOK, InFlight, Call, Goto, storeVars,
         PastValidation, PastWork, PastStore
<1> QED BY <1>1, <1>2 DEF IInv, Call, storeVars

LEMMA ValidateInv ==
    ASSUME IInv, NEW p \in Caller, Validate(p)
    PROVE  IInv'
<1>1. TypeOK'
  BY DEF IInv, TypeOK, StoreTypeOK, Validate, Goto, storeVars, Steps, Results
<1>2. ASSUME NEW q \in Caller PROVE InFlight(q)'
  BY DEF IInv, TypeOK, InFlight, Validate, Goto, storeVars, ValidateHeader,
         PastValidation, PastWork, PastStore
<1> QED BY <1>1, <1>2 DEF IInv, Validate, storeVars

LEMMA CheckKnownInv ==
    ASSUME IInv, NEW p \in Caller, CheckKnown(p)
    PROVE  IInv'
<1>1. TypeOK'
  BY DEF IInv, TypeOK, StoreTypeOK, CheckKnown, Goto, storeVars, Steps, Results
<1>2. ASSUME NEW q \in Caller PROVE InFlight(q)'
  BY DEF IInv, TypeOK, InFlight, CheckKnown, Goto, storeVars,
         PastValidation, PastWork, PastStore
<1> QED BY <1>1, <1>2 DEF IInv, CheckKnown, storeVars

LEMMA ParentWorkInv ==
    ASSUME IInv, NEW p \in Caller, ParentWork(p)
    PROVE  IInv'
<1>1. /\ arg[p] \in Hash
      /\ ValidAlone(Header[arg[p]])
      /\ ValidParent(store, Header[arg[p]])
  BY DEF IInv, TypeOK, InFlight, ParentWork, PastValidation
<1>2. AddWork(store, arg[p]) \in Nat
  BY <1>1, AddWorkType DEF IInv
<1>3. TypeOK'
  BY <1>2 DEF IInv, TypeOK, StoreTypeOK, ParentWork, Goto, storeVars, Steps,
              Results
<1>4. ASSUME NEW q \in Caller PROVE InFlight(q)'
  BY <1>1 DEF IInv, TypeOK, InFlight, ParentWork, Goto, storeVars,
              PastValidation, PastWork, PastStore
<1> QED BY <1>3, <1>4 DEF IInv, ParentWork, storeVars

LEMMA StoreInv ==
    ASSUME IInv, NEW p \in Caller, NEW ok \in FlushResults, Store(p, ok)
    PROVE  IInv'
<1>1. /\ arg[p] \in Hash
      /\ ValidAlone(Header[arg[p]])
      /\ ValidParent(store, Header[arg[p]])
      /\ work[p] = AddWork(store, arg[p])
  BY DEF IInv, TypeOK, InFlight, Store, PastValidation, PastWork
<1>2. store' = WithBlock(store, arg[p], AddWork(store, arg[p]))
  BY <1>1 DEF Store, StoreBlock
<1>3. Consistent(store') /\ Extends(store', store)
  BY <1>1, <1>2, WithBlockConsistent, WithBlockExtends DEF IInv
<1>4. arg[p] \in store'.blocks
  BY <1>2 DEF WithBlock
<1>5. /\ Consistent(file')
      /\ Extends(store', file')
      /\ acked' \subseteq file'.blocks
  BY <1>3, <1>4, ExtendsTransitive DEF IInv, Store, StoreBlock, flushLocked, Extends
<1>6. TypeOK'
  <2>1. StoreTypeOK'
    BY <1>1, <1>3, <1>5 DEF StoreTypeOK, Consistent, IInv, TypeOK, Store,
                            StoreBlock
  <2> QED BY <2>1 DEF IInv, TypeOK, Store, Goto, Steps, Results
<1>7. InFlight(p)'
  <2>1. /\ ValidParent(store', Header[arg[p]])
        /\ AddWork(store', arg[p]) = AddWork(store, arg[p])
    BY <1>1, <1>3, ChecksPersist
  <2> QED BY <1>1, <1>4, <2>1 DEF InFlight, Store, HasBlock
<1>8. ASSUME NEW q \in Caller, q # p PROVE InFlight(q)'
  BY <1>3, <1>8, OthersInFlight DEF Store, Goto, IInv, TypeOK
<1> QED BY <1>3, <1>5, <1>6, <1>7, <1>8 DEF IInv

LEMMA CompareInv ==
    ASSUME IInv, NEW p \in Caller, Compare(p)
    PROVE  IInv'
<1>1. /\ arg[p] \in Hash
      /\ ValidAlone(Header[arg[p]])
      /\ ValidParent(store, Header[arg[p]])
      /\ work[p] = AddWork(store, arg[p])
      /\ arg[p] \in store.blocks
  BY DEF IInv, TypeOK, InFlight, Compare, PastValidation, PastWork, PastStore,
         HasBlock
<1>2. Consistent(store') /\ Extends(store', store) /\ store'.blocks = store.blocks
  <2>1. CASE store' = store
    BY <2>1 DEF Extends, IInv
  <2>2. CASE store' = Decided(store, arg[p], store.currentTip)
    <3>1. store.currentTip \in store.blocks
      BY <1>1 DEF IInv, Consistent, Coherent
    <3> QED BY <1>1, <2>2, <3>1, DecidedConsistent DEF IInv, Decided
  <2> QED BY <2>1, <2>2 DEF Compare
<1>3. TypeOK'
  BY <1>2 DEF IInv, TypeOK, StoreTypeOK, Consistent, Compare, Goto, Steps,
              Results
<1>4. InFlight(p)'
  <2>1. /\ ValidParent(store', Header[arg[p]])
        /\ AddWork(store', arg[p]) = AddWork(store, arg[p])
    BY <1>1, <1>2, ChecksPersist
  <2> QED BY <1>1, <1>2, <2>1 DEF InFlight, Compare, HasBlock
<1>5. ASSUME NEW q \in Caller, q # p PROVE InFlight(q)'
  BY <1>2, <1>5, OthersInFlight DEF Compare, Goto, IInv, TypeOK
<1>6. Extends(store', file)
  BY <1>2, ExtendsTransitive DEF IInv
<1> QED BY <1>2, <1>3, <1>4, <1>5, <1>6 DEF IInv, Compare

LEMMA SetTipInv ==
    ASSUME IInv, NEW p \in Caller, NEW ok \in FlushResults, SetTip(p, ok)
    PROVE  IInv'
<1>1. arg[p] \in store.blocks /\ store' = Decided(store, arg[p], arg[p])
  BY DEF SetTip, SetCurrentTip, HasBlock, WithTip
<1>2. /\ Consistent(store') /\ Extends(store', store)
      /\ store'.blocks = store.blocks
  BY <1>1, DecidedConsistent DEF IInv, Decided
<1>3. /\ Consistent(file')
      /\ Extends(store', file')
      /\ acked' \subseteq file'.blocks
  BY <1>2, ExtendsTransitive DEF IInv, SetTip, SetCurrentTip, flushLocked, Extends
<1>4. TypeOK'
  <2>1. StoreTypeOK'
    BY <1>2, <1>3 DEF StoreTypeOK, Consistent, IInv, TypeOK, SetTip,
                      SetCurrentTip
  <2> QED BY <2>1 DEF IInv, TypeOK, SetTip, Goto, Steps, Results
<1>5. ASSUME NEW q \in Caller PROVE InFlight(q)'
  <2>1. CASE q = p
    BY <2>1 DEF InFlight, SetTip, Goto, IInv, TypeOK, PastValidation,
                PastWork, PastStore
  <2>2. CASE q # p
    BY <1>2, <2>2, OthersInFlight DEF SetTip, Goto, IInv, TypeOK
  <2> QED BY <2>1, <2>2
<1> QED BY <1>2, <1>3, <1>4, <1>5 DEF IInv

LEMMA CrashInv == ASSUME IInv, Crash PROVE IInv'
  BY DEF IInv, TypeOK, StoreTypeOK, InFlight, Crash, Load, PastValidation,
         PastWork, PastStore, Extends

LEMMA TickInv == ASSUME IInv, Tick PROVE IInv'
  BY DEF IInv, TypeOK, StoreTypeOK, InFlight, Tick, storeVars, callVars

LEMMA StutterInv == ASSUME IInv, UNCHANGED vars PROVE IInv'
  BY DEF IInv, TypeOK, StoreTypeOK, InFlight, vars

\* A step inside InsertBlock only adds to what is in memory, and leaves in the
\* file what was there or all of what is in memory.
LEMMA ContinueExtends ==
    ASSUME IInv, NEW p \in Caller, Continue(p)
    PROVE  /\ Extends(store', store)
           /\ file' = file \/ file' = store'
<1>1. CASE UNCHANGED <<store, file>>
  BY <1>1 DEF Extends
<1>2. ASSUME NEW ok \in FlushResults, Store(p, ok)
      PROVE  Extends(store', store) /\ (file' = file \/ file' = store')
  BY <1>2, WithBlockExtends
     DEF IInv, InFlight, TypeOK, Store, StoreBlock, flushLocked, PastValidation, PastWork
<1>3. CASE Compare(p)
  BY <1>3 DEF Compare, Decided, Extends
<1>4. ASSUME NEW ok \in FlushResults, SetTip(p, ok)
      PROVE  Extends(store', store) /\ (file' = file \/ file' = store')
  BY <1>4 DEF SetTip, SetCurrentTip, WithTip, Decided, flushLocked, Extends
<1> QED BY <1>1, <1>2, <1>3, <1>4
        DEF Continue, Validate, CheckKnown, ParentWork, storeVars

LEMMA ContinueInv ==
    ASSUME IInv, NEW p \in Caller, Continue(p)
    PROVE  IInv'
  BY ValidateInv, CheckKnownInv, ParentWorkInv, StoreInv, CompareInv, SetTipInv
     DEF Continue

LEMMA NextInv == IInv /\ [Next]_vars => IInv'
<1> SUFFICES ASSUME IInv, [Next]_vars PROVE IInv'
  OBVIOUS
<1>1. ASSUME NEW p \in Caller, Step(p) PROVE IInv'
  BY <1>1, CallInv, ContinueInv DEF Step
<1> QED BY <1>1, TickInv, CrashInv, StutterInv DEF Next

LEMMA Invariance == Spec => []IInv
  BY InitInv, NextInv, PTL DEF Spec

-----------------------------------------------------------------------------
\* The maps, the file and the locals of InsertBlock keep their types.
THEOREM TypeCorrect == Spec => []TypeOK
  BY Invariance, PTL DEF IInv

\* Store, tip, genesis and work entries agree, in memory and on disk.
THEOREM Coherence == Spec => []MapsCoherent
<1>1. IInv => MapsCoherent
  BY DEF IInv, Consistent, MapsCoherent
<1> QED BY <1>1, Invariance, PTL

\* The height index names a stored block of the height for each stored height.
THEOREM HeightsIndexed == Spec => []HeightIndexExact
<1>1. IInv => HeightIndexExact
  BY DEF IInv, Consistent, HeightIndexExact
<1> QED BY <1>1, Invariance, PTL

\* Only valid blocks with their whole chain are stored, although validation
\* and insertion are separate steps.
THEOREM OnlyValidChains == Spec => []StoredBlocksValid
<1>1. IInv => StoredBlocksValid
  BY DEF IInv, Consistent, StoredBlocksValid
<1> QED BY <1>1, Invariance, PTL

\* Concurrent insertions and restarts never leave a wrong total work behind.
THEOREM WorkIsExact == Spec => []WorkAccumulates
<1>1. IInv => WorkAccumulates
  BY DEF IInv, Consistent, WorkAccumulates
<1> QED BY <1>1, Invariance, PTL

\* A block whose StoreBlock returned nil survives every crash.
THEOREM AckedSurvive == Spec => []AckedBlocksDurable
<1>1. IInv => AckedBlocksDurable
  BY DEF IInv, AckedBlocksDurable
<1> QED BY <1>1, Invariance, PTL

\* The file never loses a block and never runs ahead of memory.
THEOREM FileGrows == Spec => FileKeepsBlocks
<1> DEFINE Grows == /\ file.blocks \subseteq file'.blocks
                    /\ file'.blocks \subseteq store'.blocks
<1>1. ASSUME IInv, [Next]_vars PROVE [Grows]_storeVars
  <2>1. Extends(store', file')
    BY <1>1, NextInv DEF IInv
  <2>2. CASE file' = file
    BY <2>1, <2>2 DEF Extends
  <2>3. ASSUME NEW p \in Caller, Continue(p) PROVE Grows
    BY <1>1, <2>1, <2>3, ContinueExtends, ExtendsTransitive DEF IInv, Extends
  <2>4. ASSUME NEW p \in Caller, NEW h \in Hash, Call(p, h) PROVE file' = file
    BY <2>4 DEF Call, storeVars
  <2> QED BY <1>1, <2>2, <2>3, <2>4 DEF Next, Step, Tick, Crash, Load, storeVars, vars
<1>2. Spec => [][Grows]_storeVars
  BY <1>1, Invariance, PTL DEF Spec
<1> QED BY <1>2 DEF FileKeepsBlocks

-----------------------------------------------------------------------------
\* The options of the nodes mean the same chain to colossusxverify when they say
\* the size or the chain is strict; it may only write a default out that the node
\* leaves to the methods.
Repeats(f) == f \in {ChainFlags, WithSize(ChainFlags)} /\ (f.mode = "strict" \/ SizeGiven(f))

LEMMA VerifierBuildsTheChain ==
    ASSUME NEW f, Repeats(f)
    PROVE  LET spec == VerifierSpec(f)
           IN  /\ spec.algorithmVersion = ChainSpec.algorithmVersion
               /\ spec.mode = ChainSpec.mode
               /\ spec.epochBlocks = ChainSpec.epochBlocks
               /\ InitialSize(spec) = InitialSize(ChainSpec)
               /\ Growth(spec) = Growth(ChainSpec)
               /\ spec \in SpecType
<1>0. PICK initial, growth, blocks : /\ initial = ChainSpec.initialDAGSize
                                    /\ growth = Value(ChainFlags.dagGrowth, DefaultDAGGrowth)
                                    /\ blocks = Value(ChainFlags.epochBlocks, DefaultEpochBlocks)
  OBVIOUS
<1>1. /\ ChainFlags \in Flags /\ ChainSpec \in NodeSpecs
      /\ growth \in Word /\ blocks \in Word /\ Mode \in {"strict", "research"}
  BY <1>0, SpecAssumption, OptionValues DEF NodeSpecs, ChainSpec, ChainFlags, Flags
<1>2. initial \in Word \ {0}
  BY <1>0, <1>1, NodeSpecOK
<1>3. /\ f.mode = Mode /\ Value(f.dagGrowth, DefaultDAGGrowth) = growth
      /\ Value(f.epochBlocks, DefaultEpochBlocks) = blocks
      /\ f.dag = ChainFlags.dag
      /\ f.initialDAG = ChainFlags.initialDAG \/ f.initialDAG = initial
  BY <1>0 DEF Repeats, WithSize, ChainFlags, ChainSpec
<1>4. initial = IF Mode = "research" /\ ~SizeGiven(ChainFlags)
                THEN ResearchDAGSize
                ELSE IF Mode = "strict" THEN InitialDAG(ChainFlags)
                ELSE OrElse(InitialDAG(ChainFlags), StrictInitialDAGSize)
  BY <1>0, <1>1, SpecAssumption
  DEF ChainSpec, ChainFlags, ParseFlags, StrictSpec, ResearchSpecWithGrowth, OrElse, Word
<1>5. OrElse(InitialDAG(f), StrictInitialDAGSize) = initial
  <2>1. CASE f.dag # Unset /\ f.dag # 0
    <3>1. InitialDAG(f) = f.dag /\ InitialDAG(ChainFlags) = f.dag /\ SizeGiven(ChainFlags)
      BY <1>3, <2>1 DEF InitialDAG, OrElse, Value, SizeGiven
    <3> QED BY <1>1, <1>2, <1>4, <2>1, <3>1 DEF OrElse
  <2>2. CASE f.dag = Unset \/ f.dag = 0
    <3>1. /\ InitialDAG(f) = Value(f.initialDAG, StrictInitialDAGSize)
          /\ InitialDAG(ChainFlags) = Value(ChainFlags.initialDAG, StrictInitialDAGSize)
      BY <1>3, <2>2 DEF InitialDAG, OrElse, Value
    <3>2. CASE f.initialDAG = ChainFlags.initialDAG
      <4>1. Mode = "strict" \/ SizeGiven(ChainFlags)
        BY <1>3, <3>2 DEF Repeats, SizeGiven
      <4> QED BY <1>1, <1>2, <1>4, <3>1, <3>2, <4>1 DEF OrElse
    <3>3. CASE f.initialDAG = initial
      <4>1. initial # Unset
        BY <1>2, SpecAssumption
      <4> QED BY <1>2, <3>1, <3>3, <4>1 DEF OrElse, Value
    <3> QED BY <1>3, <3>2, <3>3
  <2> QED BY <2>1, <2>2
<1>6. CASE Mode = "strict"
  <2>1. /\ ChainSpec = [StrictSpec EXCEPT !.initialDAGSize = initial, !.dagSize = initial,
                                         !.dagGrowth = growth]
        /\ VerifierSpec(f) = [StrictSpec EXCEPT !.initialDAGSize = initial, !.dagSize = initial,
                                               !.dagGrowth = OrElse(growth, DefaultDAGGrowth)]
    BY <1>0, <1>3, <1>4, <1>5, <1>6
    DEF ChainSpec, ChainFlags, ParseFlags, VerifierSpec, StrictSpec
  <2>2. /\ ChainSpec.mode = "strict" /\ ChainSpec.initialDAGSize = initial
        /\ ChainSpec.dagSize = initial /\ ChainSpec.dagGrowth = growth
        /\ ChainSpec.epochBlocks = StrictEpochBlocks /\ ChainSpec.algorithmVersion = 2
    BY <2>1 DEF StrictSpec
  <2>3. VerifierSpec(f) = [ChainSpec EXCEPT !.dagGrowth = OrElse(growth, DefaultDAGGrowth)]
    BY <2>1 DEF StrictSpec
  <2>4. OrElse(growth, DefaultDAGGrowth) \in Word \ {0}
    BY <1>1, SpecAssumption DEF OrElse
  <2>5. ChainSpec \in SpecType
    BY <1>1, NodeSpecOK
  <2>6. VerifierSpec(f) \in SpecType
    BY <2>3, <2>4, <2>5 DEF SpecType
  <2>7. Growth(VerifierSpec(f)) = Growth(ChainSpec)
    BY <2>2, <2>3, <2>4, <2>5 DEF Growth, OrElse, SpecType
  <2> QED BY <2>3, <2>5, <2>6, <2>7 DEF InitialSize, SpecType
<1>7. CASE Mode # "strict"
  <2>1. PICK given : ChainSpec = ResearchSpecWithGrowth(given, growth, blocks)
    BY <1>0, <1>7 DEF ChainSpec, ChainFlags, ParseFlags
  <2>2. OrElse(given, StrictInitialDAGSize) = initial
    BY <1>0, <2>1 DEF ResearchSpecWithGrowth
  <2>3. VerifierSpec(f) = ResearchSpecWithGrowth(InitialDAG(f), growth, blocks)
    BY <1>3, <1>7 DEF VerifierSpec
  <2>4. VerifierSpec(f) = ChainSpec
    BY <1>5, <2>1, <2>2, <2>3 DEF ResearchSpecWithGrowth
  <2> QED BY <1>1, <2>4, NodeSpecOK
<1> QED BY <1>1, <1>6, <1>7

\* Hence it accepts the headers that obey the rules on a header alone, but for
\* the one that forbids a zero target.
LEMMA VerifiesAlone ==
    ASSUME NEW f, Repeats(f), NEW h \in Hash
    PROVE  ValidAlone(Header[h]) <=>
             Verifies(f, {"header"}, Header[h]) /\ Header[h].target # 0
<1> DEFINE spec == VerifierSpec(f)
           hd == Header[h]
<1>1. ChainSpec \in NodeSpecs
  BY SpecAssumption DEF NodeSpecs, ChainSpec
<1>2. hd.height \in Nat
  BY BlocksAssumption DEF BlockHeader
<1>3. /\ spec.algorithmVersion = ChainSpec.algorithmVersion
      /\ spec.mode = ChainSpec.mode /\ spec.epochBlocks = ChainSpec.epochBlocks
      /\ InitialSize(spec) = InitialSize(ChainSpec) /\ Growth(spec) = Growth(ChainSpec)
      /\ spec \in SpecType /\ ChainSpec \in SpecType
  BY <1>1, VerifierBuildsTheChain, NodeSpecOK
<1>4. /\ DAGSizeForHeight(spec, hd.height) = DAGSizeForHeight(ChainSpec, hd.height)
      /\ EpochSeedForHeight(spec, hd.height) = EpochSeedForHeight(ChainSpec, hd.height)
  BY <1>3 DEF EpochSeedForHeight, DAGSizeForHeight, DAGSizeForEpoch, EpochOf
<1>5. ValidEpoch(spec, hd) <=> ValidEpoch(ChainSpec, hd)
  BY <1>3, <1>4 DEF ValidEpoch
<1>6. ValidSpec(spec)
  BY <1>3, SpecAssumption DEF ValidSpec
<1>7. ASSUME ValidEpoch(ChainSpec, hd)
      PROVE  VerifierPow(spec, hd) = ValidatorPow(ChainSpec, hd)
  <2> DEFINE resolved == ResolvedForHeight(spec, hd.height)
             kept == [ResolvedForHeight(ChainSpec, hd.height) EXCEPT !.dagSize = hd.dagSize]
  <2>1. /\ resolved.dagSize = hd.dagSize /\ kept.dagSize = hd.dagSize
        /\ resolved.mode = spec.mode /\ kept.mode = ChainSpec.mode
        /\ resolved.algorithmVersion = spec.algorithmVersion
        /\ kept.algorithmVersion = ChainSpec.algorithmVersion
    BY <1>3, <1>4, <1>7 DEF ResolvedForHeight, ValidEpoch, SpecType
  <2>2. hd.dagSize # 0
    BY <1>1, <1>2, <1>7, SizeOfHeight DEF ValidEpoch
  <2>3. NodeCount(resolved) = NodeCount(kept)
    BY <2>1, <2>2 DEF NodeCount, OrElse
  <2> QED BY <1>3, <2>1, <2>3 DEF VerifierPow, ValidatorPow, Pow
<1>8. Verifies(f, {"header"}, hd) <=> ValidEpoch(ChainSpec, hd) /\ hd.pow
  BY <1>5, <1>6, <1>7 DEF Verifies, Meets
<1> QED BY <1>8 DEF ValidAlone

-----------------------------------------------------------------------------
\* DAG sizes fit their type along every stored chain, whoever inserts.
THEOREM StoredSizesFit == Spec => []DAGSizesFit
<1>1. IInv => DAGSizesFit
  <2> SUFFICES ASSUME IInv, NEW h \in store.blocks
               PROVE  /\ Header[h].dagSize \in Word \ {0}
                      /\ Header[h].dagSize % NodeSize = 0
                      /\ Header[h].height > 0 =>
                           Header[Header[h].parentHash].dagSize <= Header[h].dagSize
    BY DEF DAGSizesFit
  <2> DEFINE hd == Header[h]
  <2>1. ChainSpec \in NodeSpecs
    BY SpecAssumption DEF NodeSpecs, ChainSpec
  <2>2. /\ store.blocks \subseteq Hash
        /\ \A b \in store.blocks : ValidAlone(Header[b]) /\ ValidParent(store, Header[b])
    BY DEF IInv, Consistent, IsStore, ChainRules
  <2>3. \A b \in store.blocks : /\ Header[b].height \in Nat
                                /\ Header[b].dagSize = DAGSizeForHeight(ChainSpec, Header[b].height)
    BY <2>2, BlocksAssumption DEF ValidAlone, ValidEpoch, BlockHeader
  <2>4. ASSUME hd.height > 0
        PROVE  Header[hd.parentHash].dagSize <= hd.dagSize
    <3>1. hd.parentHash \in store.blocks /\ hd.height = Header[hd.parentHash].height + 1
      BY <2>2, <2>4, BlocksAssumption DEF ValidParent, HasBlock, BlockHeader
    <3> QED BY <2>1, <2>3, <3>1, SizeOfHeight
  <2> QED BY <2>1, <2>3, <2>4, SizeOfHeight
<1> QED BY <1>1, Invariance, PTL

\* colossusxverify, given the options of the nodes and the initial size of their
\* DAG, which the options may leave to a default that it has not, agrees with
\* InsertBlock about every header; the target, the parent and the clock are left
\* to the latter.
THEOREM VerifierIsRight == Spec => []VerifierAgrees
<1>1. TypeOK => VerifierAgrees
  <2> SUFFICES ASSUME TypeOK, NEW p \in Caller, pc[p] = "validate", NEW f, Repeats(f)
               PROVE  LET hd == Header[arg[p]]
                      IN  ValidateHeader(store, hd, now) <=>
                            /\ Verifies(f, {"header"}, hd)
                            /\ hd.target # 0
                            /\ ValidParent(store, hd)
                            /\ hd.timestamp <= now + MaxFuture
    BY DEF VerifierAgrees, Repeats
  <2>1. arg[p] \in Hash
    BY DEF TypeOK
  <2> QED BY <2>1, VerifiesAlone DEF ValidateHeader
<1> QED BY <1>1, TypeCorrect, PTL
=============================================================================
