----------------------------- MODULE NodeProofs ------------------------------
(***************************************************************************)
(* What a node keeps true of its chain from its first start on: the        *)
(* genesis block it seals and stores without validating it, the blocks it  *)
(* mines and those of any number of peers, whatever rewrites or seals fail *)
(* and however often it is started again.                                  *)
(***************************************************************************)
EXTENDS Node, SequentialProofs

\* A block the node may store as its genesis.
IsGenesis(h) ==
    /\ h \in Hash
    /\ Header[h].height = 0
    /\ ValidAlone(Header[h])
    /\ ValidParent(store, Header[h])

\* What Node.Run has established by the time it gets to a step: nobody inserts
\* before the genesis block is the tip, and what it passes to InsertBlock stays
\* valid while others insert.
RunKnows ==
    /\ run \in {"init", "storeGenesis", "tipGenesis"} =>
         \A p \in Caller : pc[p] = "idle"
    /\ run = "storeGenesis" => IsGenesis(arg[Miner])
    /\ run = "tipGenesis" => arg[Miner] \in store.blocks
    /\ run \in Started => store.currentTip # ZeroHash
    /\ run = "insert" =>
         /\ pc[Miner] # "idle"
         /\ ValidAlone(Header[arg[Miner]])
         /\ ValidParent(store, Header[arg[Miner]])

\* The inductive invariant.
NInv == IInv /\ NodeTypeOK /\ RunKnows

-----------------------------------------------------------------------------
\* The header of a sealed block obeys the rules on a header alone: it is made
\* from the spec of its height and checked against the spec of the chain.
LEMMA SealedIsValid ==
    ASSUME NEW h \in Hash, NEW height \in Nat, NEW parent, NEW time,
           Sealed(Header[h], height, parent, time)
    PROVE  ValidAlone(Header[h])
<1> DEFINE resolved == ResolvedForHeight(ChainSpec, height)
<1>1. ChainSpec \in NodeSpecs
  BY SpecAssumption DEF NodeSpecs, ChainSpec
<1>2. resolved.algorithmVersion = ChainSpec.algorithmVersion
  BY <1>1, NodeSpecOK DEF ResolvedForHeight, SpecType
<1>3. /\ resolved.dagSize = DAGSizeForHeight(ChainSpec, height)
      /\ EpochSeedForHeight(resolved, height) = EpochSeedForHeight(ChainSpec, height)
  BY <1>1, ResolvedSpecAgrees
<1>4. ValidEpoch(ChainSpec, Header[h])
  BY <1>2, <1>3 DEF Sealed, ValidEpoch
<1> QED BY <1>4, NodeAssumption DEF Sealed, ValidAlone

LEMMA TimestampType ==
    ASSUME NEW h \in Hash
    PROVE  Header[h].timestamp \in Int
  BY BlocksAssumption DEF BlockHeader

\* A block mined on a stored one is valid against the store, whatever the
\* timestamp of its parent.
LEMMA MinedIsValid ==
    ASSUME NEW s, NEW parent \in s.blocks, s.blocks \subseteq Hash, now \in Nat,
           NEW h \in Hash,
           Sealed(Header[h], Header[parent].height + 1, parent, MiningTime(parent))
    PROVE  ValidAlone(Header[h]) /\ ValidParent(s, Header[h])
<1>1. Header[parent].height \in Nat /\ Header[parent].timestamp \in Int
  BY HeaderType, TimestampType
<1>2. MiningTime(parent) > Header[parent].timestamp
  BY <1>1 DEF MiningTime, LaterOf
<1>3. ValidAlone(Header[h])
  BY <1>1, SealedIsValid
<1> QED BY <1>1, <1>2, <1>3 DEF Sealed, ValidParent, HasBlock

\* What has been checked of the miner's block stays true as the store grows.
LEMMA KnowledgePersists ==
    ASSUME RunKnows, IInv, NodeTypeOK, Consistent(store'), Extends(store', store),
           run' = run, arg'[Miner] = arg[Miner], run \in Started,
           pc'[Miner] # "idle" \/ pc[Miner] = "idle"
    PROVE  RunKnows'
<1>1. store.currentTip \in store.blocks /\ store.currentTip # ZeroHash
  BY DEF RunKnows, IInv, Consistent, Coherent
<1>2. store'.currentTip # ZeroHash
  <2>1. store'.currentTip \in store'.blocks
    BY <1>1 DEF Consistent, Coherent, Extends
  <2> QED BY <2>1, BlocksAssumption DEF Consistent, IsStore
<1>3. ASSUME run = "insert"
      PROVE  ValidAlone(Header[arg[Miner]]) /\ ValidParent(store', Header[arg[Miner]])
  <2>1. arg[Miner] \in Hash
    BY <1>3, NodeAssumption DEF RunKnows, IInv, TypeOK
  <2> QED BY <1>3, <2>1, ChecksPersist DEF RunKnows
<1> QED BY <1>2, <1>3 DEF RunKnows, Started

-----------------------------------------------------------------------------
LEMMA NodeInitInv == NodeInit => NInv
<1> SUFFICES ASSUME NodeInit PROVE NInv
  OBVIOUS
<1>1. Init
  BY DEF NodeInit, Init
<1>2. PICK part \in 0..(TicksPerSecond - 1) :
        clock = InitialTime * TicksPerSecond + part
  BY DEF NodeInit
<1>3. InitialTime \in Nat /\ TicksPerSecond \in Nat \ {0} /\ part \in Nat
  BY NodeAssumption, ValidatorAssumption
<1>4. clock \in Nat /\ clock \div TicksPerSecond = InitialTime
  BY <1>2, <1>3, Z3
<1>5. NodeTypeOK
  BY <1>1, <1>3, <1>4, InitInv DEF NodeInit, NodeTypeOK, IInv
<1> QED BY <1>1, <1>5, InitInv DEF NInv, RunKnows, NodeInit, Started

LEMMA FindTipInv == ASSUME NInv, FindTip PROVE NInv'
<1>1. IInv'
  BY StutterInv DEF NInv, FindTip, vars, storeVars, callVars, timeVars
<1> QED BY <1>1 DEF NInv, NodeTypeOK, RunKnows, FindTip, Started, IInv, storeVars, callVars, timeVars

LEMMA SealGenesisInv == ASSUME NInv, SealGenesis PROVE NInv'
<1>1. PICK h \in Hash : /\ Sealed(Header[h], 0, ZeroHash, bootTime)
                        /\ arg' = [arg EXCEPT ![Miner] = h]
  BY DEF SealGenesis
<1>2. arg'[Miner] = h /\ \A p \in Caller : pc[p] = "idle"
  BY <1>1, NodeAssumption DEF NInv, IInv, TypeOK, RunKnows, SealGenesis
<1>3. IInv'
  BY <1>1, <1>2 DEF NInv, IInv, TypeOK, StoreTypeOK, InFlight, SealGenesis, storeVars,
                    timeVars, PastValidation, PastWork, PastStore
<1>4. IsGenesis(h)'
  BY <1>1, SealedIsValid DEF IsGenesis, Sealed, ValidParent
<1>5. RunKnows'
  BY <1>2, <1>4 DEF RunKnows, SealGenesis, Started
<1> QED BY <1>3, <1>5 DEF NInv, NodeTypeOK, SealGenesis, IInv, timeVars

\* Storing the genesis block unchecked is storing a checked block.
LEMMA StoreGenesisInv ==
    ASSUME NInv, NEW ok \in FlushResults, StoreGenesis(ok)
    PROVE  NInv'
<1> DEFINE h == arg[Miner]
<1>1. /\ h \in Hash /\ Header[h].height = 0
      /\ ValidAlone(Header[h]) /\ ValidParent(store, Header[h])
  BY DEF NInv, RunKnows, StoreGenesis, IsGenesis
<1>2. AddWork(store, h) = CalcBlockWork(Header[h].target)
  BY <1>1, HeaderType, CalcBlockWorkType DEF AddWork
<1>3. store' = WithBlock(store, h, AddWork(store, h))
  BY <1>2 DEF StoreGenesis, StoreBlock
<1>4. Consistent(store') /\ Extends(store', store) /\ h \in store'.blocks
  BY <1>1, <1>3, WithBlockConsistent, WithBlockExtends DEF NInv, IInv, WithBlock
<1>5. /\ Consistent(file')
      /\ Extends(store', file')
      /\ acked' \subseteq file'.blocks
  BY <1>4, ExtendsTransitive
  DEF NInv, IInv, StoreGenesis, StoreBlock, flushLocked, Extends
<1>6. \A p \in Caller : pc[p] = "idle"
  BY DEF NInv, RunKnows, StoreGenesis
<1>7. TypeOK'
  <2>1. StoreTypeOK'
    BY <1>1, <1>4, <1>5 DEF StoreTypeOK, Consistent, NInv, IInv, TypeOK, StoreGenesis,
                            StoreBlock
  <2> QED BY <2>1 DEF NInv, IInv, TypeOK, StoreGenesis, callVars, timeVars
<1>8. IInv'
  BY <1>4, <1>5, <1>6, <1>7 DEF IInv, InFlight, StoreGenesis, callVars, PastValidation,
                                PastWork, PastStore
<1> QED BY <1>4, <1>6, <1>7, <1>8
        DEF NInv, NodeTypeOK, RunKnows, StoreGenesis, callVars, timeVars, Started

LEMMA TipGenesisInv ==
    ASSUME NInv, NEW ok \in FlushResults, TipGenesis(ok)
    PROVE  NInv'
<1> DEFINE h == arg[Miner]
<1>1. h \in store.blocks /\ store' = Decided(store, h, h)
  BY DEF TipGenesis, SetCurrentTip, HasBlock, WithTip
<1>2. Consistent(store') /\ Extends(store', store)
  BY <1>1, DecidedConsistent DEF NInv, IInv
<1>3. /\ Consistent(file')
      /\ Extends(store', file')
      /\ acked' \subseteq file'.blocks
  BY <1>2, ExtendsTransitive
  DEF NInv, IInv, TipGenesis, SetCurrentTip, flushLocked, Extends
<1>4. \A p \in Caller : pc[p] = "idle"
  BY DEF NInv, RunKnows, TipGenesis
<1>5. TypeOK'
  <2>1. StoreTypeOK'
    BY <1>2, <1>3 DEF StoreTypeOK, Consistent, NInv, IInv, TypeOK, TipGenesis, SetCurrentTip
  <2> QED BY <2>1 DEF NInv, IInv, TypeOK, TipGenesis, callVars, timeVars
<1>6. IInv'
  BY <1>2, <1>3, <1>4, <1>5 DEF IInv, InFlight, TipGenesis, callVars, PastValidation,
                                PastWork, PastStore
<1>7. store'.currentTip # ZeroHash
  BY <1>1, BlocksAssumption DEF NInv, IInv, Consistent, IsStore, Decided
<1> QED BY <1>4, <1>5, <1>6, <1>7
        DEF NInv, NodeTypeOK, RunKnows, TipGenesis, callVars, timeVars, Started

LEMMA MineInv == ASSUME NInv, Mine PROVE NInv'
<1> DEFINE tip == store.currentTip
<1>1. PICK h \in Hash :
        /\ Sealed(Header[h], Header[tip].height + 1, tip, MiningTime(tip))
        /\ Call(Miner, h)
  BY DEF Mine
<1>2. IInv'
  BY <1>1, CallInv, NodeAssumption DEF NInv
<1>3. tip \in store.blocks /\ store.blocks \subseteq Hash /\ now \in Nat
  BY DEF NInv, RunKnows, Mine, Started, IInv, TypeOK, Consistent, Coherent, IsStore
<1>4. ValidAlone(Header[h]) /\ ValidParent(store, Header[h])
  BY <1>1, <1>3, MinedIsValid
<1>5. arg'[Miner] = h /\ pc'[Miner] = "validate" /\ UNCHANGED <<store, now>>
  BY <1>1, NodeAssumption DEF Call, Goto, NInv, IInv, TypeOK, storeVars
<1> QED BY <1>2, <1>4, <1>5 DEF NInv, NodeTypeOK, RunKnows, Mine, Started, IInv

LEMMA SealFailsInv == ASSUME NInv, SealFails PROVE NInv'
<1>1. IInv'
  BY StutterInv DEF NInv, SealFails, vars, storeVars, callVars, timeVars
<1> QED BY <1>1 DEF NInv, NodeTypeOK, RunKnows, SealFails, Started, IInv, storeVars,
                    callVars, timeVars

LEMMA InsertedInv == ASSUME NInv, Inserted PROVE NInv'
<1>1. IInv'
  BY StutterInv DEF NInv, Inserted, vars, storeVars, callVars
<1>2. wake' \in Nat
  BY NodeAssumption DEF NInv, NodeTypeOK, Inserted
<1>3. NodeTypeOK'
  BY <1>1, <1>2 DEF NInv, NodeTypeOK, Inserted, Started, IInv
<1>4. RunKnows'
  BY DEF NInv, RunKnows, Inserted, Started, storeVars, callVars
<1> QED BY <1>1, <1>3, <1>4 DEF NInv

LEMMA TimerFiresInv == ASSUME NInv, TimerFires PROVE NInv'
<1>1. IInv'
  BY StutterInv DEF NInv, TimerFires, vars, storeVars, callVars, timeVars
<1> QED BY <1>1 DEF NInv, NodeTypeOK, RunKnows, TimerFires, Started, IInv, storeVars,
                    callVars, timeVars

LEMMA onNewBlockInv ==
    ASSUME NInv, NEW p \in Peer, NEW h \in Hash, onNewBlock(p, h)
    PROVE  NInv'
<1>1. p \in Caller /\ p # Miner /\ Miner \in Caller
  BY NodeAssumption DEF Peer
<1>2. IInv'
  BY <1>1, CallInv DEF NInv, onNewBlock
<1>3. pc'[Miner] = pc[Miner] /\ arg'[Miner] = arg[Miner] /\ UNCHANGED <<storeVars, now>>
  BY <1>1 DEF onNewBlock, Call, Goto, NInv, IInv, TypeOK
<1>4. RunKnows'
  BY <1>3 DEF NInv, RunKnows, onNewBlock, Started, storeVars
<1> QED BY <1>2, <1>3, <1>4 DEF NInv, NodeTypeOK, onNewBlock, IInv

\* A step inside InsertBlock leaves its caller inside or just behind it.
LEMMA ContinueCaller ==
    ASSUME TypeOK, NEW p \in Caller, Continue(p)
    PROVE  /\ pc' = [pc EXCEPT ![p] = pc'[p]]
           /\ pc[p] \in Steps /\ pc'[p] \in Steps \cup Results
           /\ UNCHANGED <<now, arg>>
  BY DEF Continue, Validate, CheckKnown, ParentWork, Store, Compare, SetTip, Goto, TypeOK,
         Steps, Results

LEMMA InsertingInv ==
    ASSUME NInv, NEW p \in Caller, Inserting(p)
    PROVE  NInv'
<1>1. IInv' /\ Extends(store', store)
  BY ContinueInv, ContinueExtends DEF NInv, Inserting
<1>2. /\ pc' = [pc EXCEPT ![p] = pc'[p]] /\ pc'[p] # "idle"
      /\ UNCHANGED <<now, arg>>
  BY ContinueCaller DEF NInv, IInv, Inserting, Steps, Results
<1>3. pc'[Miner] # "idle" \/ pc[Miner] = "idle"
  BY <1>2, NodeAssumption DEF NInv, IInv, TypeOK
<1>4. RunKnows'
  BY <1>1, <1>2, <1>3, KnowledgePersists DEF NInv, IInv, Inserting
<1> QED BY <1>1, <1>2, <1>4 DEF NInv, NodeTypeOK, Inserting, IInv

LEMMA ClockTickInv == ASSUME NInv, ClockTick PROVE NInv'
<1>1. clock' \in Nat /\ clock' \div TicksPerSecond \in Nat
  BY NodeAssumption, Z3 DEF NInv, NodeTypeOK, ClockTick
<1>2. IInv'
  BY <1>1 DEF NInv, IInv, TypeOK, StoreTypeOK, InFlight, ClockTick, storeVars, callVars
<1> QED BY <1>1, <1>2 DEF NInv, NodeTypeOK, RunKnows, ClockTick, IInv, IsGenesis,
                          storeVars, callVars

LEMMA RestartInv == ASSUME NInv, Restart PROVE NInv'
<1>1. Crash
  BY DEF Restart, Crash
<1>2. IInv'
  BY <1>1, CrashInv DEF NInv
<1> QED BY <1>2 DEF NInv, NodeTypeOK, RunKnows, Restart, Started, IInv, TypeOK

LEMMA NodeNextInv == ASSUME NInv, [NodeNext]_nodeVars PROVE NInv'
<1>1. CASE MinerStep
  BY <1>1, FindTipInv, SealGenesisInv, StoreGenesisInv, TipGenesisInv, MineInv,
     InsertingInv, InsertedInv, TimerFiresInv, NodeAssumption DEF MinerStep
<1>2. ASSUME NEW p \in Peer, PeerStep(p) PROVE NInv'
  BY <1>2, InsertingInv, onNewBlockInv DEF PeerStep, Peer
<1>3. CASE UNCHANGED nodeVars
  <2>1. IInv'
    BY <1>3, StutterInv DEF NInv, nodeVars, vars
  <2> QED BY <1>3, <2>1 DEF NInv, NodeTypeOK, RunKnows, IsGenesis, nodeVars, IInv
<1> QED BY <1>1, <1>2, <1>3, SealFailsInv, ClockTickInv, RestartInv DEF NodeNext

LEMMA NodeInvariance == NodeSpec => []NInv
  BY NodeInitInv, NodeNextInv, PTL DEF NodeSpec

-----------------------------------------------------------------------------
\* The clock of the machine and the seconds of the validator stay in step, and
\* Node.Run is always at one of its steps.
THEOREM NodeTypeCorrect == NodeSpec => []NodeTypeOK
  BY NodeInvariance, PTL DEF NInv

\* However long sealing takes and whatever peers insert meanwhile, a block the
\* node mined itself obeys every rule but the one about the clock.
THEOREM MinedBlocksAreValid == NodeSpec => []MinedBlockValid
<1>1. NInv => MinedBlockValid
  BY DEF NInv, RunKnows, MinedBlockValid
<1> QED BY <1>1, NodeInvariance, PTL

\* The life of a node as a whole keeps its maps coherent and its height index
\* and works exact, although it stores its genesis block as it sealed it.
THEOREM NodeCoherence ==
    NodeSpec => [](MapsCoherent /\ HeightIndexExact /\ WorkAccumulates)
<1>1. NInv => MapsCoherent /\ HeightIndexExact /\ WorkAccumulates
  BY DEF NInv, IInv, Consistent, MapsCoherent, HeightIndexExact, WorkAccumulates
<1> QED BY <1>1, NodeInvariance, PTL

\* Every block of a node obeys the rules, the genesis block that was never
\* validated included, and so does every block a restart finds.
THEOREM NodeStoresValidChains == NodeSpec => []StoredBlocksValid
<1>1. NInv => StoredBlocksValid
  BY DEF NInv, IInv, Consistent, StoredBlocksValid
<1> QED BY <1>1, NodeInvariance, PTL

\* No block is lost that StoreBlock reported as stored, be it the genesis
\* block or another, however often the node is started again.
THEOREM NodeKeepsAcked == NodeSpec => []AckedBlocksDurable
<1>1. NInv => AckedBlocksDurable
  BY DEF NInv, IInv, AckedBlocksDurable
<1> QED BY <1>1, NodeInvariance, PTL

\* The node's file never gives up a block and never runs ahead of its memory.
THEOREM NodeFileGrows == NodeSpec => FileKeepsBlocks
<1> DEFINE Grows == /\ file.blocks \subseteq file'.blocks
                    /\ file'.blocks \subseteq store'.blocks
<1>1. ASSUME NInv, [NodeNext]_nodeVars PROVE [Grows]_storeVars
  <2>1. Extends(store', file') /\ Extends(store, file)
    BY <1>1, NodeNextInv DEF NInv, IInv
  <2>2. ASSUME file' = file PROVE Grows
    BY <2>1, <2>2 DEF Extends
  <2>3. ASSUME NEW p \in Caller, Inserting(p) PROVE Grows
    BY <1>1, <2>1, <2>3, ContinueExtends DEF NInv, Inserting, Extends
  <2>4. ASSUME NEW ok \in FlushResults, StoreGenesis(ok) PROVE Grows
    BY <2>1, <2>4 DEF StoreGenesis, StoreBlock, WithBlock, flushLocked, Extends
  <2>5. ASSUME NEW ok \in FlushResults, TipGenesis(ok) PROVE Grows
    BY <2>1, <2>5 DEF TipGenesis, SetCurrentTip, WithTip, Decided, flushLocked, Extends
  <2>6. CASE MinerStep
    BY <2>2, <2>3, <2>4, <2>5, <2>6, NodeAssumption
    DEF MinerStep, FindTip, SealGenesis, Mine, Call, Inserted, TimerFires, storeVars
  <2>7. ASSUME NEW p \in Peer, PeerStep(p) PROVE Grows
    <3>1. p \in Caller
      BY DEF Peer
    <3>2. ASSUME NEW h \in Hash, onNewBlock(p, h) PROVE Grows
      BY <2>2, <3>2 DEF onNewBlock, Call, storeVars
    <3> QED BY <2>3, <2>7, <3>1, <3>2 DEF PeerStep
  <2>8. CASE SealFails \/ ClockTick \/ UNCHANGED nodeVars
    BY <2>2, <2>8 DEF SealFails, ClockTick, storeVars, nodeVars
  <2>9. CASE Restart
    BY <2>2, <2>9 DEF Restart, Load
  <2> QED BY <1>1, <2>6, <2>7, <2>8, <2>9 DEF NodeNext
<1>2. NodeSpec => [][Grows]_storeVars
  BY <1>1, NodeInvariance, PTL DEF NodeSpec
<1> QED BY <1>2 DEF FileKeepsBlocks

-----------------------------------------------------------------------------
\* A node that no peer's blocks reach, in one life of its process, with blocks
\* a second apart at least.
MinesAlone ==
    /\ Caller = {Miner}
    /\ MayCrash = FALSE
    /\ BlockTicks >= TicksPerSecond

\* The timestamp of the tip runs ahead of the clock by a second at most, and
\* only from the time a block is mined to the end of the sleep after it.
OnTime ==
    /\ bootTime <= now
    /\ pc[Miner] \in Steps => run = "insert"
    /\ run \in {"init", "storeGenesis"} => store.currentTip = ZeroHash
    /\ run \in {"storeGenesis", "tipGenesis"} => Header[arg[Miner]].timestamp <= now
    /\ run = "mine" => Header[store.currentTip].timestamp <= now
    /\ run = "insert" => Header[arg[Miner]].timestamp <= now + 1
    /\ run = "wait" => Header[store.currentTip].timestamp <= wake \div TicksPerSecond
    /\ ChainKeepsTime

\* The inductive invariant of such a node.
AloneInv == NInv /\ OnTime

\* No error of InsertBlock is left for Node.Run to end on.
NothingFails ==
    /\ FALSE \notin FlushResults
    /\ SealMayFail = FALSE
    /\ MaxFuture >= 1

GoesOn == pc[Miner] # "error" /\ MiningGoesOn

-----------------------------------------------------------------------------
LEMMA QuotientMonotone ==
    ASSUME NEW n \in Nat \ {0}, NEW a \in Nat, NEW b \in Nat, a <= b
    PROVE  a \div n <= b \div n
  BY Z3

LEMMA OneMore ==
    ASSUME NEW n \in Nat \ {0}, NEW a \in Nat, NEW b \in Nat, b >= n
    PROVE  a \div n + 1 <= (a + b) \div n
  BY Z3

LEMMA OnTimeInit == NodeInit => OnTime
  BY ValidatorAssumption, NodeAssumption
  DEF NodeInit, OnTime, Empty, Steps, ChainKeepsTime

\* Up to the end of InitGenesis the tip is no younger than the clock.
LEMMA GenesisOnTime ==
    ASSUME AloneInv,
           \/ FindTip \/ SealGenesis \/ SealFails
           \/ \E ok \in FlushResults : StoreGenesis(ok) \/ TipGenesis(ok)
    PROVE  OnTime'
<1>1. now \in Nat /\ bootTime \in Nat
  BY DEF AloneInv, NInv, NodeTypeOK, IInv, TypeOK
<1>2. CASE FindTip
  BY <1>2 DEF AloneInv, OnTime, FindTip
<1>3. CASE SealGenesis
  <2>1. PICK h \in Hash : /\ Sealed(Header[h], 0, ZeroHash, bootTime)
                          /\ arg' = [arg EXCEPT ![Miner] = h]
    BY <1>3 DEF SealGenesis
  <2>2. arg'[Miner] = h /\ pc[Miner] = "idle"
    BY <1>3, <2>1, NodeAssumption DEF AloneInv, NInv, IInv, TypeOK, RunKnows, SealGenesis
  <2> QED BY <1>1, <1>3, <2>1, <2>2
          DEF AloneInv, OnTime, SealGenesis, Sealed, storeVars, timeVars, ChainKeepsTime, Steps
<1>4. CASE SealFails
  BY <1>4 DEF AloneInv, OnTime, SealFails, storeVars, callVars, timeVars, ChainKeepsTime
<1>5. ASSUME NEW ok \in FlushResults, StoreGenesis(ok) PROVE OnTime'
  <2>1. Header[arg[Miner]].timestamp <= now /\ arg[Miner] \in Hash
    BY <1>5 DEF AloneInv, OnTime, NInv, RunKnows, IsGenesis, StoreGenesis
  <2>2. store'.currentTip = arg[Miner] /\ pc[Miner] = "idle"
    BY <1>5, NodeAssumption
    DEF AloneInv, OnTime, NInv, RunKnows, StoreGenesis, StoreBlock, WithBlock
  <2> QED BY <1>1, <1>5, <2>1, <2>2, TimestampType
          DEF AloneInv, OnTime, StoreGenesis, callVars, timeVars, ChainKeepsTime, Steps
<1>6. ASSUME NEW ok \in FlushResults, TipGenesis(ok) PROVE OnTime'
  <2>1. Header[arg[Miner]].timestamp <= now /\ arg[Miner] \in Hash
    BY <1>6 DEF AloneInv, OnTime, NInv, IInv, Consistent, IsStore, RunKnows, TipGenesis
  <2>2. store'.currentTip = arg[Miner] /\ pc[Miner] = "idle"
    BY <1>6, NodeAssumption
    DEF AloneInv, NInv, RunKnows, TipGenesis, SetCurrentTip, WithTip, Decided
  <2> QED BY <1>1, <1>6, <2>1, <2>2, TimestampType
          DEF AloneInv, OnTime, TipGenesis, callVars, timeVars, ChainKeepsTime, Steps
<1> QED BY <1>2, <1>3, <1>4, <1>5, <1>6

LEMMA MineOnTime == ASSUME AloneInv, Mine PROVE OnTime'
<1> DEFINE tip == store.currentTip
<1>1. PICK h \in Hash :
        /\ Sealed(Header[h], Header[tip].height + 1, tip, MiningTime(tip))
        /\ Call(Miner, h)
  BY DEF Mine
<1>2. tip \in Hash /\ now \in Nat
  BY DEF AloneInv, NInv, RunKnows, Mine, Started, IInv, TypeOK, Consistent, Coherent, IsStore
<1>3. Header[h].timestamp <= now + 1
  BY <1>1, <1>2, TimestampType
  DEF AloneInv, OnTime, Mine, Sealed, MiningTime, LaterOf
<1>4. arg'[Miner] = h /\ UNCHANGED <<store, now>>
  BY <1>1, NodeAssumption DEF Call, AloneInv, NInv, IInv, TypeOK, storeVars
<1> QED BY <1>3, <1>4 DEF AloneInv, OnTime, Mine, ChainKeepsTime

\* The sleep lasts until the second of the new tip has come.
LEMMA InsertedOnTime == ASSUME MinesAlone, AloneInv, Inserted PROVE OnTime'
<1>1. pc[Miner] \notin Steps
  BY DEF Inserted, Steps, Results
<1>2. store.currentTip \in Hash /\ store.currentTip # ZeroHash
  BY DEF AloneInv, NInv, RunKnows, Inserted, Started, IInv, Consistent, IsStore
<1>3. Header[store.currentTip].timestamp <= now + 1
  BY <1>2 DEF AloneInv, OnTime, ChainKeepsTime
<1>4. CASE run' = "wait"
  <2>1. /\ clock \in Nat /\ TicksPerSecond \in Nat \ {0} /\ BlockTicks \in Nat
        /\ BlockTicks >= TicksPerSecond /\ now = clock \div TicksPerSecond
    BY NodeAssumption DEF AloneInv, NInv, NodeTypeOK, MinesAlone
  <2>2. now + 1 <= (clock + BlockTicks) \div TicksPerSecond
    BY <2>1, OneMore
  <2>3. now \in Nat /\ (clock + BlockTicks) \div TicksPerSecond \in Nat
    BY <2>1, QuotientGrows
  <2>4. wake' = clock + BlockTicks
    BY <1>4 DEF Inserted
  <2>5. Header[store.currentTip].timestamp <= wake' \div TicksPerSecond
    BY <1>2, <1>3, <2>2, <2>3, <2>4, TimestampType
  <2> QED BY <1>1, <1>4, <2>5
          DEF AloneInv, OnTime, Inserted, storeVars, callVars, ChainKeepsTime
<1>5. CASE run' = "exited"
  BY <1>1, <1>5 DEF AloneInv, OnTime, Inserted, storeVars, callVars, ChainKeepsTime
<1> QED BY <1>4, <1>5 DEF Inserted

LEMMA TimerFiresOnTime == ASSUME AloneInv, TimerFires PROVE OnTime'
<1>1. /\ clock \in Nat /\ wake \in Nat /\ TicksPerSecond \in Nat \ {0}
      /\ now = clock \div TicksPerSecond /\ wake <= clock
  BY NodeAssumption DEF AloneInv, NInv, NodeTypeOK, TimerFires
<1>2. /\ wake \div TicksPerSecond <= now
      /\ now \in Nat /\ wake \div TicksPerSecond \in Nat
  BY <1>1, QuotientMonotone, QuotientGrows
<1>3. store.currentTip \in Hash
  BY DEF AloneInv, NInv, RunKnows, TimerFires, Started, IInv, Consistent, IsStore
<1>4. Header[store.currentTip].timestamp <= now
  BY <1>2, <1>3, TimestampType DEF AloneInv, OnTime, TimerFires
<1> QED BY <1>4 DEF AloneInv, OnTime, TimerFires, storeVars, callVars, timeVars, ChainKeepsTime

LEMMA ClockTickOnTime == ASSUME AloneInv, ClockTick PROVE OnTime'
<1>1. /\ clock \in Nat /\ TicksPerSecond \in Nat \ {0}
      /\ now = clock \div TicksPerSecond /\ now' = (clock + 1) \div TicksPerSecond
      /\ bootTime \in Nat
  BY NodeAssumption DEF AloneInv, NInv, NodeTypeOK, ClockTick
<1>2. now \in Nat /\ now' \in Nat /\ now <= now'
  BY <1>1, QuotientGrows
<1>3. /\ \A h \in Hash : Header[h].timestamp \in Int
      /\ store.currentTip \in Hash \cup {ZeroHash}
      /\ run \in Started => store.currentTip # ZeroHash
      /\ run \in {"storeGenesis", "tipGenesis", "insert"} => arg[Miner] \in Hash
  BY TimestampType, NodeAssumption
  DEF AloneInv, NInv, RunKnows, IInv, TypeOK, Consistent, IsStore, IsGenesis
<1>4. UNCHANGED <<store, pc, arg, run, wake, bootTime>>
  BY DEF ClockTick, storeVars, callVars
<1> QED BY <1>1, <1>2, <1>3, <1>4 DEF AloneInv, OnTime, ChainKeepsTime, Started

\* While the node inserts, the tip stays or becomes the block it mined.
LEMMA InsertingOnTime == ASSUME AloneInv, Inserting(Miner) PROVE OnTime'
<1>1. /\ pc[Miner] \in Steps /\ run = "insert"
      /\ UNCHANGED <<now, arg, run, clock, wake, bootTime>>
  BY ContinueCaller, NodeAssumption DEF AloneInv, OnTime, NInv, IInv, Inserting
<1>2. store.currentTip # ZeroHash
  BY <1>1 DEF AloneInv, NInv, RunKnows, Started
<1>3. store'.currentTip \in {store.currentTip, arg[Miner]}
  BY <1>2 DEF Inserting, Continue, Validate, CheckKnown, ParentWork, Store, StoreBlock,
              WithBlock, Compare, SetTip, SetCurrentTip, WithTip, Decided, storeVars
<1> QED BY <1>1, <1>2, <1>3 DEF AloneInv, OnTime, ChainKeepsTime

LEMMA AloneNext ==
    ASSUME MinesAlone, AloneInv, [NodeNext]_nodeVars
    PROVE  AloneInv'
<1>1. NInv'
  BY NodeNextInv DEF AloneInv
<1>2. Peer = {}
  BY DEF MinesAlone, Peer
<1>3. ASSUME MinerStep PROVE OnTime'
  BY <1>3, GenesisOnTime, MineOnTime, InsertingOnTime, InsertedOnTime, TimerFiresOnTime
  DEF MinerStep
<1>4. ASSUME UNCHANGED nodeVars PROVE OnTime'
  BY <1>4 DEF AloneInv, OnTime, ChainKeepsTime, nodeVars
<1>5. ~Restart
  BY DEF Restart, MinesAlone
<1>6. OnTime'
  BY <1>2, <1>3, <1>4, <1>5, GenesisOnTime, ClockTickOnTime DEF NodeNext
<1> QED BY <1>1, <1>6 DEF AloneInv

LEMMA AloneInvariance == ASSUME MinesAlone PROVE NodeSpec => []AloneInv
<1>1. NodeInit => AloneInv
  BY NodeInitInv, OnTimeInit DEF AloneInv
<1>2. MinesAlone => (AloneInv /\ [NodeNext]_nodeVars => AloneInv')
  BY AloneNext
<1> QED BY <1>1, <1>2, PTL DEF NodeSpec

\* A node that mines alone, a block a second at most, never stamps a block more
\* than a second ahead of its clock, and none at the end of its sleep.
THEOREM ChainOnTime == ASSUME MinesAlone PROVE NodeSpec => []ChainKeepsTime
<1>1. AloneInv => ChainKeepsTime
  BY DEF AloneInv, OnTime
<1> QED BY <1>1, AloneInvariance, PTL

-----------------------------------------------------------------------------
LEMMA GoesOnNext ==
    ASSUME NothingFails, MinesAlone, AloneInv, GoesOn, [NodeNext]_nodeVars
    PROVE  GoesOn'
<1>1. Peer = {} /\ ~Restart /\ ~SealFails /\ \A ok \in FlushResults : ok = TRUE
  BY FlushAssumption DEF MinesAlone, Peer, Restart, NothingFails, SealFails
<1>2. CASE MinerStep /\ ~Inserting(Miner) /\ ~Mine
  BY <1>1, <1>2
  DEF GoesOn, MiningGoesOn, MinerStep, FindTip, SealGenesis, StoreGenesis, TipGenesis,
      Inserted, TimerFires, callVars
<1>3. CASE Mine
  BY <1>3, NodeAssumption
  DEF GoesOn, MiningGoesOn, Mine, Call, Goto, AloneInv, NInv, IInv, TypeOK
<1>4. CASE Inserting(Miner)
  <2>1. run = "insert" /\ run' = "insert" /\ Continue(Miner) /\ TypeOK
    BY <1>4, ContinueCaller, NodeAssumption DEF AloneInv, OnTime, NInv, IInv, Inserting
  <2>2. /\ arg[Miner] \in Hash
        /\ ValidAlone(Header[arg[Miner]]) /\ ValidParent(store, Header[arg[Miner]])
        /\ Header[arg[Miner]].timestamp <= now + 1
    BY <2>1, NodeAssumption DEF AloneInv, OnTime, NInv, RunKnows, TypeOK
  <2>3. ValidateHeader(store, Header[arg[Miner]], now)
    <3>1. /\ now \in Nat /\ MaxFuture \in Nat /\ MaxFuture >= 1
          /\ Header[arg[Miner]].timestamp \in Int
      BY <2>1, <2>2, RulesAssumption, TimestampType DEF TypeOK, NothingFails
    <3>2. Header[arg[Miner]].timestamp <= now + MaxFuture
      BY <2>2, <3>1
    <3> QED BY <2>2, <3>2 DEF ValidateHeader
  <2>4. Header[arg[Miner]].height > 0 => HasBlock(store, Header[arg[Miner]].parentHash)
    BY <2>2, HeaderType DEF ValidParent
  <2>5. pc'[Miner] # "error"
    BY <1>1, <2>1, <2>3, <2>4, NodeAssumption
    DEF Continue, Validate, CheckKnown, ParentWork, Store, Compare, SetTip, Goto, TypeOK
  <2> QED BY <2>1, <2>5 DEF GoesOn, MiningGoesOn
<1>5. CASE ClockTick \/ UNCHANGED nodeVars
  BY <1>5 DEF GoesOn, MiningGoesOn, ClockTick, callVars, nodeVars
<1> QED BY <1>1, <1>2, <1>3, <1>4, <1>5 DEF NodeNext

\* A node that mines alone, whose writes and nonce ranges do not fail it, never
\* ends by itself: InsertBlock accepts all that it mines.
THEOREM NodeGoesOn ==
    ASSUME MinesAlone, NothingFails
    PROVE  NodeSpec => []MiningGoesOn
<1>1. NodeInit => GoesOn
  BY NodeAssumption DEF NodeInit, GoesOn, MiningGoesOn
<1>2. NothingFails /\ MinesAlone
        => (AloneInv /\ GoesOn /\ [NodeNext]_nodeVars => GoesOn')
  BY GoesOnNext
<1>3. GoesOn => MiningGoesOn
  BY DEF GoesOn
<1> QED BY <1>1, <1>2, <1>3, AloneInvariance, PTL DEF NodeSpec

-----------------------------------------------------------------------------
\* The genesis block is stored when there is no tip, and becomes the tip then.
GenesisFirst ==
    /\ run = "storeGenesis" => store.currentTip = ZeroHash
    /\ run = "tipGenesis" => store.currentTip = arg[Miner]

\* The invariant of chain selection for a node with one inserting goroutine.
TInv == NInv /\ RInv /\ GenesisFirst

\* The steps of Node that are steps of Validator, for the store.
LEMMA ValidatorSteps ==
    ASSUME NInv, [NodeNext]_nodeVars
    PROVE  \/ [Next]_vars
           \/ UNCHANGED <<store, file>> /\ (ClockTick \/ SealGenesis)
           \/ \E ok \in FlushResults : StoreGenesis(ok) \/ TipGenesis(ok)
<1>1. ASSUME NEW p \in Caller, Inserting(p) PROVE Next
  BY <1>1 DEF Inserting, Step, Next
<1>2. CASE Mine
  BY <1>2, NodeAssumption DEF Mine, Step, Next
<1>3. ASSUME NEW p \in Caller, NEW h \in Hash, onNewBlock(p, h) PROVE Next
  BY <1>3 DEF onNewBlock, Step, Next
<1>4. CASE Restart
  BY <1>4 DEF Restart, Crash, Next
<1>5. CASE FindTip \/ Inserted \/ TimerFires \/ SealFails \/ UNCHANGED nodeVars
  BY <1>5 DEF FindTip, Inserted, TimerFires, SealFails, nodeVars, vars, storeVars,
              callVars, timeVars
<1>6. CASE ClockTick \/ SealGenesis
  BY <1>6 DEF ClockTick, SealGenesis, storeVars
<1>7. \A p \in Peer : p \in Caller
  BY DEF Peer
<1> QED BY <1>1, <1>2, <1>3, <1>4, <1>5, <1>6, <1>7, NodeAssumption
        DEF NodeNext, MinerStep, PeerStep

LEMMA StoreGenesisSelects ==
    ASSUME TInv, NEW ok \in FlushResults, StoreGenesis(ok)
    PROVE  /\ arg[Miner] \in Hash /\ ok \in BOOLEAN
           /\ store.decided = {} /\ store.currentTip = ZeroHash
           /\ store'.decided = {arg[Miner]} /\ store'.currentTip = arg[Miner]
           /\ file' = IF ok THEN store' ELSE file
           /\ Selected(store') /\ NotBehind(store', store) /\ Extends(store', store)
           /\ Recorded(store')
<1> DEFINE h == arg[Miner]
<1>1. /\ h \in Hash /\ Header[h].height = 0
      /\ ValidAlone(Header[h]) /\ ValidParent(store, Header[h])
  BY DEF TInv, NInv, RunKnows, StoreGenesis, IsGenesis
<1>2. AddWork(store, h) = CalcBlockWork(Header[h].target)
  BY <1>1, HeaderType, CalcBlockWorkType DEF AddWork
<1>3. store' = WithBlock(store, h, AddWork(store, h))
  BY <1>2 DEF StoreGenesis, StoreBlock
<1>4. /\ Consistent(store) /\ Selected(store) /\ Recorded(store)
      /\ store.currentTip = ZeroHash
  BY DEF TInv, RInv, SInv, IInv, GenesisFirst, StoreGenesis
<1>5. store.decided = {}
  BY <1>4, BlocksAssumption DEF Consistent, Coherent, IsStore
<1>6. store'.decided = {h} /\ store'.currentTip = h
  BY <1>3, <1>4, <1>5 DEF WithBlock
<1>7. file' = (IF ok THEN store' ELSE file) /\ ok \in BOOLEAN
  BY FlushAssumption DEF StoreGenesis, StoreBlock, flushLocked
<1> QED BY <1>1, <1>3, <1>4, <1>5, <1>6, <1>7, StoreSelects, StoreRecorded, WithBlockExtends

\* Making the genesis block the tip, which it is since it was stored, changes
\* nothing.
LEMMA TipGenesisSelects ==
    ASSUME TInv, NEW ok \in FlushResults, TipGenesis(ok)
    PROVE  store' = store /\ file' = (IF ok THEN store ELSE file) /\ ok \in BOOLEAN
<1> DEFINE h == arg[Miner]
<1>1. /\ h = store.currentTip /\ h \in store.blocks /\ h \in store.decided
      /\ IsStore(store)
  <2>1. h = store.currentTip /\ h \in store.blocks
    BY DEF TInv, GenesisFirst, TipGenesis, SetCurrentTip, HasBlock
  <2>2. IsStore(store) /\ Selected(store)
    BY DEF TInv, RInv, SInv, IInv, Consistent
  <2>3. h # ZeroHash
    BY <2>1, <2>2, BlocksAssumption DEF IsStore
  <2> QED BY <2>1, <2>2, <2>3 DEF Selected
<1>2. store' = Decided(store, h, h)
  BY DEF TipGenesis, SetCurrentTip, WithTip
<1>3. Decided(store, h, h) = store
  <2>1. store.decided \cup {h} = store.decided
    BY <1>1
  <2>2. store = [genesisHash |-> store.genesisHash, currentTip |-> store.currentTip,
                 blocks |-> store.blocks, heights |-> store.heights,
                 totalWork |-> store.totalWork, decided |-> store.decided]
    BY <1>1 DEF IsStore
  <2> QED BY <1>1, <2>1, <2>2 DEF Decided
<1> QED BY <1>2, <1>3, FlushAssumption DEF TipGenesis, SetCurrentTip, flushLocked

LEMMA GenesisFirstNext ==
    ASSUME TInv, [NodeNext]_nodeVars
    PROVE  GenesisFirst'
<1>0. NInv /\ GenesisFirst
  BY DEF TInv
<1>1. ASSUME NEW ok \in FlushResults, StoreGenesis(ok) PROVE GenesisFirst'
  <2>1. store'.currentTip = arg[Miner] /\ run' # "storeGenesis" /\ arg' = arg
    BY <1>1, StoreGenesisSelects DEF StoreGenesis, callVars
  <2> QED BY <2>1 DEF GenesisFirst
<1>2. CASE SealGenesis
  BY <1>2 DEF SealGenesis, GenesisFirst, storeVars
<1>3. ASSUME UNCHANGED <<store, arg, run>> PROVE GenesisFirst'
  BY <1>0, <1>3 DEF GenesisFirst
<1>4. ASSUME run' \notin {"storeGenesis", "tipGenesis"} PROVE GenesisFirst'
  BY <1>4 DEF GenesisFirst
<1>5. ASSUME NEW ok \in FlushResults, TipGenesis(ok) PROVE GenesisFirst'
  BY <1>4, <1>5 DEF TipGenesis
<1>6. ASSUME NEW p \in Caller, Inserting(p) \/ \E h \in Hash : onNewBlock(p, h)
      PROVE  GenesisFirst'
  BY <1>4, <1>6 DEF Inserting, onNewBlock, Started
<1>7. CASE FindTip \/ Mine \/ Inserted \/ TimerFires \/ SealFails \/ Restart
  BY <1>4, <1>7 DEF FindTip, Mine, Inserted, TimerFires, SealFails, Restart
<1>8. CASE ClockTick \/ UNCHANGED nodeVars
  BY <1>3, <1>8 DEF ClockTick, nodeVars, storeVars, callVars
<1>9. \A p \in Peer : p \in Caller
  BY DEF Peer
<1> QED BY <1>1, <1>2, <1>5, <1>6, <1>7, <1>8, <1>9, NodeAssumption
        DEF NodeNext, MinerStep, PeerStep

LEMMA TNext == ASSUME OneCaller, TInv, [NodeNext]_nodeVars PROVE TInv'
<1>0. NInv' /\ IInv' /\ GenesisFirst'
  BY NodeNextInv, GenesisFirstNext DEF TInv, NInv
<1>1. CASE [Next]_vars
  BY <1>0, <1>1, RNext DEF TInv
<1>2. CASE UNCHANGED <<store, file>> /\ (ClockTick \/ SealGenesis)
  <2>1. pc' = pc /\ (arg' = arg \/ \A p \in Caller : pc[p] = "idle")
    BY <1>2 DEF ClockTick, SealGenesis, callVars, TInv, NInv, RunKnows
  <2>2. ASSUME NEW p \in Caller
        PROVE  Undecided(p)' /\ (pc'[p] = "setTip" => Deserves(store', arg'[p]))
    BY <1>2, <2>1 DEF TInv, RInv, SInv, Undecided, PastStore
  <2>3. /\ Selected(store') /\ Selected(file') /\ NotBehind(store', file')
        /\ Recorded(store') /\ Recorded(file')
    BY <1>2 DEF TInv, RInv, SInv
  <2> QED BY <1>0, <2>2, <2>3 DEF TInv, RInv, SInv
<1>3. ASSUME NEW ok \in FlushResults, StoreGenesis(ok) \/ TipGenesis(ok) PROVE TInv'
  <2>1. \A p \in Caller : pc'[p] = "idle"
    BY <1>3 DEF StoreGenesis, TipGenesis, callVars, TInv, NInv, RunKnows
  <2>2. /\ Selected(store') /\ NotBehind(store', store) /\ Extends(store', store)
        /\ Recorded(store')
        /\ file' = file \/ file' = store'
    <3>1. CASE StoreGenesis(ok)
      BY <3>1, StoreGenesisSelects
    <3>2. CASE TipGenesis(ok)
      BY <3>2, TipGenesisSelects, NotBehindReflexive DEF TInv, RInv, SInv, Extends
    <3> QED BY <1>3, <3>1, <3>2
  <2>3. NotBehind(store', file')
    <3>1. NotBehind(store', file)
      BY <1>0, <2>2, NotBehindTransitive DEF TInv, RInv, SInv, IInv
    <3> QED BY <2>2, <3>1, NotBehindReflexive
  <2>4. Selected(file') /\ Recorded(file')
    BY <2>2 DEF TInv, RInv, SInv
  <2> QED BY <1>0, <2>1, <2>2, <2>3, <2>4 DEF TInv, RInv, SInv, Undecided, PastStore
<1> QED BY <1>1, <1>2, <1>3, ValidatorSteps DEF TInv

LEMMA TInvariance == ASSUME OneCaller PROVE NodeSpec => []TInv
<1>1. ASSUME NodeInit PROVE TInv
  <2>1. Init
    BY <1>1 DEF NodeInit, Init
  <2> QED BY <1>1, <2>1, RInit, NodeInitInv DEF TInv, GenesisFirst, NodeInit
<1> QED BY <1>1, TNext, PTL DEF NodeSpec

-----------------------------------------------------------------------------
\* The tip of a node without peers is the best block it has considered, in
\* memory and on disk, from its genesis on, through failing rewrites and
\* restarts, between any two steps of InitGenesis too.
THEOREM NodeTipIsBest == ASSUME OneCaller PROVE NodeSpec => []TipBeatsDecided
<1>1. TInv => TipBeatsDecided
  BY DEF TInv, RInv, SInv, Selected, TipBeatsDecided
<1> QED BY <1>1, TInvariance, PTL

\* A node without peers follows the chain with the most true work, from the
\* genesis block on, which InitGenesis stores past InsertBlock.
THEOREM NodeFollowsBestChain ==
    ASSUME OneCaller PROVE NodeSpec => ImplementsBestChain
<1>1. NodeInit => Promise!BestChainInit
  BY InitImplements DEF NodeInit, Init
<1>2. ASSUME TInv, [NodeNext]_nodeVars
      PROVE  [Promise!BestChainNext]_Promise!bestChainVars
  <2>1. CASE [Next]_vars
    BY <1>2, <2>1, NextImplements DEF TInv
  <2>2. CASE UNCHANGED <<store, file>>
    BY <2>2 DEF Promise!bestChainVars
  <2>3. ASSUME NEW ok \in FlushResults, StoreGenesis(ok)
        PROVE  [Promise!BestChainNext]_Promise!bestChainVars
    <3>1. Promise!Consider(arg[Miner])
      BY <1>2, <2>3, StoreGenesisSelects DEF Promise!Consider
    <3> QED BY <1>2, <2>3, <3>1, StoreGenesisSelects DEF Promise!BestChainNext
  <2>4. ASSUME NEW ok \in FlushResults, TipGenesis(ok)
        PROVE  [Promise!BestChainNext]_Promise!bestChainVars
    BY <1>2, <2>4, TipGenesisSelects
       DEF Promise!BestChainNext, Promise!Save, Promise!bestChainVars
  <2> QED BY <1>2, <2>1, <2>2, <2>3, <2>4, ValidatorSteps DEF TInv
<1>3. OneCaller => (NodeSpec => []TInv)
  BY TInvariance
<1> QED BY <1>1, <1>2, <1>3, PTL DEF NodeSpec, ImplementsBestChain, Promise!BestChainSpec
=============================================================================
