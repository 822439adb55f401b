-------------------------------- MODULE Node --------------------------------
(***************************************************************************)
(* pkg/node: the life of a node around its chain.                          *)
(*                                                                         *)
(* The goroutine of Node.Run creates the genesis block, then mines on the  *)
(* tip, inserts what it mined and sleeps for BlockTime, over and over; an  *)
(* error ends it and with it the process.  Connection handlers insert the  *)
(* blocks that peers announce.  All go through the validator's InsertBlock *)
(* of module Validator, concurrently.                                      *)
(*                                                                         *)
(* Timestamps are whole seconds, so the clock of the machine is finer than *)
(* the validator's "now": it advances in ticks.                            *)
(***************************************************************************)
EXTENDS Validator

CONSTANTS
    Miner,          \* the goroutine of Node.Run
    TicksPerSecond, \* how fine the machine's clock is
    BlockTicks,     \* cfg.BlockTime, in ticks
    Bits,           \* cfg.Genesis.Bits, the target of every mined block
    MaxHeight,      \* bound: nothing is mined above this height
    MaxDelay,       \* bound: ticks until the goroutine of Run sleeps again
    SealMayFail     \* whether a nonce range may hold no solution

ASSUME NodeAssumption ==
    /\ Miner \in Caller
    /\ TicksPerSecond \in Nat \ {0}
    /\ BlockTicks \in Nat \ {0}     \* node.New replaces 0 by one second
    /\ Bits \in Nat \ {0}            \* no hash meets a zero target
    /\ MaxDelay \in Nat
    /\ SealMayFail \in BOOLEAN

VARIABLES
    run,            \* where Node.Run is
    clock,          \* ticks of the machine's clock
    wake,           \* since when, or from when on, Node.Run is not asleep
    bootTime        \* cfg.Genesis.Timestamp: the second the process started

nodeVars == <<store, file, acked, now, pc, arg, work, run, clock, wake, bootTime>>
timeVars == <<now, clock, wake, bootTime>>

Peer == Caller \ {Miner}

\* "init", "storeGenesis" and "tipGenesis" are the steps of InitGenesis, after
\* which the peer-to-peer server is started.
Started == {"mine", "insert", "wait"}

-----------------------------------------------------------------------------
NodeInit ==
    /\ store = Empty /\ file = Empty /\ acked = {}
    /\ now = InitialTime
    /\ \E part \in 0..(TicksPerSecond - 1) :
         clock = InitialTime * TicksPerSecond + part
    /\ pc = [p \in Caller |-> "idle"]
    /\ arg = [p \in Caller |-> ZeroHash]
    /\ work = [p \in Caller |-> 0]
    /\ run = "init" /\ wake = clock /\ bootTime = InitialTime

\* A sealed header: the fields mineNextBlock and NewGenesisBlock fill in, those
\* of the epoch from the spec of this height, and a nonce that meets the target.
Sealed(hd, height, parent, time) ==
    LET resolved == ResolvedForHeight(ChainSpec, height)
    IN  /\ hd.algorithmVersion = resolved.algorithmVersion
        /\ hd.height = height
        /\ hd.parentHash = parent
        /\ hd.timestamp = time
        /\ hd.target = Bits
        /\ hd.epochSeed = EpochSeedForHeight(resolved, height)
        /\ hd.dagSize = resolved.dagSize
        /\ hd.pow

\* InitGenesis: nothing to do on a datadir that has a tip.
FindTip ==
    /\ run = "init" /\ store.currentTip # ZeroHash
    /\ run' = "mine"
    /\ UNCHANGED <<storeVars, callVars, timeVars>>

SealGenesis ==
    /\ run = "init" /\ store.currentTip = ZeroHash
    /\ \E h \in Hash :
         /\ Sealed(Header[h], 0, ZeroHash, bootTime)
         /\ arg' = [arg EXCEPT ![Miner] = h]
    /\ run' = "storeGenesis"
    /\ UNCHANGED <<storeVars, pc, work, timeVars>>

\* The genesis block is stored as sealed, without ValidateBlock.
StoreGenesis(ok) ==
    /\ run = "storeGenesis"
    /\ StoreBlock(arg[Miner], CalcBlockWork(Header[arg[Miner]].target), ok)
    /\ run' = IF ok THEN "tipGenesis" ELSE "exited"
    /\ UNCHANGED <<callVars, timeVars>>

TipGenesis(ok) ==
    /\ run = "tipGenesis"
    /\ SetCurrentTip(arg[Miner], ok)
    /\ run' = IF ok THEN "mine" ELSE "exited"
    /\ UNCHANGED <<callVars, timeVars>>

LaterOf(a, b) == IF a > b THEN a ELSE b

\* Mutant of MiningTime: the timestamp is the clock's, whatever the parent's.
MiningTimeClock(parent) == now

\* The timestamp of a block mined on this parent.
MiningTime(parent) == LaterOf(now, Header[parent].timestamp + 1)

\* mineNextBlock on the tip of this moment, and the call of InsertBlock.  How
\* long sealing takes shows in the steps of others before Validate.
Mine ==
    /\ run = "mine"
    /\ Header[store.currentTip].height < MaxHeight
    /\ \E h \in Hash :
         /\ Sealed(Header[h], Header[store.currentTip].height + 1,
                   store.currentTip, MiningTime(store.currentTip))
         /\ Call(Miner, h)
    /\ run' = "insert"
    /\ UNCHANGED <<clock, wake, bootTime>>

\* No nonce of the range meets the target.
SealFails ==
    /\ SealMayFail
    /\ run \in {"mine", "init"}
    /\ run' = "exited"
    /\ UNCHANGED <<storeVars, callVars, timeVars>>

\* Mutant of Inserted: the next block is begun without a delay.
InsertedGoOn ==
    /\ run = "insert" /\ pc[Miner] \in Results
    /\ run' = IF pc[Miner] = "error" THEN "exited" ELSE "mine"
    /\ UNCHANGED <<storeVars, callVars, timeVars>>

\* InsertBlock is back: an error ends Run, anything else starts the timer.
Inserted ==
    /\ run = "insert" /\ pc[Miner] \in Results
    /\ IF pc[Miner] = "error"
       THEN run' = "exited" /\ UNCHANGED wake
       ELSE run' = "wait" /\ wake' = clock + BlockTicks
    /\ UNCHANGED <<storeVars, callVars, now, clock, bootTime>>

TimerFires ==
    /\ run = "wait" /\ clock >= wake
    /\ run' = "mine"
    /\ UNCHANGED <<storeVars, callVars, timeVars>>

\* onNewBlock: a known block is dropped, any other is passed to InsertBlock.
onNewBlock(p, h) ==
    /\ run \in Started
    /\ ~HasBlock(store, h)
    /\ Call(p, h)
    /\ UNCHANGED <<run, clock, wake, bootTime>>

\* A call of InsertBlock goes on, in any goroutine of the live process.
Inserting(p) ==
    /\ run \in Started
    /\ Continue(p)
    /\ UNCHANGED <<run, clock, wake, bootTime>>

\* Mutant of ClockTick: the ticks are taken for seconds.
ClockTickOfSeconds ==
    /\ now < MaxTime
    /\ clock < wake + MaxDelay
    /\ clock' = clock + 1
    /\ now' = clock'
    /\ UNCHANGED <<storeVars, callVars, run, wake, bootTime>>

\* Two bounds on the clock: MaxTime, and MaxDelay, which is how long sealing,
\* inserting and waiting for a processor may take between two sleeps.
ClockTick ==
    /\ now < MaxTime
    /\ clock < wake + MaxDelay
    /\ clock' = clock + 1
    /\ now' = clock' \div TicksPerSecond
    /\ UNCHANGED <<storeVars, callVars, run, wake, bootTime>>

\* The process is killed, or has exited, and is started again.
Restart ==
    /\ MayCrash
    /\ Load
    /\ pc' = [p \in Caller |-> "idle"]
    /\ arg' = [p \in Caller |-> ZeroHash]
    /\ work' = [p \in Caller |-> 0]
    /\ run' = "init" /\ wake' = clock /\ bootTime' = now
    /\ UNCHANGED <<now, clock>>

MinerStep ==
    \/ FindTip
    \/ SealGenesis
    \/ \E ok \in FlushResults : StoreGenesis(ok) \/ TipGenesis(ok)
    \/ Mine
    \/ Inserting(Miner)
    \/ Inserted
    \/ TimerFires

PeerStep(p) == Inserting(p) \/ \E h \in Hash : onNewBlock(p, h)

NodeNext ==
    \/ MinerStep
    \/ SealFails
    \/ \E p \in Peer : PeerStep(p)
    \/ ClockTick
    \/ Restart

NodeSpec == NodeInit /\ [][NodeNext]_nodeVars

\* The Go scheduler runs every runnable goroutine, and time goes on.
FairNodeSpec == NodeSpec /\ WF_nodeVars(MinerStep) /\ WF_nodeVars(ClockTick)

-----------------------------------------------------------------------------
NodeTypeOK ==
    /\ TypeOK
    /\ run \in {"init", "storeGenesis", "tipGenesis", "exited"} \cup Started
    /\ clock \in Nat /\ wake \in Nat /\ bootTime \in Nat
    /\ now = clock \div TicksPerSecond

\* However long sealing takes and whatever peers insert meanwhile, a block
\* the node mined itself is valid against its store; the only rule it can
\* break is the one about the clock.
MinedBlockValid ==
    run = "insert" =>
      LET hd == Header[arg[Miner]]
      IN  /\ ValidAlone(hd)
          /\ ValidParent(store, hd)

\* A node that mines alone stays within a second of the clock.
ChainKeepsTime ==
    store.currentTip # ZeroHash =>
      Header[store.currentTip].timestamp <= now + 1

\* Mining goes on: no block the node mined ends Node.Run.
MiningGoesOn == run # "exited"

\* A node that mines alone reaches every height.
ChainGrows ==
    \A n \in 0..MaxHeight :
      <>(store.currentTip # ZeroHash /\ Header[store.currentTip].height >= n)
=============================================================================
