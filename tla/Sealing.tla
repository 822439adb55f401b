------------------------------ MODULE Sealing -------------------------------
(***************************************************************************)
(* A process around its DAGs: cmd/colossusd's main, Validator.SealBlock    *)
(* and validatePoW with the DAG cache they share; and colossusx, the       *)
(* standalone miner, with its only DAG.                                    *)
(*                                                                         *)
(* The goroutine of Node.Run seals a block with the mining backend and     *)
(* then has it validated; connection handlers validate the blocks of       *)
(* peers.  Each asks the cache for the DAG of its header's epoch; the      *)
(* first to ask generates it while it holds the validator's mutex, hence   *)
(* in one step.  Prepare and every hash come later, without the mutex.     *)
(*                                                                         *)
(* What a hash is compared with is not modelled: a sealed block passes     *)
(* validation when both sides computed the same hash, and perhaps also     *)
(* when they did not.                                                      *)
(***************************************************************************)
EXTENDS Backend

CONSTANTS
    Handlers,       \* the connection handlers
    Miner,          \* the goroutine of Node.Run
    NodeCount,      \* the number of nodes of each epoch's DAG
    WorkerCounts,   \* the values of -workers
    MaxDAGs         \* bound: how many DAGs are ever made

Epoch == DOMAIN NodeCount
Goroutine == Handlers \cup {Miner}

ASSUME SealingAssumption ==
    /\ Miner \notin Handlers
    /\ NodeCount \in [Epoch -> Nat \ {0}] /\ 0 \in Epoch
    /\ WorkerCounts \subseteq Nat \ {0}
    /\ MaxDAGs \in Nat

VARIABLES
    config,         \* the flags and the machine
    stage,          \* how far main has come
    strategy,       \* the validator's mining allocator
    dags,           \* every DAG there has been, in the order they were made
    shared,         \* v.sharedDAGs: the index of a DAG by epoch
    fallback,       \* v.fallbackValidationDAGs, likewise
    prepared,       \* the DAG the mining backend was prepared for, 0: none
    hasTip,         \* the data directory has a chain
    pc,             \* where each goroutine is
    epoch,          \* the epoch of the header it works on
    using,          \* the DAG it got from the cache, 0: none
    sealed          \* the hash of the block the miner has sealed, if any

vars == <<config, stage, strategy, dags, shared, fallback, prepared, hasTip,
          pc, epoch, using, sealed>>
mainVars == <<config, stage, strategy, hasTip>>
dagVars == <<dags, shared, fallback>>
goVars == <<pc, epoch, using>>

-----------------------------------------------------------------------------
Init ==
    /\ config \in Config(WorkerCounts)
    /\ stage = "flags"
    /\ strategy = <<>>
    /\ dags = <<>> /\ shared = <<>> /\ fallback = <<>>
    /\ prepared = 0
    /\ hasTip \in {h \in BOOLEAN : h => config.program = "colossusd"}
    /\ pc = [g \in Goroutine |-> "idle"]
    /\ epoch = [g \in Goroutine |-> 0]
    /\ using = [g \in Goroutine |-> 0]
    /\ sealed = NoHash

\* log.Fatal, or a panic: no deferred call is run.
Die == stage' = "dead"

ParseFlags ==
    /\ stage = "flags"
    /\ IF ValidateStrictProductionConfig(config) THEN stage' = "runtime" ELSE Die
    /\ UNCHANGED <<config, strategy, hasTip, dagVars, prepared, goVars, sealed>>

\* The DAGs after those in these caches have been closed.
Closed(caches) ==
    [i \in 1..Len(dags) |->
       [dags[i] EXCEPT !.open = @ /\ \A cache \in caches :
                                      \A e \in DOMAIN cache : cache[e] # i]]

\* The DAGs another allocator has made for mining are given up.
SetMiningBackend(allocator) ==
    /\ strategy' = allocator
    /\ dags' = Closed({shared})
    /\ shared' = <<>>
    /\ UNCHANGED fallback

\* initializeMining, and what main does with the outcome; colossusx has no
\* validator and no DAG yet.
InitializeMining ==
    /\ stage = "runtime"
    /\ IF InitializeBackendRuntime(config) /\ ResolveDAGStrategyForMode(config) # <<>>
       THEN stage' = "running" /\ SetMiningBackend(ResolveDAGStrategyForMode(config))
       ELSE Die /\ UNCHANGED <<strategy, dagVars>>
    /\ UNCHANGED <<config, hasTip, prepared, goVars, sealed>>

-----------------------------------------------------------------------------
IsOpen(id) == dags[id].open

With(cache, e, id) == [k \in DOMAIN cache \cup {e} |-> IF k = e THEN id ELSE cache[k]]

NewDAG(e, alloc) ==
    [epoch |-> e, alloc |-> alloc, open |-> TRUE,
     nodes |-> PopulateDAG(config, NodeCount[e])]

\* Whether validation reads the DAGs made for mining.
ValidatesShared == canValidationReuseMiningDAG(config, strategy)

\* Mutant of Remember: a new DAG replaces that of the last epoch, which is
\* closed.
RememberLast(cache, e, dag) ==
    /\ dags' = Append([i \in 1..Len(dags) |-> [dags[i] EXCEPT !.open = FALSE]], dag)
    /\ shared' = IF cache = "shared" THEN [k \in {e} |-> Len(dags) + 1] ELSE shared
    /\ fallback' = IF cache = "shared" THEN fallback ELSE [k \in {e} |-> Len(dags) + 1]

\* A new DAG goes into a cache; none is ever taken out.
Remember(cache, e, dag) ==
    /\ dags' = Append(dags, dag)
    /\ shared' = IF cache = "shared" THEN With(shared, e, Len(dags) + 1) ELSE shared
    /\ fallback' = IF cache = "shared" THEN fallback ELSE With(fallback, e, Len(dags) + 1)

\* cachedDAGForHeader: the cached DAG of the epoch, or a new one.
CachedDAG(g, cache, next) ==
    LET known == IF cache = "shared" THEN shared ELSE fallback
        e == epoch[g]
    IN  IF e \in DOMAIN known
        THEN /\ using' = [using EXCEPT ![g] = known[e]]
             /\ pc' = [pc EXCEPT ![g] = next]
             /\ UNCHANGED <<dagVars, stage>>
        ELSE \E full \in BOOLEAN :
               LET tries == IF cache = "shared" THEN strategy ELSE <<"go-heap">>
                   took == Alloc(config, tries, full)
               IN  IF took = {}
                   THEN \* the error ends Run, while a handler drops the block
                        /\ IF g = Miner THEN Die ELSE UNCHANGED stage
                        /\ pc' = [pc EXCEPT ![g] = "idle"]
                        /\ UNCHANGED <<dagVars, using>>
                   ELSE /\ Len(dags) < MaxDAGs
                        /\ \E a \in took : Remember(cache, e, NewDAG(e, a))
                        /\ using' = [using EXCEPT ![g] = Len(dags) + 1]
                        /\ pc' = [pc EXCEPT ![g] = next]
                        /\ UNCHANGED stage

Alive == stage \in {"running", "closed"}

\* A header arrives that has passed every check but the proof of work; the
\* server is not started before there is a chain.
Receive(h) ==
    /\ Alive /\ hasTip
    /\ pc[h] = "idle"
    /\ \E e \in Epoch : epoch' = [epoch EXCEPT ![h] = e]
    /\ pc' = [pc EXCEPT ![h] = "validationDAG"]
    /\ UNCHANGED <<mainVars, dagVars, prepared, using, sealed>>

\* validationDAGForHeader, in a handler or in the miner's InsertBlock.
ValidationDAG(g) ==
    /\ Alive /\ pc[g] = "validationDAG"
    /\ CachedDAG(g, IF ValidatesShared THEN "shared" ELSE "fallback", "validate")
    /\ UNCHANGED <<config, strategy, hasTip, prepared, epoch, sealed>>

\* The rest of validatePoW.  Reading a DAG that has been closed panics.  When
\* its own block is rejected, Run ends; another hash than that of the miner may
\* meet the target by chance.
Judge(g) ==
    /\ Alive /\ pc[g] = "validate"
    /\ pc' = [pc EXCEPT ![g] = "idle"]
    /\ \/ /\ \/ ~IsOpen(using[g])
             \/ g = Miner /\ sealed # ValidationHash(config, dags[using[g]])
          /\ Die
       \/ IsOpen(using[g]) /\ UNCHANGED stage
    /\ sealed' = IF g = Miner THEN NoHash ELSE sealed
    /\ using' = [using EXCEPT ![g] = 0]
    /\ UNCHANGED <<config, strategy, hasTip, dagVars, prepared, epoch>>

-----------------------------------------------------------------------------
\* SealBlock, for the genesis block of epoch 0, or on a tip in any epoch.
Seal ==
    /\ stage = "running" /\ config.program = "colossusd" /\ pc[Miner] = "idle"
    /\ \E e \in Epoch :
         /\ hasTip \/ e = 0
         /\ epoch' = [epoch EXCEPT ![Miner] = e]
    /\ pc' = [pc EXCEPT ![Miner] = "miningDAG"]
    /\ UNCHANGED <<mainVars, dagVars, prepared, using, sealed>>

\* sharedMiningDAGForHeader.
MiningDAG ==
    /\ stage = "running" /\ pc[Miner] = "miningDAG"
    /\ CachedDAG(Miner, "shared", "prepare")
    /\ UNCHANGED <<config, strategy, hasTip, prepared, epoch, sealed>>

\* Mutant of Prepare: a backend that has been prepared is left as it is.
PrepareOnce(ok) ==
    /\ stage = "running" /\ pc[Miner] = "prepare"
    /\ prepared' = IF prepared = 0 THEN using[Miner] ELSE prepared
    /\ pc' = [pc EXCEPT ![Miner] = "mine"]
    /\ UNCHANGED <<mainVars, dagVars, epoch, using, sealed>>

\* Prepare, with an OpenCL compiler that may fail.
Prepare(ok) ==
    /\ stage = "running" /\ pc[Miner] = "prepare"
    /\ ok \/ IsGPU(config)
    /\ IF ok /\ PrepareAccepts(config, dags[using[Miner]].alloc)
       THEN /\ prepared' = using[Miner]
            /\ pc' = [pc EXCEPT ![Miner] = "mine"]
            /\ UNCHANGED stage
       ELSE Die /\ UNCHANGED <<prepared, pc>>
    /\ UNCHANGED <<config, strategy, hasTip, dagVars, epoch, using, sealed>>

\* Mine finds a nonce.
Mine(failure) ==
    /\ stage = "running" /\ pc[Miner] = "mine"
    /\ sealed' \in MiningHashes(config, dags[prepared], dags[using[Miner]], failure)
    /\ pc' = [pc EXCEPT ![Miner] = "sealed"]
    /\ UNCHANGED <<mainVars, dagVars, prepared, epoch, using>>

\* The first block of a chain is stored without validation.
Genesis ==
    /\ stage = "running" /\ config.program = "colossusd"
    /\ pc[Miner] = "sealed" /\ ~hasTip
    /\ hasTip' = TRUE
    /\ pc' = [pc EXCEPT ![Miner] = "idle"]
    /\ sealed' = NoHash
    /\ using' = [using EXCEPT ![Miner] = 0]
    /\ UNCHANGED <<config, stage, strategy, dagVars, prepared, epoch>>

Insert ==
    /\ stage = "running" /\ pc[Miner] = "sealed" /\ hasTip
    /\ pc' = [pc EXCEPT ![Miner] = "validationDAG"]
    /\ UNCHANGED <<mainVars, dagVars, prepared, epoch, using, sealed>>

\* Mutant of Shutdown: the closed DAGs stay in the cache.
ShutdownKeepsEntries ==
    /\ stage = "running" /\ pc[Miner] = "idle" /\ hasTip
    /\ stage' = "closed"
    /\ dags' = Closed({shared, fallback})
    /\ UNCHANGED <<config, strategy, hasTip, shared, fallback, prepared, goVars, sealed>>

\* A signal ends Run before it mines another block, and main's deferred
\* Validator.Close closes every cached DAG, whoever uses it.
Shutdown ==
    /\ stage = "running" /\ pc[Miner] = "idle" /\ hasTip
    /\ stage' = "closed"
    /\ dags' = Closed({shared, fallback})
    /\ shared' = <<>> /\ fallback' = <<>>
    /\ UNCHANGED <<config, strategy, hasTip, prepared, goVars, sealed>>

\* main returns.
Exit ==
    /\ stage = "closed"
    /\ Die
    /\ UNCHANGED <<config, strategy, hasTip, dagVars, prepared, goVars, sealed>>

\* colossusx makes its DAG and populates it.  It stands in the cache here,
\* which colossusx does not have.
RunDAG ==
    /\ stage = "running" /\ config.program = "colossusx" /\ pc[Miner] = "idle"
    /\ CachedDAG(Miner, "shared", "prepare")
    /\ UNCHANGED <<config, strategy, hasTip, prepared, epoch, sealed>>

\* colossusx is done, after a benchmark, with a nonce or without: the deferred
\* call closes its DAG.
RunReturns ==
    /\ stage = "running" /\ config.program = "colossusx"
    /\ pc[Miner] \in {"mine", "sealed"}
    /\ stage' = "closed"
    /\ dags' = Closed({shared}) /\ shared' = <<>>
    /\ pc' = [pc EXCEPT ![Miner] = "idle"]
    /\ UNCHANGED <<config, strategy, hasTip, fallback, prepared, epoch, using, sealed>>

SealStep ==
    \/ Seal
    \/ MiningDAG
    \/ \E ok \in BOOLEAN : Prepare(ok)
    \/ \E failure \in Failure : Mine(failure)
    \/ Genesis
    \/ Insert

Next ==
    \/ ParseFlags
    \/ InitializeMining
    \/ SealStep
    \/ \E h \in Handlers : Receive(h)
    \/ \E g \in Goroutine : ValidationDAG(g) \/ Judge(g)
    \/ RunDAG
    \/ RunReturns
    \/ Shutdown
    \/ Exit

Spec == Init /\ [][Next]_vars

-----------------------------------------------------------------------------
DAG == [epoch : Epoch, alloc : Allocators, open : BOOLEAN, nodes : SUBSET Nat]

\* What a cache promises to those who find a DAG in it.
CacheOK(cache) ==
    /\ cache \in UNION {[S -> 1..Len(dags)] : S \in SUBSET Epoch}
    /\ \A e \in DOMAIN cache : dags[cache[e]].epoch = e /\ IsOpen(cache[e])

SealingTypeOK ==
    /\ config \in Config(WorkerCounts)
    /\ stage \in {"flags", "runtime", "running", "closed", "dead"}
    /\ strategy \in Seq(Allocators)
    /\ dags \in Seq(DAG)
    /\ CacheOK(shared) /\ CacheOK(fallback)
    /\ prepared \in 0..Len(dags)
    /\ hasTip \in BOOLEAN
    /\ pc \in [Goroutine -> {"idle", "miningDAG", "prepare", "mine", "sealed",
                             "validationDAG", "validate"}]
    /\ epoch \in [Goroutine -> Epoch]
    /\ using \in [Goroutine -> 0..Len(dags)]
    /\ sealed \in [algorithm : {"lattice", "strict-v2", "none", "stray"},
                   epoch : Epoch, nodes : SUBSET Nat]

\* The goroutines that are about to read, or are reading, their DAG.
Reading == {g \in Goroutine : pc[g] \in {"prepare", "mine", "validate"}}

\* The hash by which the network judges a block of epoch e.
Reference(e) ==
    [algorithm |-> IF config.mode = "strict" THEN "strict-v2" ELSE "lattice",
     epoch |-> e, nodes |-> 0..(NodeCount[e] - 1)]

\* The backend has computed the hash of the nonce it was asked for.
Computed == sealed \notin {NoHash, StrayHash}

\* A sealed block is valid for every node when the backend computes the
\* algorithm of its chain (metal that of strict chains, the others that of
\* research chains), and never when it does not, across the borders of epochs,
\* whichever allocator holds the DAG and whoever made it; unless the hash is
\* not one the backend has computed.  That takes an OpenCL backend, on a device
\* with SVM or in strict mode, and several workers to mix up their nonces.
SealedBlockValid ==
    stage = "running" /\ pc[Miner] = "sealed" =>
      /\ Computed => (sealed = Reference(epoch[Miner]) <=>
                        (config.mode = "strict" <=> config.backend = "metal"))
      /\ ~Computed => IsGPU(config) /\ (SupportsSVM(config) \/ config.mode = "strict")
      /\ sealed = StrayHash => config.workers > 1

\* Whoever hashes, for mining or for validation, reads a DAG of the epoch of
\* its header, every node of which has been written, however the nodes were
\* divided among the workers.
ReadsWholeDAG ==
    \A g \in Reading :
      /\ dags[using[g]].epoch = epoch[g]
      /\ dags[using[g]].nodes = 0..(NodeCount[epoch[g]] - 1)

\* Until the process is shut down, no DAG is closed under a goroutine that has
\* got it from the cache and reads it without the mutex.
InUseOpen == stage = "running" => \A g \in Reading : IsOpen(using[g])

\* Miner and validation share one DAG per epoch, never two of gigabytes each.
OneDAGPerEpoch ==
    \A i, j \in 1..Len(dags) :
      IsOpen(i) /\ IsOpen(j) /\ dags[i].epoch = dags[j].epoch => i = j

\* In strict mode no DAG ever lies in ordinary host memory, whatever the
\* flags, the machine and its free memory.
StrictUsesDeviceMemory ==
    config.mode = "strict" =>
      \A i \in 1..Len(dags) : dags[i].alloc \in DeviceAllocators

-----------------------------------------------------------------------------
\* A DAG as its users know it.
Entry(i) == [id |-> i, epoch |-> dags[i].epoch, nodes |-> dags[i].nodes]

InMemory == {Entry(i) : i \in {j \in 1..Len(dags) : IsOpen(j)}}
Holding == [g \in Goroutine |-> IF g \in Reading THEN {Entry(using[g])} ELSE {}]
WholeDAG == [e \in Epoch |-> 0..(NodeCount[e] - 1)]
Phase ==
    CASE stage = "closed" -> "closing"
      [] stage = "dead" -> "ended"
      [] OTHER -> "up"

Table == INSTANCE DAGTable WITH
    User <- Goroutine, Content <- WholeDAG,
    made <- Len(dags), memory <- InMemory, wanted <- epoch, held <- Holding,
    phase <- Phase

\* Two caches that are filled by two functions, for three kinds of users, under
\* every allocator, behave as one table with an entry per epoch, from which
\* nothing is ever replaced, or taken away before the process is closed.
ImplementsDAGTable == Table!TableSpec
=============================================================================
