---------------------------- MODULE SealingProofs ----------------------------
(***************************************************************************)
(* Proofs about the DAG cache and the mining backends, for every number of *)
(* connection handlers, of epochs, of nodes and of workers, and for every  *)
(* combination of flags and machine.                                       *)
(***************************************************************************)
EXTENDS Sealing, TLAPS

\* What the strategy promises, which main fixes before anybody asks for a DAG.
StrategyOK ==
    \A i \in 1..Len(strategy) :
      /\ strategy[i] \in DeviceAllocators => strategy[i] \in Live(config)
      /\ config.mode = "strict" => strategy[i] \in DeviceAllocators

\* Every DAG has been written whole, in memory the mode allows; the open ones
\* are those in the shared cache, and validation never needs a cache of its own.
StoreOK ==
    /\ StrategyOK
    /\ fallback = <<>>
    /\ \A i \in 1..Len(dags) :
         /\ dags[i].nodes = 0..(NodeCount[dags[i].epoch] - 1)
         /\ config.mode = "strict" => dags[i].alloc \in DeviceAllocators
         /\ dags[i].open => /\ dags[i].epoch \in DOMAIN shared
                            /\ shared[dags[i].epoch] = i

\* What a goroutine knows of its DAG between the cache and its last hash.
HoldsDAG(g) ==
    g \in Reading =>
      /\ using[g] \in 1..Len(dags)
      /\ dags[using[g]].epoch = epoch[g]
      /\ stage = "running" => dags[using[g]].open

GoroutinesOK ==
    /\ \A g \in Goroutine : HoldsDAG(g)
    /\ stage \in {"flags", "runtime"} => \A g \in Goroutine : pc[g] = "idle"
    /\ pc[Miner] = "mine" => prepared = using[Miner]
    /\ SealedBlockValid

\* The inductive invariant.
DInv == SealingTypeOK /\ StoreOK /\ GoroutinesOK

-----------------------------------------------------------------------------
\* GenerateDAG: the chunks of the workers leave out no node and go beyond
\* none, also when there are fewer nodes than workers.
LEMMA WorkersCoverDAG ==
    ASSUME NEW n \in Nat \ {0}, NEW workers \in Nat \ {0}
    PROVE  GenerateDAG(n, workers) = 0..(n - 1)
<1> DEFINE chunk == IF n < workers THEN 1 ELSE n \div workers
           end(w) == IF w = workers - 1 THEN n ELSE (w + 1) * chunk
<1>1. chunk \in Nat \ {0}
  <2>1. CASE n < workers
    BY <2>1
  <2>2. CASE ~(n < workers)
    <3>1. n \div workers >= 1
      BY <2>2, Z3
    <3> QED BY <2>2, <3>1
  <2> QED BY <2>1, <2>2
<1>2. ASSUME NEW i \in 0..(n - 1)
      PROVE  \E w \in 0..(workers - 1) : w * chunk <= i /\ i < end(w)
  <2> HIDE DEF chunk
  <2>1. CASE i >= (workers - 1) * chunk
    <3>1. workers - 1 \in 0..(workers - 1) /\ end(workers - 1) = n
      OBVIOUS
    <3> QED BY <2>1, <3>1
  <2>2. CASE ~(i >= (workers - 1) * chunk)
    <3> DEFINE q == i \div chunk
    <3>1. q \in Nat /\ q * chunk <= i /\ i < (q + 1) * chunk
      BY <1>1, Z3
    <3> HIDE DEF q
    <3>2. q < workers - 1
      <4>1. q * chunk < (workers - 1) * chunk
        BY <1>1, <2>2, <3>1
      <4> QED BY <1>1, <3>1, <4>1
    <3>3. q \in 0..(workers - 1) /\ end(q) = (q + 1) * chunk
      BY <3>1, <3>2
    <3> QED BY <3>1, <3>3
  <2> QED BY <2>1, <2>2
<1>3. GenerateDAG(n, workers) =
        UNION {{i \in 0..(n - 1) : w * chunk <= i /\ i < end(w)} :
                 w \in 0..(workers - 1)}
  BY DEF GenerateDAG
<1> HIDE DEF chunk, end
<1> QED BY <1>2, <1>3

-----------------------------------------------------------------------------
\* PopulateDAG writes the whole DAG, in either mode.
LEMMA PopulatesWhole ==
    ASSUME config \in Config(WorkerCounts), NEW e \in Epoch
    PROVE  PopulateDAG(config, NodeCount[e]) = 0..(NodeCount[e] - 1)
<1>1. NodeCount[e] \in Nat \ {0}
  BY SealingAssumption DEF Epoch
<1>2. config.workers \in Nat \ {0}
  BY SealingAssumption DEF Config
<1> QED BY <1>1, <1>2, WorkersCoverDAG DEF PopulateDAG, GenerateTensorDAG

\* Every allocator of a strategy is one that is live, or ordinary memory that
\* strict mode does not accept.
LEMMA StrategyResolved ==
    ASSUME NEW c \in Config(WorkerCounts)
    PROVE  /\ ResolveDAGStrategyForMode(c) \in Seq(Allocators)
           /\ \A i \in 1..Len(ResolveDAGStrategyForMode(c)) :
                LET a == ResolveDAGStrategyForMode(c)[i]
                IN  /\ a \in DeviceAllocators => a \in Live(c)
                    /\ c.mode = "strict" => a \in DeviceAllocators
<1> DEFINE Plain == {"go-heap", "pinned-host"}
<1>1. Live(c) \subseteq DeviceAllocators /\ DeviceAllocators \subseteq Allocators
  BY DEF Live, DeviceAllocators, Allocators
<1>2. ASSUME NEW a, NEW known
      PROVE  Named(a, known) \in Seq(known)
  BY DEF Named
<1>3. autoStrictStrategies(c) \in Seq(Live(c))
  BY <1>2 DEF autoStrictStrategies
<1>4. autoResearchStrategies(c) \in Seq(Live(c) \cup Plain)
  BY <1>3 DEF autoResearchStrategies
<1>5. c.mode \in {"strict", "research"}
  BY DEF Config
<1>6. CASE c.mode = "strict"
  <2>1. ResolveDAGStrategyForMode(c) \in Seq(Live(c))
    BY <1>2, <1>3, <1>6 DEF ResolveDAGStrategyForMode
  <2> QED BY <1>1, <2>1
<1>7. CASE c.mode = "research"
  <2>1. ResolveDAGStrategyForMode(c) \in Seq(Live(c) \cup Plain)
    <3>1. CASE c.dagAlloc = "auto"
      BY <1>4, <1>7, <3>1 DEF ResolveDAGStrategyForMode
    <3>2. CASE c.dagAlloc # "auto"
      <4>1. ResolveDAGStrategyForMode(c)
              = Named(c.dagAlloc, Plain \cup (Live(c) \ {"metal-shared"}))
        BY <1>7, <3>2 DEF ResolveDAGStrategyForMode
      <4>2. Named(c.dagAlloc, Plain \cup (Live(c) \ {"metal-shared"}))
              \in Seq(Plain \cup (Live(c) \ {"metal-shared"}))
        BY <1>2
      <4> QED BY <4>1, <4>2
    <3> QED BY <3>1, <3>2
  <2>2. ASSUME NEW i \in 1..Len(ResolveDAGStrategyForMode(c))
        PROVE  ResolveDAGStrategyForMode(c)[i] \in Live(c) \cup Plain
    BY <2>1
  <2> QED BY <1>1, <1>7, <2>1, <2>2 DEF Allocators, DeviceAllocators
<1> QED BY <1>5, <1>6, <1>7

-----------------------------------------------------------------------------
LEMMA DInit == Init => DInv
<1> SUFFICES ASSUME Init PROVE DInv
  OBVIOUS
<1> USE DEF Init
<1>1. 0 \in Epoch /\ Len(dags) = 0 /\ dags \in Seq(DAG)
  BY SealingAssumption
<1>2. CacheOK(<<>>)
  <2>1. <<>> \in [{} -> 1..Len(dags)] /\ {} \in SUBSET Epoch
    BY <1>1
  <2> QED BY <2>1 DEF CacheOK
<1>3. sealed \in [algorithm : {"lattice", "strict-v2", "none", "stray"},
                  epoch : Epoch, nodes : SUBSET Nat]
  BY <1>1 DEF NoHash
<1>4. SealingTypeOK
  BY <1>1, <1>2, <1>3 DEF SealingTypeOK
<1>5. StoreOK
  BY <1>1 DEF StoreOK, StrategyOK
<1>6. GoroutinesOK
  BY DEF GoroutinesOK, HoldsDAG, Reading, SealedBlockValid, Goroutine
<1> QED BY <1>4, <1>5, <1>6 DEF DInv

\* Most steps leave the caches and the flags alone.
LEMMA StoreUnchanged ==
    ASSUME StoreOK, UNCHANGED <<config, strategy, dagVars>>
    PROVE  StoreOK'
BY DEF StoreOK, StrategyOK, dagVars

LEMMA CacheUnchanged ==
    ASSUME NEW cache, CacheOK(cache), dags' = dags, NEW new, new = cache
    PROVE  CacheOK(new)'
BY DEF CacheOK, IsOpen

\* Once validation shares the DAGs of mining, it always does.
LEMMA Shares ==
    ASSUME StoreOK
    PROVE  ValidatesShared
BY DEF StoreOK, StrategyOK, ValidatesShared, canValidationReuseMiningDAG

-----------------------------------------------------------------------------
\* The cache hands out an open DAG of the epoch, or makes one.
LEMMA CachedDAGStep ==
    ASSUME DInv, Alive, NEW g \in Goroutine, NEW next \in {"prepare", "validate"},
           CachedDAG(g, "shared", next),
           UNCHANGED <<config, strategy, hasTip, prepared, epoch, sealed>>
    PROVE  DInv'
<1> DEFINE e == epoch[g]
           new == Len(dags) + 1
<1>0. e \in Epoch /\ SealingTypeOK /\ StoreOK /\ GoroutinesOK
  BY DEF DInv, SealingTypeOK
<1>1. CASE e \in DOMAIN shared
  <2>1. /\ using' = [using EXCEPT ![g] = shared[e]]
        /\ pc' = [pc EXCEPT ![g] = next]
        /\ UNCHANGED <<dagVars, stage>>
    BY <1>1 DEF CachedDAG
  <2>2. shared[e] \in 1..Len(dags) /\ dags[shared[e]].epoch = e /\ dags[shared[e]].open
    BY <1>0, <1>1 DEF SealingTypeOK, CacheOK, IsOpen
  <2>3. SealingTypeOK'
    <3>1. CacheOK(shared)' /\ CacheOK(fallback)'
      BY <1>0, <2>1, CacheUnchanged DEF SealingTypeOK, dagVars
    <3>2. using' \in [Goroutine -> 0..Len(dags)']
      BY <1>0, <2>1, <2>2 DEF SealingTypeOK, dagVars
    <3> QED BY <1>0, <2>1, <3>1, <3>2 DEF SealingTypeOK, dagVars
  <2>4. StoreOK'
    BY <1>0, <2>1, StoreUnchanged
  <2>5. ASSUME NEW h \in Goroutine PROVE HoldsDAG(h)'
    BY <1>0, <2>1, <2>2 DEF GoroutinesOK, HoldsDAG, Reading, SealingTypeOK, dagVars
  <2>6. GoroutinesOK'
    BY <1>0, <2>1, <2>5
       DEF GoroutinesOK, SealingTypeOK, SealedBlockValid, Computed, Reference, Alive, Goroutine
  <2> QED BY <2>3, <2>4, <2>6 DEF DInv
<1>2. CASE e \notin DOMAIN shared
  <2>1. PICK full \in BOOLEAN :
          IF Alloc(config, strategy, full) = {}
          THEN /\ IF g = Miner THEN Die ELSE UNCHANGED stage
               /\ pc' = [pc EXCEPT ![g] = "idle"]
               /\ UNCHANGED <<dagVars, using>>
          ELSE /\ \E a \in Alloc(config, strategy, full) :
                    Remember("shared", e, NewDAG(e, a))
               /\ using' = [using EXCEPT ![g] = new]
               /\ pc' = [pc EXCEPT ![g] = next]
               /\ UNCHANGED stage
    BY <1>2 DEF CachedDAG
  <2>2. CASE Alloc(config, strategy, full) = {}
    <3>1. /\ stage' \in {stage, "dead"}
          /\ pc' = [pc EXCEPT ![g] = "idle"]
          /\ UNCHANGED <<dagVars, using>>
      BY <2>1, <2>2 DEF Die
    <3>2. CacheOK(shared)' /\ CacheOK(fallback)'
      BY <1>0, <3>1, CacheUnchanged DEF SealingTypeOK, dagVars
    <3>3. SealingTypeOK'
      BY <1>0, <3>1, <3>2 DEF SealingTypeOK, dagVars
    <3>4. StoreOK'
      BY <1>0, <3>1, StoreUnchanged
    <3>5. ASSUME NEW h \in Goroutine PROVE HoldsDAG(h)'
      BY <1>0, <3>1 DEF GoroutinesOK, HoldsDAG, Reading, SealingTypeOK, dagVars
    <3>6. GoroutinesOK'
      BY <1>0, <3>1, <3>5
         DEF GoroutinesOK, SealingTypeOK, SealedBlockValid, Computed, Reference, Alive, Goroutine
    <3> QED BY <3>3, <3>4, <3>6 DEF DInv
  <2>3. CASE Alloc(config, strategy, full) # {}
    <3>1. PICK a \in Alloc(config, strategy, full) :
            Remember("shared", e, NewDAG(e, a))
      BY <2>1, <2>3
    <3>2. PICK n \in 1..Len(strategy) : a = strategy[n]
      BY <3>1 DEF Alloc
    <3>3. a \in Allocators /\ (config.mode = "strict" => a \in DeviceAllocators)
      <4>1. strategy \in Seq(Allocators) /\ StrategyOK
        BY <1>0 DEF SealingTypeOK, StoreOK
      <4>2. strategy[n] \in Allocators
        BY <4>1
      <4>3. config.mode = "strict" => strategy[n] \in DeviceAllocators
        BY <4>1 DEF StrategyOK
      <4> QED BY <3>2, <4>2, <4>3
    <3>4. /\ dags' = Append(dags, NewDAG(e, a))
          /\ shared' = With(shared, e, new)
          /\ fallback' = fallback
          /\ using' = [using EXCEPT ![g] = new]
          /\ pc' = [pc EXCEPT ![g] = next]
          /\ stage' = stage
      BY <2>1, <2>3, <3>1 DEF Remember
    <3>5. /\ NewDAG(e, a) \in DAG /\ NewDAG(e, a).epoch = e
          /\ NewDAG(e, a).alloc = a /\ NewDAG(e, a).open = TRUE
          /\ NewDAG(e, a).nodes = 0..(NodeCount[e] - 1)
      <4>1. PopulateDAG(config, NodeCount[e]) = 0..(NodeCount[e] - 1)
        BY <1>0, PopulatesWhole DEF SealingTypeOK
      <4>2. 0..(NodeCount[e] - 1) \in SUBSET Nat
        BY <1>0, SealingAssumption
      <4> QED BY <1>0, <3>3, <4>1, <4>2 DEF NewDAG, DAG
    <3>6. /\ dags \in Seq(DAG) /\ dags' \in Seq(DAG)
          /\ Len(dags') = new /\ Len(dags) \in Nat
          /\ dags'[new] = NewDAG(e, a)
          /\ \A i \in 1..Len(dags) : dags'[i] = dags[i] /\ i \in 1..Len(dags')
      BY <1>0, <3>4, <3>5 DEF SealingTypeOK
    <3>7. /\ DOMAIN shared' = DOMAIN shared \cup {e} /\ shared'[e] = new
          /\ \A k \in DOMAIN shared : shared'[k] = shared[k]
      BY <1>2, <3>4 DEF With
    <3>8. SealingTypeOK'
      <4>1. CacheOK(shared)'
        <5>1. shared \in [DOMAIN shared -> 1..Len(dags)] /\ DOMAIN shared \in SUBSET Epoch
          BY <1>0 DEF SealingTypeOK, CacheOK
        <5>2. /\ shared' \in [DOMAIN shared \cup {e} -> 1..Len(dags')]
              /\ DOMAIN shared \cup {e} \in SUBSET Epoch
          BY <1>0, <3>4, <3>6, <5>1 DEF With
        <5>3. ASSUME NEW k \in DOMAIN shared'
              PROVE  dags'[shared'[k]].epoch = k /\ dags'[shared'[k]].open
          <6>1. CASE k = e
            BY <3>5, <3>6, <3>7, <6>1
          <6>2. CASE k # e
            <7>1. k \in DOMAIN shared /\ shared'[k] = shared[k] /\ shared[k] \in 1..Len(dags)
              BY <3>7, <5>1, <6>2
            <7>2. dags[shared[k]].epoch = k /\ dags[shared[k]].open
              BY <1>0, <7>1 DEF SealingTypeOK, CacheOK, IsOpen
            <7> QED BY <3>6, <7>1, <7>2
          <6> QED BY <6>1, <6>2
        <5> QED BY <5>2, <5>3 DEF CacheOK, IsOpen
      <4>2. CacheOK(fallback)'
        <5>1. fallback' = <<>>
          BY <1>0, <3>4 DEF StoreOK
        <5>2. <<>> \in [{} -> 1..Len(dags')] /\ {} \in SUBSET Epoch
          BY <3>6
        <5> QED BY <5>1, <5>2 DEF CacheOK
      <4>3. using' \in [Goroutine -> 0..Len(dags')] /\ prepared' \in 0..Len(dags')
        BY <1>0, <3>4, <3>6 DEF SealingTypeOK
      <4>4. pc' \in [Goroutine -> {"idle", "miningDAG", "prepare", "mine", "sealed",
                                   "validationDAG", "validate"}]
        BY <1>0, <3>4 DEF SealingTypeOK
      <4> QED BY <1>0, <3>4, <3>6, <4>1, <4>2, <4>3, <4>4 DEF SealingTypeOK
    <3>9. StoreOK'
      <4>1. StrategyOK'
        BY <1>0 DEF StoreOK, StrategyOK
      <4>2. fallback' = <<>>
        BY <1>0, <3>4 DEF StoreOK
      <4>3. ASSUME NEW i \in 1..Len(dags')
            PROVE  /\ dags'[i].nodes = 0..(NodeCount[dags'[i].epoch] - 1)
                   /\ config.mode = "strict" => dags'[i].alloc \in DeviceAllocators
                   /\ dags'[i].open => /\ dags'[i].epoch \in DOMAIN shared'
                                       /\ shared'[dags'[i].epoch] = i
        <5>1. CASE i = new
          BY <3>3, <3>5, <3>6, <3>7, <5>1
        <5>2. CASE i # new
          <6>1. i \in 1..Len(dags) /\ dags'[i] = dags[i]
            BY <3>6, <5>2
          <6> QED BY <1>0, <3>7, <6>1 DEF StoreOK
        <5> QED BY <5>1, <5>2
      <4> QED BY <4>1, <4>2, <4>3 DEF StoreOK
    <3>10. ASSUME NEW h \in Goroutine PROVE HoldsDAG(h)'
      <4>1. CASE h = g
        BY <1>0, <3>4, <3>5, <3>6, <4>1 DEF HoldsDAG, SealingTypeOK
      <4>2. CASE h # g
        BY <1>0, <3>4, <3>6, <4>2 DEF GoroutinesOK, HoldsDAG, Reading, SealingTypeOK
      <4> QED BY <4>1, <4>2
    <3>11. GoroutinesOK'
      BY <1>0, <3>4, <3>10
         DEF GoroutinesOK, SealingTypeOK, SealedBlockValid, Computed, Reference, Alive, Goroutine
    <3> QED BY <3>8, <3>9, <3>11 DEF DInv
  <2> QED BY <2>2, <2>3
<1> QED BY <1>1, <1>2

-----------------------------------------------------------------------------
Places == {"idle", "miningDAG", "prepare", "mine", "sealed",
           "validationDAG", "validate"}
Stages == {"flags", "runtime", "running", "closed", "dead"}
Hashes == [algorithm : {"lattice", "strict-v2", "none", "stray"}, epoch : Epoch,
           nodes : SUBSET Nat]

\* A step that does not go to the cache.
LEMMA QuietStep ==
    ASSUME DInv, UNCHANGED <<config, strategy, dagVars>>,
           using' \in [Goroutine -> 0..Len(dags)],
           stage' \in Stages, hasTip' \in BOOLEAN, prepared' \in 0..Len(dags),
           pc' \in [Goroutine -> Places], epoch' \in [Goroutine -> Epoch],
           sealed' \in Hashes, GoroutinesOK'
    PROVE  DInv'
<1>1. CacheOK(shared)' /\ CacheOK(fallback)'
  BY CacheUnchanged DEF DInv, SealingTypeOK, dagVars
<1>2. SealingTypeOK'
  BY <1>1 DEF DInv, SealingTypeOK, dagVars, Places, Stages, Hashes
<1> QED BY <1>2, StoreUnchanged DEF DInv

\* main only moves on: it has come further, or is dead.
LEMMA MainStep ==
    ASSUME DInv, stage' \in {stage, "runtime", "closed", "dead"},
           stage' = "runtime" => stage \in {"flags", "runtime"},
           UNCHANGED <<config, strategy, dagVars, hasTip, prepared, goVars, sealed>>
    PROVE  DInv'
<1>1. ASSUME NEW g \in Goroutine PROVE HoldsDAG(g)'
  BY <1>1 DEF DInv, GoroutinesOK, HoldsDAG, Reading, goVars, dagVars
<1>2. GoroutinesOK'
  BY <1>1 DEF DInv, GoroutinesOK, SealedBlockValid, Computed, Reference, goVars
<1> QED BY <1>2, QuietStep DEF DInv, SealingTypeOK, Places, Stages, Hashes, goVars

\* A goroutine goes on to a place where it reads no DAG it did not read before.
LEMMA GoStep ==
    ASSUME DInv, NEW g \in Goroutine, Alive,
           NEW to \in {"idle", "miningDAG", "validationDAG"}, pc' = [pc EXCEPT ![g] = to],
           NEW e \in Epoch, epoch' = [epoch EXCEPT ![g] = e],
           stage' \in {stage, "dead"}, hasTip' \in BOOLEAN,
           using' = using \/ using' = [using EXCEPT ![g] = 0],
           sealed' = sealed \/ (g = Miner /\ sealed' = NoHash),
           UNCHANGED <<config, strategy, dagVars, prepared>>
    PROVE  DInv'
<1>0. SealingTypeOK /\ GoroutinesOK /\ 0 \in Epoch
  BY SealingAssumption DEF DInv
<1>1. ASSUME NEW h \in Goroutine PROVE HoldsDAG(h)'
  <2>1. CASE h = g
    BY <1>0, <2>1 DEF HoldsDAG, Reading, SealingTypeOK
  <2>2. CASE h # g
    BY <1>0, <2>2 DEF GoroutinesOK, HoldsDAG, Reading, SealingTypeOK, dagVars
  <2> QED BY <2>1, <2>2
<1>2. pc'[Miner] \in {"mine", "sealed"} => /\ pc'[Miner] = pc[Miner]
                                           /\ epoch'[Miner] = epoch[Miner]
                                           /\ using'[Miner] = using[Miner]
                                           /\ sealed' = sealed
  BY <1>0 DEF SealingTypeOK, Goroutine
<1>3. GoroutinesOK'
  BY <1>0, <1>1, <1>2 DEF GoroutinesOK, SealedBlockValid, Computed, Reference, Alive
<1>4. /\ pc' \in [Goroutine -> Places] /\ epoch' \in [Goroutine -> Epoch]
      /\ using' \in [Goroutine -> 0..Len(dags)]
  <2>1. pc' \in [Goroutine -> Places] /\ epoch' \in [Goroutine -> Epoch]
    BY <1>0 DEF SealingTypeOK, Places
  <2>2. using \in [Goroutine -> 0..Len(dags)] /\ 0 \in 0..Len(dags)
    BY <1>0 DEF SealingTypeOK
  <2> QED BY <2>1, <2>2
<1>5. sealed' \in Hashes
  BY <1>0 DEF SealingTypeOK, Hashes, NoHash
<1> QED BY <1>0, <1>3, <1>4, <1>5, QuietStep DEF SealingTypeOK, Stages

\* Closing the DAGs of a cache changes nothing else about them.
LEMMA ClosedDAGs ==
    ASSUME SealingTypeOK, NEW caches, dags' = Closed(caches)
    PROVE  /\ dags' \in Seq(DAG) /\ Len(dags') = Len(dags)
           /\ \A i \in 1..Len(dags) :
                /\ dags'[i].epoch = dags[i].epoch /\ dags'[i].nodes = dags[i].nodes
                /\ dags'[i].alloc = dags[i].alloc
                /\ dags'[i].open =>
                     /\ dags[i].open
                     /\ \A cache \in caches : \A e \in DOMAIN cache : cache[e] # i
<1> DEFINE stays(i) == /\ dags[i].open
                       /\ \A cache \in caches : \A e \in DOMAIN cache : cache[e] # i
<1>1. Len(dags) \in Nat /\ \A i \in 1..Len(dags) : dags[i] \in DAG
  BY DEF SealingTypeOK
<1>2. dags' = [i \in 1..Len(dags) |-> [dags[i] EXCEPT !.open = stays(i)]]
  BY DEF Closed
<1>3. \A i \in 1..Len(dags) : stays(i) \in BOOLEAN
  BY <1>1 DEF DAG
<1> HIDE DEF stays
<1>4. \A i \in 1..Len(dags) :
        /\ dags'[i] \in DAG
        /\ dags'[i].epoch = dags[i].epoch /\ dags'[i].nodes = dags[i].nodes
        /\ dags'[i].alloc = dags[i].alloc
        /\ dags'[i].open = stays(i)
  BY <1>1, <1>2, <1>3 DEF DAG
<1>5. dags' \in Seq(DAG) /\ Len(dags') = Len(dags)
  BY <1>1, <1>2, <1>4
<1>6. ASSUME NEW i \in 1..Len(dags), dags'[i].open PROVE stays(i)
  BY <1>4, <1>6
<1>7. \A i \in 1..Len(dags) :
        dags'[i].open => /\ dags[i].open
                         /\ \A cache \in caches : \A e \in DOMAIN cache : cache[e] # i
  BY <1>6 DEF stays
<1> QED BY <1>4, <1>5, <1>7

\* Closing the shared DAGs closes every DAG there is.
LEMMA ClosedShared ==
    ASSUME SealingTypeOK, StoreOK, NEW caches, shared \in caches, dags' = Closed(caches)
    PROVE  /\ dags' \in Seq(DAG) /\ Len(dags') = Len(dags)
           /\ \A i \in 1..Len(dags) :
                /\ dags'[i].epoch = dags[i].epoch /\ dags'[i].nodes = dags[i].nodes
                /\ dags'[i].alloc = dags[i].alloc /\ ~dags'[i].open
<1>1. ASSUME NEW i \in 1..Len(dags) PROVE ~dags'[i].open
  <2>1. dags'[i].open => dags[i].open /\ \A e \in DOMAIN shared : shared[e] # i
    BY ClosedDAGs
  <2> QED BY <2>1 DEF StoreOK
<1> QED BY <1>1, ClosedDAGs

\* A store without open DAGs and with empty caches.
LEMMA NothingOpen ==
    ASSUME StoreOK, config' = config, StrategyOK', fallback' = <<>>,
           Len(dags') = Len(dags),
           \A i \in 1..Len(dags) :
             /\ dags'[i].epoch = dags[i].epoch /\ dags'[i].nodes = dags[i].nodes
             /\ dags'[i].alloc = dags[i].alloc /\ ~dags'[i].open
    PROVE  StoreOK'
<1>1. ASSUME NEW i \in 1..Len(dags')
      PROVE  /\ dags'[i].nodes = 0..(NodeCount[dags'[i].epoch] - 1)
             /\ config.mode = "strict" => dags'[i].alloc \in DeviceAllocators
             /\ ~dags'[i].open
  BY DEF StoreOK
<1> QED BY <1>1 DEF StoreOK

LEMMA EmptyCacheOK ==
    /\ shared' = <<>> => CacheOK(shared)'
    /\ fallback' = <<>> => CacheOK(fallback)'
<1>1. <<>> \in [{} -> 1..Len(dags')] /\ {} \in SUBSET Epoch
  OBVIOUS
<1>2. ASSUME shared' = <<>> PROVE CacheOK(shared)'
  BY <1>1, <1>2 DEF CacheOK
<1>3. ASSUME fallback' = <<>> PROVE CacheOK(fallback)'
  BY <1>1, <1>3 DEF CacheOK
<1> QED BY <1>2, <1>3

-----------------------------------------------------------------------------
LEMMA InitializeMiningStep ==
    ASSUME DInv, InitializeMining
    PROVE  DInv'
<1> DEFINE resolved == ResolveDAGStrategyForMode(config)
<1>0. SealingTypeOK /\ StoreOK /\ GoroutinesOK
  BY DEF DInv
<1>1. CASE UNCHANGED <<strategy, dagVars>> /\ Die
  BY <1>1, MainStep DEF InitializeMining, Die
<1>2. CASE stage' = "running" /\ SetMiningBackend(resolved)
  <2>1. /\ strategy' = resolved /\ dags' = Closed({shared})
        /\ shared' = <<>> /\ fallback' = fallback
        /\ UNCHANGED <<config, hasTip, prepared, goVars, sealed>>
    BY <1>2 DEF SetMiningBackend, InitializeMining
  <2>2. /\ dags' \in Seq(DAG) /\ Len(dags') = Len(dags)
        /\ \A i \in 1..Len(dags) :
             /\ dags'[i].epoch = dags[i].epoch /\ dags'[i].nodes = dags[i].nodes
             /\ dags'[i].alloc = dags[i].alloc /\ ~dags'[i].open
    BY <1>0, <2>1, ClosedShared
  <2>3. fallback' = <<>>
    BY <1>0, <2>1 DEF StoreOK
  <2>4. CacheOK(shared)' /\ CacheOK(fallback)'
    BY <2>1, <2>3, EmptyCacheOK
  <2>5. /\ strategy' \in Seq(Allocators)
        /\ \A i \in 1..Len(strategy') :
             /\ strategy'[i] \in DeviceAllocators => strategy'[i] \in Live(config)
             /\ config.mode = "strict" => strategy'[i] \in DeviceAllocators
    BY <1>0, <2>1, StrategyResolved DEF SealingTypeOK
  <2>6. SealingTypeOK'
    BY <1>0, <1>2, <2>1, <2>2, <2>4, <2>5 DEF SealingTypeOK, goVars
  <2>7. StoreOK'
    <3>1. StrategyOK'
      BY <2>1, <2>5 DEF StrategyOK
    <3> QED BY <1>0, <2>1, <2>2, <2>3, <3>1, NothingOpen
  <2>8. \A g \in Goroutine : pc'[g] = "idle"
    BY <1>0, <2>1 DEF GoroutinesOK, InitializeMining, goVars
  <2>9. GoroutinesOK'
    BY <1>2, <2>8 DEF GoroutinesOK, HoldsDAG, Reading, SealedBlockValid, Goroutine
  <2> QED BY <2>6, <2>7, <2>9 DEF DInv
<1> QED BY <1>1, <1>2 DEF InitializeMining

LEMMA ShutdownStep ==
    ASSUME DInv, Shutdown
    PROVE  DInv'
<1>0. SealingTypeOK /\ StoreOK /\ GoroutinesOK
  BY DEF DInv
<1>1. /\ stage = "running" /\ stage' = "closed" /\ dags' = Closed({shared, fallback})
      /\ shared' = <<>> /\ fallback' = <<>>
      /\ UNCHANGED <<config, strategy, hasTip, prepared, goVars, sealed>>
  BY DEF Shutdown
<1>2. /\ dags' \in Seq(DAG) /\ Len(dags') = Len(dags)
      /\ \A i \in 1..Len(dags) :
           /\ dags'[i].epoch = dags[i].epoch /\ dags'[i].nodes = dags[i].nodes
           /\ dags'[i].alloc = dags[i].alloc /\ ~dags'[i].open
  BY <1>0, <1>1, ClosedShared
<1>3. StrategyOK'
  BY <1>0, <1>1 DEF StoreOK, StrategyOK
<1>4. CacheOK(shared)' /\ CacheOK(fallback)'
  BY <1>1, EmptyCacheOK
<1>5. SealingTypeOK'
  BY <1>0, <1>1, <1>2, <1>4 DEF SealingTypeOK, goVars
<1>6. StoreOK'
  BY <1>0, <1>1, <1>2, <1>3, NothingOpen
<1>7. ASSUME NEW g \in Goroutine PROVE HoldsDAG(g)'
  BY <1>0, <1>1, <1>2 DEF GoroutinesOK, HoldsDAG, Reading, goVars
<1>8. GoroutinesOK'
  BY <1>0, <1>1, <1>7 DEF GoroutinesOK, SealedBlockValid, goVars
<1> QED BY <1>5, <1>6, <1>8 DEF DInv

LEMMA RunReturnsStep ==
    ASSUME DInv, RunReturns
    PROVE  DInv'
<1>0. SealingTypeOK /\ StoreOK /\ GoroutinesOK /\ Miner \in Goroutine
  BY DEF DInv, Goroutine
<1>1. /\ stage' = "closed" /\ dags' = Closed({shared})
      /\ shared' = <<>> /\ fallback' = <<>>
      /\ pc' = [pc EXCEPT ![Miner] = "idle"]
      /\ UNCHANGED <<config, strategy, hasTip, prepared, epoch, using, sealed>>
  BY <1>0 DEF RunReturns, StoreOK
<1>2. /\ dags' \in Seq(DAG) /\ Len(dags') = Len(dags)
      /\ \A i \in 1..Len(dags) :
           /\ dags'[i].epoch = dags[i].epoch /\ dags'[i].nodes = dags[i].nodes
           /\ dags'[i].alloc = dags[i].alloc /\ ~dags'[i].open
  BY <1>0, <1>1, ClosedShared
<1>3. StrategyOK'
  BY <1>0, <1>1 DEF StoreOK, StrategyOK
<1>4. CacheOK(shared)' /\ CacheOK(fallback)'
  BY <1>1, EmptyCacheOK
<1>5. SealingTypeOK'
  BY <1>0, <1>1, <1>2, <1>4 DEF SealingTypeOK
<1>6. StoreOK'
  BY <1>0, <1>1, <1>2, <1>3, NothingOpen
<1>7. ASSUME NEW g \in Goroutine PROVE HoldsDAG(g)'
  <2>1. g \in Reading' => g \in Reading
    BY <1>0, <1>1 DEF Reading, SealingTypeOK
  <2> QED BY <1>0, <1>1, <1>2, <2>1 DEF GoroutinesOK, HoldsDAG
<1>8. pc'[Miner] = "idle"
  BY <1>0, <1>1 DEF SealingTypeOK
<1>9. GoroutinesOK'
  BY <1>1, <1>7, <1>8 DEF GoroutinesOK, SealedBlockValid
<1> QED BY <1>5, <1>6, <1>9 DEF DInv

\* The backend is given the DAG the miner has got from the cache.
LEMMA PrepareStep ==
    ASSUME DInv, NEW ok \in BOOLEAN, Prepare(ok)
    PROVE  DInv'
<1>0. SealingTypeOK /\ GoroutinesOK /\ Miner \in Goroutine
  BY DEF DInv, Goroutine
<1>1. CASE Die /\ UNCHANGED <<prepared, pc>>
  BY <1>1, MainStep DEF Prepare, Die, goVars
<1>2. CASE prepared' = using[Miner] /\ pc' = [pc EXCEPT ![Miner] = "mine"] /\ UNCHANGED stage
  <2>1. UNCHANGED <<config, strategy, hasTip, dagVars, epoch, using, sealed>>
    BY DEF Prepare
  <2>2. HoldsDAG(Miner) /\ Miner \in Reading
    BY <1>0 DEF GoroutinesOK, Prepare, Reading
  <2>3. ASSUME NEW g \in Goroutine PROVE HoldsDAG(g)'
    <3>1. g \in Reading' => g \in Reading
      BY <1>0, <1>2, <2>2 DEF Reading, SealingTypeOK
    <3> QED BY <1>0, <1>2, <2>1, <3>1 DEF GoroutinesOK, HoldsDAG, dagVars
  <2>4. GoroutinesOK'
    BY <1>0, <1>2, <2>1, <2>3 DEF GoroutinesOK, SealedBlockValid, Prepare, SealingTypeOK
  <2>5. prepared' \in 0..Len(dags)
    BY <1>0, <1>2, <2>2 DEF HoldsDAG, SealingTypeOK
  <2>6. pc' \in [Goroutine -> Places]
    BY <1>0, <1>2 DEF SealingTypeOK, Places
  <2> QED BY <1>0, <1>2, <2>1, <2>4, <2>5, <2>6, QuietStep
          DEF SealingTypeOK, Stages, Hashes
<1> QED BY <1>1, <1>2 DEF Prepare

\* The hash the backend finds is that of the whole DAG of the header's epoch.
LEMMA MineStep ==
    ASSUME DInv, NEW failure \in Failure, Mine(failure)
    PROVE  DInv'
<1> DEFINE dag == dags[using[Miner]]
<1>0. SealingTypeOK /\ StoreOK /\ GoroutinesOK /\ Miner \in Goroutine
  BY DEF DInv, Goroutine
<1>1. /\ stage = "running" /\ pc[Miner] = "mine" /\ prepared = using[Miner]
      /\ pc' = [pc EXCEPT ![Miner] = "sealed"]
      /\ UNCHANGED <<mainVars, dagVars, prepared, epoch, using>>
  BY <1>0 DEF Mine, GoroutinesOK
<1>2. using[Miner] \in 1..Len(dags) /\ dag.epoch = epoch[Miner]
  BY <1>0, <1>1 DEF GoroutinesOK, HoldsDAG, Reading
<1>3. dag.nodes = 0..(NodeCount[epoch[Miner]] - 1) /\ dag \in DAG
  BY <1>0, <1>2 DEF StoreOK, SealingTypeOK
<1>4. /\ dag.epoch \in Epoch /\ dag.nodes \in SUBSET Nat
      /\ 0 \in Epoch /\ config \in Config(WorkerCounts)
  BY <1>0, <1>3, SealingAssumption DEF DAG, SealingTypeOK
<1>5. sealed' \in MiningHashes(config, dag, dag, failure)
  BY <1>1 DEF Mine
<1>6. config.backend \in BackendMode
  BY <1>4 DEF Config
<1>7. /\ {LatticeHash(dag), StrictV2Hash(dag), NoHash, StrayHash} \subseteq Hashes
      /\ LatticeHash(dag) \notin {NoHash, StrayHash}
      /\ StrictV2Hash(dag) \notin {NoHash, StrayHash}
      /\ NoHash # StrayHash
  BY <1>4 DEF LatticeHash, StrictV2Hash, NoHash, StrayHash, Hashes
<1>8. /\ sealed' \in Hashes
      /\ sealed' \notin {NoHash, StrayHash} =>
           (sealed' = Reference(epoch[Miner]) <=>
              (config.mode = "strict" <=> config.backend = "metal"))
      /\ sealed' \in {NoHash, StrayHash} =>
           IsGPU(config) /\ (SupportsSVM(config) \/ config.mode = "strict")
      /\ sealed' = StrayHash => config.workers > 1
  <2>1. CASE IsGPU(config)
    <3>1. sealed' \in Dispatch(config, dag, failure) /\ config.backend # "metal"
      BY <1>5, <2>1 DEF MiningHashes, IsGPU
    <3>2. CASE SupportsSVM(config) /\ failure = "none"
      <4>1. Dispatch(config, dag, failure) = HashBatchOpenCL(config, dag)
        BY <3>2 DEF Dispatch
      <4>2. \/ sealed' = LatticeHash(dag)
            \/ sealed' = StrayHash /\ config.workers > 1
        BY <3>1, <4>1 DEF HashBatchOpenCL
      <4> QED BY <1>2, <1>3, <1>7, <2>1, <3>1, <3>2, <4>2 DEF Reference, LatticeHash
    <3>3. CASE SupportsSVM(config) /\ failure = "argument"
      <4>1. sealed' = NoHash
        BY <3>1, <3>3 DEF Dispatch
      <4> QED BY <1>7, <2>1, <3>3, <4>1
    <3>4. CASE ~SupportsSVM(config) \/ failure = "kernel"
      <4>1. sealed' = IF config.mode = "strict" THEN NoHash ELSE LatticeHash(dag)
        BY <3>1, <3>4 DEF Dispatch
      <4> QED BY <1>2, <1>3, <1>7, <2>1, <3>1, <4>1 DEF Reference, LatticeHash
    <3> QED BY <3>2, <3>3, <3>4 DEF Failure
  <2>2. CASE config.backend = "metal"
    <3>1. sealed' = StrictV2Hash(dag)
      BY <1>5, <2>2 DEF MiningHashes, IsGPU
    <3> QED BY <1>2, <1>3, <1>7, <2>2, <3>1 DEF Reference, StrictV2Hash
  <2>3. CASE config.backend \in {"cpu", "unified"}
    <3>1. sealed' = LatticeHash(dag) /\ config.backend # "metal"
      BY <1>5, <2>3 DEF MiningHashes, IsGPU
    <3> QED BY <1>2, <1>3, <1>7, <3>1 DEF Reference, LatticeHash
  <2> QED BY <1>6, <2>1, <2>2, <2>3 DEF IsGPU, BackendMode
<1>9. ASSUME NEW g \in Goroutine PROVE HoldsDAG(g)'
  <2>1. g \in Reading' => g \in Reading
    BY <1>0, <1>1 DEF Reading, SealingTypeOK
  <2> QED BY <1>0, <1>1, <2>1 DEF GoroutinesOK, HoldsDAG, dagVars, mainVars
<1>10. GoroutinesOK'
  BY <1>0, <1>1, <1>8, <1>9
     DEF GoroutinesOK, SealedBlockValid, Computed, Reference, SealingTypeOK, mainVars
<1>11. pc' \in [Goroutine -> Places]
  BY <1>0, <1>1 DEF SealingTypeOK, Places
<1> QED BY <1>0, <1>1, <1>8, <1>10, <1>11, QuietStep
        DEF SealingTypeOK, Stages, mainVars

-----------------------------------------------------------------------------
LEMMA DStep == DInv /\ [Next]_vars => DInv'
<1> SUFFICES ASSUME DInv, [Next]_vars PROVE DInv'
  OBVIOUS
<1>0. SealingTypeOK /\ StoreOK /\ Miner \in Goroutine
  BY DEF DInv, Goroutine
<1>1. CASE ParseFlags
  BY <1>1, MainStep DEF ParseFlags, Die
<1>2. CASE InitializeMining
  BY <1>2, InitializeMiningStep
<1>3. CASE Seal
  <2>1. PICK e \in Epoch : epoch' = [epoch EXCEPT ![Miner] = e]
    BY <1>3 DEF Seal
  <2> QED BY <1>0, <1>3, <2>1, GoStep DEF Seal, Alive, SealingTypeOK, mainVars
<1>4. CASE MiningDAG
  BY <1>0, <1>4, CachedDAGStep DEF MiningDAG, Alive
<1>5. ASSUME NEW ok \in BOOLEAN, Prepare(ok) PROVE DInv'
  BY <1>5, PrepareStep
<1>6. ASSUME NEW failure \in Failure, Mine(failure) PROVE DInv'
  BY <1>6, MineStep
<1>7. CASE Genesis
  <2>1. epoch[Miner] \in Epoch /\ epoch' = [epoch EXCEPT ![Miner] = epoch[Miner]]
    BY <1>0, <1>7 DEF Genesis, SealingTypeOK
  <2> QED BY <1>0, <1>7, <2>1, GoStep DEF Genesis, Alive
<1>8. CASE Insert
  <2>1. /\ epoch[Miner] \in Epoch /\ epoch' = [epoch EXCEPT ![Miner] = epoch[Miner]]
        /\ hasTip' \in BOOLEAN /\ UNCHANGED <<config, strategy, stage>>
    BY <1>0, <1>8 DEF Insert, SealingTypeOK, mainVars
  <2> QED BY <1>0, <1>8, <2>1, GoStep DEF Insert, Alive
<1>9. ASSUME NEW h \in Handlers, Receive(h) PROVE DInv'
  <2>1. PICK e \in Epoch : epoch' = [epoch EXCEPT ![h] = e]
    BY <1>9 DEF Receive
  <2>2. h \in Goroutine
    BY DEF Goroutine
  <2> QED BY <1>0, <1>9, <2>1, <2>2, GoStep DEF Receive, SealingTypeOK, mainVars
<1>10. ASSUME NEW g \in Goroutine, ValidationDAG(g) PROVE DInv'
  <2>1. CachedDAG(g, "shared", "validate")
    BY <1>0, <1>10, Shares DEF ValidationDAG
  <2> QED BY <1>10, <2>1, CachedDAGStep DEF ValidationDAG
<1>11. ASSUME NEW g \in Goroutine, Judge(g) PROVE DInv'
  <2>1. epoch[g] \in Epoch /\ epoch' = [epoch EXCEPT ![g] = epoch[g]]
    BY <1>0, <1>11 DEF Judge, SealingTypeOK
  <2> QED BY <1>0, <1>11, <2>1, GoStep DEF Judge, Die, SealingTypeOK
<1>12. CASE Shutdown
  BY <1>12, ShutdownStep
<1>13. CASE Exit
  BY <1>13, MainStep DEF Exit, Die
<1>14. CASE RunDAG
  BY <1>0, <1>14, CachedDAGStep DEF RunDAG, Alive
<1>15. CASE RunReturns
  BY <1>15, RunReturnsStep
<1>16. CASE UNCHANGED vars
  BY <1>16, MainStep DEF vars, dagVars, goVars
<1> QED BY <1>1, <1>2, <1>3, <1>4, <1>5, <1>6, <1>7, <1>8, <1>9, <1>10, <1>11,
           <1>12, <1>13, <1>14, <1>15, <1>16
        DEF Next, SealStep

LEMMA DInvariant == Spec => []DInv
BY DInit, DStep, PTL DEF Spec

-----------------------------------------------------------------------------
\* The state keeps its types, and each entry of a cache is an open DAG of the
\* epoch it is filed under (Validator.cachedDAGForHeader).
THEOREM CachesLead == Spec => []SealingTypeOK
<1>1. DInv => SealingTypeOK
  BY DEF DInv
<1> QED BY <1>1, DInvariant, PTL

\* The goroutine that seals and all those that validate read a DAG of the epoch
\* of their header, written whole, for every number of nodes and of workers
\* (GenerateDAG, cachedDAGForHeader).
THEOREM DAGsReadWhole == Spec => []ReadsWholeDAG
<1>1. DInv => ReadsWholeDAG
  BY DEF DInv, ReadsWholeDAG, GoroutinesOK, StoreOK, HoldsDAG, Reading
<1> QED BY <1>1, DInvariant, PTL

\* Before shutdown no DAG is closed under its reader: SetMiningBackend, which
\* closes DAGs, runs before anybody reads one.
THEOREM DAGsInUseOpen == Spec => []InUseOpen
<1>1. DInv => InUseOpen
  BY DEF DInv, InUseOpen, GoroutinesOK, HoldsDAG, Reading, IsOpen
<1> QED BY <1>1, DInvariant, PTL

\* Whatever the flags and the machine, validation always reuses the DAGs made
\* for mining (canValidationReuseMiningDAG): there is one open DAG per epoch.
THEOREM OneDAG == Spec => []OneDAGPerEpoch
<1>1. DInv => OneDAGPerEpoch
  BY DEF DInv, OneDAGPerEpoch, StoreOK, IsOpen
<1> QED BY <1>1, DInvariant, PTL

\* The checks of the flags and the resolution of the allocator keep every DAG
\* of strict mode in device memory.
THEOREM StrictInDeviceMemory == Spec => []StrictUsesDeviceMemory
<1>1. DInv => StrictUsesDeviceMemory
  BY DEF DInv, StrictUsesDeviceMemory, StoreOK
<1> QED BY <1>1, DInvariant, PTL

\* A block whose hash the backend has computed carries the hash by which the
\* network judges it exactly when the backend computes the algorithm of its
\* chain; a hash it has not computed takes an OpenCL device that fails or that
\* several workers share, or strict mode on OpenCL (SealBlock, Prepare, Mine,
\* Dispatch).
THEOREM SealedBlocksValid == Spec => []SealedBlockValid
<1>1. DInv => SealedBlockValid
  BY DEF DInv, GoroutinesOK
<1> QED BY <1>1, DInvariant, PTL

-----------------------------------------------------------------------------
\* Before the backends are initialized nobody has made a DAG.
TableInv == DInv /\ (stage \in {"flags", "runtime"} => Len(dags) = 0)

LEMMA TableInvariant == Spec => []TableInv
<1>1. Init => TableInv
  <2> SUFFICES ASSUME Init PROVE Len(dags) = 0
    BY DInit DEF TableInv
  <2> QED BY DEF Init
<1>2. TableInv /\ [Next]_vars => TableInv'
  <2> SUFFICES ASSUME TableInv, [Next]_vars, stage' \in {"flags", "runtime"}
               PROVE  Len(dags') = 0
    BY DStep DEF TableInv
  <2>1. stage \in {"flags", "runtime"} /\ dags' = dags
    <3>1. CASE ParseFlags \/ UNCHANGED vars
      BY <3>1 DEF ParseFlags, vars, dagVars
    <3>2. CASE InitializeMining
      BY <3>2 DEF InitializeMining, Die
    <3>3. CASE SealStep \/ Shutdown \/ Exit \/ RunDAG \/ RunReturns
      BY <3>3 DEF SealStep, Seal, MiningDAG, Prepare, Mine, Genesis, Insert, Shutdown, Exit,
                  RunDAG, RunReturns, Die, CachedDAG, mainVars
    <3>4. ASSUME NEW g, Receive(g) \/ ValidationDAG(g) \/ Judge(g) PROVE FALSE
      BY <3>4 DEF Receive, ValidationDAG, Judge, Alive, Die, CachedDAG, mainVars
    <3> QED BY <3>1, <3>2, <3>3, <3>4 DEF Next
  <2> QED BY <2>1 DEF TableInv
<1> QED BY <1>1, <1>2, PTL DEF Spec

-----------------------------------------------------------------------------
\* DAGs keep what their users know of them.
Lasting ==
    \A i \in 1..Len(dags) :
      dags'[i].epoch = dags[i].epoch /\ dags'[i].nodes = dags[i].nodes

\* One goroutine moves; the others hold what they held.
LEMMA HoldingMoves ==
    ASSUME DInv, Lasting, NEW g \in Goroutine, NEW to, pc' = [pc EXCEPT ![g] = to],
           \A h \in Goroutine \ {g} : using'[h] = using[h]
    PROVE  Holding' = [Holding EXCEPT ![g] =
                         IF to \in {"prepare", "mine", "validate"}
                         THEN {[id |-> using'[g], epoch |-> dags'[using'[g]].epoch,
                                nodes |-> dags'[using'[g]].nodes]}
                         ELSE {}]
<1>1. pc'[g] = to /\ \A h \in Goroutine \ {g} : pc'[h] = pc[h]
  BY DEF DInv, SealingTypeOK
<1>2. ASSUME NEW h \in Goroutine \ {g}, h \in Reading
      PROVE  /\ using[h] \in 1..Len(dags) /\ using'[h] = using[h]
             /\ dags'[using[h]].epoch = dags[using[h]].epoch
             /\ dags'[using[h]].nodes = dags[using[h]].nodes
  BY <1>2 DEF DInv, GoroutinesOK, HoldsDAG, Lasting
<1>3. ASSUME NEW h \in Goroutine \ {g} PROVE Holding'[h] = Holding[h]
  BY <1>1, <1>2 DEF Holding, Reading, Entry
<1>4. Holding'[g] = IF to \in {"prepare", "mine", "validate"}
                    THEN {[id |-> using'[g], epoch |-> dags'[using'[g]].epoch,
                           nodes |-> dags'[using'[g]].nodes]}
                    ELSE {}
  BY <1>1 DEF Holding, Reading, Entry
<1>5. Holding = [h \in Goroutine |-> Holding[h]] /\ Holding' = [h \in Goroutine |-> Holding'[h]]
  BY DEF Holding
<1> HIDE DEF Holding
<1> QED BY <1>3, <1>4, <1>5

LEMMA HoldingOf ==
    ASSUME NEW g \in Goroutine
    PROVE  Holding[g] = IF pc[g] \in {"prepare", "mine", "validate"}
                        THEN {Entry(using[g])} ELSE {}
BY DEF Holding, Reading

LEMMA PhaseOf ==
    ASSUME SealingTypeOK
    PROVE  /\ stage \in {"flags", "runtime", "running"} => Phase = "up"
           /\ stage = "closed" => Phase = "closing"
           /\ stage = "dead" => Phase = "ended"
           /\ stage # "dead" => Phase # "ended"
           /\ Phase = "up" => stage \in {"flags", "runtime", "running"}
BY DEF Phase, SealingTypeOK

LEMMA MemoryUnchanged == ASSUME dags' = dags PROVE InMemory' = InMemory
BY DEF InMemory, Entry, IsOpen

\* A step of the program that its users do not notice, but for its end.
LEMMA Unnoticed ==
    ASSUME TableInv, [Next]_vars, stage # "dead", dags' = dags, epoch' = epoch,
           Holding' = Holding, stage' = "dead" \/ Phase' = Phase
    PROVE  [Table!TableNext]_Table!tableVars
<1>1. InMemory' = InMemory /\ Len(dags') = Len(dags)
  BY MemoryUnchanged
<1>2. CASE Phase' = Phase
  BY <1>1, <1>2 DEF Table!tableVars
<1>3. CASE stage' = "dead"
  <2>1. Phase # "ended" /\ Phase' = "ended"
    BY <1>3, DStep, PhaseOf DEF TableInv, DInv, Phase
  <2> QED BY <1>1, <2>1 DEF Table!End, Table!TableNext
<1> QED BY <1>2, <1>3

\* A goroutine that holds no DAG, before and after.
LEMMA EmptyHanded ==
    ASSUME DInv, dags' = dags, NEW g \in Goroutine,
           \A h \in Goroutine \ {g} : using'[h] = using[h],
           pc[g] \notin {"prepare", "mine", "validate"},
           NEW to, to \notin {"prepare", "mine", "validate"},
           pc' = [pc EXCEPT ![g] = to]
    PROVE  Holding' = Holding /\ Holding[g] = {}
<1>1. Holding' = [Holding EXCEPT ![g] = {}]
  BY HoldingMoves DEF Lasting
<1>2. Holding[g] = {} /\ Holding = [h \in Goroutine |-> Holding[h]]
  BY HoldingOf DEF Holding
<1> QED BY <1>1, <1>2

\* A goroutine takes up another header.
LEMMA Turns ==
    ASSUME DInv, stage # "dead", stage' = stage, dags' = dags, NEW g \in Goroutine,
           using' = using, pc[g] \notin {"prepare", "mine", "validate"},
           NEW to, to \notin {"prepare", "mine", "validate"}, pc' = [pc EXCEPT ![g] = to],
           NEW e \in Epoch, epoch' = [epoch EXCEPT ![g] = e]
    PROVE  Table!TableNext
<1>1. Holding' = Holding /\ Holding[g] = {}
  BY EmptyHanded
<1>2. InMemory' = InMemory /\ Len(dags') = Len(dags)
  BY MemoryUnchanged
<1>3. Phase # "ended" /\ Phase' = Phase
  BY PhaseOf DEF DInv, Phase
<1>4. Table!Turn(g)
  BY <1>1, <1>2, <1>3 DEF Table!Turn, Table!Idle
<1> QED BY <1>4 DEF Table!TableNext

\* A goroutine is done with its DAG; if it has been closed the process dies.
LEMMA Finishes ==
    ASSUME DInv, stage # "dead", stage' \in {stage, "dead"}, dags' = dags, epoch' = epoch,
           NEW g \in Goroutine, \A h \in Goroutine \ {g} : using'[h] = using[h],
           pc[g] \in {"prepare", "mine", "validate"},
           NEW to, to \notin {"prepare", "mine", "validate"}, pc' = [pc EXCEPT ![g] = to],
           IsOpen(using[g]) \/ stage' = "dead"
    PROVE  Table!TableNext
<1>1. Holding' = [Holding EXCEPT ![g] = {}]
  BY HoldingMoves DEF Lasting
<1>2. Holding[g] = {Entry(using[g])}
  BY HoldingOf
<1>3. InMemory' = InMemory /\ Len(dags') = Len(dags)
  BY MemoryUnchanged
<1>4. /\ Phase # "ended" /\ Phase' \in {Phase, "ended"}
      /\ stage' = "dead" => Phase' = "ended"
      /\ Phase = "up" => stage \in {"flags", "runtime", "running"}
  BY PhaseOf DEF DInv, Phase
<1>5. using[g] \in 1..Len(dags) /\ (stage = "running" => IsOpen(using[g]))
  BY DEF DInv, GoroutinesOK, HoldsDAG, Reading, IsOpen
<1>6. stage \notin {"flags", "runtime"}
  BY DEF DInv, GoroutinesOK
<1>7. IsOpen(using[g]) => Holding[g] \subseteq InMemory
  BY <1>2, <1>5 DEF InMemory
<1>8. Table!Finish(g)
  BY <1>1, <1>2, <1>3, <1>4, <1>5, <1>6, <1>7 DEF Table!Finish
<1> QED BY <1>8 DEF Table!TableNext

\* What a goroutine may get from the cache.
LEMMA CachedOutcome ==
    ASSUME NEW g \in Goroutine, NEW next, CachedDAG(g, "shared", next)
    PROVE  \/ /\ epoch[g] \in DOMAIN shared
              /\ using' = [using EXCEPT ![g] = shared[epoch[g]]]
              /\ pc' = [pc EXCEPT ![g] = next]
              /\ UNCHANGED <<dagVars, stage>>
           \/ /\ stage' \in {stage, "dead"}
              /\ pc' = [pc EXCEPT ![g] = "idle"]
              /\ UNCHANGED <<dagVars, using>>
           \/ /\ epoch[g] \notin DOMAIN shared
              /\ \E a : dags' = Append(dags, NewDAG(epoch[g], a))
              /\ using' = [using EXCEPT ![g] = Len(dags) + 1]
              /\ pc' = [pc EXCEPT ![g] = next]
              /\ UNCHANGED stage
<1>1. CASE epoch[g] \in DOMAIN shared
  BY <1>1 DEF CachedDAG
<1>2. CASE epoch[g] \notin DOMAIN shared
  <2>1. PICK full \in BOOLEAN :
          IF Alloc(config, strategy, full) = {}
          THEN /\ IF g = Miner THEN Die ELSE UNCHANGED stage
               /\ pc' = [pc EXCEPT ![g] = "idle"]
               /\ UNCHANGED <<dagVars, using>>
          ELSE /\ \E a \in Alloc(config, strategy, full) :
                    Remember("shared", epoch[g], NewDAG(epoch[g], a))
               /\ using' = [using EXCEPT ![g] = Len(dags) + 1]
               /\ pc' = [pc EXCEPT ![g] = next]
               /\ UNCHANGED stage
    BY <1>2 DEF CachedDAG
  <2>2. CASE Alloc(config, strategy, full) = {}
    BY <2>1, <2>2 DEF Die
  <2>3. CASE Alloc(config, strategy, full) # {}
    BY <1>2, <2>1, <2>3 DEF Remember
  <2> QED BY <2>2, <2>3
<1> QED BY <1>1, <1>2

\* The cache is the table: it hands out the DAG of the epoch that is in memory,
\* or makes one when there is none.
LEMMA Fetches ==
    ASSUME TableInv, [Next]_vars, Alive, NEW g \in Goroutine,
           NEW next \in {"prepare", "validate"}, CachedDAG(g, "shared", next),
           pc[g] \notin {"prepare", "mine", "validate"}, epoch' = epoch
    PROVE  [Table!TableNext]_Table!tableVars
<1> DEFINE e == epoch[g]
<1>0. /\ DInv /\ SealingTypeOK /\ StoreOK
      /\ Phase # "ended" /\ Holding[g] = {} /\ e \in Epoch
      /\ (stage' = stage => Phase' = Phase)
  BY PhaseOf, HoldingOf DEF TableInv, DInv, Alive, Phase, SealingTypeOK
<1>1. CASE /\ e \in DOMAIN shared
           /\ using' = [using EXCEPT ![g] = shared[e]]
           /\ pc' = [pc EXCEPT ![g] = next]
           /\ UNCHANGED <<dagVars, stage>>
  <2> DEFINE i == shared[e]
  <2>1. i \in 1..Len(dags) /\ dags[i].epoch = e /\ IsOpen(i)
    BY <1>0, <1>1 DEF SealingTypeOK, CacheOK
  <2>2. using'[g] = i /\ dags' = dags /\ \A h \in Goroutine \ {g} : using'[h] = using[h]
    BY <1>0, <1>1 DEF SealingTypeOK, dagVars
  <2>3. Holding' = [Holding EXCEPT ![g] = {Entry(i)}]
    BY <1>0, <1>1, <2>2, HoldingMoves DEF Lasting, Entry
  <2>4. Entry(i) \in InMemory /\ Entry(i).epoch = e
    BY <2>1 DEF InMemory, Entry
  <2>5. InMemory' = InMemory /\ Len(dags') = Len(dags)
    BY <2>2, MemoryUnchanged
  <2>6. Table!Find(g)
    BY <1>0, <1>1, <2>3, <2>4, <2>5 DEF Table!Find, Table!Idle, Table!Holds
  <2> QED BY <2>6 DEF Table!TableNext
<1>2. CASE /\ stage' \in {stage, "dead"}
           /\ pc' = [pc EXCEPT ![g] = "idle"]
           /\ UNCHANGED <<dagVars, using>>
  <2>1. Holding' = Holding /\ dags' = dags
    BY <1>0, <1>2, EmptyHanded DEF dagVars
  <2> QED BY <1>0, <1>2, <2>1, Unnoticed DEF Alive
<1>3. CASE /\ e \notin DOMAIN shared
           /\ \E a : dags' = Append(dags, NewDAG(e, a))
           /\ using' = [using EXCEPT ![g] = Len(dags) + 1]
           /\ pc' = [pc EXCEPT ![g] = next]
           /\ UNCHANGED stage
  <2> PICK new : new = Len(dags) + 1
    OBVIOUS
  <2> PICK d : d = [id |-> new, epoch |-> e, nodes |-> WholeDAG[e]]
    OBVIOUS
  <2>1. PICK a : dags' = Append(dags, NewDAG(e, a))
    BY <1>3
  <2>2. /\ NewDAG(e, a).epoch = e /\ NewDAG(e, a).open = TRUE
        /\ NewDAG(e, a).nodes = WholeDAG[e]
    BY <1>0, PopulatesWhole DEF SealingTypeOK, NewDAG, WholeDAG
  <2>3. /\ Len(dags') = new /\ dags'[new] = NewDAG(e, a) /\ Len(dags) \in Nat
        /\ \A i \in 1..Len(dags) : dags'[i] = dags[i]
    BY <1>0, <2>1 DEF SealingTypeOK
  <2>4. using'[g] = new /\ \A h \in Goroutine \ {g} : using'[h] = using[h]
    BY <1>0, <1>3 DEF SealingTypeOK
  <2>5. Holding' = [Holding EXCEPT ![g] = {d}]
    <3>1. Lasting
      BY <2>3 DEF Lasting
    <3>2. dags'[new].epoch = e /\ dags'[new].nodes = WholeDAG[e]
      BY <2>2, <2>3
    <3>3. Holding' = [Holding EXCEPT ![g] =
                        IF next \in {"prepare", "mine", "validate"}
                        THEN {[id |-> using'[g], epoch |-> dags'[using'[g]].epoch,
                               nodes |-> dags'[using'[g]].nodes]}
                        ELSE {}]
      BY <1>0, <1>3, <2>4, <3>1, HoldingMoves
    <3> QED BY <2>4, <3>2, <3>3
  <2>6. \A m \in InMemory : m.epoch # e
    BY <1>0, <1>3 DEF InMemory, Entry, IsOpen, StoreOK
  <2>7. InMemory' = InMemory \cup {d}
    <3>1. \A i \in 1..Len(dags) : Entry(i)' = Entry(i) /\ IsOpen(i)' = IsOpen(i)
      BY <2>3 DEF Entry, IsOpen
    <3>2. Entry(new)' = d /\ IsOpen(new)'
      <4>1. /\ dags'[new].epoch = e /\ dags'[new].nodes = WholeDAG[e]
            /\ dags'[new].open = TRUE
        BY <2>2, <2>3
      <4> QED BY <4>1 DEF Entry, IsOpen
    <3>3. 1..Len(dags') = 1..Len(dags) \cup {new}
      BY <2>3
    <3> QED BY <3>1, <3>2, <3>3 DEF InMemory
  <2>8. Table!Make(g)
    BY <1>0, <1>3, <2>3, <2>5, <2>6, <2>7 DEF Table!Make, Table!Idle, Table!Holds
  <2> QED BY <2>8 DEF Table!TableNext
<1> QED BY <1>1, <1>2, <1>3, CachedOutcome

\* Closing the shared cache empties the memory.
LEMMA Closes ==
    ASSUME DInv, stage = "running", stage' = "closed", NEW caches, shared \in caches,
           dags' = Closed(caches), epoch' = epoch, using' = using,
           NEW S \in SUBSET Goroutine,
           \A g \in Goroutine : pc'[g] = IF g \in S THEN "idle" ELSE pc[g]
    PROVE  Table!TableNext
<1>1. /\ Len(dags') = Len(dags)
      /\ \A i \in 1..Len(dags) :
           /\ dags'[i].epoch = dags[i].epoch /\ dags'[i].nodes = dags[i].nodes
           /\ ~dags'[i].open
  BY ClosedShared DEF DInv
<1>2. InMemory' = {}
  BY <1>1 DEF InMemory, IsOpen
<1>3. Phase = "up" /\ Phase' = "closing"
  BY DEF Phase
<1>4. ASSUME NEW g \in Goroutine
      PROVE  Holding'[g] = IF g \in S THEN {} ELSE Holding[g]
  <2>0. /\ Holding'[g] = IF g \in Reading' THEN {Entry(using[g])'} ELSE {}
        /\ Holding[g] = IF g \in Reading THEN {Entry(using[g])} ELSE {}
    BY DEF Holding
  <2>1. CASE g \in S
    <3>1. pc'[g] = "idle"
      BY <2>1
    <3> QED BY <2>0, <2>1, <3>1 DEF Reading
  <2>2. CASE g \notin S
    <3>1. pc'[g] = pc[g]
      BY <2>2
    <3>2. g \in Reading' <=> g \in Reading
      BY <3>1 DEF Reading
    <3>3. g \in Reading => Entry(using[g])' = Entry(using[g])
      BY <1>1 DEF Entry, DInv, GoroutinesOK, HoldsDAG
    <3> QED BY <2>0, <2>2, <3>2, <3>3
  <2> QED BY <2>1, <2>2
<1>5. Holding' = [g \in Goroutine |-> IF g \in S THEN {} ELSE Holding[g]]
  <2>1. Holding' = [g \in Goroutine |-> Holding'[g]]
    BY DEF Holding
  <2> HIDE DEF Holding
  <2> QED BY <1>4, <2>1
<1>6. Table!Close
  BY <1>1, <1>2, <1>3, <1>5 DEF Table!Close
<1> QED BY <1>6 DEF Table!TableNext

LEMMA InitTable == Init => Table!TableInit
<1> SUFFICES ASSUME Init PROVE Table!TableInit
  OBVIOUS
<1>1. Len(dags) = 0 /\ stage = "flags" /\ \A g \in Goroutine : pc[g] = "idle"
  BY DEF Init
<1>2. InMemory = {}
  BY <1>1 DEF InMemory
<1>3. Holding = [g \in Goroutine |-> {}]
  BY <1>1 DEF Holding, Reading
<1>4. epoch \in [Goroutine -> Epoch] /\ Phase = "up"
  BY <1>1, SealingAssumption DEF Init, Phase
<1> QED BY <1>1, <1>2, <1>3, <1>4 DEF Table!TableInit

\* main's steps before there are DAGs, and its last one.
LEMMA MainTable ==
    ASSUME TableInv, [Next]_vars, ParseFlags \/ InitializeMining \/ Exit \/ UNCHANGED vars
    PROVE  [Table!TableNext]_Table!tableVars
<1>0. DInv /\ SealingTypeOK
  BY DEF TableInv, DInv
<1>1. CASE ParseFlags \/ Exit \/ UNCHANGED vars
  <2>1. /\ dags' = dags /\ epoch' = epoch /\ UNCHANGED goVars
        /\ stage' = stage \/ stage' = "dead" \/ (stage = "flags" /\ stage' = "runtime")
    BY <1>1 DEF ParseFlags, Exit, Die, vars, dagVars, goVars
  <2>2. Holding' = Holding
    BY <2>1 DEF Holding, Reading, Entry, goVars
  <2>3. stage' = "dead" \/ Phase' = Phase
    BY <2>1 DEF Phase
  <2>4. CASE stage = "dead"
    <3>1. stage' = stage
      BY <1>1, <2>4 DEF ParseFlags, Exit, vars
    <3> QED BY <2>1, <2>2, <3>1, MemoryUnchanged DEF Phase, Table!tableVars
  <2> QED BY <2>1, <2>2, <2>3, <2>4, Unnoticed
<1>2. CASE InitializeMining
  <2>1. /\ stage = "runtime" /\ stage' \in {"running", "dead"} /\ Len(dags) = 0
        /\ UNCHANGED goVars
    BY <1>2 DEF InitializeMining, Die, TableInv
  <2>2. dags' = dags
    <3>1. dags' = dags \/ dags' = Closed({shared})
      BY <1>2 DEF InitializeMining, SetMiningBackend, dagVars
    <3>2. Len(Closed({shared})) = 0 /\ Closed({shared}) = <<>> /\ dags = <<>>
      BY <1>0, <2>1 DEF Closed, SealingTypeOK
    <3> QED BY <3>1, <3>2
  <2>3. Holding' = Holding /\ epoch' = epoch
    BY <2>1, <2>2 DEF Holding, Reading, Entry, goVars
  <2>4. stage' = "dead" \/ Phase' = Phase
    BY <2>1 DEF Phase
  <2> QED BY <2>1, <2>2, <2>3, <2>4, Unnoticed
<1> QED BY <1>1, <1>2

\* The steps of sealing a block, but for those to the cache.
LEMMA SealTable ==
    ASSUME TableInv, [Next]_vars, SealStep
    PROVE  [Table!TableNext]_Table!tableVars
<1>0. DInv /\ SealingTypeOK /\ Miner \in Goroutine /\ GoroutinesOK
  BY DEF TableInv, DInv, Goroutine
<1>1. CASE Seal
  <2>1. PICK e \in Epoch : epoch' = [epoch EXCEPT ![Miner] = e]
    BY <1>1 DEF Seal
  <2>2. /\ stage = "running" /\ stage' = stage /\ dags' = dags /\ using' = using
        /\ pc[Miner] = "idle" /\ pc' = [pc EXCEPT ![Miner] = "miningDAG"]
    BY <1>1 DEF Seal, mainVars, dagVars
  <2> QED BY <1>0, <2>1, <2>2, Turns
<1>2. CASE MiningDAG
  <2>1. /\ Alive /\ pc[Miner] = "miningDAG" /\ epoch' = epoch
        /\ CachedDAG(Miner, "shared", "prepare")
    BY <1>2 DEF MiningDAG, Alive
  <2> QED BY <1>0, <2>1, Fetches
<1>3. ASSUME NEW ok \in BOOLEAN, Prepare(ok)
      PROVE  [Table!TableNext]_Table!tableVars
  <2>1. /\ stage = "running" /\ stage' \in {stage, "dead"} /\ pc[Miner] = "prepare"
        /\ dags' = dags /\ epoch' = epoch /\ using' = using
        /\ pc' = [pc EXCEPT ![Miner] = "mine"] \/ pc' = pc
    BY <1>3 DEF Prepare, Die, dagVars
  <2>2. \A g \in Goroutine : g \in Reading' <=> g \in Reading
    BY <1>0, <2>1 DEF Reading, SealingTypeOK
  <2>3. Holding' = Holding
    BY <2>1, <2>2 DEF Holding, Entry
  <2>4. stage' = "dead" \/ Phase' = Phase
    BY <2>1 DEF Phase
  <2> QED BY <2>1, <2>3, <2>4, Unnoticed
<1>4. ASSUME NEW failure \in Failure, Mine(failure)
      PROVE  [Table!TableNext]_Table!tableVars
  <2>1. /\ stage = "running" /\ stage' = stage /\ pc[Miner] = "mine"
        /\ dags' = dags /\ epoch' = epoch /\ using' = using
        /\ pc' = [pc EXCEPT ![Miner] = "sealed"]
    BY <1>4 DEF Mine, mainVars, dagVars
  <2>2. IsOpen(using[Miner])
    BY <1>0, <2>1 DEF GoroutinesOK, HoldsDAG, Reading, IsOpen
  <2> QED BY <1>0, <2>1, <2>2, Finishes
<1>5. CASE Genesis \/ Insert
  <2>1. /\ stage = "running" /\ stage' = stage /\ pc[Miner] = "sealed"
        /\ dags' = dags /\ epoch' = epoch
        /\ \A h \in Goroutine \ {Miner} : using'[h] = using[h]
        /\ \E to \in {"idle", "validationDAG"} : pc' = [pc EXCEPT ![Miner] = to]
    BY <1>0, <1>5 DEF Genesis, Insert, mainVars, dagVars, SealingTypeOK
  <2>2. Holding' = Holding
    BY <1>0, <2>1, EmptyHanded
  <2> QED BY <2>1, <2>2, Unnoticed DEF Phase
<1> QED BY <1>1, <1>2, <1>3, <1>4, <1>5 DEF SealStep

\* The steps of validating a block, and those of the standalone miner.
LEMMA OtherTable ==
    ASSUME TableInv, [Next]_vars,
           \/ \E h \in Handlers : Receive(h)
           \/ \E g \in Goroutine : ValidationDAG(g) \/ Judge(g)
           \/ RunDAG \/ RunReturns \/ Shutdown
    PROVE  [Table!TableNext]_Table!tableVars
<1>0. DInv /\ SealingTypeOK /\ Miner \in Goroutine /\ StoreOK
  BY DEF TableInv, DInv, Goroutine
<1>1. ASSUME NEW h \in Handlers, Receive(h) PROVE Table!TableNext
  <2>1. PICK e \in Epoch : epoch' = [epoch EXCEPT ![h] = e]
    BY <1>1 DEF Receive
  <2>2. /\ h \in Goroutine /\ stage # "dead" /\ stage' = stage
        /\ dags' = dags /\ using' = using
        /\ pc[h] = "idle" /\ pc' = [pc EXCEPT ![h] = "validationDAG"]
    BY <1>1 DEF Receive, Alive, mainVars, dagVars, Goroutine
  <2> QED BY <1>0, <2>1, <2>2, Turns
<1>2. ASSUME NEW g \in Goroutine, ValidationDAG(g)
      PROVE  [Table!TableNext]_Table!tableVars
  <2>1. /\ Alive /\ pc[g] = "validationDAG" /\ epoch' = epoch
        /\ CachedDAG(g, "shared", "validate")
    BY <1>0, <1>2, Shares DEF ValidationDAG
  <2> QED BY <2>1, Fetches
<1>3. ASSUME NEW g \in Goroutine, Judge(g) PROVE Table!TableNext
  <2>1. /\ stage # "dead" /\ stage' \in {stage, "dead"} /\ pc[g] = "validate"
        /\ dags' = dags /\ epoch' = epoch
        /\ \A h \in Goroutine \ {g} : using'[h] = using[h]
        /\ pc' = [pc EXCEPT ![g] = "idle"]
        /\ IsOpen(using[g]) \/ stage' = "dead"
    BY <1>0, <1>3 DEF Judge, Alive, Die, dagVars, SealingTypeOK
  <2> QED BY <1>0, <2>1, Finishes
<1>4. CASE RunDAG
  <2>1. /\ Alive /\ pc[Miner] = "idle" /\ epoch' = epoch
        /\ CachedDAG(Miner, "shared", "prepare")
    BY <1>4 DEF RunDAG, Alive
  <2> QED BY <1>0, <2>1, Fetches
<1>5. CASE RunReturns
  <2>1. /\ stage = "running" /\ stage' = "closed" /\ dags' = Closed({shared})
        /\ epoch' = epoch /\ using' = using /\ pc' = [pc EXCEPT ![Miner] = "idle"]
    BY <1>5 DEF RunReturns
  <2>2. \A g \in Goroutine : pc'[g] = IF g \in {Miner} THEN "idle" ELSE pc[g]
    BY <1>0, <2>1 DEF SealingTypeOK
  <2>3. {Miner} \in SUBSET Goroutine /\ shared \in {shared}
    BY <1>0
  <2>4. Table!TableNext
    BY <1>0, <2>1, <2>2, <2>3, Closes
  <2> QED BY <2>4
<1>6. CASE Shutdown
  <2>1. /\ stage = "running" /\ stage' = "closed" /\ dags' = Closed({shared, fallback})
        /\ epoch' = epoch /\ using' = using /\ pc' = pc
    BY <1>6 DEF Shutdown, goVars
  <2>2. \A g \in Goroutine : pc'[g] = IF g \in {} THEN "idle" ELSE pc[g]
    BY <2>1
  <2>3. {} \in SUBSET Goroutine /\ shared \in {shared, fallback}
    OBVIOUS
  <2>4. Table!TableNext
    BY <1>0, <2>1, <2>2, <2>3, Closes
  <2> QED BY <2>4
<1> QED BY <1>1, <1>2, <1>3, <1>4, <1>5, <1>6

\* The DAG caches of a process behave as a table of one DAG per epoch, which is
\* made by the first who wants it, read whole by all, and kept until the process
\* is closed, for any number of handlers, epochs and workers and under every
\* configuration (cachedDAGForHeader, SetMiningBackend, Close).
THEOREM CachesAreATable == Spec => ImplementsDAGTable
<1>1. TableInv /\ [Next]_vars => [Table!TableNext]_Table!tableVars
  <2> SUFFICES ASSUME TableInv, [Next]_vars
               PROVE  [Table!TableNext]_Table!tableVars
    OBVIOUS
  <2>1. CASE ParseFlags \/ InitializeMining \/ Exit \/ UNCHANGED vars
    BY <2>1, MainTable
  <2>2. CASE SealStep
    BY <2>2, SealTable
  <2>3. CASE \/ \E h \in Handlers : Receive(h)
             \/ \E g \in Goroutine : ValidationDAG(g) \/ Judge(g)
             \/ RunDAG \/ RunReturns \/ Shutdown
    BY <2>3, OtherTable
  <2> QED BY <2>1, <2>2, <2>3 DEF Next
<1> QED BY <1>1, InitTable, TableInvariant, PTL DEF Spec, ImplementsDAGTable, Table!TableSpec
=============================================================================
