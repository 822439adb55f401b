# COLOSSUS-X: specifications

TLA+ models of the node, the consensus code, the miner and the peer-to-peer
server of this repository, with the TLC runs that check them on small instances
and proofs, checked by TLAPS, of the central properties for every instance.

`PROJECT.json` lists components, runs, findings, hazards and theorems, maps every
definition to the lines it models, and names for every property a mutation of
the model that violates it.

## The system

| Component | State it keeps | Operations | Talks to |
|---|---|---|---|
| block store, `pkg/chain` | maps of blocks, heights and total work; genesis and tip; `chain.json` | `StoreBlock`, `SetCurrentTip`, queries, loading | called by consensus and node |
| consensus, `pkg/consensus` | none for validation; DAG caches, mining backend and allocator | `ValidateHeader`, `InsertBlock`, `SealBlock`, `SetMiningBackend`, `Close` | store, miner, backends |
| node runtime, `pkg/node` | its place in `Run` | `InitGenesis`, `Run`, `mineNextBlock`, `onHello`, `onNewBlock` | consensus, server |
| server, `pkg/p2p` | `PeerSet`, connections, goroutines | `Start`, `acceptLoop`, `dialLoop`, `handleConn`, `Broadcast`, shutdown | other nodes, node handlers |
| nonce search, `colossusx/miner.go` | workers, `found`, a context, a channel | `Mine`, `mineBatch` | backend |
| backends and allocators, root package | runtime state, the prepared DAG | `Prepare`, `Hash`, choice of allocator | DAG, device |
| DAG, `colossusx/dag*.go` | one allocation | generation, `Close` | hash functions |
| daemon, `cmd/colossusd` | - | start and shutdown of all of these | |
| OpenCL device, `device_shared_kernel_opencl_cgo.go` | one kernel object and its arguments; buffers of each call | the calls of one hash | called by every mining worker |
| standalone miner, `main.go` | one DAG | `Run` | backends, search |
| stateless verifier, `cmd/colossusxverify` | - | `run` | repeats what consensus checks |
| RPC and control tool | - | placeholders | |

A node is one process. Its goroutines are `Node.Run` (it mines, inserts what it
mined, announces it, and sleeps), one `handleConn` per connection (it inserts
what the peer announces), the accept and dial loops, the workers of a search,
and short-lived ones that send status messages. They share the store, the
validator with its caches, and the `PeerSet`; each of these locks its own
operations, and nothing locks a sequence of them. That is where most of what is
hard about this code comes from: decisions on a tip, a cache entry or a peer key
that another goroutine has changed since. The rest are crashes between two
writes, rewrites that fail, a clock in whole seconds, messages that are sent
once and never asked for again, and devices that fail.

What makes each component correct:

- store: the maps lead into each other; the file is a coherent earlier state of
  memory; what was acknowledged stays.
- consensus: only valid chains are stored, work is summed right, the tip is the
  best block there is; sealing and validation hash the same DAG the same way;
  a DAG in use is open and complete; there is one per epoch.
- node: what it mines is valid on its own chain; mining goes on and the chain
  grows, in step with the clock; nodes come to agree.
- server: who is served is listed; bootnodes are redialled; shutdown ends
  every goroutine.
- search: the result solves the header; every nonce of the range is tried, once;
  the search returns and leaves nothing behind.
- backends: strict mode stays on device memory, or fails; a hash computed on the
  device is the hash of the nonce that was asked for.
- specification of a chain: DAG sizes fit a word and never shrink; programs that are
  told the same initial size, growth and epoch length compute the same sizes, seeds and
  proofs of work.

## The modules

```
EpochSpec <- Blocks <- Chain <- ChainStore <-+
                             <- Rules      <-+- Validator <- ValidatorRefinement (-> BestChain, AtomicInsert)
                                                          <- Verifier
                                                          <- Node
                             Rules + Server <- Network
Miner <- Device  Backend <- Sealing (-> DAGTable)
```

| Module | What it models | State and actions |
|---|---|---|
| `EpochSpec` | how the options of a node, each given or `Unset`, become the specification of a chain, `Spec.Validate`; epoch, DAG size and seed of a height | operators; sizes saturate at `MaxUint` |
| `Blocks` | headers, work, tip comparison | a block is its hash, `Header` maps it to its fields; `pow` tells whether its hash meets its target |
| `Chain` | the contents of a store, as a value | `WithBlock`, `WithTip` |
| `ChainStore` | `DiskStore`, `MemoryStore` | `store` (maps), `file` (`chain.json`), `acked` (history); a mutator and its rewrite are one action, as one lock spans them |
| `Rules` | `ValidateHeader` and chain work, as operators | |
| `Validator` | `InsertBlock`, one action per call into the store | `pc[p]`, `arg[p]`, `work[p]` of every calling goroutine; `Crash` kills the process and loads the file |
| `BestChain` | the promise of chain selection | `Consider`, `Save`, `Forget` |
| `AtomicInsert` | the promise of one call of `InsertBlock` | `Submit`, `Decline`, `TakeEffect`, `BreakOff`, `Return`; `Pass`, `Restart` |
| `ValidatorRefinement` | `Validator` implements `BestChain` and `AtomicInsert` | for the one, the blocks compared (history `decided`) are those considered; for the other, a call takes effect when its block is stored, and what it decides afterwards is foreseen (`Foreseen`, `Progress`) |
| `Verifier` | `colossusxverify`, with its own defaults, next to the validator's proof of work | operators; a proof of work is known by what is hashed: the two fields of the specification that pick generator and algorithm, the number of nodes, the seed |
| `Node` | `InitGenesis`, `Run`, `mineNextBlock`, `onNewBlock` around `Validator` | `run` follows `Node.Run`; `clock` in ticks, `now` in seconds, `wake` for the timer |
| `Server` | the servers of all nodes | `dial` per bootnode, `handler`, `open`, `inbox` per end of a connection, `peers`, `ctx` |
| `Network` | `Server` with a chain per node, and `InsertBlock` in steps by `Node.Run` and every handler | `chain` per node; `pc`, `arg`, `work` of every calling goroutine, as in `Validator`; `lossless`, `overwritten` (history) |
| `Miner` | `Miner.Mine`; `mineBatch` as an operator | `pc`, `nonce`, `met` per worker; `found`, `cancelled`, `resultCh`, `closed`; `tried` (history) |
| `Device` | what happens inside a `Hash` of the OpenCL backend, one action per call into the runtime | `args` of the one kernel, `call` per worker, `live` buffers, `out` buffers; every stage in `Failing` may fail |
| `Backend` | which configurations start, where the DAG goes, what is hashed how | operators on a configuration |
| `Sealing` | the daemon's start and end, `SealBlock`, `validatePoW`, the DAG caches; `Run` of the standalone miner | `stage` of main, `dags` ever made, the two caches, `prepared`, `pc`/`epoch`/`using` per goroutine |
| `DAGTable` | the promise of the DAG caches, which `Sealing` implements | `Turn`, `Find`, `Make`, `Finish` per user; `Close`, `End` |
| `MC*` | blocks, jobs and configurations for TLC | |
| `ChainProofs` | theorems about `EpochSpec`; lemmas about snapshots and chain selection | |
| `ValidatorProofs`, `SequentialProofs` | theorems about `Validator` and `Verifier` | |
| `NodeProofs` | theorems about `Node`; some rest on `SequentialProofs` | |
| `NetworkProofs` | theorems about `Server` and `Network` | |
| `MinerProofs`, `DeviceProofs` | theorems about `Miner` and `Device` | |
| `SealingProofs` | theorems about `Sealing` with `Backend` | |

Steps follow the locks: everything a goroutine does between two acquisitions of shared
state is one action. Logging, formatting and encodings are left out. Where one module
simplifies what another has in detail it says so: in `Network` clocks agree, nodes do not
restart and `chain.json` can be written; in `Node` the mining backend is
right; in `Validator` and `Node` a proof of work is a boolean, which `Verifier` refines
by what is hashed; in `Sealing` a block arrives that has passed every other check, and
what `Device` shows of a kernel with several workers is one outcome, `StrayHash`.
`mineBatch` has no error path (`colossusx/miner.go:131`): no backend that fails reaches
it, as both programs hide the batch method of theirs. `Verifier` takes it as given that
`StatelessDAG` and `GenerateDAG` make the same node from the same number and seed.

Operators named "Mutant of ..." belong to no specification. They are the
plausible bugs that show that a property can fail.

## Runs

`tlc -workers 2 -config <run>.cfg <module>`; `PROJECT.json` names the module.

| Run | States | Question and result |
|---|---|---|
| `insert_one_caller` | 827,346 | One inserter, fourteen blocks, failing rewrites, restarts: everything acknowledged survives, only valid chains are stored, the tip is the best of all that were compared, chain selection implements `BestChain`, each call takes effect at one moment (`AtomicInsert`), DAG sizes saturate, and the verifier agrees with the validator. |
| `race` | violation | Two inserters: `TipImproves` fails, see Findings. |
| `node_with_peer` | 457,414 | A miner loop and a peer, failing rewrites and sealing, restarts: the maps are coherent, work sums are right, mined blocks obey their parent's rules. |
| `node_solo` | 1,540 | A lone miner with a block time of a second: in step with the clock, never stops, reaches every height. |
| `node_drift` | violation | The same with half a second: `MiningGoesOn` fails. |
| `miner` | 336,728 | One to three workers on the host, one on a device whose calls fail; every start, bound and set of up to three solutions among five nonces. The device's search implements `Miner`. |
| `miner_device_failure` | violation | In strict mode, with a failing device, `ResultSolves` fails. |
| `device_race` | violation | With two workers on one kernel `ResultSolves` fails. |
| `server` | 114,232 | Two servers, networks equal or not, dropped connections, shutdowns at any moment: redials, a complete shutdown, who is served is listed, and which entries of the `PeerSet` outlive their connection. |
| `network` | 1,092,470 | Two nodes dialling each other, forks up to height two, the steps of all their `InsertBlock` calls interleaved: agreement, and nodes that have inserted each other's tips have the same one, in either case unless a call overwrote a better tip. |
| `join` | violation | `JoinersShareBlocks` fails for nodes with a genesis each. |
| `sealing` | 941,453 | All configurations, with one worker or four, devices that fail, two epochs, the miner and two handlers of a daemon, until shutdown; all configurations of the standalone miner. The caches implement `DAGTable`. |

### Bounds

- Blocks. `MCValidator` has a tree with a fork, a tie in work, a child in the
  next epochs, a second genesis, a block of the future, and blocks that break one
  rule each; no rule and no branch of `InsertBlock` is without a block that
  takes it. `MCNode` has every chain whose blocks are at most `MaxGap` seconds
  after their parents, to `MaxHeight`; `MCNetwork` two competing blocks at height
  one and one on each of them. Three blocks make the longest conflict there is:
  a tip, a rival, and a child that decides.
- Callers. One in `insert_one_caller`, two elsewhere. Callers only meet in the
  store, one call at a time, so two show what one can do to another between two of
  its calls; for more there are the theorems.
- Time. `MaxTime` and `MaxDelay` bound the clock. `MaxFuture` is two hours in the
  code and one or two seconds here; what matters is that it can be exceeded. In
  `node_drift` the clock's bound is far behind the violation, so it is not the
  bound that stops the chain.
- Sizes. `MaxUint` is 5 in `insert_one_caller`, with an initial size and a growth of
  2: the third epoch saturates, and blocks are stored there. Elsewhere it is not
  reached. Each way of giving the size occurs: the option in `node_solo`,
  `node_with_peer`, `server`, `network` and `join`, the alias in `race`, neither in
  `insert_one_caller` and `node_drift`, where the node takes `ResearchDAGSize`.
- Search. Five nonces, up to three workers and bounds up to one more than the nonces
  left: workers that start past the end, at it, and with less than a stride to it.
  `DefaultBatch` lies above `MaxNonce`, as unbounded searches agree only then. On the
  device one worker, for whom every call but the first may fail (`Replaceable`):
  research mode hashes on the host instead. `miner_device_failure` and `device_race` are
  what happens otherwise.
- Network. `MaxConns` is the number of connections ever made, `Breaking` those that
  may be dropped, `Stopping` the nodes that may be shut down. Two allow for a
  connection that follows another, and for two at a time between the same nodes.
  Connections break and nodes stop in `server`; in `network` nothing is lost, and
  `Mining` gives the heights to which each node mines, one node both blocks or each
  node one: three calls of `InsertBlock` at once in a node, of `Run` and two handlers.
  `Bootnodes` is a set, which excludes an address that is listed twice.
  `BootnodesRedialled` says nothing once `MaxConns` is used up.
- Sealing. `MaxDAGs` is four: two epochs in two caches. With four workers,
  a DAG of three nodes has fewer nodes than workers, and one of nine leaves a rest;
  with one worker the OpenCL kernel is not shared.

### Deadlock

Checked for the validator, where some caller can always go on. Switched off
(`CHECK_DEADLOCK FALSE`) where the program may end: a search that has returned, a
node that has exited, servers that have stopped or used up their connections, a
process that is dead. There the liveness properties say what must have happened
before.

### Fairness

Weak fairness of every goroutine that can run: the Go scheduler does not starve
one. For the clock of a lone node: time passes. Strong fairness of a dial: it is
tried every two seconds, and a listener that keeps listening is reached some
time. Nothing is assumed of the network (`Break`), of a signal (`Stop`), of a
solution being found, or that a rewrite succeeds.

## What is proved

`ValidatorProofs` proves for every set of callers and blocks, every target space
and specification, with failing rewrites and restarts (`FlushResults`, `MayCrash`
arbitrary), about `Spec` of `Validator`:

- `TypeCorrect`, `Coherence`, `HeightsIndexed`, `OnlyValidChains`,
  `WorkIsExact`, `AckedSurvive` and the action property `FileGrows`.

They follow from one inductive invariant, `IInv`. The properties alone are not
inductive: that a stored block has a valid parent is only preserved because a caller
between validation and insertion still holds a true fact about the store. `IInv`
therefore adds that memory and the file are each consistent, that the file is a part of
memory (blocks, and their work), that acknowledged blocks are in the file, and that what
a caller in flight has found out is still true of memory: of a caller past validation,
that its header is valid; of one past the computation of its work, that the parent is
stored and the work is its sum; of one past the insertion, that its block is stored with
that work. The lemma `ChecksPersist` says why this is stable: all these facts are kept
by extensions of a store, and every action extends it, except a restart, which ends all
callers.

`SequentialProofs` assumes `OneCaller`, that at most one goroutine inserts. With
several the run `race` refutes what it proves: `TipIsBest`, `DiskTipImproves` and
`Implements`, that every behaviour of `InsertBlock` over the store is one of
`BestChain`. Its invariant adds that the caller's comparison is still true of the
tip. The refinement needs in addition that recorded work is true chain work (`RInv`).

`TakesEffectAtOnce` is about one call: although it consists of up to six steps, between
which the clock moves, a rewrite fails or the process is killed, it declines its block by
the chain and the time of one moment, or takes effect at one moment, and a restart finds
the chain before it, the chain with the block but no decision on it, or all of it. That
moment is the one of `StoreBlock`. The block was validated earlier, so the proof needs
that it still is valid then: its parent is still stored, and a timestamp that was not too
far ahead is not so later (`AInv`, with the clock). What the call decides afterwards it
decides on the tip of that moment, as nobody else moves it; with several callers the
run `race` shows that somebody does.

`ChainProofs` proves about every specification that passes `Spec.Validate` that the
size of a height is a positive number of whole nodes, fits a word, and is at most that
of the next height, although the sum saturates (`SizeOfHeight`); and that resolving a
specification for a height changes nothing about that height (`ResolvedSpecAgrees`).
Its lemmas say what storing a block and moving the tip do to a snapshot; the proofs
about `Validator`, `Node` and `Network` cite them. From the first two and `IInv` follow,
of all behaviours of `Validator`, that the sizes of stored chains fit
(`StoredSizesFit`: stored headers were validated) and that `colossusxverify` agrees with
the validator about every header (`VerifierIsRight`), in strict and in research mode,
where the runs have research mode only: with the options of the node if these say the
size or the mode is strict, and always when it is told in addition the initial size that
the node took. Without that it does not in research mode, see Findings.

`NodeProofs` carries this over to a whole node, with any number of connection handlers,
failing rewrites and restarts: `NodeTypeCorrect`, `NodeCoherence`,
`NodeStoresValidChains`, `NodeKeepsAcked` and `NodeFileGrows`, although `InitGenesis`
stores a block that nothing validated, and `MinedBlocksAreValid`: what peers insert
while a block is sealed cannot make it invalid. Its invariant `NInv` is `IInv` with what
the goroutine of `Run` knows at each of its places (`RunKnows`): which block `arg` is
and where it is stored, that only `InitGenesis` runs on an empty store, that a mined
block was sealed on a stored tip. Two theorems are about a node that mines alone,
whose block time is a second or more, and that is not restarted (`MinesAlone`):
`ChainOnTime`, that its tip is at most a second ahead of the clock, for every
resolution of the clock, and, when nothing fails either, `NodeGoesOn`: no block of its
own ends it. The invariant `OnTime` says by how much the tip may be ahead at each place
of `Run`. The run `node_drift` shows that the block time matters. So do restarts: each
may begin a block in the second of the last one, and gain another second on the clock.

Of a node without peers (`OneCaller`), restarts and failing rewrites included, it proves
what `SequentialProofs` proves of `InsertBlock` alone: `NodeTipIsBest` and
`NodeFollowsBestChain`. `InitGenesis` writes past `InsertBlock`: `StoreBlock` on an empty
store makes its block the tip, and `SetCurrentTip` does so again. The invariant
`GenesisFirst` says that at the first call there is no tip and at the second it is that
block, so that neither takes the place of a better one.

`NetworkProofs` proves of any number of nodes, bootnodes and connections, with any of
them broken and any node stopped at any time, `ServerTypeCorrect`, `PeersListed` and
`FewLeftBehind`. The invariant `ServerInv` adds that a dialLoop serves one connection at
a time (`OneConnection`), that an entry is listed under the address of its own end
(`EntryInv`), and that nobody is greeted before it is entered; so keys of served ends
differ (`KeysTell`), and an entry is neither replaced nor deleted by another connection.

`TwoNodesAgree` proves `Agreement` for two nodes (`TwoNodes`) of one network
(`OneNetwork`), for all blocks, heights, numbers of connections, and orders of mining,
announcing, reading, breaking and stopping, and for every interleaving of the steps of
`InsertBlock` in `Run` and the handlers of a node, on one condition: no call has
overwritten a better tip that another call set after it had compared. That does happen
(run `race`), so it is a condition on the run and not a fact about the program; a call
that makes its block the tip over one that lost to it anyway is not excluded. Without
it, or before the calls have ended, the claim is false.

Its invariant `AgreementInv` says: the tip of each node whose tips were not overwritten is
the best of its blocks but for those a call has stored and not yet decided on, the
comparison of a call still holds of the tip or has been overtaken by a better one, and
both nodes give a block the same work (`StoresInv`); a node announces only what it holds
(`AnnouncedInv`); while nobody stops, an end with unread messages is open, and the other
end is listed (`Intact`). What is on the way to a node by a connection, the block its
handler is inserting first and then those in its inbox (`Pending`, `Coming`), comes over
some connection with every block behind its parent, as long as nothing was lost
(`Covered`), and what a node builds on is held by the other one or on the way to it
(`Reaching`). `Covered` is the heart of it: a child that overtakes its parent on a second
connection, or is validated by one handler while another still inserts the parent, is
dropped, but comes again behind its parent. With three nodes, or two of different
networks, this fails, and so does `Agreement`: a third node that hears a child from the
second before it hears the parent from the first has nobody to hear it from again.

What holds of any number of nodes and networks, with breaking connections and stopped
nodes, is `TipsAgreeWhenHeld`: nodes that have inserted each other's tips have the same
tip, again but for nodes where a tip was overwritten. It rests on `StoresInv` alone, that
is, on work being a function of the block and the comparison being total, whatever the
order of arrival and whoever is in the middle of a call.

`lossless` says that every announcement found an open connection to the other node,
and that no connection ended with a block unread or being inserted.

`MinerProofs` proves about `Miner`, for every number of workers and every range of
nonces, `MinerTypeCorrect` (no nonce wraps around) and `MinedNonceSolves`: Mine
only returns a nonce that meets the target. The second assumes that the device
never fails to hash; the run `miner_device_failure` shows that it must. The
invariant `MInv` adds that from the hash until the message is sent a worker still
holds the nonce it has hashed.

It also proves that the search is complete (`SearchIsComplete`), counts each
hash once (`HashesAreCounted`), and solves what the batch search solves
(`BatchSearchAgrees`, on a device that does not fail). The argument of the first is one
of division: every nonce from the start on is the turn of exactly one worker, that of
its remainder by the number of workers; a worker has passed, of the nonces of its
turn, exactly those below its current one, without a solution among them
(`Progress`); it ends only past the range or after somebody found a solution
(`Ended`, `Shared`), and then a message is on its way before the channel closes.
`HashesAreCounted` needs the turns again: what two workers try is disjoint.

`DeviceProofs` proves that the search on an OpenCL device implements `Miner`
(`DeviceImplementsMiner`), so that its nonces solve and its search is complete too. It
assumes `KernelNotShared`, that one worker at most hashes with a kernel and that a
failing call is answered as `HashFailures` allows; the run `device_race` shows what
happens without the first. Its invariant says that what a worker has done for its call
so far (buffers, arguments, output) is still in force when it takes the next step.

`SealingProofs` proves every property of the run `sealing`, for every number of
handlers, epochs, nodes and workers: `CachesLead` (the type invariant and what the
caches promise), `DAGsReadWhole`, `DAGsInUseOpen`, `OneDAG`,
`StrictInDeviceMemory` and `SealedBlocksValid`. The last one says
of every configuration whether its blocks are valid: exactly those of strict mode with
metal, and of research mode without it, as far as the backend has computed their hash.
It has not where an OpenCL device refuses the DAG argument (in research mode too, the
answer is the zero hash), where strict mode may not fall back to the host, and where
several workers share the kernel of a device with SVM and one gets the hash of another's
nonce. Nothing else makes a backend whose algorithm is right seal an invalid block, and
without SVM nothing does in research mode. `DInv` adds what makes them stable:
the allocators of the strategy are live and, in strict mode, device allocators
(`StrategyResolved`), so validation always shares the DAGs of mining; every open
DAG is in the shared cache, so closing that cache when mining is configured closes
nobody's DAG, as no goroutine runs yet; and the backend was prepared for the DAG
it hashes with. The lemma `WorkersCoverDAG` shows that the workers of
`GenerateDAG` leave out no node, however the division falls.

`CachesAreATable` shows that the two caches, filled by two functions for three kinds of
users, implement `DAGTable`: nothing in it is replaced, or taken away before the process
is closed, and a user that reads what was taken away ends the process. It needs
besides `DInv` that there is no DAG before mining is configured (`TableInv`), as
`SetMiningBackend` closes those there are.

Assumptions are the ASSUMEs of the modules: what `Spec.Validate` checks, that
hashes are positive numbers, that headers have their types, and that `ChainWork`,
a constant, is the sum along a chain.

`NetworkAssumption` takes what the nodes start from to be valid blocks of height 0, which
`NodeProofs` shows of every genesis block that `InitGenesis` stores.

Every invariant and action property that a passing run checks is stated by a theorem.
Model-checked only are the liveness properties (`ChainGrows`, `MineReturns`,
`WorkersEnd`, `BootnodesRedialled`, `ServerStops`). Liveness under fairness and what a recursive definition yields for every input (chain
work as a sum over a chain of any length) stay with TLC in any case; the prover does
neither temporal reasoning about ENABLED nor induction over data here.

## Findings

1. `race`. `InsertBlock` compares with a tip and sets the tip under separate
   locks; with two inserters a worse block can replace a better tip.
2. `node_drift`. With a block time under a second, the default of the daemon among
   them, timestamps run ahead of the clock until the node rejects its own block.
   At 500ms a block the chain gains half a second on the clock with each, and so is
   two hours ahead after two hours of uptime if sealing takes no time; slower sealing
   puts it off, sealing of half a second prevents it.
3. `miner_device_failure`. An error of the device becomes a hash of zero and thus
   a solution.
4. `join`. Nodes started on empty directories have a genesis each.
5. `device_race`. The workers of a search set the arguments of one OpenCL kernel
   without a lock; one hashes with another's nonce, and Mine returns a nonce that does
   not solve. `SealBlock` calls `Mine` with a backend that has no batch path
   (`sealSkipPrepareBackend`), so every daemon with several workers on OpenCL with
   SVM is concerned: it refuses its own block when this happens, and `Run` ends with
   the error.

Observed while modelling, and without a run of its own:

- Strict mode with an OpenCL device seals with algorithm version 1, against
  DEVELOPER_NOTE.md:4 (its line 22 admits that the version 2 kernels are not wired
  in); a research node with metal seals version 2. Both reject their own blocks:
  `SealedBlockValid` states it, as an equivalence.
- A block on disk that a crash kept from being compared with the tip is not compared
  after the restart.
- Strict mode on a failing dispatch still reports the path `device-kernel`
  (README.md:160).
- Inbound entries of the `PeerSet` are never removed once the peer has said hello
  (`EntriesLeftBehind` says which entries stay); DAGs are never evicted.
- Handlers may read a DAG that `Close` has freed during shutdown.
- When an argument of the kernel cannot be set, the buffers of the call leak; every
  `Prepare` builds another OpenCL program and releases none.
- In research mode `colossusd` starts with a DAG of 8 MiB by default
  (`cmd/colossusd/main.go:129`), `colossusxverify` with 8 GiB: without explicit options
  the one refuses every header of the other. `VerifierAgrees` covers the verifier with
  the size said (`WithSize`); its guard leaves out exactly this case.
  `-initial-dag-mib 0` in strict mode is refused by the one and means the default to
  the other.
- The README's strict mode example with the unified backend is rejected by
  `ValidateStrictProductionConfig`.

## Not modelled

- The arithmetic of the hash functions and of the device kernels: sequential
  computation on bytes, which a model can only repeat.
- JSON and binary encodings (but see the hazards on float64 numbers and on an empty
  file), flags as text, `-header` and `-block` files, and output.
- Machine crashes that lose written files: the models have crashes of the process.
- Blocking of a `Send`. After the handshake a handler writes one pong per connection, so
  the writers are the mining loop and one status per hello, and no cycle of waits
  arises; a slow reader delays its sender for as long as it inserts.
- CUDA, in a build with its tag, and Metal beyond what `Backend` says of them; pinned
  memory.
- Status, ping and pong messages, which change no state that is read.
- The benchmark of the standalone miner; placeholders.
- A worker left over from a search that still hashes when the next search, or the end of
  the standalone miner, has come.

## Plan

The order was: store and chain selection, on which everything rests, with proofs;
the node around them; the search; server and network; sealing; the specification of
a chain and the stateless verifier; the search on a device. What is left:

1. Model: leftover workers across searches, composing `Device` with `Sealing`; a `Send`
   that may block.
2. Prove: which interleavings of several inserters keep the best tip; that a node
   implements `AtomicInsert` too, with what `InitGenesis` does as one more operation.
