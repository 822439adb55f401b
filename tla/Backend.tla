------------------------------ MODULE Backend -------------------------------
(***************************************************************************)
(* The mining backends and where they put the DAG: package miner at the    *)
(* root of the repository, in a build without the cuda tag.                *)
(*                                                                         *)
(* A configuration c has the program, its flags and what the machine is:   *)
(*   c.program   the node daemon or the standalone miner                   *)
(*   c.mode      -mode                                                     *)
(*   c.backend   -miner-backend or -backend                                *)
(*   c.dagAlloc  -miner-dag-alloc or -dag-alloc                            *)
(*   c.opencl    "missing", or a device without SVM, with SVM buffers, or  *)
(*               with SVM of the whole host memory ("system")              *)
(*   c.workers   -workers                                                  *)
(* An error is an empty strategy, no allocator, or FALSE.                  *)
(***************************************************************************)
EXTENDS Naturals, Sequences

BackendMode == {"cpu", "unified", "opencl", "gpu", "cuda", "metal"}
Allocators == {"cuda-managed", "opencl-svm", "metal-shared", "pinned-host", "go-heap"}
DeviceAllocators == {"cuda-managed", "opencl-svm", "metal-shared"}

Config(workers) ==
    [program : {"colossusd", "colossusx"}, mode : {"strict", "research"},
     backend : BackendMode, dagAlloc : {"auto"} \cup Allocators,
     opencl : {"missing", "device", "svm", "system"}, workers : workers]

\* NewBackend returns a GPUBackend for three of the names.
IsGPU(c) == c.backend \in {"opencl", "gpu", "cuda"}
SupportsSVM(c) == c.opencl \in {"svm", "system"}

ValidateStrictProductionConfig(c) ==
    c.mode = "strict" => /\ c.backend \in {"cuda", "opencl", "metal"}
                         /\ c.dagAlloc \in {"auto"} \cup DeviceAllocators

InitializeBackendRuntime(c) == IsGPU(c) => c.opencl # "missing"

\* The device allocators whose runtime the backend has brought up.  There is
\* never a CUDA device, and the Metal backend always finds its own.
Live(c) ==
    (IF IsGPU(c) /\ c.opencl # "missing" THEN {"opencl-svm"} ELSE {})
      \cup (IF c.backend = "metal" THEN {"metal-shared"} ELSE {})

-----------------------------------------------------------------------------
(***************************************************************************)
(* A strategy is the sequence of allocators that are tried in turn.        *)
(***************************************************************************)
\* One allocator by name, if it is among those there are.
Named(allocator, known) == IF allocator \in known THEN <<allocator>> ELSE <<>>

\* Mutant of autoStrictStrategies: strict mode falls back to the heap too.
autoStrictStrategiesAndHeap(c) ==
    Named("cuda-managed", Live(c)) \o Named("opencl-svm", Live(c))
      \o Named("metal-shared", Live(c)) \o <<"go-heap">>

autoStrictStrategies(c) ==
    Named("cuda-managed", Live(c)) \o Named("opencl-svm", Live(c))
      \o Named("metal-shared", Live(c))

autoResearchStrategies(c) == Append(autoStrictStrategies(c), "go-heap")

\* Research mode does not know the name "metal-shared".
ResolveDAGStrategyForMode(c) ==
    CASE c.mode = "strict" /\ c.dagAlloc = "auto" -> autoStrictStrategies(c)
      [] c.mode = "strict" /\ c.dagAlloc # "auto" -> Named(c.dagAlloc, Live(c))
      [] c.mode = "research" /\ c.dagAlloc = "auto" -> autoResearchStrategies(c)
      [] c.mode = "research" /\ c.dagAlloc # "auto" ->
           Named(c.dagAlloc, {"go-heap", "pinned-host"} \cup (Live(c) \ {"metal-shared"}))

\* Alloc of the strategy: the first allocator that has the memory, if any.
\* "full" tells that the OpenCL device has no room for this DAG.
Alloc(c, strategy, full) ==
    LET fits(i) == strategy[i] = "opencl-svm" => SupportsSVM(c) /\ ~full
    IN  {strategy[i] : i \in {k \in 1..Len(strategy) :
                                fits(k) /\ \A j \in 1..(k - 1) : ~fits(j)}}

\* Mutant of canValidationReuseMiningDAG: a strategy of several allocators,
\* which has no opinion of its own, is not recognised by its name.
canValidationReuseMiningDAGNamed(c, strategy) ==
    c.dagAlloc # "auto" /\ \A i \in 1..Len(strategy) :
      strategy[i] \in DeviceAllocators => strategy[i] \in Live(c)

\* An allocator says so itself; "auto" is known by its name.
canValidationReuseMiningDAG(c, strategy) ==
    c.dagAlloc = "auto" \/ \A i \in 1..Len(strategy) :
      strategy[i] \in DeviceAllocators => strategy[i] \in Live(c)

-----------------------------------------------------------------------------
(***************************************************************************)
(* Filling and hashing a DAG.  A hash is known by its algorithm and by the *)
(* DAG it reads: the epoch it was generated for, by which generator, and   *)
(* the nodes that were written.                                            *)
(***************************************************************************)
\* Mutant of GenerateDAG: the last worker takes no more than a chunk.
GenerateDAGEvenly(nodeCount, workers) ==
    LET chunk == IF nodeCount < workers THEN 1 ELSE nodeCount \div workers
    IN  {i \in 0..(nodeCount - 1) : i < workers * chunk}

\* Worker w writes a chunk of nodes, the last one all that are left.
GenerateDAG(nodeCount, workers) ==
    LET chunk == IF nodeCount < workers THEN 1 ELSE nodeCount \div workers
        end(w) == IF w = workers - 1 THEN nodeCount ELSE (w + 1) * chunk
    IN  UNION {{i \in 0..(nodeCount - 1) : w * chunk <= i /\ i < end(w)} :
                 w \in 0..(workers - 1)}

\* The tensor DAG of strict mode is written in one pass.
GenerateTensorDAG(nodeCount) == 0..(nodeCount - 1)

PopulateDAG(c, nodeCount) ==
    IF c.mode = "strict" THEN GenerateTensorDAG(nodeCount)
                         ELSE GenerateDAG(nodeCount, c.workers)

LatticeHash(dag) == [algorithm |-> "lattice", epoch |-> dag.epoch, nodes |-> dag.nodes]
StrictV2Hash(dag) == [algorithm |-> "strict-v2", epoch |-> dag.epoch, nodes |-> dag.nodes]

\* The zero HashResult.
NoHash == [algorithm |-> "none", epoch |-> 0, nodes |-> {}]

\* The hash of a nonce other than the one asked for, or what a buffer holds
\* that no kernel has written to.
StrayHash == [algorithm |-> "stray", epoch |-> 0, nodes |-> {}]

\* Whether the OpenCL backend takes a DAG of this allocator: it hands the
\* memory to the kernel wherever the device has SVM, and has no other use for
\* the device.
OpenCLPrepare(c, alloc) == c.opencl = "svm" => alloc = "opencl-svm"

MetalPrepare(c, alloc) == c.mode = "strict" => alloc = "metal-shared"

PrepareAccepts(c, alloc) ==
    /\ IsGPU(c) => OpenCLPrepare(c, alloc)
    /\ c.backend = "metal" => MetalPrepare(c, alloc)

\* The calls of a device that may fail: setting the DAG argument of the kernel,
\* and those of HashBatchOpenCL.
Failure == {"none", "argument", "kernel"}

\* The kernel computes the lattice hash.  The one kernel object has the
\* arguments of whichever worker set them last (module Device).
HashBatchOpenCL(c, dag) ==
    {LatticeHash(dag)} \cup (IF c.workers > 1 THEN {StrayHash} ELSE {})

\* Where there is no SVM, or the kernel fails, the host hashes, except in
\* strict mode.  That, and in either mode a DAG argument that could not be set,
\* is an error and hence the zero HashResult.
Dispatch(c, dag, failure) ==
    CASE SupportsSVM(c) /\ failure = "none" -> HashBatchOpenCL(c, dag)
      [] SupportsSVM(c) /\ failure = "argument" -> {NoHash}
      [] ~SupportsSVM(c) \/ failure = "kernel" ->
           {IF c.mode = "strict" THEN NoHash ELSE LatticeHash(dag)}

\* The hashes the mining backend may answer with: the CPU and unified backends
\* read the DAG they were prepared for, the others the one they are given.
MiningHashes(c, prepared, dag, failure) ==
    IF IsGPU(c) THEN Dispatch(c, dag, failure)
    ELSE IF c.backend = "metal" THEN {StrictV2Hash(dag)}
                                ELSE {LatticeHash(prepared)}

\* The hash of the validator's own CPU backend: by the chain's algorithm
\* version, which is 2 in strict mode and 1 in research mode.
ValidationHash(c, dag) ==
    IF c.mode = "strict" THEN StrictV2Hash(dag) ELSE LatticeHash(dag)
=============================================================================
