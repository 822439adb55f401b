------------------------------- MODULE MCMiner -------------------------------
(***************************************************************************)
(* Searches for TLC: every start, every bound up to past the end of the    *)
(* nonces, every set of at most three solutions; on the host with every    *)
(* number of workers, on a device with one or two.                         *)
(***************************************************************************)
EXTENDS Device

CONSTANT MaxBound

JobsOn(devices, workers) ==
    [start : Nonce, maxNonces : 0..MaxBound, workers : workers, device : devices,
     good : {S \in SUBSET Nonce : Cardinality(S) <= 3}]

SafeJobs == JobsOn({"none"}, 1..NumWorkers) \cup JobsOn({"research"}, {1})
StrictJobs == JobsOn({"strict"}, {1})
SharedKernelJobs == JobsOn({"research"}, {2})

\* The calls whose failure research mode answers by hashing on the host.
Replaceable == Stages \ {"dag"}
=============================================================================
