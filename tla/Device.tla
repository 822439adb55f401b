------------------------------- MODULE Device -------------------------------
(***************************************************************************)
(* The search on an OpenCL device with shared virtual memory: what happens *)
(* between the call of GPUBackend.Hash and its answer.                     *)
(*                                                                         *)
(* There is one kernel object per backend, and every worker calls          *)
(* colossusx_opencl_enqueue_shared_hash with it: it makes two buffers,     *)
(* sets the arguments of the kernel one by one, enqueues it, waits, reads  *)
(* its out buffer, and releases both.  No lock spans these calls.          *)
(*                                                                         *)
(* The header buffers of one search have the same contents; that of a      *)
(* worker stands for both of its buffers.  Sets of at most one element     *)
(* stand for values that may be unset.                                     *)
(***************************************************************************)
EXTENDS Miner

Stages == {"dag", "create", "header", "nonce", "out", "enqueue", "read"}

CONSTANT Failing    \* the stages whose OpenCL calls may fail

ASSUME DeviceAssumption == Failing \subseteq Stages

VARIABLES
    args,           \* the arguments of the kernel that differ from call to call
    call,           \* the stage of each worker's call
    live,           \* the workers whose buffers exist
    out             \* the nonce whose hash each out buffer holds

deviceVars == <<args, call, live, out>>

DeviceInit ==
    /\ Init
    /\ args = [header |-> {}, nonce |-> {}, out |-> {}]
    /\ call = [w \in Worker |-> "dag"]
    /\ live = {}
    /\ out = [w \in Worker |-> {}]

-----------------------------------------------------------------------------
At(w, stage) == pc[w] = "hash" /\ job.device # "none" /\ call[w] = stage

Proceed(w, stage) == call' = [call EXCEPT ![w] = stage] /\ UNCHANGED vars

\* Dispatch sets the DAG argument, to the same memory every time.
SetDAG(w) ==
    /\ At(w, "dag") /\ Proceed(w, "create")
    /\ UNCHANGED <<args, live, out>>

CreateBuffers(w) ==
    /\ At(w, "create") /\ Proceed(w, "header")
    /\ live' = live \cup {w}
    /\ out' = [out EXCEPT ![w] = {}]
    /\ UNCHANGED args

SetHeader(w) ==
    /\ At(w, "header") /\ Proceed(w, "nonce")
    /\ args' = [args EXCEPT !.header = {w}]
    /\ UNCHANGED <<live, out>>

\* Mutant of SetNonce: an argument that is set is not set again.
SetNonceOnce(w) ==
    /\ At(w, "nonce") /\ Proceed(w, "out")
    /\ args' = [args EXCEPT !.nonce = IF @ = {} THEN {nonce[w]} ELSE @]
    /\ UNCHANGED <<live, out>>

\* Arguments 2 to 6, of which the start nonce differs between workers.
SetNonce(w) ==
    /\ At(w, "nonce") /\ Proceed(w, "out")
    /\ args' = [args EXCEPT !.nonce = {nonce[w]}]
    /\ UNCHANGED <<live, out>>

SetOut(w) ==
    /\ At(w, "out") /\ Proceed(w, "enqueue")
    /\ args' = [args EXCEPT !.out = {w}]
    /\ UNCHANGED <<live, out>>

\* The kernel runs with the arguments of this moment, whoever set them; a
\* header that has been released makes a hash of anything.
Enqueue(w) ==
    /\ At(w, "enqueue") /\ Proceed(w, "read")
    /\ out' = [v \in Worker |->
                 IF v \in args.out \cap live
                 THEN IF args.header \subseteq live THEN args.nonce ELSE {}
                 ELSE out[v]]
    /\ UNCHANGED <<args, live>>

\* Hash returns, and the next call will start over.
Answer(w, meets) ==
    /\ met' = [met EXCEPT ![w] = meets]
    /\ tried' = tried \cup {nonce[w]}
    /\ Goto(w, "count")
    /\ call' = [call EXCEPT ![w] = "dag"]
    /\ UNCHANGED <<job, nonce, totalHashes, sharedVars, args, out>>

\* A buffer the kernel did not write to holds anything.
ReadResult(w) ==
    /\ At(w, "read")
    /\ \E junk \in BOOLEAN :
         Answer(w, IF out[w] = {} THEN junk ELSE out[w] \subseteq job.good)
    /\ live' = live \ {w}

\* An OpenCL call fails.  The host hashes instead, except in strict mode and
\* when the DAG argument could not be set: then Hash answers with the zero
\* HashResult.  After arguments 2 to 6 the buffers are not released.
Fail(w) ==
    /\ At(w, call[w]) /\ call[w] \in Failing
    /\ Answer(w, LessOrEqualBE(nonce[w], job.device = "strict" \/ call[w] = "dag"))
    /\ live' = IF call[w] = "nonce" THEN live ELSE live \ {w}

DeviceCall(w) ==
    \/ SetDAG(w)
    \/ CreateBuffers(w)
    \/ SetHeader(w)
    \/ SetNonce(w)
    \/ SetOut(w)
    \/ Enqueue(w)
    \/ ReadResult(w)
    \/ Fail(w)

\* What does not concern the device.
HostStep(A) == A /\ UNCHANGED deviceVars

WorkOnHost(w) == HostStep(Work(w)) /\ (pc[w] = "hash" => job.device = "none")

DeviceWork(w) == WorkOnHost(w) \/ DeviceCall(w)

DeviceNext ==
    \/ \E w \in Worker : DeviceWork(w)
    \/ HostStep(Close)
    \/ HostStep(Return)

DeviceSpec == DeviceInit /\ [][DeviceNext]_<<vars, deviceVars>>

\* Every goroutine that can run is eventually scheduled.
FairDeviceSpec ==
    /\ DeviceSpec
    /\ \A w \in Worker : WF_<<vars, deviceVars>>(DeviceWork(w))
    /\ WF_<<vars, deviceVars>>(HostStep(Close))
    /\ WF_<<vars, deviceVars>>(HostStep(Return))

-----------------------------------------------------------------------------
\* Hashing on the device is hashing: when one worker at most uses a kernel,
\* each answer is the hash of the nonce that was asked for, on the device or,
\* where a call fails, on the host, and the search is the one of module Miner.
ImplementsMiner == Spec
=============================================================================
