---------------------------- MODULE DeviceProofs ----------------------------
(***************************************************************************)
(* Proofs that hashing on the device is hashing as long as one worker at   *)
(* most uses the kernel: module Device then implements module Miner, for   *)
(* every range of nonces, every target and every choice of the OpenCL      *)
(* calls that fail, and a search on a device keeps what module Miner       *)
(* promises.                                                               *)
(*                                                                         *)
(* The argument: from one call to the next, the arguments that have been   *)
(* set are those of the only caller, and so is the hash in its out buffer. *)
(***************************************************************************)
EXTENDS Device, MinerProofs

\* One worker at most hashes on a device, and what a failing call answers is
\* among the answers module Miner allows.
KernelNotShared ==
    \A j \in Jobs :
      \/ j.device = "none"
      \/ /\ j.workers = 1
         /\ FALSE \in HashFailures
         /\ TRUE \in HashFailures \/ (j.device # "strict" /\ "dag" \notin Failing)

-----------------------------------------------------------------------------
(* The inductive invariant.                                                *)

DeviceTypeOK ==
    /\ args \in [header : SUBSET Worker, nonce : SUBSET Nonce, out : SUBSET Worker]
    /\ call \in [Worker -> Stages]
    /\ live \subseteq Worker
    /\ out \in [Worker -> SUBSET Nonce]

\* What worker w has done for its call so far is still in force.
CallInForce(w) ==
    /\ call[w] \in {"header", "nonce", "out", "enqueue", "read"} => w \in live
    /\ call[w] \in {"nonce", "out", "enqueue", "read"} => args.header = {w}
    /\ call[w] \in {"out", "enqueue", "read"} => args.nonce = {nonce[w]}
    /\ call[w] \in {"enqueue", "read"} => args.out = {w}
    /\ call[w] = "read" => out[w] = {nonce[w]}

CallOK(w) ==
    /\ pc[w] # "done" => w < job.workers
    /\ pc[w] # "hash" \/ job.device = "none" => call[w] = "dag"
    /\ pc[w] = "hash" => CallInForce(w)

DeviceInv ==
    /\ TypeOK
    /\ DeviceTypeOK
    /\ \A w \in Worker : CallOK(w)

-----------------------------------------------------------------------------
LEMMA DeviceInvInit == DeviceInit => DeviceInv
<1> SUFFICES ASSUME DeviceInit PROVE DeviceInv
  OBVIOUS
<1>1. TypeOK
  BY TypeInit DEF DeviceInit
<1>2. DeviceTypeOK
  BY DEF DeviceInit, DeviceTypeOK, Stages
<1>3. ASSUME NEW w \in Worker PROVE CallOK(w)
  BY DEF DeviceInit, Init, CallOK
<1> QED BY <1>1, <1>2, <1>3 DEF DeviceInv

\* A worker that is in a call is the only one that is not done.
LEMMA OnlyCaller ==
    ASSUME KernelNotShared, DeviceInv, NEW w \in Worker, pc[w] = "hash",
           job.device # "none", NEW v \in Worker, v # w
    PROVE  pc[v] = "done"
<1>1. job.workers = 1
  BY DEF KernelNotShared, DeviceInv, TypeOK
<1>2. w < 1 /\ (pc[v] # "done" => v < 1)
  BY <1>1 DEF DeviceInv, CallOK
<1>3. v \in Nat /\ w \in Nat
  BY MinerAssumption DEF Worker
<1> QED BY <1>2, <1>3

\* The answer to a call is an answer of module Miner.
LEMMA AnswerIsHash ==
    ASSUME DeviceInv, NEW w \in Worker, pc[w] = "hash", NEW failed \in HashFailures,
           Answer(w, LessOrEqualBE(nonce[w], failed))
    PROVE  Hash(w, failed)
BY DEF Answer, Hash

LEMMA ReadIsHash ==
    ASSUME DeviceInv, NEW w \in Worker, ReadResult(w)
    PROVE  Hash(w, FALSE)
<1>1. pc[w] = "hash" /\ out[w] = {nonce[w]}
  BY DEF ReadResult, At, DeviceInv, CallOK, CallInForce
<1>2. (out[w] \subseteq job.good) = LessOrEqualBE(nonce[w], FALSE) /\ out[w] # {}
  BY <1>1 DEF LessOrEqualBE
<1>3. Answer(w, LessOrEqualBE(nonce[w], FALSE))
  BY <1>2 DEF ReadResult
<1> QED BY <1>1, <1>3 DEF Answer, Hash

LEMMA FailIsHash ==
    ASSUME KernelNotShared, DeviceInv, NEW w \in Worker, Fail(w)
    PROVE  \E failed \in HashFailures : Hash(w, failed)
<1> DEFINE failed == job.device = "strict" \/ call[w] = "dag"
<1>1. job \in Jobs /\ job.device # "none" /\ call[w] \in Failing
  BY DEF Fail, At, DeviceInv, TypeOK
<1>2. failed \in HashFailures
  <2>1. FALSE \in HashFailures /\ (TRUE \in HashFailures \/ ~failed)
    BY <1>1 DEF KernelNotShared
  <2>2. failed \in BOOLEAN
    OBVIOUS
  <2> QED BY <2>1, <2>2
<1>3. Answer(w, LessOrEqualBE(nonce[w], failed)) /\ pc[w] = "hash"
  BY DEF Fail, At
<1> QED BY <1>2, <1>3 DEF Answer, Hash

\* Each step of a call is a step of module Miner, or none.
LEMMA CallIsWork ==
    ASSUME KernelNotShared, DeviceInv, NEW w \in Worker, DeviceCall(w)
    PROVE  [Next]_vars
<1>1. CASE ReadResult(w)
  <2>1. FALSE \in HashFailures
    <3>1. job \in Jobs /\ job.device # "none"
      BY <1>1 DEF ReadResult, At, DeviceInv, TypeOK
    <3> QED BY <3>1 DEF KernelNotShared
  <2> QED BY <1>1, <2>1, ReadIsHash DEF Next, Work
<1>2. CASE Fail(w)
  BY <1>2, FailIsHash DEF Next, Work
<1>3. CASE ~ReadResult(w) /\ ~Fail(w)
  BY <1>3 DEF DeviceCall, SetDAG, CreateBuffers, SetHeader, SetNonce, SetOut,
              Enqueue, Proceed
<1> QED BY <1>1, <1>2, <1>3

LEMMA DeviceStepIsStep ==
    ASSUME KernelNotShared, DeviceInv, [DeviceNext]_<<vars, deviceVars>>
    PROVE  [Next]_vars
<1>1. ASSUME NEW w \in Worker, WorkOnHost(w) PROVE [Next]_vars
  BY <1>1 DEF WorkOnHost, HostStep, Next
<1>2. ASSUME NEW w \in Worker, DeviceCall(w) PROVE [Next]_vars
  BY <1>2, CallIsWork
<1>3. CASE HostStep(Close) \/ HostStep(Return)
  BY <1>3 DEF HostStep, Next
<1>4. CASE UNCHANGED <<vars, deviceVars>>
  BY <1>4
<1> QED BY <1>1, <1>2, <1>3, <1>4 DEF DeviceNext, DeviceWork

-----------------------------------------------------------------------------
\* A call of worker w changes nothing for the others, which are done.
LEMMA OthersCalls ==
    ASSUME KernelNotShared, DeviceInv, NEW w \in Worker, pc[w] = "hash",
           job.device # "none", NEW v \in Worker, v # w,
           job' = job, pc'[v] = pc[v], call'[v] = call[v]
    PROVE  CallOK(v)'
<1>1. pc[v] = "done"
  BY OnlyCaller
<1> QED BY <1>1 DEF DeviceInv, CallOK

\* The calls that set something up.
LEMMA SetUpStep ==
    ASSUME KernelNotShared, DeviceInv, NEW w \in Worker,
           \/ SetDAG(w) \/ CreateBuffers(w) \/ SetHeader(w) \/ SetNonce(w)
           \/ SetOut(w) \/ Enqueue(w)
    PROVE  DeviceInv'
<1>1. UNCHANGED vars /\ pc[w] = "hash" /\ job.device # "none"
  BY DEF SetDAG, CreateBuffers, SetHeader, SetNonce, SetOut, Enqueue, Proceed, At
<1>2. /\ job' = job /\ pc' = pc /\ nonce' = nonce
  BY <1>1 DEF vars
<1>3. TypeOK'
  BY <1>1, TypeStep DEF DeviceInv
<1>4. nonce[w] \in Nonce /\ CallInForce(w) /\ w < job.workers
  BY <1>1 DEF DeviceInv, TypeOK, CallOK
<1>5. call \in [Worker -> Stages] /\ out \in [Worker -> SUBSET Nonce]
  BY DEF DeviceInv, DeviceTypeOK
<1>6. CASE SetDAG(w)
  <2>1. DeviceTypeOK' /\ CallInForce(w)'
    BY <1>2, <1>4, <1>5, <1>6
       DEF SetDAG, Proceed, At, DeviceInv, DeviceTypeOK, CallInForce, Stages
  <2>2. \A v \in Worker : v # w => call'[v] = call[v]
    BY <1>5, <1>6 DEF SetDAG, Proceed
  <2>3. ASSUME NEW v \in Worker PROVE CallOK(v)'
    BY <1>1, <1>2, <1>4, <2>1, <2>2, OthersCalls DEF CallOK
  <2> QED BY <1>3, <2>1, <2>3 DEF DeviceInv
<1>7. CASE CreateBuffers(w)
  <2>1. DeviceTypeOK' /\ CallInForce(w)'
    BY <1>2, <1>4, <1>5, <1>7
       DEF CreateBuffers, Proceed, At, DeviceInv, DeviceTypeOK, CallInForce, Stages
  <2>2. \A v \in Worker : v # w => call'[v] = call[v]
    BY <1>5, <1>7 DEF CreateBuffers, Proceed
  <2>3. ASSUME NEW v \in Worker PROVE CallOK(v)'
    BY <1>1, <1>2, <1>4, <2>1, <2>2, OthersCalls DEF CallOK
  <2> QED BY <1>3, <2>1, <2>3 DEF DeviceInv
<1>8. CASE SetHeader(w)
  <2>1. DeviceTypeOK' /\ CallInForce(w)'
    BY <1>2, <1>4, <1>5, <1>8
       DEF SetHeader, Proceed, At, DeviceInv, DeviceTypeOK, CallInForce, Stages
  <2>2. \A v \in Worker : v # w => call'[v] = call[v]
    BY <1>5, <1>8 DEF SetHeader, Proceed
  <2>3. ASSUME NEW v \in Worker PROVE CallOK(v)'
    BY <1>1, <1>2, <1>4, <2>1, <2>2, OthersCalls DEF CallOK
  <2> QED BY <1>3, <2>1, <2>3 DEF DeviceInv
<1>9. CASE SetNonce(w)
  <2>1. DeviceTypeOK' /\ CallInForce(w)'
    BY <1>2, <1>4, <1>5, <1>9
       DEF SetNonce, Proceed, At, DeviceInv, DeviceTypeOK, CallInForce, Stages
  <2>2. \A v \in Worker : v # w => call'[v] = call[v]
    BY <1>5, <1>9 DEF SetNonce, Proceed
  <2>3. ASSUME NEW v \in Worker PROVE CallOK(v)'
    BY <1>1, <1>2, <1>4, <2>1, <2>2, OthersCalls DEF CallOK
  <2> QED BY <1>3, <2>1, <2>3 DEF DeviceInv
<1>10. CASE SetOut(w)
  <2>1. DeviceTypeOK' /\ CallInForce(w)'
    BY <1>2, <1>4, <1>5, <1>10
       DEF SetOut, Proceed, At, DeviceInv, DeviceTypeOK, CallInForce, Stages
  <2>2. \A v \in Worker : v # w => call'[v] = call[v]
    BY <1>5, <1>10 DEF SetOut, Proceed
  <2>3. ASSUME NEW v \in Worker PROVE CallOK(v)'
    BY <1>1, <1>2, <1>4, <2>1, <2>2, OthersCalls DEF CallOK
  <2> QED BY <1>3, <2>1, <2>3 DEF DeviceInv
<1>11. CASE Enqueue(w)
  <2>1. call[w] = "enqueue" /\ call' = [call EXCEPT ![w] = "read"]
    BY <1>11 DEF Enqueue, Proceed, At
  <2>2. out'[w] = {nonce[w]} /\ out' \in [Worker -> SUBSET Nonce]
    BY <1>4, <1>5, <1>11, <2>1
       DEF Enqueue, CallInForce, DeviceInv, DeviceTypeOK
  <2>3. DeviceTypeOK' /\ CallInForce(w)'
    BY <1>2, <1>4, <1>5, <1>11, <2>1, <2>2
       DEF Enqueue, DeviceInv, DeviceTypeOK, CallInForce, Stages
  <2>4. \A v \in Worker : v # w => call'[v] = call[v]
    BY <1>5, <2>1
  <2>5. ASSUME NEW v \in Worker PROVE CallOK(v)'
    BY <1>1, <1>2, <1>4, <2>3, <2>4, OthersCalls DEF CallOK
  <2> QED BY <1>3, <2>3, <2>5 DEF DeviceInv
<1> QED BY <1>6, <1>7, <1>8, <1>9, <1>10, <1>11

\* The calls that answer.
LEMMA AnswerStep ==
    ASSUME KernelNotShared, DeviceInv, NEW w \in Worker, ReadResult(w) \/ Fail(w)
    PROVE  DeviceInv'
<1>1. TypeOK'
  BY CallIsWork, TypeStep DEF DeviceInv, DeviceCall
<1>2. pc[w] = "hash" /\ job.device # "none" /\ w < job.workers
  BY DEF ReadResult, Fail, At, DeviceInv, CallOK
<1>3. PICK meets : Answer(w, meets)
  BY DEF ReadResult, Fail
<1>4. /\ pc' = [pc EXCEPT ![w] = "count"] /\ call' = [call EXCEPT ![w] = "dag"]
      /\ UNCHANGED <<job, args, out>>
  BY <1>3 DEF Answer, Goto
<1>5. live' \subseteq live
  BY DEF ReadResult, Fail
<1>6. DeviceTypeOK'
  BY <1>4, <1>5 DEF DeviceInv, DeviceTypeOK, Stages
<1>7. pc'[w] = "count" /\ call'[w] = "dag"
  BY <1>4 DEF DeviceInv, TypeOK, DeviceTypeOK
<1>8. \A v \in Worker : v # w => pc'[v] = pc[v] /\ call'[v] = call[v]
  BY <1>4 DEF DeviceInv, TypeOK, DeviceTypeOK
<1>9. ASSUME NEW v \in Worker PROVE CallOK(v)'
  <2>1. CASE v = w
    BY <1>2, <1>4, <1>7, <2>1 DEF CallOK
  <2>2. CASE v # w
    BY <1>2, <1>4, <1>8, <2>2, OthersCalls
  <2> QED BY <2>1, <2>2
<1> QED BY <1>1, <1>6, <1>9 DEF DeviceInv

\* A worker that does host work changes nothing for the others, and enters its
\* next hash from "check".
LEMMA WorkFrame ==
    ASSUME TypeOK, NEW w \in Worker, Work(w)
    PROVE  /\ job' = job /\ pc[w] # "done"
           /\ \A v \in Worker : v # w => pc'[v] = pc[v] /\ nonce'[v] = nonce[v]
           /\ pc'[w] = "hash" => pc[w] = "check"
<1>1. CASE Start(w)
  <2>1. MoveOn(w, w) /\ w \in Nat
    BY <1>1, MinerAssumption DEF Start, Worker
  <2>2. /\ pc' = [pc EXCEPT ![w] = pc'[w]] /\ pc'[w] \in {"check", "done"}
        /\ nonce' = [nonce EXCEPT ![w] = nonce'[w]]
    BY <2>1, MoveOnType
  <2> QED BY <1>1, <2>2 DEF Start, TypeOK
<1>2. CASE Check(w)
  BY <1>2 DEF Check, Goto, TypeOK
<1>3. CASE \E failed \in HashFailures : Hash(w, failed)
  BY <1>3 DEF Hash, Goto, TypeOK
<1>4. CASE Count(w)
  <2>1. CASE met[w]
    BY <1>4, <2>1 DEF Count, Goto, TypeOK
  <2>2. CASE ~met[w]
    <3>1. MoveOn(w, job.workers) /\ job.workers \in Nat
      BY <1>4, <2>2, WorkersType DEF Count
    <3>2. /\ pc' = [pc EXCEPT ![w] = pc'[w]] /\ pc'[w] \in {"check", "done"}
          /\ nonce' = [nonce EXCEPT ![w] = nonce'[w]]
      BY <3>1, MoveOnType
    <3> QED BY <1>4, <3>2 DEF Count, TypeOK
  <2> QED BY <2>1, <2>2
<1>5. CASE Claim(w) \/ Send(w) \/ Cancel(w)
  BY <1>5 DEF Claim, Send, Cancel, Goto, TypeOK
<1> QED BY <1>1, <1>2, <1>3, <1>4, <1>5 DEF Work

LEMMA HostWorkStep ==
    ASSUME DeviceInv, NEW w \in Worker, WorkOnHost(w), TypeOK'
    PROVE  DeviceInv'
<1>1. Work(w) /\ UNCHANGED deviceVars /\ (pc[w] = "hash" => job.device = "none")
  BY DEF WorkOnHost, HostStep
<1>2. /\ job' = job /\ pc[w] # "done"
      /\ \A v \in Worker : v # w => pc'[v] = pc[v] /\ nonce'[v] = nonce[v]
      /\ pc'[w] = "hash" => pc[w] = "check"
  BY <1>1, WorkFrame DEF DeviceInv
<1>3. DeviceTypeOK'
  BY <1>1 DEF deviceVars, DeviceInv, DeviceTypeOK
<1>4. ASSUME NEW v \in Worker PROVE CallOK(v)'
  <2>1. CASE v = w
    <3>1. w < job.workers
      BY <1>2 DEF DeviceInv, CallOK
    <3>2. call'[w] = "dag"
      <4>1. CASE pc[w] # "hash"
        BY <1>1, <4>1 DEF deviceVars, DeviceInv, CallOK
      <4>2. CASE pc[w] = "hash"
        BY <1>1, <4>2 DEF deviceVars, DeviceInv, CallOK
      <4> QED BY <4>1, <4>2
    <3> QED BY <1>2, <2>1, <3>1, <3>2 DEF CallOK, CallInForce
  <2>2. CASE v # w
    <3>1. pc'[v] = pc[v] /\ nonce'[v] = nonce[v] /\ CallOK(v)
      BY <1>2, <2>2 DEF DeviceInv
    <3> QED BY <1>1, <1>2, <3>1 DEF CallOK, CallInForce, deviceVars
  <2> QED BY <2>1, <2>2
<1> QED BY <1>3, <1>4 DEF DeviceInv

LEMMA DeviceInvStep ==
    ASSUME KernelNotShared, DeviceInv, [DeviceNext]_<<vars, deviceVars>>
    PROVE  DeviceInv'
<1>0. TypeOK'
  BY DeviceStepIsStep, TypeStep DEF DeviceInv
<1>1. ASSUME NEW w \in Worker, WorkOnHost(w) PROVE DeviceInv'
  BY <1>0, <1>1, HostWorkStep
<1>2. ASSUME NEW w \in Worker, DeviceCall(w) PROVE DeviceInv'
  BY <1>2, SetUpStep, AnswerStep DEF DeviceCall
<1>3. CASE HostStep(Close) \/ HostStep(Return) \/ UNCHANGED <<vars, deviceVars>>
  <2>1. UNCHANGED <<job, pc, nonce, deviceVars>>
    BY <1>3 DEF HostStep, Close, Return, vars
  <2>2. DeviceTypeOK'
    BY <2>1 DEF deviceVars, DeviceInv, DeviceTypeOK
  <2>3. ASSUME NEW w \in Worker PROVE CallOK(w)'
    BY <2>1 DEF deviceVars, DeviceInv, CallOK, CallInForce
  <2> QED BY <1>0, <2>2, <2>3 DEF DeviceInv
<1> QED BY <1>1, <1>2, <1>3 DEF DeviceNext, DeviceWork

-----------------------------------------------------------------------------
\* While one worker at most hashes on a device, a search there is a search of
\* module Miner: every answer of GPUBackend.Hash is the hash of the nonce it
\* was asked for, computed on the device or, where a call fails, on the host.
\* With two workers the run device_race refutes it.
THEOREM DeviceImplementsMiner ==
    ASSUME KernelNotShared
    PROVE  DeviceSpec => ImplementsMiner
<1>1. DeviceInit => Init
  BY DEF DeviceInit
<1>2. DeviceInv /\ [DeviceNext]_<<vars, deviceVars>> => DeviceInv'
  BY DeviceInvStep
<1>3. DeviceInv /\ [DeviceNext]_<<vars, deviceVars>> => [Next]_vars
  BY DeviceStepIsStep
<1> QED BY DeviceInvInit, <1>1, <1>2, <1>3, PTL DEF DeviceSpec, ImplementsMiner, Spec

\* So the nonce that a search on a device returns meets the target, when no
\* call can fail whose failure is answered with the zero result.
THEOREM DeviceNonceSolves ==
    ASSUME KernelNotShared, HashFailures = {FALSE}
    PROVE  DeviceSpec => []ResultSolves
<1>1. DeviceSpec => Spec
  BY DeviceImplementsMiner DEF ImplementsMiner
<1> QED BY <1>1, MinedNonceSolves, PTL

\* And a search on a device leaves no nonce of its range out.
THEOREM DeviceSearchIsComplete ==
    ASSUME KernelNotShared
    PROVE  DeviceSpec => []SearchIsExact
<1>1. DeviceSpec => Spec
  BY DeviceImplementsMiner DEF ImplementsMiner
<1> QED BY <1>1, SearchIsComplete, PTL
=============================================================================
