-------------------------------- MODULE Miner --------------------------------
(***************************************************************************)
(* colossusx.Miner.Mine: the search for a nonce.                           *)
(*                                                                         *)
(* Worker w tries the nonces start+w, start+w+W, start+w+2W, ... of the    *)
(* range.  The first one whose hash meets the target claims "found" with a *)
(* compare-and-swap, sends it on a channel of capacity one and cancels the *)
(* context.  A further goroutine closes the channel once every worker has  *)
(* ended, and Mine returns what the channel gives it first.                *)
(*                                                                         *)
(* "tried" is history: the nonces that have been hashed.                   *)
(***************************************************************************)
EXTENDS Naturals, FiniteSets

CONSTANTS
    MaxNonce,       \* the largest nonce: 2^64-1
    NumWorkers,     \* the largest number of workers
    DefaultBatch,   \* what mineBatch takes a bound of 0 for: 100000
    Jobs,           \* the searches asked for: see Job
    HashFailures    \* {FALSE}, or BOOLEAN when the device may fail to hash

Nonce == 0..MaxNonce
Worker == 0..(NumWorkers - 1)

\* A call of Mine: where to start, how many nonces to try (0 for no bound),
\* m.workers, what hashes, which matters to module Device only, and, instead
\* of header, DAG and target, the nonces that meet the target.
Job == [start : Nonce, maxNonces : Nat, workers : 1..NumWorkers,
        device : {"none", "research", "strict"}, good : SUBSET Nonce]

ASSUME MinerAssumption ==
    /\ MaxNonce \in Nat
    /\ NumWorkers \in Nat \ {0}
    /\ DefaultBatch \in Nat \ {0}
    /\ Jobs \subseteq Job
    /\ HashFailures \subseteq BOOLEAN

VARIABLES
    job,            \* the arguments of the call
    pc,             \* where each worker is
    nonce,          \* the worker's current nonce
    met,            \* whether the worker's last hash met the target
    found,          \* the flag the workers compete for
    cancelled,      \* ctx is cancelled
    resultCh,       \* the messages in the channel, at most one
    closed,         \* the channel is closed
    totalHashes,
    tried,
    returned,       \* Mine has returned
    result          \* the nonce it returned; empty: no solution

vars == <<job, pc, nonce, met, found, cancelled, resultCh, closed,
          totalHashes, tried, returned, result>>

-----------------------------------------------------------------------------
\* Mutants of AddUint64: no guard; a guard that gives up one nonce too early.
AddUint64Unguarded(n, delta) == {n + delta}
AddUint64Early(n, delta) == IF MaxNonce - n <= delta THEN {} ELSE {n + delta}

\* The sum, or nothing when it would not fit a machine word.
AddUint64(n, delta) == IF MaxNonce - n < delta THEN {} ELSE {n + delta}

\* Mutant of InRange: one nonce too many.
InRangeOneMore(n) ==
    n >= job.start /\ (job.maxNonces > 0 => n - job.start <= job.maxNonces)

\* The nonces Mine was asked to try.
InRange(n) ==
    n >= job.start /\ (job.maxNonces > 0 => n - job.start < job.maxNonces)

\* The hash is compared with the target.  A backend that could not hash has
\* answered with the zero HashResult, and zero is within every target.
LessOrEqualBE(n, failed) == failed \/ n \in job.good

Init ==
    /\ job \in Jobs
    /\ pc = [w \in Worker |-> IF w < job.workers THEN "start" ELSE "done"]
    /\ nonce = [w \in Worker |-> job.start]
    /\ met = [w \in Worker |-> FALSE]
    /\ found = FALSE /\ cancelled = FALSE
    /\ resultCh = {} /\ closed = FALSE
    /\ totalHashes = 0 /\ tried = {}
    /\ returned = FALSE /\ result = {}

Goto(w, l) == pc' = [pc EXCEPT ![w] = l]

sharedVars == <<found, cancelled, resultCh, closed, returned, result>>

\* The worker moves by delta, or ends at the end of the nonces.
MoveOn(w, delta) ==
    LET next == AddUint64(nonce[w], delta)
    IN  IF next = {}
        THEN Goto(w, "done") /\ UNCHANGED nonce
        ELSE Goto(w, "check") /\ \E n \in next : nonce' = [nonce EXCEPT ![w] = n]

\* Mutant of Start: the workers do not spread out.
StartTogether(w) ==
    /\ pc[w] = "start"
    /\ MoveOn(w, 0)
    /\ UNCHANGED <<job, met, totalHashes, tried, sharedVars>>

Start(w) ==
    /\ pc[w] = "start"
    /\ MoveOn(w, w)
    /\ UNCHANGED <<job, met, totalHashes, tried, sharedVars>>

Check(w) ==
    /\ pc[w] = "check"
    /\ Goto(w, IF cancelled \/ found \/ ~InRange(nonce[w]) THEN "done" ELSE "hash")
    /\ UNCHANGED <<job, nonce, met, totalHashes, tried, sharedVars>>

Hash(w, failed) ==
    /\ pc[w] = "hash"
    /\ met' = [met EXCEPT ![w] = LessOrEqualBE(nonce[w], failed)]
    /\ tried' = tried \cup {nonce[w]}
    /\ Goto(w, "count")
    /\ UNCHANGED <<job, nonce, totalHashes, sharedVars>>

\* Mutant of Count: the worker moves on before it looks at the hash.
CountMovesFirst(w) ==
    /\ pc[w] = "count"
    /\ totalHashes' = totalHashes + 1
    /\ IF met[w] /\ nonce[w] < MaxNonce
       THEN Goto(w, "claim") /\ nonce' = [nonce EXCEPT ![w] = @ + 1]
       ELSE MoveOn(w, job.workers)
    /\ UNCHANGED <<job, met, tried, sharedVars>>

Count(w) ==
    /\ pc[w] = "count"
    /\ totalHashes' = totalHashes + 1
    /\ IF met[w] THEN Goto(w, "claim") /\ UNCHANGED nonce ELSE MoveOn(w, job.workers)
    /\ UNCHANGED <<job, met, tried, sharedVars>>

\* Mutant of Claim: the flag is loaded and stored, not compared and swapped.
ClaimRacy(w) ==
    /\ pc[w] = "claim"
    /\ found' = TRUE
    /\ Goto(w, "send")
    /\ UNCHANGED <<job, nonce, met, cancelled, resultCh, closed, totalHashes,
                   tried, returned, result>>

Claim(w) ==
    /\ pc[w] = "claim"
    /\ found' = TRUE
    /\ Goto(w, IF found THEN "done" ELSE "send")
    /\ UNCHANGED <<job, nonce, met, cancelled, resultCh, closed, totalHashes,
                   tried, returned, result>>

Send(w) ==
    /\ pc[w] = "send" /\ resultCh = {}
    /\ resultCh' = {nonce[w]}
    /\ Goto(w, "cancel")
    /\ UNCHANGED <<job, nonce, met, found, cancelled, closed, totalHashes,
                   tried, returned, result>>

Cancel(w) ==
    /\ pc[w] = "cancel"
    /\ cancelled' = TRUE
    /\ Goto(w, "done")
    /\ UNCHANGED <<job, nonce, met, found, resultCh, closed, totalHashes,
                   tried, returned, result>>

\* wg.Wait and close.
Close ==
    /\ \A w \in Worker : pc[w] = "done"
    /\ ~closed /\ closed' = TRUE
    /\ UNCHANGED <<job, pc, nonce, met, found, cancelled, resultCh,
                   totalHashes, tried, returned, result>>

\* Mutant of Return: only a message lets Mine return.
ReturnOnMessage ==
    /\ ~returned /\ resultCh # {}
    /\ returned' = TRUE
    /\ result' = resultCh
    /\ resultCh' = {}
    /\ cancelled' = TRUE
    /\ UNCHANGED <<job, pc, nonce, met, found, closed, totalHashes, tried>>

\* Mine receives the message, or learns that the channel is closed and empty,
\* and returns; workers may still be busy.
Return ==
    /\ ~returned /\ (resultCh # {} \/ closed)
    /\ returned' = TRUE
    /\ result' = resultCh
    /\ resultCh' = {}
    /\ cancelled' = TRUE
    /\ UNCHANGED <<job, pc, nonce, met, found, closed, totalHashes, tried>>

\* What a worker does next.
Work(w) ==
    \/ Start(w)
    \/ Check(w)
    \/ \E failed \in HashFailures : Hash(w, failed)
    \/ Count(w)
    \/ Claim(w)
    \/ Send(w)
    \/ Cancel(w)

Next == (\E w \in Worker : Work(w)) \/ Close \/ Return

Spec == Init /\ [][Next]_vars

\* Every goroutine that can run is eventually scheduled.
FairSpec ==
    /\ Spec
    /\ \A w \in Worker : WF_vars(Work(w))
    /\ WF_vars(Close) /\ WF_vars(Return)

-----------------------------------------------------------------------------
\* mineBatch, the search on a backend that hashes a whole batch at once: the
\* backend stops at the last nonce, and the first hash that meets the target
\* wins.
BatchNonces(j) ==
    LET count == IF j.maxNonces = 0 THEN DefaultBatch ELSE j.maxNonces
    IN  {n \in Nonce : n >= j.start /\ n - j.start < count}

mineBatch(j) ==
    {n \in BatchNonces(j) \cap j.good :
       \A m \in BatchNonces(j) \cap j.good : n <= m}

-----------------------------------------------------------------------------
TypeOK ==
    /\ job \in Jobs
    /\ pc \in [Worker -> {"start", "check", "hash", "count", "claim", "send",
                          "cancel", "done"}]
    /\ nonce \in [Worker -> Nonce]
    /\ met \in [Worker -> BOOLEAN]
    /\ found \in BOOLEAN /\ cancelled \in BOOLEAN /\ closed \in BOOLEAN
    /\ returned \in BOOLEAN
    /\ resultCh \subseteq Nonce /\ result \subseteq Nonce
    /\ totalHashes \in Nat
    /\ tried \subseteq Nonce

\* A nonce that Mine returns meets the target: work has been done for it.
ResultSolves == result \subseteq job.good

\* Mine comes back without a nonce only when no nonce of the range meets the
\* target, and with one only from the range: the workers together leave out
\* nothing, whoever finishes first, up to the last nonce there is.
SearchIsExact ==
    returned => /\ \A n \in result : InRange(n)
                /\ result = {} => \A n \in job.good : ~InRange(n)

\* The parallel search and the batch search solve the same headers.
BatchAgrees ==
    returned /\ (job.maxNonces > 0 \/ DefaultBatch > MaxNonce)
      => (result = {} <=> mineBatch(job) = {})

\* No nonce is hashed twice: the hashes that are counted, from which the hash
\* rate is computed, are hashes of as many nonces.
Hashing == Cardinality({w \in Worker : pc[w] = "count"})
NoNonceTwice == totalHashes + Hashing = Cardinality(tried)

\* Mine returns, and leaves no goroutine behind.
MineReturns == <>returned
WorkersEnd == <>[](closed /\ \A w \in Worker : pc[w] = "done")
=============================================================================
