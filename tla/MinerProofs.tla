---------------------------- MODULE MinerProofs -----------------------------
(***************************************************************************)
(* Proofs about the search for a nonce, for every number of workers, every *)
(* range of nonces and every interleaving: its type invariant, that a      *)
(* nonce Mine returns meets the target when the device never fails to      *)
(* hash, that the workers leave nothing out and do nothing twice, and that *)
(* the batch search solves the same headers.                               *)
(*                                                                         *)
(* The argument for the second half: every nonce from the start on is the  *)
(* turn of exactly one worker; a worker that is still searching has        *)
(* passed, of the nonces of its turn, exactly those below its current one, *)
(* and no solution among them.                                             *)
(***************************************************************************)
EXTENDS Miner, TLAPS, FiniteSetTheorems, WellFoundedInduction

\* What has been found out about a worker's nonce is true of the nonce it
\* still holds, until it has sent it.
MetSolves(w) ==
    /\ pc[w] = "count" /\ met[w] => nonce[w] \in job.good
    /\ pc[w] \in {"claim", "send"} => nonce[w] \in job.good

\* The inductive invariant.
MInv ==
    /\ TypeOK
    /\ \A w \in Worker : MetSolves(w)
    /\ resultCh \subseteq job.good
    /\ result \subseteq job.good

-----------------------------------------------------------------------------
LEMMA AddUint64Type ==
    ASSUME NEW n \in Nonce, NEW delta \in Nat
    PROVE  AddUint64(n, delta) \subseteq Nonce
<1>1. CASE MaxNonce - n < delta
  BY <1>1 DEF AddUint64
<1>2. CASE ~(MaxNonce - n < delta)
  BY <1>2, MinerAssumption DEF AddUint64, Nonce
<1> QED BY <1>1, <1>2

LEMMA WorkersType == TypeOK => job.start \in Nonce /\ job.workers \in Nat \ {0}
BY MinerAssumption DEF TypeOK, Job

\* Moving on keeps the types of the two variables it changes.
LEMMA MoveOnType ==
    ASSUME TypeOK, NEW w \in Worker, NEW delta \in Nat, MoveOn(w, delta)
    PROVE  /\ pc' = [pc EXCEPT ![w] = pc'[w]]
           /\ pc'[w] \in {"check", "done"}
           /\ nonce' = [nonce EXCEPT ![w] = nonce'[w]]
           /\ nonce'[w] \in Nonce
<1> DEFINE next == AddUint64(nonce[w], delta)
<1>1. next \subseteq Nonce
  BY AddUint64Type DEF TypeOK
<1>2. CASE next = {}
  <2>1. pc' = [pc EXCEPT ![w] = "done"] /\ nonce' = nonce
    BY <1>2 DEF MoveOn, Goto
  <2> QED BY <2>1 DEF TypeOK
<1>3. CASE next # {}
  <2>1. PICK n \in next : nonce' = [nonce EXCEPT ![w] = n]
    BY <1>3 DEF MoveOn
  <2>2. pc' = [pc EXCEPT ![w] = "check"]
    BY <1>3 DEF MoveOn, Goto
  <2> QED BY <1>1, <2>1, <2>2 DEF TypeOK
<1> QED BY <1>2, <1>3

-----------------------------------------------------------------------------
LEMMA TypeInit == Init => TypeOK
<1> SUFFICES ASSUME Init PROVE TypeOK
  OBVIOUS
<1>1. job \in Job
  BY MinerAssumption DEF Init
<1>2. job.start \in Nonce
  BY <1>1 DEF Job
<1> QED BY <1>2 DEF Init, TypeOK

LEMMA TypeStep == TypeOK /\ [Next]_vars => TypeOK'
<1> SUFFICES ASSUME TypeOK, [Next]_vars PROVE TypeOK'
  OBVIOUS
<1> USE DEF TypeOK
<1>1. ASSUME NEW w \in Worker, Start(w) PROVE TypeOK'
  <2>1. w \in Nat
    BY MinerAssumption DEF Worker
  <2>2. MoveOn(w, w)
    BY <1>1 DEF Start
  <2> QED BY <1>1, <2>1, <2>2, MoveOnType DEF Start, sharedVars
<1>2. ASSUME NEW w \in Worker, Check(w) PROVE TypeOK'
  BY <1>2 DEF Check, Goto, sharedVars
<1>3. ASSUME NEW w \in Worker, NEW failed \in HashFailures, Hash(w, failed)
      PROVE TypeOK'
  <2>1. failed \in BOOLEAN
    BY MinerAssumption
  <2>2. LessOrEqualBE(nonce[w], failed) \in BOOLEAN
    BY <2>1 DEF LessOrEqualBE
  <2> QED BY <1>3, <2>2 DEF Hash, Goto, sharedVars
<1>4. ASSUME NEW w \in Worker, Count(w) PROVE TypeOK'
  <2>1. CASE met[w]
    BY <1>4, <2>1 DEF Count, Goto, sharedVars
  <2>2. CASE ~met[w]
    <3>1. MoveOn(w, job.workers)
      BY <1>4, <2>2 DEF Count
    <3> QED BY <1>4, <3>1, MoveOnType, WorkersType DEF Count, sharedVars
  <2> QED BY <2>1, <2>2
<1>5. ASSUME NEW w \in Worker, Claim(w) PROVE TypeOK'
  BY <1>5 DEF Claim, Goto
<1>6. ASSUME NEW w \in Worker, Send(w) PROVE TypeOK'
  BY <1>6 DEF Send, Goto
<1>7. ASSUME NEW w \in Worker, Cancel(w) PROVE TypeOK'
  BY <1>7 DEF Cancel, Goto
<1>8. CASE Close
  BY <1>8 DEF Close
<1>9. CASE Return
  BY <1>9 DEF Return
<1>10. CASE UNCHANGED vars
  BY <1>10 DEF vars
<1> QED BY <1>1, <1>2, <1>3, <1>4, <1>5, <1>6, <1>7, <1>8, <1>9, <1>10
        DEF Next, Work

\* The state of a search keeps its types, however the workers interleave and
\* whether or not the device fails to hash: in particular no worker's nonce
\* wraps around the last one (Mine, addUint64).
THEOREM MinerTypeCorrect == Spec => []TypeOK
BY TypeInit, TypeStep, PTL DEF Spec

-----------------------------------------------------------------------------
LEMMA SolvesInit == Init => MInv
BY TypeInit DEF Init, MInv, MetSolves

\* What holds of the other workers is not touched by a worker that only
\* changes its own program counter, nonce and hash.
LEMMA OthersSolve ==
    ASSUME MInv, NEW w \in Worker, NEW v \in Worker, v # w, job' = job,
           pc' = [pc EXCEPT ![w] = pc'[w]],
           nonce' = [nonce EXCEPT ![w] = nonce'[w]],
           met' = [met EXCEPT ![w] = met'[w]]
    PROVE  MetSolves(v)'
<1>1. pc'[v] = pc[v] /\ nonce'[v] = nonce[v] /\ met'[v] = met[v]
  BY DEF MInv, TypeOK
<1> QED BY <1>1 DEF MInv, MetSolves

\* A worker that ends in a place where nothing is claimed of its nonce, and
\* leaves the messages alone, keeps the invariant.
LEMMA QuietStep ==
    ASSUME MInv, TypeOK', NEW w \in Worker, UNCHANGED <<job, resultCh, result>>,
           pc' = [pc EXCEPT ![w] = pc'[w]],
           nonce' = [nonce EXCEPT ![w] = nonce'[w]],
           met' = [met EXCEPT ![w] = met'[w]],
           MetSolves(w)'
    PROVE  MInv'
<1>1. ASSUME NEW v \in Worker PROVE MetSolves(v)'
  <2>1. CASE v = w
    BY <2>1
  <2>2. CASE v # w
    BY <2>2, OthersSolve
  <2> QED BY <2>1, <2>2
<1> QED BY <1>1 DEF MInv

LEMMA SolvesStep ==
    ASSUME HashFailures = {FALSE}, MInv, [Next]_vars
    PROVE  MInv'
<1>0. TypeOK /\ TypeOK'
  BY TypeStep DEF MInv
<1>1. ASSUME NEW w \in Worker, Start(w) PROVE MInv'
  <2>1. w \in Nat
    BY MinerAssumption DEF Worker
  <2>2. /\ pc' = [pc EXCEPT ![w] = pc'[w]]
        /\ pc'[w] \in {"check", "done"}
        /\ nonce' = [nonce EXCEPT ![w] = nonce'[w]]
    BY <1>0, <1>1, <2>1, MoveOnType DEF Start
  <2>3. met' = [met EXCEPT ![w] = met'[w]] /\ UNCHANGED <<job, resultCh, result>>
    BY <1>0, <1>1 DEF Start, sharedVars, TypeOK
  <2>4. MetSolves(w)'
    BY <2>2 DEF MetSolves
  <2> QED BY <1>0, <2>2, <2>3, <2>4, QuietStep
<1>2. ASSUME NEW w \in Worker, Check(w) PROVE MInv'
  <2>1. pc'[w] \in {"done", "hash"} /\ pc' = [pc EXCEPT ![w] = pc'[w]]
    BY <1>0, <1>2 DEF Check, Goto, TypeOK
  <2>2. /\ nonce' = [nonce EXCEPT ![w] = nonce'[w]]
        /\ met' = [met EXCEPT ![w] = met'[w]]
        /\ UNCHANGED <<job, resultCh, result>>
    BY <1>0, <1>2 DEF Check, sharedVars, TypeOK
  <2>3. MetSolves(w)'
    BY <2>1 DEF MetSolves
  <2> QED BY <1>0, <2>1, <2>2, <2>3, QuietStep
<1>3. ASSUME NEW w \in Worker, NEW failed \in HashFailures, Hash(w, failed)
      PROVE MInv'
  <2>1. met'[w] = (nonce[w] \in job.good)
    BY <1>0, <1>3 DEF Hash, LessOrEqualBE, TypeOK
  <2>2. /\ pc'[w] = "count" /\ pc' = [pc EXCEPT ![w] = pc'[w]]
        /\ nonce' = [nonce EXCEPT ![w] = nonce'[w]] /\ nonce'[w] = nonce[w]
        /\ met' = [met EXCEPT ![w] = met'[w]]
        /\ UNCHANGED <<job, resultCh, result>>
    BY <1>0, <1>3 DEF Hash, Goto, sharedVars, TypeOK
  <2>3. MetSolves(w)'
    BY <2>1, <2>2 DEF MetSolves
  <2> QED BY <1>0, <2>2, <2>3, QuietStep
<1>4. ASSUME NEW w \in Worker, Count(w) PROVE MInv'
  <2>1. met' = [met EXCEPT ![w] = met'[w]] /\ UNCHANGED <<job, resultCh, result>>
    BY <1>0, <1>4 DEF Count, sharedVars, TypeOK
  <2>2. CASE met[w]
    <3>1. /\ pc'[w] = "claim" /\ pc' = [pc EXCEPT ![w] = pc'[w]]
          /\ nonce' = [nonce EXCEPT ![w] = nonce'[w]] /\ nonce'[w] = nonce[w]
      BY <1>0, <1>4, <2>2 DEF Count, Goto, TypeOK
    <3>2. nonce[w] \in job.good
      BY <1>4, <2>2 DEF Count, MInv, MetSolves
    <3>3. MetSolves(w)'
      BY <2>1, <3>1, <3>2 DEF MetSolves
    <3> QED BY <1>0, <2>1, <3>1, <3>3, QuietStep
  <2>3. CASE ~met[w]
    <3>1. MoveOn(w, job.workers)
      BY <1>4, <2>3 DEF Count
    <3>2. /\ pc' = [pc EXCEPT ![w] = pc'[w]]
          /\ pc'[w] \in {"check", "done"}
          /\ nonce' = [nonce EXCEPT ![w] = nonce'[w]]
      BY <1>0, <3>1, MoveOnType, WorkersType
    <3>3. MetSolves(w)'
      BY <3>2 DEF MetSolves
    <3> QED BY <1>0, <2>1, <3>2, <3>3, QuietStep
  <2> QED BY <2>2, <2>3
<1>5. ASSUME NEW w \in Worker, Claim(w) PROVE MInv'
  <2>1. /\ pc'[w] \in {"done", "send"} /\ pc' = [pc EXCEPT ![w] = pc'[w]]
        /\ nonce' = [nonce EXCEPT ![w] = nonce'[w]] /\ nonce'[w] = nonce[w]
        /\ met' = [met EXCEPT ![w] = met'[w]]
        /\ UNCHANGED <<job, resultCh, result>>
    BY <1>0, <1>5 DEF Claim, Goto, TypeOK
  <2>2. nonce[w] \in job.good
    BY <1>5 DEF Claim, MInv, MetSolves
  <2>3. MetSolves(w)'
    BY <2>1, <2>2 DEF MetSolves
  <2> QED BY <1>0, <2>1, <2>3, QuietStep
<1>6. ASSUME NEW w \in Worker, Send(w) PROVE MInv'
  <2>1. /\ pc'[w] = "cancel" /\ pc' = [pc EXCEPT ![w] = pc'[w]]
        /\ nonce' = [nonce EXCEPT ![w] = nonce'[w]]
        /\ met' = [met EXCEPT ![w] = met'[w]]
        /\ UNCHANGED <<job, result>>
    BY <1>0, <1>6 DEF Send, Goto, TypeOK
  <2>2. resultCh' \subseteq job'.good
    BY <1>6 DEF Send, MInv, MetSolves
  <2>3. ASSUME NEW v \in Worker PROVE MetSolves(v)'
    <3>1. CASE v = w
      BY <2>1, <3>1 DEF MetSolves
    <3>2. CASE v # w
      BY <2>1, <3>2, OthersSolve
    <3> QED BY <3>1, <3>2
  <2> QED BY <1>0, <2>1, <2>2, <2>3 DEF MInv
<1>7. ASSUME NEW w \in Worker, Cancel(w) PROVE MInv'
  <2>1. /\ pc'[w] = "done" /\ pc' = [pc EXCEPT ![w] = pc'[w]]
        /\ nonce' = [nonce EXCEPT ![w] = nonce'[w]]
        /\ met' = [met EXCEPT ![w] = met'[w]]
        /\ UNCHANGED <<job, resultCh, result>>
    BY <1>0, <1>7 DEF Cancel, Goto, TypeOK
  <2>2. MetSolves(w)'
    BY <2>1 DEF MetSolves
  <2> QED BY <1>0, <2>1, <2>2, QuietStep
<1>8. CASE Close
  BY <1>0, <1>8 DEF Close, MInv, MetSolves
<1>9. CASE Return
  BY <1>0, <1>9 DEF Return, MInv, MetSolves
<1>10. CASE UNCHANGED vars
  BY <1>0, <1>10 DEF vars, MInv, MetSolves
<1> QED BY <1>1, <1>2, <1>3, <1>4, <1>5, <1>6, <1>7, <1>8, <1>9, <1>10
        DEF Next, Work

\* On a device that never fails to hash, a nonce that Mine returns meets the
\* target, whatever the target and whichever worker wins the race for "found".
\* Without that hypothesis the run miner_device_failure refutes it.
THEOREM MinedNonceSolves ==
    ASSUME HashFailures = {FALSE}
    PROVE  Spec => []ResultSolves
<1>1. MInv /\ [Next]_vars => MInv'
  BY SolvesStep
<1>2. MInv => ResultSolves
  BY DEF MInv, ResultSolves
<1> QED BY SolvesInit, <1>1, <1>2, PTL DEF Spec

-----------------------------------------------------------------------------
(* Division.                                                               *)

LEMMA Division ==
    ASSUME NEW a \in Nat, NEW b \in Nat \ {0}
    PROVE  a % b \in 0..(b-1) /\ a \div b \in Nat /\ a = b * (a \div b) + (a % b)
OBVIOUS

LEMMA Multiple ==
    ASSUME NEW b \in Nat, NEW k \in Nat \ {0}
    PROVE  b * k >= b
OBVIOUS

LEMMA DivisionUnique ==
    ASSUME NEW b \in Nat \ {0}, NEW q \in Nat, NEW r \in 0..(b-1),
           NEW s \in Nat, NEW t \in 0..(b-1), b * q + r = b * s + t
    PROVE  r = t
<1>1. ASSUME NEW x \in Nat, NEW y \in Nat, NEW u \in 0..(b-1), NEW v \in 0..(b-1),
             b * x + u = b * y + v, x < y
      PROVE  FALSE
  <2>1. b * (y - x) >= b
    <3>1. y - x \in Nat \ {0}
      BY <1>1
    <3> QED BY <3>1, Multiple
  <2>2. b * y - b * x >= b
    BY <2>1
  <2>3. b * y \in Nat /\ b * x \in Nat
    OBVIOUS
  <2> QED BY <2>2, <2>3, <1>1
<1>2. q = s
  <2>1. CASE q < s
    BY <2>1, <1>1
  <2>2. CASE s < q
    BY <2>2, <1>1
  <2> QED BY <2>1, <2>2
<1> QED BY <1>2

LEMMA SameRemainder ==
    ASSUME NEW a \in Nat, NEW b \in Nat \ {0}
    PROVE  (a + b) % b = a % b
<1> DEFINE q == a \div b
           r == a % b
           s == (a + b) \div b
           t == (a + b) % b
<1>1. q \in Nat /\ r \in 0..(b-1) /\ a = b * q + r
  BY Division
<1>2. s \in Nat /\ t \in 0..(b-1) /\ a + b = b * s + t
  <2>1. a + b \in Nat
    OBVIOUS
  <2> QED BY <2>1, Division
<1>3. b * (q + 1) + r = b * s + t
  <2>1. b * (q + 1) = b * q + b
    BY <1>1
  <2>2. b * q \in Nat
    BY <1>1
  <2> HIDE DEF q, r, s, t
  <2> QED BY <1>1, <1>2, <2>1, <2>2
<1>4. q + 1 \in Nat
  BY <1>1
<1> HIDE DEF q, r, s, t
<1>5. r = t
  BY <1>1, <1>2, <1>3, <1>4, DivisionUnique
<1> QED BY <1>5 DEF r, t

LEMMA OtherRemainder ==
    ASSUME NEW a \in Nat, NEW c \in Nat, NEW b \in Nat \ {0}, a < c, c < a + b
    PROVE  a % b # c % b
<1> DEFINE q == a \div b
           r == a % b
           s == c \div b
           t == c % b
<1>1. q \in Nat /\ r \in 0..(b-1) /\ a = b * q + r
  BY Division
<1>2. s \in Nat /\ t \in 0..(b-1) /\ c = b * s + t
  BY Division
<1> HIDE DEF q, r, s, t
<1> SUFFICES ASSUME r = t PROVE FALSE
  BY DEF r, t
<1>3. b * q < b * s /\ b * s < b * q + b
  BY <1>1, <1>2
<1>4. CASE s <= q
  <2>1. b * s <= b * q
    BY <1>4, <1>1, <1>2
  <2> QED BY <2>1, <1>3, <1>1, <1>2
<1>5. CASE s >= q + 1
  <2>1. b * s >= b * q + b
    <3>1. b * (s - q) >= b
      BY <1>5, <1>1, <1>2, Multiple
    <3> QED BY <3>1, <1>1, <1>2
  <2> QED BY <2>1, <1>3, <1>1, <1>2
<1> QED BY <1>4, <1>5, <1>1, <1>2

LEMMA SmallRemainder ==
    ASSUME NEW a \in Nat, NEW b \in Nat \ {0}, a < b
    PROVE  a % b = a
OBVIOUS

-----------------------------------------------------------------------------
(* Turns.                                                                  *)

\* The worker that is to try nonce n.
Turn(n) == (n - job.start) % job.workers

LEMMA TurnType ==
    ASSUME TypeOK, NEW n \in Nonce, n >= job.start
    PROVE  Turn(n) \in 0..(job.workers - 1) /\ Turn(n) \in Worker
<1>1. job.workers \in 1..NumWorkers /\ job.start \in Nonce
  BY MinerAssumption DEF TypeOK, Job
<1>2. n - job.start \in Nat
  BY <1>1, MinerAssumption DEF Nonce
<1>3. Turn(n) \in 0..(job.workers - 1)
  BY <1>1, <1>2, Division, WorkersType DEF Turn
<1> QED BY <1>1, <1>3, MinerAssumption DEF Worker

\* The workers spread out.
LEMMA TurnFirst ==
    ASSUME TypeOK, NEW w \in Nat, w < job.workers
    PROVE  /\ Turn(job.start + w) = w
           /\ \A n \in Nonce : n >= job.start /\ n < job.start + w => Turn(n) # w
<1>1. job.start \in Nat /\ job.workers \in Nat \ {0}
  BY WorkersType, MinerAssumption DEF Nonce
<1>2. (job.start + w) - job.start = w
  BY <1>1
<1>3. Turn(job.start + w) = w
  BY <1>1, <1>2, SmallRemainder DEF Turn
<1>4. ASSUME NEW n \in Nonce, n >= job.start, n < job.start + w PROVE Turn(n) # w
  <2>1. n - job.start \in Nat /\ n - job.start < w
    BY <1>1, <1>4, MinerAssumption DEF Nonce
  <2>2. Turn(n) = n - job.start
    BY <1>1, <2>1, SmallRemainder DEF Turn
  <2> QED BY <2>1, <2>2
<1> QED BY <1>3, <1>4

\* A worker's next nonce is the next one of its turn.
LEMMA TurnNext ==
    ASSUME TypeOK, NEW n \in Nonce, n >= job.start
    PROVE  /\ Turn(n + job.workers) = Turn(n)
           /\ \A m \in Nonce : n < m /\ m < n + job.workers => Turn(m) # Turn(n)
<1>1. job.start \in Nat /\ job.workers \in Nat \ {0} /\ n \in Nat
  BY WorkersType, MinerAssumption DEF Nonce
<1>2. n - job.start \in Nat
  BY <1>1
<1>3. (n + job.workers) - job.start = (n - job.start) + job.workers
  BY <1>1
<1>4. Turn(n + job.workers) = Turn(n)
  BY <1>1, <1>2, <1>3, SameRemainder DEF Turn
<1>5. ASSUME NEW m \in Nonce, n < m, m < n + job.workers PROVE Turn(m) # Turn(n)
  <2>1. /\ m - job.start \in Nat
        /\ n - job.start < m - job.start
        /\ m - job.start < (n - job.start) + job.workers
    BY <1>1, <1>5, MinerAssumption DEF Nonce
  <2> QED BY <1>1, <1>2, <2>1, OtherRemainder DEF Turn
<1> QED BY <1>4, <1>5

-----------------------------------------------------------------------------
(* The inductive invariant.                                                *)

\* What a worker that has not ended knows of its current nonce.
Progress(w) ==
    /\ pc[w] = "start" => nonce[w] = job.start /\ w < job.workers
    /\ pc[w] \in {"check", "hash", "count"} =>
         /\ nonce[w] >= job.start /\ Turn(nonce[w]) = w
         /\ \A n \in job.good : n >= job.start /\ n < nonce[w] => Turn(n) # w
    /\ pc[w] = "count" /\ ~met[w] => nonce[w] \notin job.good
    /\ pc[w] \in {"hash", "count", "claim", "send"} => InRange(nonce[w])
    /\ pc[w] \in {"send", "cancel"} => found

\* A worker has ended because the search is over, or because it has passed the
\* last nonce of its turn.
Ended(w) ==
    pc[w] = "done" => \/ found
                      \/ returned
                      \/ \A n \in job.good : InRange(n) => Turn(n) # w

\* What the workers share.
Shared ==
    /\ cancelled => found \/ returned
    /\ found /\ ~returned => resultCh # {} \/ \E w \in Worker : pc[w] = "send"
    /\ \A n \in resultCh : InRange(n)
    /\ closed => \A w \in Worker : pc[w] = "done"
    /\ SearchIsExact

SearchInv ==
    /\ TypeOK
    /\ \A w \in Worker : Progress(w) /\ Ended(w)
    /\ Shared

-----------------------------------------------------------------------------
\* A worker that moves on has passed its nonce, and ends only behind the last
\* nonce of its turn.
LEMMA MoveOnExact ==
    ASSUME TypeOK, TypeOK', NEW w \in Worker, w < job.workers, NEW delta \in Nat,
           MoveOn(w, delta), UNCHANGED <<job, found, met>>,
           LET next == nonce[w] + delta
           IN  /\ next >= job.start /\ Turn(next) = w
               /\ \A n \in job.good : n >= job.start /\ n < next => Turn(n) # w
    PROVE  Progress(w)' /\ Ended(w)'
<1> DEFINE next == nonce[w] + delta
<1>1. job.good \subseteq Nonce /\ nonce[w] \in Nat /\ MaxNonce \in Nat
  BY MinerAssumption DEF TypeOK, Job, Nonce
<1>2. CASE AddUint64(nonce[w], delta) = {}
  <2>1. pc'[w] = "done" /\ job' = job
    BY <1>2 DEF MoveOn, Goto, TypeOK
  <2>2. MaxNonce - nonce[w] < delta
    BY <1>2 DEF AddUint64
  <2>3. ASSUME NEW n \in job.good, InRange(n) PROVE Turn(n) # w
    <3>1. n < next /\ n >= job.start
      BY <1>1, <2>2, <2>3 DEF InRange, Nonce
    <3> QED BY <3>1
  <2>4. Ended(w)'
    BY <2>1, <2>3 DEF Ended, InRange, Turn
  <2>5. Progress(w)'
    BY <2>1 DEF Progress
  <2> QED BY <2>4, <2>5
<1>3. CASE AddUint64(nonce[w], delta) # {}
  <2>1. AddUint64(nonce[w], delta) = {next}
    BY <1>3 DEF AddUint64
  <2>2. pc'[w] = "check" /\ nonce'[w] = next /\ job' = job
    BY <1>3, <2>1 DEF MoveOn, Goto, TypeOK
  <2>3. Progress(w)'
    BY <2>2 DEF Progress, Turn
  <2> QED BY <2>2, <2>3 DEF Ended
<1> QED BY <1>2, <1>3

\* The same for the two places a worker moves on from.
LEMMA StartExact ==
    ASSUME SearchInv, TypeOK', NEW w \in Worker, Start(w)
    PROVE  Progress(w)' /\ Ended(w)'
<1>1. w \in Nat /\ w < job.workers /\ nonce[w] = job.start
  BY MinerAssumption DEF SearchInv, Progress, Start, Worker
<1>2. job.good \subseteq Nonce /\ job.start \in Nat
  BY MinerAssumption DEF SearchInv, TypeOK, Job, Nonce
<1>3. /\ nonce[w] + w >= job.start
      /\ Turn(nonce[w] + w) = w
      /\ \A n \in job.good : n >= job.start /\ n < nonce[w] + w => Turn(n) # w
  BY <1>1, <1>2, TurnFirst DEF SearchInv
<1>4. MoveOn(w, w) /\ UNCHANGED <<job, found, met>>
  BY DEF Start, sharedVars
<1> QED BY <1>1, <1>3, <1>4, MoveOnExact DEF SearchInv

LEMMA CountExact ==
    ASSUME SearchInv, TypeOK', NEW w \in Worker, Count(w), ~met[w]
    PROVE  Progress(w)' /\ Ended(w)'
<1>1. /\ nonce[w] >= job.start /\ Turn(nonce[w]) = w /\ nonce[w] \notin job.good
      /\ \A n \in job.good : n >= job.start /\ n < nonce[w] => Turn(n) # w
  BY DEF SearchInv, Progress, Count
<1>2. /\ job.good \subseteq Nonce /\ job.start \in Nat /\ nonce[w] \in Nonce
      /\ job.workers \in Nat \ {0} /\ MaxNonce \in Nat
  BY WorkersType, MinerAssumption DEF SearchInv, TypeOK, Job, Nonce
<1>3. w < job.workers
  BY <1>1, <1>2, TurnType DEF SearchInv
<1>4. Turn(nonce[w] + job.workers) = w
  BY <1>1, <1>2, TurnNext DEF SearchInv
<1>5. ASSUME NEW n \in job.good, n >= job.start, n < nonce[w] + job.workers
      PROVE  Turn(n) # w
  <2>1. n \in Nonce /\ n # nonce[w]
    BY <1>1, <1>2
  <2>2. CASE n < nonce[w]
    BY <1>1, <1>5, <2>2
  <2>3. CASE nonce[w] < n
    BY <1>1, <1>2, <1>5, <2>1, <2>3, TurnNext DEF SearchInv
  <2> QED BY <1>2, <2>1, <2>2, <2>3 DEF Nonce
<1>6. nonce[w] + job.workers >= job.start
  BY <1>1, <1>2 DEF Nonce
<1>7. MoveOn(w, job.workers) /\ UNCHANGED <<job, found, met>>
  BY DEF Count, sharedVars
<1>8. job.workers \in Nat
  BY <1>2
<1> QED BY <1>3, <1>4, <1>5, <1>6, <1>7, <1>8, MoveOnExact DEF SearchInv

\* A worker whose nonce is out of range has passed the last nonce of its turn.
LEMMA CheckExact ==
    ASSUME SearchInv, TypeOK', NEW w \in Worker, Check(w)
    PROVE  Progress(w)' /\ Ended(w)'
<1>1. /\ nonce[w] >= job.start /\ Turn(nonce[w]) = w
      /\ \A n \in job.good : n >= job.start /\ n < nonce[w] => Turn(n) # w
  BY DEF SearchInv, Progress, Check
<1>2. UNCHANGED <<job, nonce, met, found, returned>>
  BY DEF Check, sharedVars
<1>3. CASE cancelled \/ found \/ ~InRange(nonce[w])
  <2>1. pc'[w] = "done"
    BY <1>3 DEF Check, Goto, SearchInv, TypeOK
  <2>2. ASSUME cancelled \/ found PROVE Ended(w)'
    <3>1. found \/ returned
      BY <2>2 DEF SearchInv, Shared
    <3>2. found' \/ returned'
      BY <1>2, <3>1
    <3> QED BY <3>2 DEF Ended
  <2>3. ASSUME ~InRange(nonce[w]) PROVE Ended(w)'
    <3>1. ASSUME NEW n \in job.good, InRange(n) PROVE Turn(n) # w
      <4>1. n \in Nat /\ nonce[w] \in Nat /\ job.start \in Nat /\ job.maxNonces \in Nat
        BY MinerAssumption DEF SearchInv, TypeOK, Job, Nonce
      <4>2. n < nonce[w] /\ n >= job.start
        BY <1>1, <2>3, <3>1, <4>1 DEF InRange
      <4> QED BY <1>1, <3>1, <4>2
    <3> QED BY <1>2, <2>1, <3>1 DEF Ended, InRange, Turn
  <2>4. Progress(w)'
    BY <2>1 DEF Progress
  <2> QED BY <1>3, <2>2, <2>3, <2>4
<1>4. CASE ~(cancelled \/ found \/ ~InRange(nonce[w]))
  <2>1. pc'[w] = "hash"
    BY <1>4 DEF Check, Goto, SearchInv, TypeOK
  <2> QED BY <1>1, <1>2, <1>4, <2>1 DEF Progress, Ended, InRange, Turn
<1> QED BY <1>3, <1>4

-----------------------------------------------------------------------------
LEMMA OthersProgress ==
    ASSUME SearchInv, NEW w \in Worker, NEW v \in Worker, v # w, job' = job,
           pc' = [pc EXCEPT ![w] = pc'[w]],
           nonce' = [nonce EXCEPT ![w] = nonce'[w]],
           met' = [met EXCEPT ![w] = met'[w]],
           found => found', returned => returned'
    PROVE  Progress(v)' /\ Ended(v)'
<1>1. pc'[v] = pc[v] /\ nonce'[v] = nonce[v] /\ met'[v] = met[v]
  BY DEF SearchInv, TypeOK
<1>2. Progress(v) /\ Ended(v)
  BY DEF SearchInv
<1>3. Progress(v)'
  BY <1>1, <1>2 DEF Progress, InRange, Turn
<1>4. Ended(v)'
  BY <1>1, <1>2 DEF Ended, InRange, Turn
<1> QED BY <1>3, <1>4

\* A worker that does not touch what the workers share.
LEMMA SharedUntouched ==
    ASSUME SearchInv, NEW w \in Worker, job' = job, UNCHANGED sharedVars,
           pc[w] \notin {"send", "done"}, pc' = [pc EXCEPT ![w] = pc'[w]]
    PROVE  Shared'
<1>1. ~closed
  BY DEF SearchInv, Shared
<1>2. ASSUME NEW v \in Worker, pc[v] = "send" PROVE pc'[v] = "send"
  BY <1>2 DEF SearchInv, TypeOK
<1>3. (found /\ ~returned => resultCh # {} \/ \E v \in Worker : pc[v] = "send")'
  BY <1>2 DEF SearchInv, Shared, sharedVars
<1>4. SearchIsExact'
  BY DEF SearchInv, Shared, sharedVars, SearchIsExact, InRange
<1>5. (cancelled => found \/ returned)'
  BY DEF SearchInv, Shared, sharedVars
<1>6. (\A n \in resultCh : InRange(n))'
  BY DEF SearchInv, Shared, sharedVars, InRange
<1> QED BY <1>1, <1>3, <1>4, <1>5, <1>6 DEF Shared, sharedVars

LEMMA LocalStep ==
    ASSUME SearchInv, TypeOK', NEW w \in Worker, job' = job, UNCHANGED sharedVars,
           pc[w] \notin {"send", "done"},
           pc' = [pc EXCEPT ![w] = pc'[w]],
           nonce' = [nonce EXCEPT ![w] = nonce'[w]],
           met' = [met EXCEPT ![w] = met'[w]],
           Progress(w)', Ended(w)'
    PROVE  SearchInv'
<1>1. ASSUME NEW v \in Worker PROVE Progress(v)' /\ Ended(v)'
  <2>1. CASE v = w
    BY <2>1
  <2>2. CASE v # w
    BY <2>2, OthersProgress DEF sharedVars
  <2> QED BY <2>1, <2>2
<1>2. Shared'
  BY SharedUntouched
<1> QED BY <1>1, <1>2 DEF SearchInv

LEMMA SearchInit == Init => SearchInv
<1> SUFFICES ASSUME Init PROVE SearchInv
  OBVIOUS
<1>1. TypeOK
  BY TypeInit
<1>2. job.workers \in Nat /\ job.good \subseteq Nonce
  BY <1>1, MinerAssumption DEF TypeOK, Job
<1>3. ASSUME NEW w \in Worker PROVE Progress(w)
  BY DEF Init, Progress
<1>4. ASSUME NEW w \in Worker PROVE Ended(w)
  <2>1. CASE w < job.workers
    BY <2>1 DEF Init, Ended
  <2>2. CASE ~(w < job.workers)
    <3>1. ASSUME NEW n \in job.good, InRange(n) PROVE Turn(n) # w
      <4>1. n \in Nonce /\ n >= job.start
        BY <1>2, <3>1 DEF InRange
      <4>2. Turn(n) \in 0..(job.workers - 1)
        BY <1>1, <4>1, TurnType
      <4> QED BY <1>2, <2>2, <4>2
    <3> QED BY <3>1 DEF Ended
  <2> QED BY <2>1, <2>2
<1>5. Shared
  BY DEF Init, Shared, SearchIsExact
<1> QED BY <1>1, <1>3, <1>4, <1>5 DEF SearchInv

\* What Mine returns is settled by what the workers left behind.
LEMMA ReturnExact ==
    ASSUME SearchInv, Return
    PROVE  SearchInv'
<1>1. TypeOK /\ TypeOK'
  BY TypeStep DEF SearchInv, Next
<1>2. ASSUME NEW w \in Worker PROVE Progress(w)' /\ Ended(w)'
  BY DEF SearchInv, Return, Progress, Ended, InRange, Turn
<1>3. ASSUME resultCh = {}, NEW n \in job.good, InRange(n) PROVE FALSE
  <2>1. closed /\ \A w \in Worker : pc[w] = "done"
    BY <1>3 DEF SearchInv, Shared, Return
  <2>2. ~found /\ ~returned
    BY <1>3, <2>1 DEF SearchInv, Shared, Return
  <2>3. n \in Nonce /\ n >= job.start
    BY <1>1, <1>3, MinerAssumption DEF TypeOK, Job, InRange
  <2>4. Turn(n) \in Worker
    BY <1>1, <2>3, TurnType
  <2>5. Ended(Turn(n))
    BY <2>4 DEF SearchInv
  <2> HIDE DEF Turn
  <2> QED BY <1>3, <2>1, <2>2, <2>4, <2>5 DEF Ended
<1>4. SearchIsExact'
  <2>1. \A n \in resultCh : InRange(n)
    BY DEF SearchInv, Shared
  <2>2. result' = resultCh /\ job' = job
    BY DEF Return
  <2> QED BY <1>3, <2>1, <2>2 DEF SearchIsExact, InRange
<1>5. Shared'
  BY <1>4 DEF Return, SearchInv, Shared
<1> QED BY <1>1, <1>2, <1>5 DEF SearchInv

LEMMA SearchStep == SearchInv /\ [Next]_vars => SearchInv'
<1> SUFFICES ASSUME SearchInv, [Next]_vars PROVE SearchInv'
  OBVIOUS
<1>0. TypeOK /\ TypeOK'
  BY TypeStep DEF SearchInv
<1>1. ASSUME NEW w \in Worker, Start(w) PROVE SearchInv'
  <2>1. Progress(w)' /\ Ended(w)'
    BY <1>0, <1>1, StartExact
  <2>2. /\ pc' = [pc EXCEPT ![w] = pc'[w]]
        /\ nonce' = [nonce EXCEPT ![w] = nonce'[w]]
    <3>1. w \in Nat /\ MoveOn(w, w)
      BY <1>1, MinerAssumption DEF Start, Worker
    <3> QED BY <1>0, <3>1, MoveOnType
  <2>3. /\ job' = job /\ UNCHANGED sharedVars /\ pc[w] = "start"
        /\ met' = [met EXCEPT ![w] = met'[w]]
    BY <1>0, <1>1 DEF Start, TypeOK
  <2> QED BY <1>0, <2>1, <2>2, <2>3, LocalStep
<1>2. ASSUME NEW w \in Worker, Check(w) PROVE SearchInv'
  <2>1. Progress(w)' /\ Ended(w)'
    BY <1>0, <1>2, CheckExact
  <2>2. /\ job' = job /\ UNCHANGED sharedVars /\ pc[w] = "check"
        /\ pc' = [pc EXCEPT ![w] = pc'[w]]
        /\ nonce' = [nonce EXCEPT ![w] = nonce'[w]]
        /\ met' = [met EXCEPT ![w] = met'[w]]
    BY <1>0, <1>2 DEF Check, Goto, TypeOK
  <2> QED BY <1>0, <2>1, <2>2, LocalStep
<1>3. ASSUME NEW w \in Worker, NEW failed \in HashFailures, Hash(w, failed)
      PROVE SearchInv'
  <2>1. /\ job' = job /\ UNCHANGED sharedVars
        /\ pc[w] = "hash" /\ pc'[w] = "count" /\ nonce'[w] = nonce[w]
        /\ pc' = [pc EXCEPT ![w] = pc'[w]]
        /\ nonce' = [nonce EXCEPT ![w] = nonce'[w]]
        /\ met' = [met EXCEPT ![w] = met'[w]]
    BY <1>0, <1>3 DEF Hash, Goto, TypeOK
  <2>2. met'[w] = (failed \/ nonce[w] \in job.good)
    BY <1>0, <1>3 DEF Hash, LessOrEqualBE, TypeOK
  <2>3. Progress(w)
    BY DEF SearchInv
  <2>4. Progress(w)' /\ Ended(w)'
    BY <2>1, <2>2, <2>3 DEF Progress, Ended, InRange, Turn
  <2> QED BY <1>0, <2>1, <2>4, LocalStep
<1>4. ASSUME NEW w \in Worker, Count(w) PROVE SearchInv'
  <2>1. /\ job' = job /\ UNCHANGED sharedVars /\ pc[w] = "count"
        /\ met' = [met EXCEPT ![w] = met'[w]]
    BY <1>0, <1>4 DEF Count, TypeOK
  <2>2. CASE met[w]
    <3>1. /\ pc'[w] = "claim" /\ nonce'[w] = nonce[w]
          /\ pc' = [pc EXCEPT ![w] = pc'[w]]
          /\ nonce' = [nonce EXCEPT ![w] = nonce'[w]]
      BY <1>0, <1>4, <2>2 DEF Count, Goto, TypeOK
    <3>2. Progress(w)
      BY DEF SearchInv
    <3>3. Progress(w)' /\ Ended(w)'
      BY <2>1, <3>1, <3>2 DEF Progress, Ended, InRange
    <3> QED BY <1>0, <2>1, <3>1, <3>3, LocalStep
  <2>3. CASE ~met[w]
    <3>1. Progress(w)' /\ Ended(w)'
      BY <1>0, <1>4, <2>3, CountExact
    <3>2. /\ pc' = [pc EXCEPT ![w] = pc'[w]]
          /\ nonce' = [nonce EXCEPT ![w] = nonce'[w]]
      <4>1. MoveOn(w, job.workers)
        BY <1>4, <2>3 DEF Count
      <4> QED BY <1>0, <4>1, MoveOnType, WorkersType
    <3> QED BY <1>0, <2>1, <3>1, <3>2, LocalStep
  <2> QED BY <2>2, <2>3
<1>5. ASSUME NEW w \in Worker, Claim(w) PROVE SearchInv'
  <2>1. /\ job' = job /\ UNCHANGED <<cancelled, resultCh, closed, returned, result>>
        /\ found' /\ pc[w] = "claim" /\ nonce'[w] = nonce[w]
        /\ pc'[w] = IF found THEN "done" ELSE "send"
        /\ pc' = [pc EXCEPT ![w] = pc'[w]]
        /\ nonce' = [nonce EXCEPT ![w] = nonce'[w]]
        /\ met' = [met EXCEPT ![w] = met'[w]]
    BY <1>0, <1>5 DEF Claim, Goto, TypeOK
  <2>2. Progress(w)
    BY DEF SearchInv
  <2>3. Progress(w)' /\ Ended(w)'
    BY <2>1, <2>2 DEF Progress, Ended, InRange
  <2>4. ASSUME NEW v \in Worker PROVE Progress(v)' /\ Ended(v)'
    <3>1. CASE v = w
      BY <2>3, <3>1
    <3>2. CASE v # w
      BY <2>1, <3>2, OthersProgress
    <3> QED BY <3>1, <3>2
  <2>5. ~closed
    BY <2>1 DEF SearchInv, Shared
  <2>6. (found /\ ~returned => resultCh # {} \/ \E v \in Worker : pc[v] = "send")'
    <3>1. CASE found
      <4>1. ASSUME NEW v \in Worker, pc[v] = "send" PROVE pc'[v] = "send"
        BY <1>0, <2>1, <4>1 DEF TypeOK
      <4> QED BY <2>1, <3>1, <4>1 DEF SearchInv, Shared
    <3>2. CASE ~found
      BY <2>1, <3>2
    <3> QED BY <3>1, <3>2
  <2>7. SearchIsExact'
    BY <2>1 DEF SearchInv, Shared, SearchIsExact, InRange
  <2>8. (\A n \in resultCh : InRange(n))'
    BY <2>1 DEF SearchInv, Shared, InRange
  <2>9. Shared'
    BY <2>1, <2>5, <2>6, <2>7, <2>8 DEF Shared
  <2> QED BY <1>0, <2>4, <2>9 DEF SearchInv
<1>6. ASSUME NEW w \in Worker, Send(w) PROVE SearchInv'
  <2>1. /\ job' = job /\ UNCHANGED <<found, cancelled, closed, returned, result>>
        /\ pc[w] = "send" /\ pc'[w] = "cancel" /\ resultCh' = {nonce[w]}
        /\ pc' = [pc EXCEPT ![w] = pc'[w]]
        /\ nonce' = [nonce EXCEPT ![w] = nonce'[w]]
        /\ met' = [met EXCEPT ![w] = met'[w]]
    BY <1>0, <1>6 DEF Send, Goto, TypeOK
  <2>2. Progress(w)
    BY DEF SearchInv
  <2>3. Progress(w)' /\ Ended(w)'
    BY <2>1, <2>2 DEF Progress, Ended
  <2>4. ASSUME NEW v \in Worker PROVE Progress(v)' /\ Ended(v)'
    <3>1. CASE v = w
      BY <2>3, <3>1
    <3>2. CASE v # w
      BY <2>1, <3>2, OthersProgress
    <3> QED BY <3>1, <3>2
  <2>5. ~closed
    BY <2>1 DEF SearchInv, Shared
  <2>6. SearchIsExact'
    BY <2>1 DEF SearchInv, Shared, SearchIsExact, InRange
  <2>7. (\A n \in resultCh : InRange(n))'
    BY <2>1, <2>2 DEF Progress, InRange
  <2>8. Shared'
    BY <2>1, <2>5, <2>6, <2>7 DEF SearchInv, Shared
  <2> QED BY <1>0, <2>4, <2>8 DEF SearchInv
<1>7. ASSUME NEW w \in Worker, Cancel(w) PROVE SearchInv'
  <2>1. /\ job' = job /\ UNCHANGED <<found, resultCh, closed, returned, result>>
        /\ pc[w] = "cancel" /\ pc'[w] = "done"
        /\ pc' = [pc EXCEPT ![w] = pc'[w]]
        /\ nonce' = [nonce EXCEPT ![w] = nonce'[w]]
        /\ met' = [met EXCEPT ![w] = met'[w]]
    BY <1>0, <1>7 DEF Cancel, Goto, TypeOK
  <2>2. found
    BY <2>1 DEF SearchInv, Progress
  <2>3. Progress(w)' /\ Ended(w)'
    BY <2>1, <2>2 DEF Progress, Ended
  <2>4. ASSUME NEW v \in Worker PROVE Progress(v)' /\ Ended(v)'
    <3>1. CASE v = w
      BY <2>3, <3>1
    <3>2. CASE v # w
      BY <2>1, <3>2, OthersProgress
    <3> QED BY <3>1, <3>2
  <2>5. ~closed
    BY <2>1 DEF SearchInv, Shared
  <2>6. (found /\ ~returned => resultCh # {} \/ \E v \in Worker : pc[v] = "send")'
    <3>1. ASSUME NEW v \in Worker, pc[v] = "send" PROVE pc'[v] = "send"
      BY <1>0, <2>1, <3>1 DEF TypeOK
    <3> QED BY <2>1, <3>1 DEF SearchInv, Shared
  <2>7. SearchIsExact'
    BY <2>1 DEF SearchInv, Shared, SearchIsExact, InRange
  <2>8. (\A n \in resultCh : InRange(n))'
    BY <2>1 DEF SearchInv, Shared, InRange
  <2>9. Shared'
    BY <2>1, <2>2, <2>5, <2>6, <2>7, <2>8 DEF Shared
  <2> QED BY <1>0, <2>4, <2>9 DEF SearchInv
<1>8. CASE Close
  <2>1. ASSUME NEW w \in Worker PROVE Progress(w)' /\ Ended(w)'
    BY <1>8 DEF Close, SearchInv, Progress, Ended, InRange, Turn
  <2>2. SearchIsExact'
    BY <1>8 DEF Close, SearchInv, Shared, SearchIsExact, InRange
  <2>3. Shared'
    BY <1>8, <2>2 DEF Close, SearchInv, Shared, InRange
  <2> QED BY <1>0, <2>1, <2>3 DEF SearchInv
<1>9. CASE Return
  BY <1>9, ReturnExact
<1>10. CASE UNCHANGED vars
  <2>1. ASSUME NEW w \in Worker PROVE Progress(w)' /\ Ended(w)'
    BY <1>10 DEF vars, SearchInv, Progress, Ended, InRange, Turn
  <2>2. SearchIsExact'
    BY <1>10 DEF vars, SearchInv, Shared, SearchIsExact, InRange
  <2>3. Shared'
    BY <1>10, <2>2 DEF vars, SearchInv, Shared, InRange
  <2> QED BY <1>0, <2>1, <2>3 DEF SearchInv
<1> QED BY <1>1, <1>2, <1>3, <1>4, <1>5, <1>6, <1>7, <1>8, <1>9, <1>10
        DEF Next, Work

\* Mine returns a nonce of the range, and none only when no nonce of the range
\* meets the target: however the workers interleave, whoever wins the race for
\* "found", and whether or not the device fails to hash (Mine).
THEOREM SearchIsComplete == Spec => []SearchIsExact
<1>1. SearchInv => SearchIsExact
  BY DEF SearchInv, Shared
<1> QED BY SearchInit, SearchStep, <1>1, PTL DEF Spec

-----------------------------------------------------------------------------
(* The batch search.                                                       *)

LEMMA LeastNatural ==
    ASSUME NEW T \in SUBSET Nat, T # {}
    PROVE  \E x \in T : \A y \in T : x <= y
<1>1. IsWellFoundedOn({ss \in Nat \X Nat : ss[1] < ss[2]}, Nat)
  BY NatLessThanWellFounded DEF OpToRel
<1>2. PICK x \in T : \A y \in T : ~(<<y, x>> \in {ss \in Nat \X Nat : ss[1] < ss[2]})
  BY <1>1, WFMin
<1>3. ASSUME NEW y \in T PROVE x <= y
  <2>1. x \in Nat /\ y \in Nat
    OBVIOUS
  <2>2. <<y, x>> \in Nat \X Nat /\ <<y, x>>[1] = y /\ <<y, x>>[2] = x
    BY <2>1
  <2>3. ~(y < x)
    BY <1>2, <2>2
  <2> QED BY <2>1, <2>3
<1> QED BY <1>3

\* The batch covers the nonces the workers were asked to try.
LEMMA BatchIsRange ==
    ASSUME TypeOK, job.maxNonces > 0 \/ DefaultBatch > MaxNonce
    PROVE  BatchNonces(job) = {n \in Nonce : InRange(n)}
<1>1. job.maxNonces \in Nat /\ job.start \in Nat /\ MaxNonce \in Nat
  BY MinerAssumption DEF TypeOK, Job, Nonce
<1>2. CASE job.maxNonces = 0
  <2>1. ASSUME NEW n \in Nonce, n >= job.start PROVE n - job.start < DefaultBatch
    BY <1>1, <1>2, <2>1, MinerAssumption DEF Nonce
  <2> QED BY <1>2, <2>1 DEF BatchNonces, InRange
<1>3. CASE job.maxNonces # 0
  BY <1>1, <1>3 DEF BatchNonces, InRange
<1> QED BY <1>2, <1>3

LEMMA BatchStep == MInv /\ SearchInv => BatchAgrees
<1> SUFFICES ASSUME MInv, SearchInv, returned,
                    job.maxNonces > 0 \/ DefaultBatch > MaxNonce
             PROVE  result = {} <=> mineBatch(job) = {}
  BY DEF BatchAgrees
<1> DEFINE T == BatchNonces(job) \cap job.good
<1>1. TypeOK /\ SearchIsExact /\ result \subseteq job.good
  BY DEF MInv, SearchInv, Shared
<1>2. BatchNonces(job) = {n \in Nonce : InRange(n)}
  BY <1>1, BatchIsRange
<1>3. T \in SUBSET Nat
  BY <1>2 DEF Nonce
<1>4. CASE result = {}
  <2>1. T = {}
    BY <1>1, <1>2, <1>4 DEF SearchIsExact
  <2> QED BY <1>4, <2>1 DEF mineBatch
<1>5. CASE result # {}
  <2>1. PICK n \in result : n \in Nonce /\ InRange(n) /\ n \in job.good
    BY <1>1, <1>5 DEF SearchIsExact, TypeOK
  <2>2. T # {}
    BY <1>2, <2>1
  <2>3. PICK x \in T : \A y \in T : x <= y
    BY <1>3, <2>2, LeastNatural
  <2>4. x \in mineBatch(job)
    BY <2>3 DEF mineBatch
  <2> QED BY <1>5, <2>4
<1> QED BY <1>4, <1>5

\* A backend that hashes a whole batch at once (mineBatch) finds a nonce
\* exactly when the workers (Mine) do.
THEOREM BatchSearchAgrees ==
    ASSUME HashFailures = {FALSE}
    PROVE  Spec => []BatchAgrees
<1>1. MInv /\ [Next]_vars => MInv'
  BY SolvesStep
<1> QED BY SolvesInit, <1>1, SearchInit, SearchStep, BatchStep, PTL DEF Spec

-----------------------------------------------------------------------------
(* No nonce is hashed twice.                                               *)

\* A worker is past the nonces of its turn that have been hashed.
Past(n) ==
    /\ n >= job.start
    /\ \/ n < nonce[Turn(n)]
       \/ n = nonce[Turn(n)] /\ pc[Turn(n)] \notin {"start", "check", "hash"}

Counting == {w \in Worker : pc[w] = "count"}

CountInv ==
    /\ SearchInv
    /\ \A n \in tried : Past(n)
    /\ NoNonceTwice

LEMMA FiniteSets ==
    ASSUME TypeOK
    PROVE  /\ IsFiniteSet(tried) /\ Cardinality(tried) \in Nat
           /\ IsFiniteSet(Counting) /\ Cardinality(Counting) \in Nat
<1>1. IsFiniteSet(Nonce) /\ IsFiniteSet(Worker)
  BY FS_Interval, MinerAssumption DEF Nonce, Worker
<1>2. tried \in SUBSET Nonce /\ Counting \in SUBSET Worker
  BY DEF TypeOK, Counting
<1> QED BY <1>1, <1>2, FS_Subset, FS_CardinalityType

\* A step that only takes one worker on keeps the others past their nonces.
LEMMA StillPast ==
    ASSUME SearchInv, TypeOK', NEW w \in Worker, job' = job, NEW n \in tried, Past(n),
           pc' = [pc EXCEPT ![w] = pc'[w]],
           nonce' = [nonce EXCEPT ![w] = nonce'[w]],
           \/ nonce'[w] > nonce[w]
           \/ /\ nonce'[w] = nonce[w]
              /\ pc[w] \in {"start", "check", "hash"}
                   \/ pc'[w] \notin {"start", "check", "hash"}
    PROVE  Past(n)'
<1>1. n \in Nonce /\ n >= job.start /\ TypeOK
  BY DEF SearchInv, TypeOK, Past
<1>2. Turn(n) \in Worker /\ Turn(n)' = Turn(n)
  BY <1>1, TurnType DEF Turn
<1>3. n \in Nat /\ nonce[Turn(n)] \in Nat /\ nonce'[w] \in Nat
  BY <1>1, <1>2, MinerAssumption DEF TypeOK, Nonce
<1> HIDE DEF Turn
<1>4. CASE Turn(n) = w
  BY <1>1, <1>2, <1>3, <1>4 DEF Past, TypeOK
<1>5. CASE Turn(n) # w
  BY <1>1, <1>2, <1>5 DEF Past, TypeOK
<1> QED BY <1>4, <1>5

\* A worker hashes a nonce nobody has hashed.
LEMMA HashFresh ==
    ASSUME CountInv, NEW w \in Worker, pc[w] = "hash"
    PROVE  nonce[w] \notin tried /\ nonce[w] >= job.start /\ Turn(nonce[w]) = w
<1>1. nonce[w] >= job.start /\ Turn(nonce[w]) = w /\ nonce[w] \in Nat
  BY MinerAssumption DEF CountInv, SearchInv, Progress, TypeOK, Nonce
<1>2. ASSUME nonce[w] \in tried PROVE FALSE
  <2>1. Past(nonce[w])
    BY <1>2 DEF CountInv
  <2> QED BY <1>1, <2>1 DEF Past
<1> QED BY <1>1, <1>2

\* A step of a worker that hashes nothing and does not enter or leave "count".
LEMMA NoHash ==
    ASSUME CountInv, SearchInv', NEW w \in Worker, job' = job,
           UNCHANGED <<tried, totalHashes>>,
           pc' = [pc EXCEPT ![w] = pc'[w]],
           nonce' = [nonce EXCEPT ![w] = nonce'[w]],
           \/ nonce'[w] > nonce[w]
           \/ /\ nonce'[w] = nonce[w]
              /\ pc[w] \in {"start", "check", "hash"}
                   \/ pc'[w] \notin {"start", "check", "hash"},
           pc[w] # "count", pc'[w] # "count"
    PROVE  CountInv'
<1>1. ASSUME NEW n \in tried PROVE Past(n)'
  BY StillPast DEF CountInv, SearchInv
<1>2. Counting' = Counting
  BY DEF Counting, CountInv, SearchInv, TypeOK
<1>3. NoNonceTwice'
  BY <1>2 DEF CountInv, NoNonceTwice, Hashing, Counting
<1> QED BY <1>1, <1>3 DEF CountInv

LEMMA CountInit == Init => CountInv
<1> SUFFICES ASSUME Init PROVE CountInv
  OBVIOUS
<1>1. tried = {} /\ totalHashes = 0 /\ {w \in Worker : pc[w] = "count"} = {}
  BY DEF Init
<1>2. NoNonceTwice
  BY <1>1, FS_EmptySet DEF NoNonceTwice, Hashing
<1> QED BY <1>1, <1>2, SearchInit DEF CountInv

\* How far a worker moves on.
LEMMA MoveOnUp ==
    ASSUME TypeOK, NEW w \in Worker, NEW delta \in Nat, MoveOn(w, delta)
    PROVE  \/ nonce'[w] = nonce[w] + delta
           \/ nonce'[w] = nonce[w] /\ pc'[w] = "done"
<1>1. CASE AddUint64(nonce[w], delta) = {}
  BY <1>1 DEF MoveOn, Goto, TypeOK
<1>2. CASE AddUint64(nonce[w], delta) # {}
  <2>1. AddUint64(nonce[w], delta) = {nonce[w] + delta}
    BY <1>2 DEF AddUint64
  <2> QED BY <1>2, <2>1 DEF MoveOn, TypeOK
<1> QED BY <1>1, <1>2

LEMMA CountStep == CountInv /\ [Next]_vars => CountInv'
<1> SUFFICES ASSUME CountInv, [Next]_vars PROVE CountInv'
  OBVIOUS
<1>0. TypeOK /\ TypeOK' /\ SearchInv /\ SearchInv'
  BY SearchStep DEF CountInv, SearchInv
<1>1. ASSUME NEW w \in Worker, Start(w) PROVE CountInv'
  <2>1. w \in Nat /\ MoveOn(w, w) /\ pc[w] = "start"
    BY <1>1, MinerAssumption DEF Start, Worker
  <2>2. /\ pc' = [pc EXCEPT ![w] = pc'[w]] /\ pc'[w] \in {"check", "done"}
        /\ nonce' = [nonce EXCEPT ![w] = nonce'[w]]
    BY <1>0, <2>1, MoveOnType
  <2>3. nonce'[w] = nonce[w] \/ nonce'[w] > nonce[w]
    <3>1. nonce[w] \in Nat
      BY <1>0, MinerAssumption DEF TypeOK, Nonce
    <3> QED BY <1>0, <2>1, <3>1, MoveOnUp
  <2>4. job' = job /\ UNCHANGED <<tried, totalHashes>>
    BY <1>1 DEF Start
  <2> QED BY <1>0, <2>1, <2>2, <2>3, <2>4, NoHash
<1>2. ASSUME NEW w \in Worker, Check(w) PROVE CountInv'
  <2>1. /\ job' = job /\ UNCHANGED <<tried, totalHashes>>
        /\ pc[w] = "check" /\ pc'[w] # "count"
        /\ pc' = [pc EXCEPT ![w] = pc'[w]]
        /\ nonce' = [nonce EXCEPT ![w] = nonce'[w]] /\ nonce'[w] = nonce[w]
    BY <1>0, <1>2 DEF Check, Goto, TypeOK
  <2> QED BY <1>0, <2>1, NoHash
<1>3. ASSUME NEW w \in Worker, NEW failed \in HashFailures, Hash(w, failed)
      PROVE CountInv'
  <2>1. /\ job' = job /\ totalHashes' = totalHashes /\ tried' = tried \cup {nonce[w]}
        /\ pc[w] = "hash" /\ pc'[w] = "count" /\ nonce'[w] = nonce[w]
        /\ pc' = [pc EXCEPT ![w] = pc'[w]]
        /\ nonce' = [nonce EXCEPT ![w] = nonce'[w]]
    BY <1>0, <1>3 DEF Hash, Goto, TypeOK
  <2>2. nonce[w] \notin tried /\ nonce[w] >= job.start /\ Turn(nonce[w]) = w
    BY <2>1, HashFresh
  <2>3. ASSUME NEW n \in tried' PROVE Past(n)'
    <3>1. CASE n \in tried
      BY <1>0, <2>1, <3>1, StillPast DEF CountInv
    <3>2. CASE n = nonce[w]
      BY <2>1, <2>2, <3>2 DEF Past, Turn
    <3> QED BY <2>1, <3>1, <3>2
  <2>4. Counting' = Counting \cup {w} /\ w \notin Counting
    BY <1>0, <2>1 DEF Counting, TypeOK
  <2>5. /\ Cardinality(Counting') = Cardinality(Counting) + 1
        /\ Cardinality(tried') = Cardinality(tried) + 1
    BY <1>0, <2>1, <2>2, <2>4, FiniteSets, FS_AddElement
  <2>6. NoNonceTwice'
    BY <1>0, <2>1, <2>5, FiniteSets
       DEF CountInv, NoNonceTwice, Hashing, Counting, TypeOK
  <2> QED BY <1>0, <2>3, <2>6 DEF CountInv
<1>4. ASSUME NEW w \in Worker, Count(w) PROVE CountInv'
  <2>1. /\ job' = job /\ tried' = tried /\ totalHashes' = totalHashes + 1
        /\ pc[w] = "count"
    BY <1>4 DEF Count
  <2>2. /\ pc' = [pc EXCEPT ![w] = pc'[w]]
        /\ nonce' = [nonce EXCEPT ![w] = nonce'[w]]
        /\ pc'[w] \in {"check", "claim", "done"}
        /\ \/ nonce'[w] > nonce[w]
           \/ nonce'[w] = nonce[w] /\ pc'[w] # "check"
    <3>1. CASE met[w]
      BY <1>0, <1>4, <3>1 DEF Count, Goto, TypeOK
    <3>2. CASE ~met[w]
      <4>1. MoveOn(w, job.workers)
        BY <1>4, <3>2 DEF Count
      <4>2. nonce[w] \in Nat
        BY <1>0, MinerAssumption DEF TypeOK, Nonce
      <4>3. job.workers \in Nat \ {0}
        BY <1>0, WorkersType
      <4> QED BY <1>0, <4>1, <4>2, <4>3, MoveOnType, MoveOnUp
    <3> QED BY <3>1, <3>2
  <2>3. ASSUME NEW n \in tried PROVE Past(n)'
    BY <1>0, <2>1, <2>2, <2>3, StillPast DEF CountInv
  <2>4. Counting' = Counting \ {w} /\ w \in Counting
    BY <1>0, <2>1, <2>2 DEF Counting, TypeOK
  <2>5. Cardinality(Counting') = Cardinality(Counting) - 1
    BY <1>0, <2>4, FiniteSets, FS_RemoveElement
  <2>6. NoNonceTwice'
    BY <1>0, <2>1, <2>5, FiniteSets
       DEF CountInv, NoNonceTwice, Hashing, Counting, TypeOK
  <2> QED BY <1>0, <2>1, <2>3, <2>6 DEF CountInv
<1>5. ASSUME NEW w \in Worker, Claim(w) \/ Send(w) \/ Cancel(w) PROVE CountInv'
  <2>1. /\ job' = job /\ UNCHANGED <<tried, totalHashes>>
        /\ pc[w] \in {"claim", "send", "cancel"}
        /\ pc'[w] \in {"send", "cancel", "done"}
        /\ pc' = [pc EXCEPT ![w] = pc'[w]]
        /\ nonce' = [nonce EXCEPT ![w] = nonce'[w]] /\ nonce'[w] = nonce[w]
    BY <1>0, <1>5 DEF Claim, Send, Cancel, Goto, TypeOK
  <2> QED BY <1>0, <2>1, NoHash
<1>6. CASE Close \/ Return \/ UNCHANGED vars
  <2>1. UNCHANGED <<job, pc, nonce, tried, totalHashes>>
    BY <1>6 DEF Close, Return, vars
  <2> QED BY <1>0, <2>1 DEF CountInv, Past, Turn, NoNonceTwice, Hashing
<1> QED BY <1>1, <1>2, <1>3, <1>4, <1>5, <1>6 DEF Next, Work

\* Each hash that is counted, and from which the hash rate is computed, is the
\* hash of another nonce: no two workers try the same one (Mine).
THEOREM HashesAreCounted == Spec => []NoNonceTwice
<1>1. CountInv => NoNonceTwice
  BY DEF CountInv
<1> QED BY CountInit, CountStep, <1>1, PTL DEF Spec
=============================================================================
