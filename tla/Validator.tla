----------------------------- MODULE Validator ------------------------------
(***************************************************************************)
(* pkg/consensus: block validation and chain selection, over the store.    *)
(*                                                                         *)
(* Validator.InsertBlock runs in the goroutine of whoever submits a block: *)
(* the miner loop and one connection handler per peer.  No lock is held    *)
(* across it.  Each of its calls into the store takes the store's lock by  *)
(* itself, so a call is a sequence of atomic steps, pc[p] names the next   *)
(* one, and the steps of different callers interleave freely.              *)
(***************************************************************************)
EXTENDS ChainStore, Rules

CONSTANTS
    Caller,         \* the goroutines that may be inside InsertBlock
    InitialTime,    \* the validator's clock when the node starts
    MaxTime,        \* bound: the clock stops here
    MayCrash        \* whether the process may be killed and started again

ASSUME ValidatorAssumption ==
    /\ InitialTime \in Nat /\ MaxTime \in Nat
    /\ MayCrash \in BOOLEAN

VARIABLES
    now,            \* v.now().Unix()
    pc,             \* where each caller is in InsertBlock
    arg,            \* the block it is inserting
    work            \* its local totalWork, once computed

callVars == <<pc, arg, work>>
vars == <<store, file, acked, now, pc, arg, work>>

Steps == {"validate", "hasBlock", "parentWork", "store", "compare", "setTip"}

\* How InsertBlock returns: (work, true, nil) is "tip", (work, false, nil) is
\* "side" for a new block and "known" for a stored one, the rest is "error".
Results == {"tip", "side", "known", "error"}

-----------------------------------------------------------------------------
Init ==
    /\ store = Empty /\ file = Empty /\ acked = {}
    /\ now = InitialTime
    /\ pc = [p \in Caller |-> "idle"]
    /\ arg = [p \in Caller |-> ZeroHash]
    /\ work = [p \in Caller |-> 0]

Goto(p, l) == pc' = [pc EXCEPT ![p] = l]

\* Mutant of Call: the block is not handed over.
CallWithout(p, h) ==
    /\ pc[p] \notin Steps
    /\ Goto(p, "validate")
    /\ work' = [work EXCEPT ![p] = 0]
    /\ UNCHANGED <<storeVars, now, arg>>

Call(p, h) ==
    /\ pc[p] \notin Steps
    /\ Goto(p, "validate")
    /\ arg' = [arg EXCEPT ![p] = h]
    /\ work' = [work EXCEPT ![p] = 0]
    /\ UNCHANGED <<storeVars, now>>

Validate(p) ==
    /\ pc[p] = "validate"
    /\ Goto(p, IF ValidateHeader(store, Header[arg[p]], now)
               THEN "hasBlock" ELSE "error")
    /\ UNCHANGED <<storeVars, now, arg, work>>

CheckKnown(p) ==
    /\ pc[p] = "hasBlock"
    /\ Goto(p, IF HasBlock(store, arg[p]) THEN "known" ELSE "parentWork")
    /\ UNCHANGED <<storeVars, now, arg, work>>

\* Mutant of ParentWork: the tip's work is taken for the parent's.
ParentWorkOfTip(p) ==
    /\ pc[p] = "parentWork"
    /\ Goto(p, "store")
    /\ work' = [work EXCEPT ![p] = CalcBlockWork(Header[arg[p]].target) + TipWork(store)]
    /\ UNCHANGED <<storeVars, now, arg>>

ParentWork(p) ==
    /\ pc[p] = "parentWork"
    /\ IF Header[arg[p]].height > 0 /\ ~HasBlock(store, Header[arg[p]].parentHash)
       THEN Goto(p, "error") /\ UNCHANGED work
       ELSE Goto(p, "store") /\ work' = [work EXCEPT ![p] = AddWork(store, arg[p])]
    /\ UNCHANGED <<storeVars, now, arg>>

Store(p, ok) ==
    /\ pc[p] = "store"
    /\ StoreBlock(arg[p], work[p], ok)
    /\ Goto(p, IF ok THEN "compare" ELSE "error")
    /\ UNCHANGED <<now, arg, work>>

\* Reads the tip and decides on it; the decision is acted upon in SetTip,
\* after the store's lock has been released.
Compare(p) ==
    /\ pc[p] = "compare"
    /\ IF \/ store.currentTip = ZeroHash
          \/ SelectBestChainByTotalWork(store.currentTip, TipWork(store),
                                        arg[p], work[p]) = arg[p]
       THEN Goto(p, "setTip") /\ UNCHANGED store
       ELSE Goto(p, "side")
            /\ store' = Decided(store, arg[p], store.currentTip)
    /\ UNCHANGED <<file, acked, now, arg, work>>

SetTip(p, ok) ==
    /\ pc[p] = "setTip"
    /\ SetCurrentTip(arg[p], ok)
    /\ Goto(p, IF ok THEN "tip" ELSE "error")
    /\ UNCHANGED <<now, arg, work>>

Tick ==
    /\ now < MaxTime
    /\ now' = now + 1
    /\ UNCHANGED <<storeVars, callVars>>

\* The process is killed at any point, and started on the same data directory.
Crash ==
    /\ MayCrash
    /\ Load
    /\ pc' = [p \in Caller |-> "idle"]
    /\ arg' = [p \in Caller |-> ZeroHash]
    /\ work' = [p \in Caller |-> 0]
    /\ UNCHANGED now

\* A call in progress goes on.
Continue(p) ==
    \/ Validate(p)
    \/ CheckKnown(p)
    \/ ParentWork(p)
    \/ \E ok \in FlushResults : Store(p, ok)
    \/ Compare(p)
    \/ \E ok \in FlushResults : SetTip(p, ok)

Step(p) == Continue(p) \/ \E h \in Hash : Call(p, h)

Next == (\E p \in Caller : Step(p)) \/ Tick \/ Crash

Spec == Init /\ [][Next]_vars

-----------------------------------------------------------------------------
TypeOK ==
    /\ StoreTypeOK
    /\ now \in Nat
    /\ pc \in [Caller -> {"idle"} \cup Steps \cup Results]
    /\ arg \in [Caller -> Hash \cup {ZeroHash}]
    /\ work \in [Caller -> Nat]
    /\ \A p \in Caller : pc[p] # "idle" => arg[p] \in Hash

\* Every stored block obeys the header rules, against a parent that is stored
\* with it, although validation ran in an earlier step than the insertion and
\* other callers and restarts may come between.  Hence each stored block heads
\* a complete chain down to a genesis, on disk too.
StoredBlocksValid == ChainRules(store) /\ ChainRules(file)

\* The recorded total work of every stored block is its own work on top of
\* its parent's record: the sum over its chain, whoever inserted the parent,
\* before or after a restart, and however often the block was written.
WorkAccumulates == WorkSums(store) /\ WorkSums(file)

-----------------------------------------------------------------------------
\* While one goroutine inserts at a time, the tip is the best of all blocks
\* that were ever compared with it, in memory and in what a restart would
\* read, even though rewrites fail and the process is killed between any two
\* steps.
TipBeatsDecided == BestOfDecided(store) /\ BestOfDecided(file)

\* While one goroutine inserts at a time, the tip on disk is only ever
\* replaced by a better one.
TipOnDiskImproves ==
    [][file'.currentTip # file.currentTip /\ file.currentTip # ZeroHash
         => Beats(file', file'.currentTip, file.currentTip)]_vars

\* The tip is only ever replaced by a better one: chain selection by total
\* work.
TipImproves ==
    [][store'.currentTip # store.currentTip /\ store.currentTip # ZeroHash
         => Beats(store', store'.currentTip, store.currentTip)]_vars
=============================================================================
