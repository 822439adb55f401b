------------------------ MODULE ValidatorRefinement -------------------------
(***************************************************************************)
(* InsertBlock over the store implements BestChain and AtomicInsert, as    *)
(* long as one goroutine inserts at a time: rewrites of the file may fail  *)
(* and the process may be killed.                                          *)
(*                                                                         *)
(* For BestChain a block is "considered" when its comparison with the tip  *)
(* has been acted upon, or when it is the first block.  For AtomicInsert a *)
(* call takes effect when the block is stored: what it decides afterwards  *)
(* is decided then.                                                        *)
(***************************************************************************)
EXTENDS Validator

\* The work of the chain behind each block, computed from headers alone.
\* It is a constant because it does not depend on what any node stores.
CONSTANT ChainWork

ASSUME ChainWorkAssumption ==
    /\ ChainWork \in [Hash -> Nat]
    /\ \A h \in Hash :
         ChainWork[h] =
           CalcBlockWork(Header[h].target)
             + IF Header[h].height > 0 /\ Header[h].parentHash \in Hash
               THEN ChainWork[Header[h].parentHash] ELSE 0

Promise == INSTANCE BestChain WITH
    Block <- Hash, Work <- ChainWork, None <- ZeroHash,
    known <- store.decided, tip <- store.currentTip,
    saved <- <<file.decided, file.currentTip>>

\* Every behaviour of InsertBlock, flush failures and restarts included, is
\* one of the promised chain selection on true chain work.
ImplementsBestChain == Promise!BestChainSpec

-----------------------------------------------------------------------------
\* The outcome of the comparison that p is about to make, or has made.
Outcome(p) ==
    IF pc[p] = "setTip" THEN arg[p]
    ELSE SelectBestChainByTotalWork(store.currentTip, TipWork(store), arg[p], work[p])

Deciding == {p \in Caller : pc[p] \in {"compare", "setTip"}}

\* The store as it will be when the call that has stored its block returns.
Foreseen ==
    IF Deciding = {} THEN store
    ELSE LET p == CHOOSE p \in Deciding : TRUE
         IN  Decided(store, arg[p], Outcome(p))

Progress ==
    [p \in Caller |->
       CASE pc[p] \in {"validate", "hasBlock", "parentWork", "store"} -> "called"
         [] p \in Deciding -> IF Outcome(p) = arg[p] THEN "won" ELSE "lost"
         [] OTHER -> pc[p]]

Accepted(s, h, t) == ValidateHeader(s, Header[h], t)
CurrentTip(s) == s.currentTip

AtOnce == INSTANCE AtomicInsert WITH
    Block <- Hash, None <- ZeroHash, NoChain <- Empty,
    Accepts <- Accepted, Has <- HasBlock, Half <- Stored, Whole <- StoredAndCompared,
    TipOf <- CurrentTip,
    chain <- Foreseen, saved <- file, time <- now, block <- arg, state <- Progress

\* A call of InsertBlock takes effect at one moment, although it consists of
\* six steps, the clock moves between them, rewrites fail, and the process may
\* be killed in the middle: what module Network takes it for.
ImplementsAtomicInsert == AtOnce!AtomicSpec
=============================================================================
