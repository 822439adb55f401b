-------------------------- MODULE SequentialProofs --------------------------
(***************************************************************************)
(* Chain selection when only one goroutine inserts at a time: then, and    *)
(* only then, the tip read in Compare is still the tip in SetTip.          *)
(* Rewrites of the file may fail and the process may be killed.            *)
(***************************************************************************)
EXTENDS ValidatorProofs, ValidatorRefinement

OneCaller == \A p, q \in Caller : p = q

\* The strengthening of IInv: the selection is sound in memory and on disk,
\* the file is never ahead, and the block about to become the tip still
\* deserves to.
SInv ==
    /\ IInv
    /\ Selected(store)
    /\ Selected(file)
    /\ NotBehind(store, file)
    /\ \A p \in Caller : pc[p] = "setTip" => Deserves(store, arg[p])

-----------------------------------------------------------------------------
LEMMA SInit == Init => SInv
  BY InitInv DEF Init, SInv, Empty, Selected, BestOfDecided, NotBehind

\* A step of the only caller keeps the selection in memory sound, never moves
\* the tip back, and leaves in the file what was there or what is in memory.
LEMMA StepSelects ==
    ASSUME SInv, NEW p \in Caller, Step(p)
    PROVE  /\ Selected(store') /\ NotBehind(store', store) /\ Extends(store', store)
           /\ file' = file \/ file' = store'
           /\ pc'[p] = "setTip" => Deserves(store', arg'[p])
<1>0. IInv /\ Selected(store)
  BY DEF SInv
<1>1. ASSUME UNCHANGED store
      PROVE  Selected(store') /\ NotBehind(store', store) /\ Extends(store', store)
  BY <1>0, <1>1, NotBehindReflexive DEF Extends
<1>2. CASE \/ \E h \in Hash : Call(p, h)
           \/ Validate(p) \/ CheckKnown(p) \/ ParentWork(p)
  <2>1. UNCHANGED <<store, file>>
    BY <1>2 DEF Call, Validate, CheckKnown, ParentWork, storeVars
  <2>2. pc'[p] # "setTip"
    BY <1>0, <1>2 DEF Call, Validate, CheckKnown, ParentWork, Goto, IInv, TypeOK
  <2> QED BY <1>1, <2>1, <2>2
<1>3. ASSUME NEW ok \in FlushResults, Store(p, ok)
      PROVE  /\ Selected(store') /\ NotBehind(store', store)
             /\ Extends(store', store)
             /\ file' = file \/ file' = store'
             /\ pc'[p] # "setTip"
  <2>1. /\ arg[p] \in Hash
        /\ ValidAlone(Header[arg[p]])
        /\ ValidParent(store, Header[arg[p]])
        /\ work[p] = AddWork(store, arg[p])
    BY <1>0, <1>3 DEF IInv, TypeOK, InFlight, Store, PastValidation, PastWork
  <2>2. store' = WithBlock(store, arg[p], AddWork(store, arg[p]))
    BY <1>3, <2>1 DEF Store, StoreBlock
  <2>3. Selected(store') /\ NotBehind(store', store) /\ Extends(store', store)
    BY <1>0, <2>1, <2>2, StoreSelects, WithBlockExtends DEF IInv
  <2>4. file' = file \/ file' = store'
    BY <1>3 DEF Store, StoreBlock, flushLocked
  <2>5. pc'[p] # "setTip"
    BY <1>0, <1>3 DEF Store, Goto, IInv, TypeOK
  <2> QED BY <2>3, <2>4, <2>5
<1>4. CASE Compare(p)
  <2>1. /\ arg[p] \in store.blocks
        /\ work[p] = store.totalWork[arg[p]]
    BY <1>0, <1>4 DEF IInv, InFlight, Compare, PastWork, PastStore, HasBlock,
                      Consistent, WorkSums
  <2>2. /\ store.currentTip \in store.blocks
        /\ store.currentTip # ZeroHash
        /\ TipWork(store) = store.totalWork[store.currentTip]
    BY <1>0, <2>1, BlocksAssumption DEF IInv, Consistent, Coherent, IsStore, TipWork
  <2> DEFINE best == SelectBestChainByTotalWork(store.currentTip, TipWork(store),
                                                arg[p], work[p])
  <2>3. CASE best = arg[p]
    <3>1. Deserves(store, arg[p])
      BY <2>1, <2>2, <2>3 DEF SelectBestChainByTotalWork, Beats, Deserves
    <3> QED BY <1>1, <1>4, <2>3, <3>1 DEF Compare
  <2>4. CASE best # arg[p]
    <3>1. ~Beats(store, arg[p], store.currentTip)
      BY <2>1, <2>2, <2>4 DEF SelectBestChainByTotalWork, Beats
    <3>2. store' = Decided(store, arg[p], store.currentTip)
      BY <1>4, <2>2, <2>4 DEF Compare
    <3>3. /\ Selected(store') /\ NotBehind(store', store)
          /\ Extends(store', store)
      BY <1>0, <2>1, <2>2, <3>1, <3>2, SideSelects, DecidedConsistent DEF IInv
    <3>4. file' = file /\ pc'[p] # "setTip"
      BY <1>0, <1>4, <2>2, <2>4 DEF Compare, Goto, IInv, TypeOK
    <3> QED BY <3>3, <3>4
  <2> QED BY <2>3, <2>4
<1>5. ASSUME NEW ok \in FlushResults, SetTip(p, ok)
      PROVE  /\ Selected(store') /\ NotBehind(store', store)
             /\ Extends(store', store)
             /\ file' = file \/ file' = store'
             /\ pc'[p] # "setTip"
  <2>1. /\ arg[p] \in store.blocks
        /\ store' = Decided(store, arg[p], arg[p])
        /\ Deserves(store, arg[p])
    BY <1>5 DEF SetTip, SetCurrentTip, HasBlock, WithTip, SInv
  <2>2. /\ Selected(store') /\ NotBehind(store', store)
        /\ Extends(store', store)
    BY <1>0, <2>1, SetTipSelects, DecidedConsistent DEF IInv, Deserves
  <2>3. file' = file \/ file' = store'
    BY <1>5 DEF SetTip, SetCurrentTip, flushLocked
  <2>4. pc'[p] # "setTip"
    BY <1>0, <1>5 DEF SetTip, Goto, IInv, TypeOK
  <2> QED BY <2>2, <2>3, <2>4
<1> QED BY <1>2, <1>3, <1>4, <1>5 DEF Step, Continue

\* Hence memory stays ahead of the file it was ahead of.
LEMMA StepNotBehind ==
    ASSUME SInv, IInv', NEW p \in Caller, Step(p)
    PROVE  NotBehind(store', file)
  BY StepSelects, NotBehindTransitive DEF SInv, IInv

LEMMA SStep ==
    ASSUME OneCaller, SInv, IInv', NEW p \in Caller, Step(p)
    PROVE  SInv'
<1>1. ASSUME NEW q \in Caller PROVE q = p
  BY DEF OneCaller
<1>2. Selected(file') /\ NotBehind(store', file')
  BY StepSelects, StepNotBehind, NotBehindReflexive DEF SInv
<1> QED BY <1>1, <1>2, StepSelects DEF SInv

LEMMA SNext == ASSUME OneCaller, SInv, [Next]_vars PROVE SInv'
<1>1. IInv'
  BY NextInv DEF SInv
<1>2. ASSUME NEW p \in Caller, Step(p) PROVE SInv'
  BY <1>1, <1>2, SStep
<1>3. CASE Crash
  BY <1>1, <1>3, NotBehindReflexive DEF SInv, Crash, Load
<1>4. CASE Tick \/ UNCHANGED vars
  BY <1>1, <1>4 DEF SInv, Tick, vars, storeVars, callVars, Selected, BestOfDecided,
                    NotBehind, Beats, Deserves
<1> QED BY <1>2, <1>3, <1>4 DEF Next

LEMMA SInvariance == ASSUME OneCaller PROVE Spec => []SInv
  BY SInit, SNext, PTL DEF Spec

-----------------------------------------------------------------------------
\* With one inserting goroutine the tip, in memory and on disk, is the best of
\* the blocks compared with it, through failing rewrites and restarts.
THEOREM TipIsBest == ASSUME OneCaller PROVE Spec => []TipBeatsDecided
<1>1. SInv => TipBeatsDecided
  BY DEF SInv, Selected, TipBeatsDecided
<1> QED BY <1>1, SInvariance, PTL

\* With one inserting goroutine the tip on disk only ever gives way to a
\* better one, restarts included.
THEOREM DiskTipImproves == ASSUME OneCaller PROVE Spec => TipOnDiskImproves
<1> DEFINE Improves ==
             file'.currentTip # file.currentTip /\ file.currentTip # ZeroHash
               => Beats(file', file'.currentTip, file.currentTip)
<1>1. ASSUME SInv, IInv', [Next]_vars PROVE [Improves]_vars
  <2>1. ASSUME NEW p \in Caller, Step(p) PROVE Improves
    BY <1>1, <2>1, StepSelects, StepNotBehind DEF NotBehind
  <2>2. CASE UNCHANGED file
    BY <2>2
  <2> QED BY <1>1, <2>1, <2>2 DEF Next, Tick, Crash, Load, storeVars, vars
<1> QED BY <1>1, Invariance, SInvariance, PTL DEF Spec, TipOnDiskImproves

-----------------------------------------------------------------------------
\* The work recorded for a block is the work of its chain.
Recorded(s) == \A b \in s.blocks : s.totalWork[b] = ChainWork[b]

\* A block is compared at most once: it is new when it is stored, and not yet
\* decided on, unless it became the first tip, when it is compared.
Undecided(p) ==
    /\ pc[p] \in {"parentWork", "store"} => arg[p] \notin store.blocks
    /\ pc[p] \in PastStore => \/ arg[p] \notin store.decided
                             \/ arg[p] = store.currentTip

RInv ==
    /\ SInv
    /\ Recorded(store)
    /\ Recorded(file)
    /\ \A p \in Caller : Undecided(p)

LEMMA StoreRecorded ==
    ASSUME NEW s, Consistent(s), Recorded(s), NEW h \in Hash,
           ValidAlone(Header[h]), ValidParent(s, Header[h])
    PROVE  Recorded(WithBlock(s, h, AddWork(s, h)))
<1> DEFINE t == WithBlock(s, h, AddWork(s, h))
<1>1. AddWork(s, h) = ChainWork[h]
  <2>1. CASE Header[h].height = 0
    BY <2>1, ChainWorkAssumption, CalcBlockWorkType, HeaderType DEF AddWork
  <2>2. CASE Header[h].height # 0
    <3>1. Header[h].parentHash \in s.blocks /\ Header[h].parentHash \in Hash
      BY <2>2 DEF ValidParent, HasBlock, Consistent, IsStore
    <3> QED BY <2>2, <3>1, ChainWorkAssumption, HeaderType DEF AddWork, Recorded
  <2> QED BY <2>1, <2>2
<1>2. Extends(t, s)
  BY WithBlockExtends
<1>3. t.blocks = s.blocks \cup {h} /\ t.totalWork[h] = AddWork(s, h)
  BY DEF WithBlock
<1> QED BY <1>1, <1>2, <1>3 DEF Recorded, Extends

LEMMA RInit == Init => RInv
  BY SInit DEF Init, RInv, Empty, Recorded, Undecided, PastStore

LEMMA RStep ==
    ASSUME OneCaller, RInv, SInv', NEW p \in Caller, Step(p)
    PROVE  RInv'
<1>0. /\ IInv /\ Recorded(store) /\ Recorded(file) /\ Undecided(p)
      /\ Consistent(store) /\ TypeOK
  BY DEF RInv, SInv, IInv
<1>1. ASSUME NEW q \in Caller PROVE q = p
  BY DEF OneCaller
<1>2. Recorded(store')
  <2>1. CASE store'.blocks = store.blocks /\ store'.totalWork = store.totalWork
    BY <1>0, <2>1 DEF Recorded
  <2>2. ASSUME NEW ok \in FlushResults, Store(p, ok) PROVE Recorded(store')
    BY <1>0, <2>2, StoreRecorded
       DEF IInv, TypeOK, InFlight, Store, StoreBlock, PastValidation, PastWork
  <2> QED BY <2>1, <2>2
             DEF Step, Continue, Call, Validate, CheckKnown, ParentWork, Compare, SetTip,
                 SetCurrentTip, WithTip, Decided, storeVars
<1>3. Recorded(file')
  BY <1>0, <1>2, StepSelects DEF RInv
<1>4. Undecided(p)'
  <2>1. CASE \/ \E h \in Hash : Call(p, h)
             \/ Validate(p) \/ CheckKnown(p) \/ ParentWork(p)
    BY <1>0, <2>1 DEF Undecided, PastStore, Call, Validate, CheckKnown,
                      ParentWork, Goto, TypeOK, HasBlock, storeVars
  <2>2. ASSUME NEW ok \in FlushResults, Store(p, ok) PROVE Undecided(p)'
    <3>1. arg[p] \notin store.decided
      BY <1>0, <2>2 DEF Undecided, Store, Consistent, Coherent
    <3> QED BY <1>0, <2>2, <3>1 DEF Undecided, PastStore, Store, StoreBlock, WithBlock,
                                    Goto, TypeOK
  <2>3. CASE Compare(p)
    BY <1>0, <2>3 DEF Undecided, PastStore, Compare, Goto, TypeOK
  <2>4. ASSUME NEW ok \in FlushResults, SetTip(p, ok) PROVE Undecided(p)'
    BY <1>0, <2>4 DEF Undecided, PastStore, SetTip, Goto, TypeOK
  <2> QED BY <2>1, <2>2, <2>3, <2>4 DEF Step, Continue
<1> QED BY <1>1, <1>2, <1>3, <1>4 DEF RInv

LEMMA RNext == ASSUME OneCaller, RInv, [Next]_vars PROVE RInv'
<1>1. SInv'
  BY SNext DEF RInv
<1>2. ASSUME NEW p \in Caller, Step(p) PROVE RInv'
  BY <1>1, <1>2, RStep
<1>3. CASE Crash
  BY <1>1, <1>3 DEF RInv, Crash, Load, Undecided, PastStore
<1>4. CASE Tick \/ UNCHANGED vars
  BY <1>1, <1>4 DEF RInv, Tick, vars, storeVars, callVars, Recorded, Undecided
<1> QED BY <1>2, <1>3, <1>4 DEF Next

LEMMA RInvariance == ASSUME OneCaller PROVE Spec => []RInv
  BY RInit, RNext, PTL DEF Spec

-----------------------------------------------------------------------------
\* On stored blocks the comparison of InsertBlock is that of true chain work.
LEMMA BeatsIsBetterChain ==
    ASSUME NEW s, Consistent(s), Recorded(s), NEW a \in s.blocks, NEW b \in s.blocks
    PROVE  Beats(s, a, b) <=> Promise!BetterChain(a, b)
  BY DEF Beats, Better, Recorded, Promise!BetterChain

LEMMA InitImplements == Init => Promise!BestChainInit
  BY DEF Init, Empty, Promise!BestChainInit

LEMMA StepImplements ==
    ASSUME RInv, NEW p \in Caller, Step(p)
    PROVE  [Promise!BestChainNext]_Promise!bestChainVars
<1>0. /\ IInv /\ Consistent(store) /\ TypeOK /\ Recorded(store) /\ Undecided(p)
      /\ Selected(store)
      /\ pc[p] = "setTip" => Deserves(store, arg[p])
  BY DEF RInv, SInv, IInv
<1>1. CASE UNCHANGED <<store, file>>
  BY <1>1 DEF Promise!bestChainVars
<1>2. ASSUME NEW ok \in FlushResults, Store(p, ok)
      PROVE  [Promise!BestChainNext]_Promise!bestChainVars
  <2>1. arg[p] \in Hash /\ ok \in BOOLEAN
    BY <1>0, <1>2, FlushAssumption DEF TypeOK, Store
  <2>2. file' = IF ok THEN store' ELSE file
    BY <1>2 DEF Store, StoreBlock, flushLocked
  <2>3. CASE store.currentTip = ZeroHash
    <3>1. store.decided = {}
      BY <1>0, <2>3, BlocksAssumption DEF Consistent, Coherent, IsStore
    <3>2. store'.currentTip = arg[p] /\ store'.decided = {arg[p]}
      BY <1>2, <2>3, <3>1 DEF Store, StoreBlock, WithBlock
    <3>3. Promise!Consider(arg[p])
      BY <2>2, <2>3, <3>1, <3>2 DEF Promise!Consider
    <3> QED BY <2>1, <3>3 DEF Promise!BestChainNext
  <2>4. CASE store.currentTip # ZeroHash
    <3>1. store'.currentTip = store.currentTip /\ store'.decided = store.decided
      BY <1>2, <2>4 DEF Store, StoreBlock, WithBlock
    <3> QED BY <2>2, <3>1
               DEF Promise!BestChainNext, Promise!Save, Promise!bestChainVars
  <2> QED BY <2>3, <2>4
<1>3. CASE Compare(p) /\ store' # store
  <2>1. /\ arg[p] \in store.blocks /\ arg[p] \in Hash
        /\ work[p] = store.totalWork[arg[p]]
    BY <1>0, <1>3 DEF IInv, InFlight, TypeOK, Compare, PastWork, PastStore, HasBlock,
                      Consistent, WorkSums
  <2>2. /\ store.currentTip \in store.blocks
        /\ TipWork(store) = store.totalWork[store.currentTip]
    BY <1>0, <2>1 DEF Consistent, Coherent, TipWork
  <2>3. /\ store.currentTip # ZeroHash
        /\ SelectBestChainByTotalWork(store.currentTip, TipWork(store),
                                      arg[p], work[p]) # arg[p]
        /\ store' = Decided(store, arg[p], store.currentTip) /\ file' = file
    BY <1>3 DEF Compare
  <2>4. arg[p] # store.currentTip /\ ~Beats(store, arg[p], store.currentTip)
    BY <2>1, <2>2, <2>3 DEF SelectBestChainByTotalWork, Beats
  <2>5. ~Promise!BetterChain(arg[p], store.currentTip)
    BY <1>0, <2>1, <2>2, <2>4, BeatsIsBetterChain
  <2>6. arg[p] \notin store.decided
    BY <1>0, <1>3, <2>4 DEF Undecided, PastStore, Compare
  <2>7. Promise!Consider(arg[p])
    BY <2>3, <2>5, <2>6 DEF Promise!Consider, Decided
  <2> QED BY <2>1, <2>7 DEF Promise!BestChainNext
<1>4. ASSUME NEW ok \in FlushResults, SetTip(p, ok)
      PROVE  [Promise!BestChainNext]_Promise!bestChainVars
  <2>1. /\ arg[p] \in Hash /\ arg[p] \in store.blocks /\ ok \in BOOLEAN
        /\ store'.currentTip = arg[p]
        /\ store'.decided = store.decided \cup {arg[p]}
        /\ file' = IF ok THEN store' ELSE file
    BY <1>0, <1>4, FlushAssumption
       DEF TypeOK, SetTip, SetCurrentTip, HasBlock, WithTip, Decided, flushLocked
  <2>2. store.currentTip \in store.blocks /\ store.currentTip # ZeroHash
    BY <1>0, <2>1, BlocksAssumption DEF Consistent, Coherent, IsStore
  <2>3. CASE arg[p] = store.currentTip
    <3>1. store'.currentTip = store.currentTip /\ store'.decided = store.decided
      BY <1>0, <2>1, <2>2, <2>3 DEF Selected
    <3> QED BY <2>1, <3>1
               DEF Promise!BestChainNext, Promise!Save, Promise!bestChainVars
  <2>4. CASE arg[p] # store.currentTip
    <3>1. Promise!BetterChain(arg[p], store.currentTip)
      BY <1>0, <1>4, <2>1, <2>2, <2>4, BeatsIsBetterChain DEF Deserves, SetTip
    <3>2. arg[p] \notin store.decided
      BY <1>0, <1>4, <2>4 DEF Undecided, PastStore, SetTip
    <3>3. Promise!Consider(arg[p])
      BY <2>1, <3>1, <3>2 DEF Promise!Consider
    <3> QED BY <2>1, <3>3 DEF Promise!BestChainNext
  <2> QED BY <2>3, <2>4
<1> QED BY <1>1, <1>2, <1>3, <1>4
           DEF Step, Continue, Call, Validate, CheckKnown, ParentWork, Compare, storeVars

LEMMA NextImplements ==
    ASSUME RInv, [Next]_vars
    PROVE  [Promise!BestChainNext]_Promise!bestChainVars
<1>1. CASE Crash
  BY <1>1 DEF Crash, Load, Promise!BestChainNext, Promise!Forget
<1>2. CASE Tick \/ UNCHANGED vars
  BY <1>2 DEF Tick, vars, storeVars, Promise!bestChainVars
<1> QED BY <1>1, <1>2, StepImplements DEF Next

\* InsertBlock over the store, with one inserting goroutine, implements the
\* selection of the chain with the most true work.
THEOREM Implements == ASSUME OneCaller PROVE Spec => ImplementsBestChain
<1>1. OneCaller => (Spec => []RInv)
  BY RInvariance
<1> QED BY <1>1, InitImplements, NextImplements, PTL
           DEF Spec, ImplementsBestChain, Promise!BestChainSpec

-----------------------------------------------------------------------------
\* What the refinement mapping says of the only caller, before and after a step.
LEMMA ForeseenBy ==
    ASSUME OneCaller, NEW p \in Caller
    PROVE  /\ pc[p] \in PastStore => Foreseen = Decided(store, arg[p], Outcome(p))
           /\ pc[p] \notin PastStore => Foreseen = store
<1>1. Deciding = IF pc[p] \in PastStore THEN {p} ELSE {}
  BY DEF OneCaller, Deciding, PastStore
<1> QED BY <1>1 DEF Foreseen

LEMMA ForeseenNext ==
    ASSUME OneCaller, NEW p \in Caller
    PROVE  /\ pc'[p] \in PastStore => Foreseen' = Decided(store', arg'[p], Outcome(p)')
           /\ pc'[p] \notin PastStore => Foreseen' = store'
<1>1. Deciding' = IF pc'[p] \in PastStore THEN {p} ELSE {}
  BY DEF OneCaller, Deciding, PastStore
<1> QED BY <1>1 DEF Foreseen

LEMMA ProgressBy ==
    ASSUME NEW p \in Caller
    PROVE  /\ pc[p] \in Steps \ PastStore => Progress[p] = "called"
           /\ pc[p] \in PastStore =>
                Progress[p] = IF Outcome(p) = arg[p] THEN "won" ELSE "lost"
           /\ pc[p] \notin Steps => Progress[p] = pc[p]
  BY DEF Progress, Deciding, PastStore, Steps

LEMMA ProgressNext ==
    ASSUME OneCaller, NEW p \in Caller
    PROVE  /\ pc'[p] \in Steps \ PastStore => Progress' = [Progress EXCEPT ![p] = "called"]
           /\ pc'[p] \in PastStore =>
                Progress' = [Progress EXCEPT ![p] =
                               IF Outcome(p)' = arg'[p] THEN "won" ELSE "lost"]
           /\ pc'[p] \notin Steps => Progress' = [Progress EXCEPT ![p] = pc'[p]]
<1>1. /\ pc'[p] \in Steps \ PastStore => Progress'[p] = "called"
      /\ pc'[p] \in PastStore =>
           Progress'[p] = IF Outcome(p)' = arg'[p] THEN "won" ELSE "lost"
      /\ pc'[p] \notin Steps => Progress'[p] = pc'[p]
  BY DEF Progress, Deciding, PastStore, Steps
<1>2. Progress' = [Progress EXCEPT ![p] = Progress'[p]]
  BY DEF OneCaller, Progress
<1> QED BY <1>1, <1>2

\* The comparison with the tip ends as the invariant says it must.
LEMMA OutcomeBy ==
    ASSUME SInv, NEW p \in Caller, pc[p] \in PastStore
    PROVE  /\ arg[p] \in Hash /\ store.currentTip # ZeroHash
           /\ Outcome(p) = SelectBestChainByTotalWork(store.currentTip, TipWork(store),
                                                      arg[p], work[p])
              \/ pc[p] = "setTip"
           /\ Outcome(p) \in {arg[p], store.currentTip}
<1>1. /\ arg[p] \in store.blocks /\ arg[p] \in Hash
  BY DEF SInv, IInv, TypeOK, InFlight, HasBlock, PastStore
<1>2. store.currentTip # ZeroHash
  BY <1>1, BlocksAssumption DEF SInv, IInv, Consistent, Coherent, IsStore
<1> QED BY <1>1, <1>2 DEF Outcome, PastStore, SelectBestChainByTotalWork

\* The invariant for this refinement: a block that has passed validation is
\* still not too far in the future, and what is about to be stored is new.
AInv ==
    /\ RInv
    /\ \A p \in Caller : pc[p] \in PastValidation =>
         Header[arg[p]].timestamp <= now + MaxFuture

LEMMA AStep ==
    ASSUME OneCaller, AInv, NEW p \in Caller, Step(p)
    PROVE  pc'[p] \in PastValidation => Header[arg'[p]].timestamp <= now' + MaxFuture
<1>0. /\ pc \in [Caller -> {"idle"} \cup Steps \cup Results]
      /\ pc[p] \in PastValidation => Header[arg[p]].timestamp <= now + MaxFuture
  BY DEF AInv, RInv, SInv, IInv, TypeOK
<1>1. now' = now /\ (arg' = arg \/ pc'[p] = "validate")
  BY <1>0 DEF Step, Continue, Call, Validate, CheckKnown, ParentWork, Store, Compare, SetTip,
              Goto
<1>2. CASE Validate(p)
  BY <1>0, <1>2 DEF Validate, Goto, ValidateHeader, PastValidation
<1>3. CASE ~Validate(p)
  <2>1. pc'[p] \in PastValidation => pc[p] \in PastValidation
    BY <1>0, <1>3 DEF Step, Continue, Call, CheckKnown, ParentWork, Store, Compare, SetTip,
                      Goto, PastValidation
  <2> QED BY <1>0, <1>1, <2>1 DEF PastValidation
<1> QED BY <1>2, <1>3

LEMMA ANext == ASSUME OneCaller, AInv, [Next]_vars PROVE AInv'
<1>1. RInv'
  BY RNext DEF AInv
<1>2. ASSUME NEW p \in Caller, Step(p) PROVE AInv'
  <2>1. ASSUME NEW q \in Caller PROVE q = p
    BY DEF OneCaller
  <2> QED BY <1>1, <1>2, <2>1, AStep DEF AInv
<1>3. CASE Crash
  BY <1>1, <1>3 DEF AInv, Crash, PastValidation
<1>4. CASE Tick
  <2>1. ASSUME NEW q \in Caller, pc[q] \in PastValidation
        PROVE  Header[arg[q]].timestamp <= now' + MaxFuture
    <3>1. Header[arg[q]].timestamp <= now + MaxFuture
      BY <2>1 DEF AInv
    <3>2. arg[q] \in Hash /\ now \in Nat
      BY <2>1 DEF AInv, RInv, SInv, IInv, TypeOK, PastValidation
    <3>3. Header[arg[q]].timestamp \in Int
      BY <3>2, BlocksAssumption DEF BlockHeader
    <3> QED BY <1>4, <3>1, <3>2, <3>3, RulesAssumption DEF Tick
  <2> QED BY <1>1, <1>4, <2>1 DEF AInv, Tick, callVars
<1>5. CASE UNCHANGED vars
  BY <1>1, <1>5 DEF AInv, vars
<1> QED BY <1>2, <1>3, <1>4, <1>5 DEF Next

LEMMA AInvariance == ASSUME OneCaller PROVE Spec => []AInv
<1>1. Init => AInv
  BY RInit DEF Init, AInv, PastValidation
<1> QED BY <1>1, ANext, PTL DEF Spec

LEMMA InitAtOnce == Init => AtOnce!AtomicInit
<1> SUFFICES ASSUME Init PROVE AtOnce!AtomicInit
  OBVIOUS
<1>1. Deciding = {} /\ Foreseen = store
  BY DEF Init, Deciding, Foreseen
<1>2. Progress = [p \in Caller |-> "idle"]
  BY DEF Init, Progress, Deciding
<1> QED BY <1>1, <1>2, ValidatorAssumption DEF Init, AtOnce!AtomicInit

\* Each step of the only caller is a step of the promise, or none.
LEMMA StepAtOnce ==
    ASSUME OneCaller, AInv, NEW p \in Caller, Step(p)
    PROVE  [AtOnce!AtomicNext]_AtOnce!atomicVars
<1>0. /\ SInv /\ IInv /\ Consistent(store) /\ TypeOK
      /\ pc \in [Caller -> {"idle"} \cup Steps \cup Results]
  BY DEF AInv, RInv, SInv, IInv, TypeOK
<1>00. pc[p] \in PastValidation => ValidateHeader(store, Header[arg[p]], now)
  BY <1>0 DEF AInv, IInv, InFlight, ValidateHeader
<1>1. ASSUME NEW h \in Hash, Call(p, h) PROVE AtOnce!Submit(p)
  <2>1. pc[p] \notin Steps /\ pc'[p] = "validate" /\ UNCHANGED <<store, file, now>>
    BY <1>0, <1>1 DEF Call, Goto, storeVars
  <2>2. Foreseen = store /\ Foreseen' = store
    BY <2>1, ForeseenBy, ForeseenNext DEF PastStore, Steps
  <2>3. Progress[p] = pc[p] /\ pc[p] \in {"idle"} \cup Results
    BY <1>0, <2>1, ProgressBy
  <2>4. Progress' = [Progress EXCEPT ![p] = "called"]
    BY <2>1, ProgressNext DEF PastStore, Steps
  <2> QED BY <1>1, <2>1, <2>2, <2>3, <2>4
          DEF Call, AtOnce!Submit, AtOnce!Becomes, AtOnce!InProgress, Results
<1>2. CASE Validate(p) \/ CheckKnown(p) \/ ParentWork(p)
  <2>1. /\ pc[p] \in Steps \ PastStore /\ UNCHANGED <<store, file, now, arg>>
        /\ pc'[p] \notin PastStore
    BY <1>0, <1>2 DEF Validate, CheckKnown, ParentWork, Goto, storeVars, Steps, PastStore
  <2>2. Foreseen = store /\ Foreseen' = store
    BY <2>1, ForeseenBy, ForeseenNext
  <2>3. Progress[p] = "called"
    BY <2>1, ProgressBy
  <2>4. CASE pc'[p] \in Steps
    <3>1. Progress' = [Progress EXCEPT ![p] = "called"]
      BY <2>1, <2>4, ProgressNext
    <3>2. Progress' = Progress
      BY <2>3, <3>1 DEF Progress
    <3> QED BY <2>1, <2>2, <3>2 DEF AtOnce!atomicVars
  <2>5. CASE pc'[p] \notin Steps
    <3>1. Progress' = [Progress EXCEPT ![p] = pc'[p]]
      BY <2>5, ProgressNext
    <3>2. \/ pc'[p] = "error" /\ ~ValidateHeader(store, Header[arg[p]], now)
          \/ pc'[p] = "known" /\ HasBlock(store, arg[p])
               /\ ValidateHeader(store, Header[arg[p]], now)
      <4>1. CASE Validate(p)
        BY <1>0, <2>5, <4>1 DEF Validate, Goto, Steps
      <4>2. CASE CheckKnown(p)
        BY <1>0, <1>00, <2>5, <4>2 DEF CheckKnown, Goto, Steps, PastValidation
      <4>3. CASE ParentWork(p)
        <5>1. ValidParent(store, Header[arg[p]]) /\ arg[p] \in Hash
          BY <1>0, <1>00, <4>3 DEF ParentWork, PastValidation, ValidateHeader, TypeOK
        <5> QED BY <1>0, <2>5, <4>3, <5>1, HeaderType
                DEF ParentWork, Goto, Steps, ValidParent
      <4> QED BY <1>2, <4>1, <4>2, <4>3
    <3> QED BY <2>1, <2>2, <2>3, <3>1, <3>2
            DEF AtOnce!AtomicNext, AtOnce!Decline, AtOnce!Becomes, Accepted
  <2> QED BY <2>4, <2>5
<1>3. ASSUME NEW ok \in FlushResults, Store(p, ok)
      PROVE  AtOnce!TakeEffect(p) \/ AtOnce!BreakOff(p)
  <2>1. /\ pc[p] = "store" /\ arg[p] \in Hash /\ arg[p] \notin store.blocks
        /\ work[p] = AddWork(store, arg[p]) /\ store' = Stored(store, arg[p])
        /\ ValidateHeader(store, Header[arg[p]], now)
        /\ UNCHANGED <<now, arg, work>>
    BY <1>0, <1>00, <1>3 DEF AInv, RInv, Undecided, TypeOK, IInv, InFlight, PastValidation,
                             PastWork, Store, StoreBlock, Stored
  <2>2. Foreseen = store /\ Progress[p] = "called"
    BY <2>1, ForeseenBy, ProgressBy DEF PastStore, Steps
  <2>3. AtOnce!New(p)
    BY <2>1, <2>2 DEF AtOnce!New, Accepted, HasBlock
  <2>4. CASE ok
    <3>1. pc'[p] = "compare" /\ file' = Stored(store, arg[p])
      BY <1>0, <1>3, <2>1, <2>4 DEF Store, StoreBlock, flushLocked, Goto
    <3>2. Outcome(p)' = SelectBestChainByTotalWork(store'.currentTip, TipWork(store'),
                                                   arg[p], AddWork(store, arg[p]))
      BY <2>1, <3>1 DEF Outcome
    <3>3. Foreseen' = StoredAndCompared(store, arg[p]) /\ Foreseen'.currentTip = Outcome(p)'
      <4>1. Foreseen' = Decided(store', arg[p], Outcome(p)')
        BY <2>1, <3>1, ForeseenNext DEF PastStore
      <4> QED BY <2>1, <3>2, <4>1 DEF StoredAndCompared, Decided
    <3>4. Progress' = [Progress EXCEPT ![p] = IF Outcome(p)' = arg[p] THEN "won" ELSE "lost"]
      BY <2>1, <3>1, ProgressNext DEF PastStore
    <3> QED BY <2>1, <2>2, <2>3, <3>1, <3>3, <3>4
            DEF AtOnce!TakeEffect, AtOnce!Becomes, CurrentTip
  <2>5. CASE ~ok
    <3>1. pc'[p] = "error" /\ file' = file
      BY <1>0, <1>3, <2>1, <2>5 DEF Store, StoreBlock, flushLocked, Goto
    <3>2. Foreseen' = Stored(store, arg[p]) /\ Progress' = [Progress EXCEPT ![p] = "error"]
      BY <2>1, <3>1, ForeseenNext, ProgressNext DEF PastStore, Steps
    <3> QED BY <2>1, <2>2, <2>3, <3>1, <3>2 DEF AtOnce!BreakOff, AtOnce!Becomes
  <2> QED BY <2>4, <2>5
<1>4. CASE Compare(p)
  <2>1. /\ pc[p] = "compare" /\ store.currentTip # ZeroHash
        /\ Outcome(p) = SelectBestChainByTotalWork(store.currentTip, TipWork(store),
                                                   arg[p], work[p])
        /\ Outcome(p) \in {arg[p], store.currentTip}
        /\ UNCHANGED <<file, now, arg, work>>
    BY <1>0, <1>4, OutcomeBy DEF Compare, Outcome, PastStore
  <2>2. Foreseen = Decided(store, arg[p], Outcome(p))
        /\ Progress[p] = IF Outcome(p) = arg[p] THEN "won" ELSE "lost"
    BY <2>1, ForeseenBy, ProgressBy DEF PastStore
  <2>3. CASE Outcome(p) = arg[p]
    <3>1. pc'[p] = "setTip" /\ store' = store
      BY <1>0, <1>4, <2>1, <2>3 DEF Compare, Goto
    <3>2. Outcome(p)' = arg[p]
      BY <2>1, <3>1 DEF Outcome
    <3>3. Foreseen' = Foreseen
      BY <2>1, <2>2, <2>3, <3>1, <3>2, ForeseenNext DEF PastStore
    <3>4. Progress' = Progress
      <4>1. Progress' = [Progress EXCEPT ![p] = "won"]
        BY <2>1, <3>1, <3>2, ProgressNext DEF PastStore
      <4> QED BY <2>2, <2>3, <4>1 DEF Progress
    <3> QED BY <2>1, <3>3, <3>4 DEF AtOnce!atomicVars
  <2>4. CASE Outcome(p) # arg[p]
    <3>1. pc'[p] = "side" /\ store' = Decided(store, arg[p], store.currentTip)
      BY <1>0, <1>4, <2>1, <2>4 DEF Compare, Goto
    <3>2. Foreseen' = store' /\ Progress' = [Progress EXCEPT ![p] = "side"]
      BY <3>1, ForeseenNext, ProgressNext DEF PastStore, Steps
    <3>3. AtOnce!Return(p)
      BY <2>1, <2>2, <2>4, <3>1, <3>2 DEF AtOnce!Return, AtOnce!Becomes
    <3> QED BY <3>3 DEF AtOnce!AtomicNext
  <2> QED BY <2>3, <2>4
<1>5. ASSUME NEW ok \in FlushResults, SetTip(p, ok) PROVE AtOnce!Return(p)
  <2>1. /\ pc[p] = "setTip" /\ store' = Decided(store, arg[p], arg[p])
        /\ file' = (IF ok THEN store' ELSE file)
        /\ pc'[p] = (IF ok THEN "tip" ELSE "error")
        /\ UNCHANGED <<now, arg, work>>
    BY <1>0, <1>5 DEF SetTip, SetCurrentTip, WithTip, flushLocked, Goto
  <2>2. Foreseen = Decided(store, arg[p], arg[p]) /\ Progress[p] = "won"
    BY <2>1, ForeseenBy, ProgressBy DEF PastStore, Outcome
  <2>3. Foreseen' = store' /\ Progress' = [Progress EXCEPT ![p] = pc'[p]]
    BY <2>1, ForeseenNext, ProgressNext DEF PastStore, Steps
  <2>4. ok \in BOOLEAN
    BY FlushAssumption
  <2> QED BY <2>1, <2>2, <2>3, <2>4 DEF AtOnce!Return, AtOnce!Becomes
<1> QED BY <1>1, <1>2, <1>3, <1>4, <1>5 DEF Step, Continue, AtOnce!AtomicNext

LEMMA NextAtOnce ==
    ASSUME OneCaller, AInv, [Next]_vars
    PROVE  [AtOnce!AtomicNext]_AtOnce!atomicVars
<1>1. CASE Crash
  <2>1. Deciding' = {} /\ Foreseen' = file /\ UNCHANGED <<file, now>>
    BY <1>1 DEF Crash, Load, Deciding, Foreseen
  <2>2. Progress' = [p \in Caller |-> "idle"] /\ arg' = [p \in Caller |-> ZeroHash]
    BY <1>1 DEF Crash, Progress, Deciding
  <2> QED BY <2>1, <2>2 DEF AtOnce!AtomicNext, AtOnce!Restart
<1>2. ASSUME UNCHANGED <<store, file, pc, arg, work>>
      PROVE  UNCHANGED <<Foreseen, file, arg, Progress>>
  <2>1. \A p \in Caller : Outcome(p)' = Outcome(p)
    BY <1>2 DEF Outcome
  <2>2. Deciding' = Deciding
    BY <1>2 DEF Deciding
  <2>3. Progress' = Progress
    BY <1>2, <2>1, <2>2 DEF Progress
  <2>4. CASE Deciding = {}
    BY <1>2, <2>2, <2>3, <2>4 DEF Foreseen
  <2>5. CASE Deciding # {}
    <3>1. PICK p \in Caller : p \in Deciding
      BY <2>5 DEF Deciding
    <3>2. pc[p] \in PastStore /\ pc'[p] \in PastStore
      BY <1>2, <3>1 DEF Deciding, PastStore
    <3>3. Foreseen' = Foreseen
      BY <1>2, <2>1, <3>2, ForeseenBy, ForeseenNext
    <3> QED BY <1>2, <2>3, <3>3
  <2> QED BY <2>4, <2>5
<1>3. CASE Tick
  BY <1>2, <1>3 DEF Tick, storeVars, callVars, AtOnce!AtomicNext, AtOnce!Pass
<1>4. CASE UNCHANGED vars
  BY <1>2, <1>4 DEF vars, AtOnce!atomicVars
<1> QED BY <1>1, <1>3, <1>4, StepAtOnce DEF Next

\* One call of InsertBlock, with one inserting goroutine, takes effect at one
\* moment: when its block is stored.
THEOREM TakesEffectAtOnce == ASSUME OneCaller PROVE Spec => ImplementsAtomicInsert
<1>1. OneCaller => (Spec => []AInv)
  BY AInvariance
<1> QED BY <1>1, InitAtOnce, NextAtOnce, PTL
           DEF Spec, ImplementsAtomicInsert, AtOnce!AtomicSpec
=============================================================================
