------------------------------ MODULE Verifier ------------------------------
(***************************************************************************)
(* cmd/colossusxverify: whether a header is a solution, told without the   *)
(* chain, the clock or a DAG in memory.  It has the options of colossusd,  *)
(* with the same defaults but for the initial size of the DAG of a         *)
(* research chain.  -reads is taken to be as the nodes have it: only       *)
(* proofs of work depend on it.                                            *)
(***************************************************************************)
EXTENDS Validator

\* specFromHeader: zero sizes ask for the defaults in strict mode, too.  A
\* research chain has the strict default size when none is given.
VerifierSpec(f) ==
    LET initial == InitialDAG(f)
        growth == Value(f.dagGrowth, DefaultDAGGrowth)
    IN  IF f.mode = "strict"
        THEN [StrictSpec EXCEPT !.initialDAGSize = OrElse(initial, @),
                                !.dagSize = OrElse(initial, @),
                                !.dagGrowth = OrElse(growth, @)]
        ELSE ResearchSpecWithGrowth(initial, growth, Value(f.epochBlocks, DefaultEpochBlocks))

\* A proof of work is known by what is hashed besides the header: the nodes of
\* a DAG, each made from its number and the seed by the generator of the mode,
\* and the algorithm of the version.  The StatelessDAG and PopulateDAG look at
\* the same two fields for these.
Pow(spec, seed) ==
    [algorithmVersion |-> spec.algorithmVersion, mode |-> spec.mode,
     nodes |-> NodeCount(spec), seed |-> seed]

\* The proof of work the validator asks of a header: cachedDAGForHeader.
ValidatorPow(spec, hd) ==
    Pow([ResolvedForHeight(spec, hd.height) EXCEPT !.dagSize = hd.dagSize],
        hd.epochSeed)

\* Mutant of VerifierPow: the spec is not resolved first.
VerifierPowUnresolved(spec, hd) == Pow(spec, hd.epochSeed)

\* The one colossusxverify asks for: VerifyHeaderStateless.
VerifierPow(spec, hd) == Pow(ResolvedForHeight(spec, hd.height), hd.epochSeed)

\* hd.pow tells it of the chain's own proof of work only.
Meets(hd, pow) == pow = ValidatorPow(ChainSpec, hd) /\ hd.pow

\* run: "given" are those of -header and -block that are set.
Verifies(f, given, hd) ==
    LET spec == VerifierSpec(f)
    IN  /\ given \in {{"header"}, {"block"}}
        /\ ValidSpec(spec)
        /\ ValidEpoch(spec, hd)
        /\ Meets(hd, VerifierPow(spec, hd))

-----------------------------------------------------------------------------
\* DAG sizes fit their type: in every stored chain each block has a DAG of a
\* whole number of nodes that a machine word can hold, none smaller than its
\* parent's; epoch * growth never wraps around.
DAGSizesFit ==
    \A h \in store.blocks :
      LET hd == Header[h]
      IN  /\ hd.dagSize \in Word \ {0} /\ hd.dagSize % NodeSize = 0
          /\ hd.height > 0 => Header[hd.parentHash].dagSize <= hd.dagSize

\* The options of the nodes, with the initial size that they took said.
WithSize(f) == [f EXCEPT !.initialDAG = ParseFlags(f).initialDAGSize]

\* colossusxverify agrees with the nodes when it is given their options and the
\* initial size of their DAG, which has to be said even when the nodes were not
\* told it, for the two programs have different defaults: what it leaves to be
\* checked of a header that InsertBlock is about to validate is a target that is
\* not zero, the parent, and the clock.  With the very options of the nodes it
\* does so when they say the size or the mode is strict.
VerifierAgrees ==
    \A p \in Caller, f \in {ChainFlags, WithSize(ChainFlags)} :
      LET hd == Header[arg[p]]
      IN  pc[p] = "validate" /\ (f.mode = "strict" \/ SizeGiven(f)) =>
            (ValidateHeader(store, hd, now) <=>
               /\ Verifies(f, {"header"}, hd)
               /\ hd.target # 0
               /\ ValidParent(store, hd)
               /\ hd.timestamp <= now + MaxFuture)
=============================================================================
