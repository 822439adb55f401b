----------------------------- MODULE EpochSpec -----------------------------
(***************************************************************************)
(* colossusx.Spec: the parameters of a chain, how a program builds them    *)
(* from its flags, and what they fix for a block height: the epoch, the    *)
(* size of that epoch's DAG and the seed it is generated from.             *)
(*                                                                         *)
(* Sizes are unsigned machine words; MaxUint is the largest of them        *)
(* (2^64-1 in the program, a small number in the checked instances).       *)
(***************************************************************************)
EXTENDS Naturals

CONSTANTS
    MaxUint,                \* the largest machine word
    NodeSize,               \* StrictNodeSize: bytes of a DAG node
    StrictInitialDAGSize,   \* the other constants of spec.go
    DefaultDAGGrowth,
    StrictEpochBlocks,
    ResearchDAGSize,        \* what only colossusd takes when no size is given
    DefaultEpochBlocks,     \* the default of -epoch-blocks
    Unset,                  \* stands for an option that is not given
    Mode,                   \* the options the nodes of the chain are started
    InitialDAGSize,         \* with: -mode, -initial-dag-mib, its alias -dag-mib
    DAGSizeAlias,           \* and -dag-growth-mib-per-epoch (all in bytes),
    GrowthPerEpoch,
    EpochBlocks             \* and -epoch-blocks

Word == 0..MaxUint
Option == Word \cup {Unset}

\* A command line, as far as it is about the chain.
Flags == [mode : {"strict", "research"}, initialDAG : Option, dag : Option,
          dagGrowth : Option, epochBlocks : Option]

ChainFlags == [mode |-> Mode, initialDAG |-> InitialDAGSize, dag |-> DAGSizeAlias,
               dagGrowth |-> GrowthPerEpoch, epochBlocks |-> EpochBlocks]

\* What flag.Parse leaves in the variable of an option.
Value(option, default) == IF option = Unset THEN default ELSE option

OrElse(value, default) == IF value = 0 THEN default ELSE value

\* The fields that tell two chains apart here.
SpecType == [mode : {"strict", "research"}, dagSize : Word, initialDAGSize : Word,
             dagGrowth : Word, epochBlocks : Word, algorithmVersion : Nat]

StrictSpec ==
    [mode |-> "strict", dagSize |-> StrictInitialDAGSize,
     initialDAGSize |-> StrictInitialDAGSize, dagGrowth |-> DefaultDAGGrowth,
     epochBlocks |-> StrictEpochBlocks, algorithmVersion |-> 2]

\* A zero asks for the default.
ResearchSpecWithGrowth(initial, growth, blocks) ==
    [mode |-> "research", dagSize |-> OrElse(initial, StrictInitialDAGSize),
     initialDAGSize |-> OrElse(initial, StrictInitialDAGSize),
     dagGrowth |-> OrElse(growth, DefaultDAGGrowth),
     epochBlocks |-> OrElse(blocks, StrictEpochBlocks), algorithmVersion |-> 1]

\* The alias goes before the option, unless it is zero.
InitialDAG(f) ==
    OrElse(Value(f.dag, 0), Value(f.initialDAG, StrictInitialDAGSize))

SizeGiven(f) == f.initialDAG # Unset \/ f.dag # Unset

\* The chain of a node: a strict one takes the sizes as they are given; a
\* research one without any is small.
ParseFlags(f) ==
    LET initial == IF f.mode = "research" /\ ~SizeGiven(f)
                   THEN ResearchDAGSize ELSE InitialDAG(f)
        growth == Value(f.dagGrowth, DefaultDAGGrowth)
    IN  IF f.mode = "strict"
        THEN [StrictSpec EXCEPT !.initialDAGSize = initial, !.dagSize = initial,
                                !.dagGrowth = growth]
        ELSE ResearchSpecWithGrowth(initial, growth, Value(f.epochBlocks, DefaultEpochBlocks))

ChainSpec == ParseFlags(ChainFlags)

InitialSize(spec) == OrElse(spec.initialDAGSize, spec.dagSize)
Growth(spec) == OrElse(spec.dagGrowth, DefaultDAGGrowth)

\* Spec.Validate; what it asks of the memory model and of the tensor
\* parameters holds of StrictSpec, whose values no flag changes.
ValidSpec(spec) ==
    /\ InitialSize(spec) # 0 /\ InitialSize(spec) % NodeSize = 0
    /\ Growth(spec) # 0 /\ Growth(spec) % NodeSize = 0
    /\ spec.epochBlocks # 0
    /\ spec.mode = "strict" =>
         spec.epochBlocks = StrictEpochBlocks /\ spec.algorithmVersion = 2

ASSUME SpecAssumption ==
    /\ MaxUint \in Nat /\ NodeSize \in Nat \ {0}
    /\ StrictInitialDAGSize \in Word \ {0} /\ StrictInitialDAGSize % NodeSize = 0
    /\ DefaultDAGGrowth \in Word \ {0} /\ DefaultDAGGrowth % NodeSize = 0
    /\ ResearchDAGSize \in Word \ {0} /\ ResearchDAGSize % NodeSize = 0
    /\ StrictEpochBlocks \in Word \ {0} /\ DefaultEpochBlocks \in Word \ {0}
    /\ Unset \notin Word
    /\ ChainFlags \in Flags
    /\ ValidSpec(ChainSpec)     \* checked before a validator exists

-----------------------------------------------------------------------------
\* Mutant of DAGSizeForEpoch: the sum wraps around.
DAGSizeForEpochWrapping(spec, epoch) ==
    (InitialSize(spec) + epoch * Growth(spec)) % (MaxUint + 1)

\* initial + epoch * growth, or the largest multiple of the node size that a
\* word can hold when that sum would wrap around.
DAGSizeForEpoch(spec, epoch) ==
    IF epoch > (MaxUint - InitialSize(spec)) \div Growth(spec)
    THEN MaxUint - (MaxUint % NodeSize)
    ELSE InitialSize(spec) + epoch * Growth(spec)

EpochOf(spec, height) == height \div spec.epochBlocks

DAGSizeForHeight(spec, height) == DAGSizeForEpoch(spec, EpochOf(spec, height))

\* The spec of one height: the one to make that height's DAG with.
ResolvedForHeight(spec, height) ==
    [spec EXCEPT !.dagSize = DAGSizeForHeight(spec, height)]

NodeCount(spec) == OrElse(spec.dagSize, DAGSizeForHeight(spec, 0)) \div NodeSize

\* The seed is SHA-256 of the epoch number and the DAG size: distinct pairs
\* give distinct seeds, so the pair stands for its hash.
EpochSeedForHeight(spec, height) ==
    <<EpochOf(spec, height), DAGSizeForHeight(spec, height)>>
=============================================================================
