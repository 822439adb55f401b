------------------------------- MODULE Blocks -------------------------------
(***************************************************************************)
(* Blocks and the rules that look at one block only.                       *)
(*                                                                         *)
(* A block is named by its hash: SHA-256 over the whole header, taken to   *)
(* be injective, so Header[h] is the one header that hashes to h.  Hashes  *)
(* are positive numbers ordered as their hexadecimal strings are, and 0 is *)
(* the all-zero hash that Go code uses for "none".                         *)
(***************************************************************************)
EXTENDS Integers, EpochSpec

CONSTANTS
    Hash,           \* the hashes of the blocks anyone may submit
    Header,         \* the header behind each hash
    TargetSpace     \* 2^256: the number of values a PoW hash can take

ZeroHash == 0

\* The header fields that some rule reads.  "pow" says whether the header's
\* PoW hash, on the DAG its height calls for, is within its own target.
BlockHeader ==
    [algorithmVersion : Nat,
     height           : Nat,
     parentHash       : Hash \cup {ZeroHash},
     timestamp        : Int,
     target           : Nat,
     epochSeed        : Nat \X Nat,
     dagSize          : Nat,
     pow              : BOOLEAN]

ASSUME BlocksAssumption ==
    /\ Hash \subseteq Nat \ {ZeroHash}
    /\ Header \in [Hash -> BlockHeader]
    /\ TargetSpace \in Nat \ {0}

\* Expected number of hashes behind a block with this target; a zero target
\* is worth nothing.
CalcBlockWork(target) ==
    IF target = 0 THEN 0 ELSE TargetSpace \div (target + 1)

\* More work wins; equal work goes to the smaller hash.
Better(candHash, candWork, curHash, curWork) ==
    \/ candWork > curWork
    \/ candWork = curWork /\ candHash < curHash

\* Mutant of SelectBestChainByTotalWork: the latest of two equals wins.
SelectLatestOfEquals(curHash, curWork, candHash, candWork) ==
    IF candWork >= curWork THEN candHash ELSE curHash

SelectBestChainByTotalWork(curHash, curWork, candHash, candWork) ==
    IF Better(candHash, candWork, curHash, curWork) THEN candHash ELSE curHash
=============================================================================
