----------------------------- MODULE ChainStore -----------------------------
(***************************************************************************)
(* pkg/chain: the block store of a running node.                           *)
(*                                                                         *)
(* "store" is the contents of the maps in memory, "file" the snapshot of   *)
(* them in chain.json.  A mutator of DiskStore changes the maps and        *)
(* rewrites the file under one lock, so it is one action here, and "ok"    *)
(* says whether the rewrite succeeded.  MemoryStore is the instance        *)
(* FlushResults = {TRUE} without restarts.                                 *)
(*                                                                         *)
(* "acked" is history: the blocks whose StoreBlock call has returned nil.  *)
(***************************************************************************)
EXTENDS Chain

CONSTANT FlushResults   \* {TRUE}, or {TRUE, FALSE} when a rewrite may fail

ASSUME FlushAssumption == FlushResults \subseteq BOOLEAN

VARIABLES store, file, acked

storeVars == <<store, file, acked>>

\* Mutants of flushLocked: the file is rewritten from the maps as they were
\* before the change; it is truncated and then written in place.
flushLockedEarly(ok) == file' = IF ok THEN store ELSE file
flushLockedInPlace(ok) == file' = IF ok THEN store' ELSE Empty

\* The whole snapshot is written to chain.json.tmp and renamed over
\* chain.json: the file holds either the old contents or all of the new ones.
flushLocked(ok) == file' = IF ok THEN store' ELSE file

\* The block is in the maps whether or not the rewrite succeeds.
StoreBlock(h, w, ok) ==
    /\ store' = WithBlock(store, h, w)
    /\ flushLocked(ok)
    /\ acked' = IF ok THEN acked \cup {h} ELSE acked

\* A tip that is not stored is refused before anything changes.
SetCurrentTip(h, ok) ==
    /\ HasBlock(store, h)
    /\ store' = WithTip(store, h)
    /\ flushLocked(ok)
    /\ UNCHANGED acked

\* NewDiskStore: the maps are what the file says, empty when there is none.
Load == store' = file /\ UNCHANGED <<file, acked>>

-----------------------------------------------------------------------------
\* Every field of the maps and of the snapshot has the shape Go gives it.
StoreTypeOK == IsStore(store) /\ IsStore(file) /\ acked \subseteq Hash

\* The maps of DiskStore are separate, and code follows a hash from one into
\* the next: every stored block has a work entry, the tip and the genesis are
\* stored, and there is a tip as soon as there is a block.
MapsCoherent == Coherent(store) /\ Coherent(file)

\* The height index answers for exactly the heights at which a block is
\* stored, and with a stored block of that height, although StoreBlock lets
\* the last block of a height overwrite the entry.
HeightIndexExact == HeightIndex(store) /\ HeightIndex(file)

\* A block whose StoreBlock returned nil is in chain.json whatever rewrites
\* failed before or after, so a restart cannot lose it.
AckedBlocksDurable == acked \subseteq file.blocks

\* A failed rewrite may leave the file behind memory, but the file is never
\* ahead of it and, restarts included, never gives up a block it has held.
FileKeepsBlocks ==
    [][/\ file.blocks \subseteq file'.blocks
       /\ file'.blocks \subseteq store'.blocks]_storeVars
=============================================================================
