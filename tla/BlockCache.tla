----------------------------- MODULE BlockCache -----------------------------
(***************************************************************************)
(* The block layer of src/src/filesystem.c: a block device behind a cache  *)
(* of one block.  A block that is in the cache is written back later, any  *)
(* other block is written through.  The functions change one value f, the  *)
(* fs_state of the code with the device in it.                             *)
(*                                                                         *)
(* A device write of one block is atomic.  trail collects the disk images  *)
(* a call leaves behind on the way, which is what a power failure in the   *)
(* middle of the call may find.                                            *)
(***************************************************************************)
EXTENDS Naturals

CONSTANT TotalBlocks

ASSUME TotalBlocksAssumption == TotalBlocks \in Nat \ {0}

Blocks == 0 .. TotalBlocks - 1

\* 0xFFFFFFFF, the one block number beyond the device.
NOBLK == TotalBlocks

dev_write(f, b, c) ==
    IF b \in Blocks
    THEN LET d == [f.disk EXCEPT ![b] = c]
         IN  [f EXCEPT !.disk = d, !.trail = @ \cup {d}]
    ELSE f

fs_sync_cache(f) ==
    IF f.dirty /\ f.cached # NOBLK
    THEN [dev_write(f, f.cached, f.cache) EXCEPT !.dirty = FALSE]
    ELSE f

\* What fs_read_block copies to the caller's buffer.
Content(f, b) == IF b = f.cached THEN f.cache ELSE f.disk[b]

\* The change fs_read_block makes to the cache.
fs_read_block(f, b) ==
    IF ~f.mounted \/ b = f.cached \/ b \notin Blocks
    THEN f
    ELSE [fs_sync_cache(f) EXCEPT !.cached = b, !.cache = f.disk[b], !.dirty = FALSE]

fs_write_block(f, b, c) ==
    CASE ~f.mounted   -> f
      [] f.mounted /\ b = f.cached -> [f EXCEPT !.cache = c, !.dirty = TRUE]
      [] OTHER        -> dev_write(f, b, c)

\* A clean cache holds what the device holds.
CacheCoherent(f) ==
    f.cached # NOBLK /\ ~f.dirty => f.cache = f.disk[f.cached]
=============================================================================
