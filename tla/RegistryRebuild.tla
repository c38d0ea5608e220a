---------------------------- MODULE RegistryRebuild ----------------------------
(***************************************************************************)
(* rebuild_registry_state (beanie_keeper/src/evm_indexer.rs): the full     *)
(* history of the factory and the webhook registry is read back chunk by   *)
(* chunk, from the LogCache (log_cache.rs) where a settled chunk was kept, *)
(* from Subsquid Portal otherwise, while the chain grows and reorganizes,  *)
(* Portal lags and fails, and the process stops anywhere.                  *)
(*                                                                         *)
(* What a range of blocks holds is a function from its block numbers to    *)
(* the block's events, so extending the found rows chunk after chunk keeps *)
(* block order.                                                            *)
(***************************************************************************)
EXTENDS Integers

CONSTANTS
  Events,                 \* what a block may hold of the two contracts' logs
  Start,                  \* min(registry_start_block, webhook_registry_start_block)
  REGISTRY_CHUNK_BLOCKS,
  REORG_SAFETY_BLOCKS,
  ReorgDepth,             \* how many blocks from the head a reorg replaces at most
  Absent,                 \* no such key in the chunks tree
  MaxBlock,               \* bound: the chain's last block
  MaxReorgs               \* bound: reorgs

ASSUME ConstantsAssumption ==
  /\ Start \in Nat \ {0}
  /\ REGISTRY_CHUNK_BLOCKS \in Nat \ {0}
  /\ REORG_SAFETY_BLOCKS \in Nat
  /\ ReorgDepth \in Nat
  /\ ReorgDepth <= REORG_SAFETY_BLOCKS
  /\ MaxBlock \in Nat
  /\ Start <= MaxBlock
  /\ MaxReorgs \in Nat

Blocks == Start..MaxBlock
Keys   == {k \in Blocks \X Blocks : k[1] <= k[2]}

ASSUME AbsentAssumption == \A k \in Keys : Absent \notin [k[1]..k[2] -> Events]

(* The rows of blocks a..b of a mapping from blocks to events. *)
Slice(f, a, b) == [n \in a..b |-> f[n]]

(* Vec::extend: more, which covers the blocks after those of f, is added. *)
Extend(f, more) ==
  [n \in DOMAIN f \cup DOMAIN more |-> IF n \in DOMAIN f THEN f[n] ELSE more[n]]

Min2(a, b) == IF a <= b THEN a ELSE b

VARIABLES
  logs, head,     \* the chain: block -> events, and its last block
  reorgs,         \* how many reorgs happened (bounds the runs)
  chunks,         \* LogCache.chunks: key -> rows, or Absent
  checkpoint,     \* LogCache.checkpoints[registry_webhook_scan_id], 0 for None
  phase,          \* where the rebuild is
  to,             \* the head it was asked to reach
  start,          \* chunk_ranges' cursor: the first block of the current chunk
  cursor,         \* stream_logs' cursor in the current chunk
  part,           \* the rows the current chunk's batches gave
  found,          \* the rows of the chunks before it
  scanned         \* scanned_to, Start - 1 for None

chain   == <<logs, head, reorgs>>
disk    == <<chunks, checkpoint>>
process == <<phase, to, start, cursor, part, found, scanned>>
vars    == <<chain, disk, process>>

Nothing == [n \in {} |-> 0]

(* The rebuild's locals are gone, with its process or with its error. *)
Drop ==
  /\ phase' = "idle"
  /\ to' = Start /\ start' = Start /\ cursor' = Start
  /\ part' = Nothing /\ found' = Nothing
  /\ scanned' = Start - 1

-----------------------------------------------------------------------------
(* The chain *)

(* What later blocks will hold is chosen initially. *)
NewBlock ==
  /\ head < MaxBlock
  /\ head' = head + 1
  /\ UNCHANGED <<logs, reorgs, disk, process>>

(* The last depth blocks are replaced by others. *)
Reorg(depth) ==
  /\ reorgs < MaxReorgs
  /\ reorgs' = reorgs + 1
  /\ \E new \in [(head - depth + 1)..head -> Events] :
       logs' = [n \in Blocks |-> IF n \in DOMAIN new THEN new[n] ELSE logs[n]]
  /\ UNCHANGED <<head, disk, process>>

-----------------------------------------------------------------------------
(* chunk_ranges and the chunk at its cursor *)

End == Min2(start + REGISTRY_CHUNK_BLOCKS - 1, to)
Key == <<start, End>>
IsFull == End - start + 1 = REGISTRY_CHUNK_BLOCKS

BugSettledWithoutMargin == IsFull /\ End <= to
Settled == IsFull /\ End + REORG_SAFETY_BLOCKS <= to

(* run_evm_catchup: current_head, which may be behind the chain's head. *)
Begin(h) ==
  /\ phase = "idle"
  /\ phase' = "chunk"
  /\ to' = h
  /\ start' = Start
  /\ cursor' = Start
  /\ part' = Nothing
  /\ found' = Nothing
  /\ scanned' = Start - 1
  /\ UNCHANGED <<chain, disk>>

(* A settled chunk that is cached is not fetched. *)
ReadChunk ==
  /\ phase = "chunk"
  /\ start <= to
  /\ Settled
  /\ chunks[Key] # Absent
  /\ found' = Extend(found, chunks[Key])
  /\ scanned' = End
  /\ start' = End + 1
  /\ cursor' = End + 1
  /\ UNCHANGED <<chain, disk, phase, to, part>>

(* It is fetched when it is not settled, not cached or not readable. *)
MissChunk ==
  /\ phase = "chunk"
  /\ start <= to
  /\ phase' = "fetch"
  /\ cursor' = start
  /\ part' = Nothing
  /\ UNCHANGED <<chain, disk, to, start, found, scanned>>

-----------------------------------------------------------------------------
(* discover_registry_range and stream_logs, with persist_checkpoint = false *)

(* One answer of Portal: the rows from the cursor to some later block.  The  *)
(* adaptive window only bounds how far one answer goes.                      *)
FetchBatch(last) ==
  /\ phase = "fetch"
  /\ cursor <= End
  /\ last <= Min2(End, head)
  /\ part' = Extend(part, Slice(logs, cursor, last))
  /\ cursor' = last + 1
  /\ UNCHANGED <<chain, disk, phase, to, start, found, scanned>>

BugFetchStop ==
  /\ phase = "fetch"
  /\ cursor <= End
  /\ phase' = "finish"
  /\ found' = Extend(found, part)
  /\ scanned' = End
  /\ UNCHANGED <<chain, disk, to, start, cursor, part>>

(* 204 or an empty body: Portal has nothing more of this chunk.  The rebuild *)
(* keeps what came before and looks at no later chunk.                       *)
FetchStop ==
  /\ phase = "fetch"
  /\ cursor <= End
  /\ phase' = "finish"
  /\ IF cursor = start
       THEN UNCHANGED <<found, scanned>>
       ELSE found' = Extend(found, part) /\ scanned' = cursor - 1
  /\ UNCHANGED <<chain, disk, to, start, cursor, part>>

(* The chunk is complete: cache it if it is settled (a failed put is only   *)
(* logged) and go to the next one.                                          *)
StoreChunk ==
  /\ phase = "fetch"
  /\ cursor > End
  /\ \/ Settled /\ chunks' = [chunks EXCEPT ![Key] = part]
     \/ UNCHANGED chunks
  /\ found' = Extend(found, part)
  /\ scanned' = End
  /\ start' = End + 1
  /\ phase' = "chunk"
  /\ UNCHANGED <<chain, checkpoint, to, cursor, part>>

(* A fatal Portal error: run_evm_worker retries the catch-up from scratch.   *)
FetchFail ==
  /\ phase = "fetch"
  /\ Drop
  /\ UNCHANGED <<chain, disk>>

-----------------------------------------------------------------------------
(* The end of the rebuild *)

AllChunksDone == phase = "finish" \/ (phase = "chunk" /\ start > to)

(* "registry rebuild made no progress" *)
NoProgress ==
  /\ AllChunksDone
  /\ scanned < Start
  /\ Drop
  /\ UNCHANGED <<chain, disk>>

Forward(old, new) == IF old < new THEN new ELSE old

(* The snapshot is handed over; the live checkpoint only moves forward. *)
Finish ==
  /\ AllChunksDone
  /\ scanned >= Start
  /\ checkpoint' = Forward(checkpoint, scanned)
  /\ phase' = "ready"
  /\ UNCHANGED <<chain, chunks, to, start, cursor, part, found, scanned>>

(* The live path (process_evm_tip) scans on from the checkpoint. *)
LiveScan ==
  /\ phase = "ready"
  /\ checkpoint < head
  /\ checkpoint' = checkpoint + 1
  /\ found' = Extend(found, Slice(logs, checkpoint + 1, checkpoint + 1))
  /\ UNCHANGED <<chain, chunks, phase, to, start, cursor, part, scanned>>

(* The process stops and starts again.  sled writes in the background, so    *)
(* what was put since the last flush may be gone.                            *)
Crash ==
  /\ phase # "idle"
  /\ Drop
  /\ \E lost \in SUBSET {k \in Keys : chunks[k] # Absent} :
       chunks' = [k \in Keys |-> IF k \in lost THEN Absent ELSE chunks[k]]
  /\ checkpoint' \in {0, checkpoint}
  /\ UNCHANGED chain

-----------------------------------------------------------------------------
Init ==
  /\ head = Start
  /\ logs \in [Blocks -> Events]
  /\ reorgs = 0
  /\ chunks = [k \in Keys |-> Absent]
  /\ checkpoint = 0
  /\ phase = "idle"
  /\ to = Start /\ start = Start /\ cursor = Start
  /\ part = Nothing /\ found = Nothing
  /\ scanned = Start - 1

Next ==
  \/ NewBlock
  \/ \E d \in 1..ReorgDepth : Reorg(d)
  \/ \E h \in (Start - 1)..head : Begin(h)
  \/ ReadChunk
  \/ MissChunk
  \/ \E last \in cursor..MaxBlock : FetchBatch(last)
  \/ FetchStop
  \/ StoreChunk
  \/ FetchFail
  \/ NoProgress
  \/ Finish
  \/ LiveScan
  \/ Crash

Spec == Init /\ [][Next]_vars

-----------------------------------------------------------------------------
(* The type invariant: a chunk of LogCache covers exactly the blocks of its  *)
(* key and the rebuild never asks for more than the chain has.               *)
TypeOK ==
  /\ logs \in [Blocks -> Events]
  /\ head \in Blocks
  /\ reorgs \in 0..MaxReorgs
  /\ chunks = [k \in Keys |-> chunks[k]]
  /\ \A k \in Keys : chunks[k] \in [k[1]..k[2] -> Events] \cup {Absent}
  /\ checkpoint \in 0..MaxBlock
  /\ phase \in {"idle", "chunk", "fetch", "finish", "ready"}
  /\ to \in (Start - 1)..head
  /\ start \in Start..(MaxBlock + 1)
  /\ cursor \in Start..(MaxBlock + 1)
  /\ scanned \in (Start - 1)..MaxBlock

(* "a shallow reorg near the tip can't leave stale logs in the cache"        *)
(* (evm_indexer.rs:83): a cached chunk holds exactly what the chain has for  *)
(* its blocks, whatever reorgs, crashes and partial answers came between.    *)
CacheFaithful ==
  \A k \in Keys : chunks[k] # Absent => chunks[k] = Slice(logs, k[1], k[2])

(* "Returns the COMPLETE merchant/receiver/webhook set as of scanned_to":    *)
(* the snapshot has every block up to scanned_to and, beyond the reach of a  *)
(* reorg of the blocks near the head it was built at, what the chain has.    *)
SnapshotComplete ==
  phase = "ready" =>
    /\ Start..scanned \subseteq DOMAIN found
    /\ \A n \in Start..scanned : n + REORG_SAFETY_BLOCKS <= to => found[n] = logs[n]

(* "Callers should only ever move this forward" (log_cache.rs:113): but for   *)
(* what a crash loses, the checkpoint never moves back.                       *)
CheckpointForward == [][checkpoint' < checkpoint => phase' = "idle"]_vars
===============================================================================
