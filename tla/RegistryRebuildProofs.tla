------------------------ MODULE RegistryRebuildProofs ------------------------
(* Proofs about RegistryRebuild, for every chunk size, reorg margin and chain *)
(* length.                                                                    *)
EXTENDS RegistryRebuild, TLAPS

(* The rows of f for blocks a..b are the chain's, where no reorg of the      *)
(* blocks near the rebuild's head reaches.                                   *)
Agrees(f, a, b) ==
  \A n \in a..b : n + REORG_SAFETY_BLOCKS <= to => f[n] = logs[n]

(* Only chunks that lie REORG_SAFETY_BLOCKS behind the head are cached. *)
CacheSettled ==
  \A k \in Keys : chunks[k] # Absent => k[2] + REORG_SAFETY_BLOCKS <= head

(* The rows of the chunks before the current one are all there. *)
FoundSoFar ==
  /\ phase \in {"chunk", "fetch", "finish"} =>
       DOMAIN found = Start..scanned
  /\ phase \in {"chunk", "fetch"} => scanned = start - 1
  /\ phase # "idle" => Start..scanned \subseteq DOMAIN found /\ Agrees(found, Start, scanned)

(* The rows of the current chunk up to the cursor are all there. *)
PartSoFar ==
  phase = "fetch" =>
    /\ start <= to
    /\ start <= cursor
    /\ cursor <= End + 1
    /\ part = [n \in start..(cursor - 1) |-> part[n]]
    /\ \A n \in start..(cursor - 1) : part[n] \in Events
    /\ Agrees(part, start, cursor - 1)

IInv == TypeOK /\ CacheFaithful /\ CacheSettled /\ FoundSoFar /\ PartSoFar

-----------------------------------------------------------------------------
(* chunk_ranges: a chunk starts at its cursor, ends at or before the end of  *)
(* the range, and the next one starts right behind it.                       *)
LEMMA ChunkBounds ==
  ASSUME TypeOK, start <= to
  PROVE  /\ End \in start..to
         /\ End \in Blocks /\ start \in Blocks
         /\ Key \in Keys /\ Key[1] = start /\ Key[2] = End
<1>1. start \in Int /\ to \in Int /\ Start <= start /\ to <= MaxBlock /\ Start \in Int /\ MaxBlock \in Int
  BY ConstantsAssumption DEF TypeOK, Blocks
<1>2. End \in start..to
  BY <1>1, ConstantsAssumption DEF End, Min2
<1>3. End \in Blocks /\ start \in Blocks
  BY <1>1, <1>2 DEF Blocks
<1>4. QED  BY <1>1, <1>2, <1>3 DEF Key, Keys

(* The invariant holds before the first rebuild. *)
LEMMA InitInv == Init => IInv
<1> SUFFICES ASSUME Init PROVE IInv
  OBVIOUS
<1>1. TypeOK
  BY ConstantsAssumption DEF Init, TypeOK, Blocks
<1>2. CacheFaithful /\ CacheSettled
  BY DEF Init, CacheFaithful, CacheSettled
<1>3. FoundSoFar /\ PartSoFar
  BY DEF Init, FoundSoFar, PartSoFar
<1>4. QED  BY <1>1, <1>2, <1>3 DEF IInv

(* The part of the invariant that speaks of the chain and the cache only. *)
LEMMA ChainStep ==
  ASSUME IInv, UNCHANGED <<chunks, process>>,
         head' \in Blocks, head <= head', reorgs' \in 0..MaxReorgs,
         logs' \in [Blocks -> Events],
         \A n \in Blocks : n + REORG_SAFETY_BLOCKS <= head => logs'[n] = logs[n],
         checkpoint' = checkpoint
  PROVE  IInv'
<1>a. /\ head \in Int /\ head' \in Int /\ to \in Int /\ to <= head /\ to' = to
      /\ scanned \in Int /\ scanned <= MaxBlock /\ start \in Int /\ cursor \in Int
      /\ Start <= start
  BY ConstantsAssumption DEF IInv, TypeOK, process, Blocks
<1>b. REORG_SAFETY_BLOCKS \in Int /\ Start \in Int /\ MaxBlock \in Int
  BY ConstantsAssumption
<1>1. TypeOK'
  <2>1. to' \in (Start - 1)..head'
    BY <1>a, <1>b DEF IInv, TypeOK
  <2>2. (chunks = [k \in Keys |-> chunks[k]])'
    BY DEF IInv, TypeOK
  <2>3. (\A k \in Keys : chunks[k] \in [k[1]..k[2] -> Events] \cup {Absent})'
    BY DEF IInv, TypeOK
  <2>4. QED  BY <2>1, <2>2, <2>3 DEF IInv, TypeOK, process
<1>2. CacheFaithful' /\ CacheSettled'
  <2> SUFFICES ASSUME NEW k \in Keys, chunks'[k] # Absent
               PROVE  /\ chunks'[k] = Slice(logs', k[1], k[2])
                      /\ k[2] + REORG_SAFETY_BLOCKS <= head'
    BY DEF CacheFaithful, CacheSettled
  <2>1. k[2] + REORG_SAFETY_BLOCKS <= head /\ chunks[k] = Slice(logs, k[1], k[2])
    BY DEF IInv, CacheFaithful, CacheSettled
  <2>2. k[1] \in Blocks /\ k[2] \in Blocks
    BY DEF Keys
  <2>3. \A n \in k[1]..k[2] : n \in Blocks /\ logs'[n] = logs[n]
    BY <1>a, <1>b, <2>1, <2>2 DEF Blocks
  <2>4. Slice(logs', k[1], k[2]) = Slice(logs, k[1], k[2])
    BY <2>3 DEF Slice
  <2>5. chunks'[k] = chunks[k]
    OBVIOUS
  <2>6. QED  BY <1>a, <1>b, <2>1, <2>2, <2>4, <2>5 DEF Blocks
<1>3. \A n \in Blocks : n + REORG_SAFETY_BLOCKS <= to => logs'[n] = logs[n]
  BY <1>a, <1>b DEF Blocks
<1>4. FoundSoFar'
  <2>1. ASSUME phase # "idle" PROVE Agrees(found, Start, scanned)'
    <3>1. Agrees(found, Start, scanned)
      BY <2>1 DEF IInv, FoundSoFar
    <3>2. \A n \in Start..scanned : n \in Blocks
      BY <1>a, <1>b DEF Blocks
    <3>3. found' = found /\ scanned' = scanned
      BY DEF process
    <3>4. QED  BY <1>a, <1>3, <3>1, <3>2, <3>3 DEF Agrees
  <2>2. QED  BY <2>1 DEF IInv, FoundSoFar, process
<1>5. PartSoFar'
  <2> SUFFICES ASSUME phase' = "fetch" PROVE PartSoFar'
    BY DEF PartSoFar
  <2>1. phase = "fetch" /\ End' = End /\ start' = start /\ cursor' = cursor /\ part' = part
    BY DEF process, End, Min2
  <2>2. start <= to /\ Agrees(part, start, cursor - 1) /\ cursor <= End + 1
    BY <2>1 DEF IInv, PartSoFar
  <2>3. \A n \in start..(cursor - 1) : n \in Blocks
    <3>1. End \in start..to /\ End \in Blocks
      BY <2>2, ChunkBounds DEF IInv
    <3>2. QED  BY <1>a, <1>b, <2>2, <3>1 DEF Blocks
  <2>4. Agrees(part, start, cursor - 1)'
    BY <1>a, <1>3, <2>1, <2>2, <2>3 DEF Agrees
  <2>5. QED  BY <1>a, <2>1, <2>4 DEF IInv, PartSoFar
<1>6. QED  BY <1>1, <1>2, <1>4, <1>5 DEF IInv

(* The integers the steps below reason about. *)
LEMMA Numbers ==
  ASSUME TypeOK
  PROVE  /\ Start \in Nat /\ Start > 0 /\ MaxBlock \in Nat /\ REORG_SAFETY_BLOCKS \in Nat
         /\ head \in Nat /\ Start <= head /\ head <= MaxBlock
         /\ to \in Int /\ Start - 1 <= to /\ to <= head
         /\ start \in Int /\ Start <= start /\ start <= MaxBlock + 1
         /\ cursor \in Int /\ Start <= cursor /\ cursor <= MaxBlock + 1
         /\ scanned \in Int /\ Start - 1 <= scanned /\ scanned <= MaxBlock
         /\ checkpoint \in Nat /\ checkpoint <= MaxBlock
<1>1. /\ Start \in Nat /\ Start > 0 /\ MaxBlock \in Nat /\ REORG_SAFETY_BLOCKS \in Nat
  BY ConstantsAssumption
<1>2. /\ head \in Start..MaxBlock /\ to \in (Start - 1)..head
      /\ start \in Start..(MaxBlock + 1) /\ cursor \in Start..(MaxBlock + 1)
      /\ scanned \in (Start - 1)..MaxBlock /\ checkpoint \in 0..MaxBlock
  BY DEF TypeOK, Blocks
<1>3. QED  BY <1>1, <1>2

(* A step that drops the rebuild's locals and at most loses cached chunks. *)
LEMMA DropStep ==
  ASSUME IInv, Drop, UNCHANGED chain, checkpoint' \in 0..MaxBlock,
         chunks' = [k \in Keys |-> chunks'[k]],
         \A k \in Keys : chunks'[k] = Absent \/ chunks'[k] = chunks[k]
  PROVE  IInv'
<1> USE Numbers DEF IInv
<1>1. TypeOK'
  <2>1. (\A k \in Keys : chunks[k] \in [k[1]..k[2] -> Events] \cup {Absent})'
    BY DEF TypeOK
  <2>2. /\ phase' \in {"idle", "chunk", "fetch", "finish", "ready"}
        /\ to' \in (Start - 1)..head'
        /\ start' \in Start..(MaxBlock + 1)
        /\ cursor' \in Start..(MaxBlock + 1)
        /\ scanned' \in (Start - 1)..MaxBlock
    BY DEF Drop, chain
  <2>3. QED  BY <2>1, <2>2 DEF TypeOK, chain
<1>2. CacheFaithful' /\ CacheSettled'
  BY DEF CacheFaithful, CacheSettled, chain
<1>3. FoundSoFar' /\ PartSoFar'
  BY DEF FoundSoFar, PartSoFar, Drop
<1>4. QED  BY <1>1, <1>2, <1>3

(* Starting a rebuild keeps the invariant. *)
LEMMA BeginStep ==
  ASSUME IInv, NEW h \in (Start - 1)..head, Begin(h)
  PROVE  IInv'
<1> USE Numbers DEF IInv
<1>1. TypeOK'
  <2>1. /\ phase' \in {"idle", "chunk", "fetch", "finish", "ready"}
        /\ to' \in (Start - 1)..head'
        /\ start' \in Start..(MaxBlock + 1)
        /\ cursor' \in Start..(MaxBlock + 1)
        /\ scanned' \in (Start - 1)..MaxBlock
    BY DEF Begin, chain
  <2>2. QED  BY <2>1 DEF TypeOK, Begin, chain, disk
<1>2. CacheFaithful' /\ CacheSettled'
  BY DEF CacheFaithful, CacheSettled, Begin, chain, disk
<1>3. FoundSoFar' /\ PartSoFar'
  <2>1. DOMAIN Nothing = {} /\ Start..(Start - 1) = {}
    BY DEF Nothing
  <2>2. QED  BY <2>1 DEF FoundSoFar, PartSoFar, Begin, Agrees
<1>4. QED  BY <1>1, <1>2, <1>3

(* Taking a chunk from the log cache keeps the invariant. *)
LEMMA ReadChunkStep ==
  ASSUME IInv, ReadChunk
  PROVE  IInv'
<1> USE Numbers DEF IInv
<1>a. start <= to /\ phase = "chunk" /\ chunks[Key] # Absent /\ scanned = start - 1
      /\ DOMAIN found = Start..scanned /\ Agrees(found, Start, scanned)
  BY DEF ReadChunk, FoundSoFar
<1>b. End \in start..to /\ Key \in Keys /\ Key[1] = start /\ Key[2] = End
  BY <1>a, ChunkBounds
<1>c. /\ found' = Extend(found, chunks[Key]) /\ scanned' = End /\ start' = End + 1
      /\ cursor' = End + 1 /\ phase' = "chunk" /\ to' = to /\ logs' = logs /\ head' = head
      /\ reorgs' = reorgs /\ chunks' = chunks /\ checkpoint' = checkpoint
  BY <1>a DEF ReadChunk, chain, disk
<1>1. TypeOK'
  <2>1. /\ to' \in (Start - 1)..head'
        /\ start' \in Start..(MaxBlock + 1)
        /\ cursor' \in Start..(MaxBlock + 1)
        /\ scanned' \in (Start - 1)..MaxBlock
    BY <1>b, <1>c
  <2>2. QED  BY <1>c, <2>1 DEF TypeOK
<1>2. CacheFaithful' /\ CacheSettled'
  BY <1>c DEF CacheFaithful, CacheSettled
<1>3. FoundSoFar'
  <2>1. chunks[Key] = Slice(logs, start, End)
    BY <1>a, <1>b DEF CacheFaithful
  <2>2. DOMAIN chunks[Key] = start..End /\ \A n \in start..End : chunks[Key][n] = logs[n]
    BY <2>1 DEF Slice
  <2>3. /\ DOMAIN Extend(found, chunks[Key]) = Start..End
        /\ \A n \in Start..scanned : Extend(found, chunks[Key])[n] = found[n]
        /\ \A n \in start..End : Extend(found, chunks[Key])[n] = chunks[Key][n]
    <3>1. start = scanned + 1 /\ scanned <= End /\ Start <= start /\ End \in Int
      BY <1>a, <1>b
    <3>2. Start..scanned \cup start..End = Start..End
          /\ \A n \in start..End : n \notin Start..scanned
      BY <3>1
    <3>3. /\ Extend(found, chunks[Key]) = [n \in DOMAIN found \cup DOMAIN chunks[Key] |-> Extend(found, chunks[Key])[n]]
          /\ DOMAIN Extend(found, chunks[Key]) = DOMAIN found \cup DOMAIN chunks[Key]
          /\ \A n \in DOMAIN found : Extend(found, chunks[Key])[n] = found[n]
          /\ \A n \in DOMAIN chunks[Key] : n \notin DOMAIN found => Extend(found, chunks[Key])[n] = chunks[Key][n]
      <4> HIDE Numbers DEF IInv
      <4>1. QED  BY DEF Extend
    <3>4. QED  BY <1>a, <2>2, <3>2, <3>3
  <2>4. Agrees(found, Start, scanned)'
    <3> SUFFICES ASSUME NEW n \in Start..End, n + REORG_SAFETY_BLOCKS <= to
                 PROVE  found'[n] = logs[n]
      BY <1>c DEF Agrees
    <3>1. CASE n \in Start..scanned
      BY <1>a, <1>c, <2>3, <3>1 DEF Agrees
    <3>2. CASE n \in start..End
      BY <1>c, <2>2, <2>3, <3>2
    <3>3. QED  BY <1>a, <1>b, <3>1, <3>2
  <2>5. DOMAIN found' = Start..scanned' /\ scanned' = start' - 1
    BY <1>b, <1>c, <2>3
  <2>6. QED  BY <1>c, <2>4, <2>5 DEF FoundSoFar
<1>4. PartSoFar'
  BY <1>c DEF PartSoFar
<1>5. QED  BY <1>1, <1>2, <1>3, <1>4

(* A chunk the cache does not hold keeps the invariant. *)
LEMMA MissChunkStep ==
  ASSUME IInv, MissChunk
  PROVE  IInv'
<1> USE Numbers DEF IInv
<1>a. start <= to /\ phase = "chunk"
  BY DEF MissChunk
<1>b. End \in start..to
  BY <1>a, ChunkBounds
<1>c. /\ phase' = "fetch" /\ cursor' = start /\ part' = Nothing /\ found' = found
      /\ scanned' = scanned /\ start' = start /\ to' = to /\ logs' = logs /\ head' = head
      /\ reorgs' = reorgs /\ chunks' = chunks /\ checkpoint' = checkpoint
  BY DEF MissChunk, chain, disk
<1>1. TypeOK'
  BY <1>c DEF TypeOK
<1>2. CacheFaithful' /\ CacheSettled'
  BY <1>c DEF CacheFaithful, CacheSettled
<1>3. FoundSoFar'
  BY <1>a, <1>c DEF FoundSoFar, Agrees
<1>4. PartSoFar'
  <2>1. start..(start - 1) = {} /\ Nothing = [n \in {} |-> Nothing[n]]
    BY DEF Nothing
  <2>2. End' = End
    BY <1>c DEF End, Min2
  <2>3. QED  BY <1>a, <1>b, <1>c, <2>1, <2>2 DEF PartSoFar, Agrees
<1>5. QED  BY <1>1, <1>2, <1>3, <1>4

(* Fetching a batch of the chunk keeps the invariant. *)
LEMMA FetchBatchStep ==
  ASSUME IInv, NEW last \in cursor..MaxBlock, FetchBatch(last)
  PROVE  IInv'
<1> USE Numbers DEF IInv
<1>a. /\ phase = "fetch" /\ cursor <= End /\ start <= to /\ start <= cursor
      /\ part = [n \in start..(cursor - 1) |-> part[n]]
      /\ \A n \in start..(cursor - 1) : part[n] \in Events
      /\ Agrees(part, start, cursor - 1)
  BY DEF FetchBatch, PartSoFar
<1>b. End \in start..to /\ last \in cursor..End
  <2>1. End \in start..to
    BY <1>a, ChunkBounds
  <2>2. QED  BY <2>1 DEF FetchBatch, Min2
<1>c. /\ part' = Extend(part, Slice(logs, cursor, last)) /\ cursor' = last + 1
      /\ phase' = phase /\ found' = found
      /\ scanned' = scanned /\ start' = start /\ to' = to /\ logs' = logs /\ head' = head
      /\ reorgs' = reorgs /\ chunks' = chunks /\ checkpoint' = checkpoint
  BY DEF FetchBatch, chain, disk
<1>1. TypeOK'
  <2>1. cursor' \in Start..(MaxBlock + 1)
    BY <1>b, <1>c
  <2>2. QED  BY <1>c, <2>1 DEF TypeOK
<1>2. CacheFaithful' /\ CacheSettled'
  BY <1>c DEF CacheFaithful, CacheSettled
<1>3. FoundSoFar'
  BY <1>a, <1>c DEF FoundSoFar, Agrees
<1>4. PartSoFar'
  <2>1. End' = End
    BY <1>c DEF End, Min2
  <2> DEFINE more == Slice(logs, cursor, last)
  <2>2. DOMAIN part = start..(cursor - 1) /\ DOMAIN more = cursor..last
        /\ \A n \in cursor..last : more[n] = logs[n]
    BY <1>a DEF Slice
  <2> HIDE DEF more
  <2>3. /\ Extend(part, more) = [n \in start..last |-> Extend(part, more)[n]]
        /\ \A n \in start..(cursor - 1) : Extend(part, more)[n] = part[n]
        /\ \A n \in cursor..last : Extend(part, more)[n] = more[n]
    <3>1. cursor = (cursor - 1) + 1 /\ start <= cursor /\ cursor - 1 <= last
          /\ cursor - 1 \in Int /\ last \in Int
      BY <1>a, <1>b
    <3>2. start..(cursor - 1) \cup cursor..last = start..last
          /\ \A n \in cursor..last : n \notin start..(cursor - 1)
      BY <3>1
    <3>3. /\ Extend(part, more) = [n \in DOMAIN part \cup DOMAIN more |-> Extend(part, more)[n]]
          /\ DOMAIN Extend(part, more) = DOMAIN part \cup DOMAIN more
          /\ \A n \in DOMAIN part : Extend(part, more)[n] = part[n]
          /\ \A n \in DOMAIN more : n \notin DOMAIN part => Extend(part, more)[n] = more[n]
      <4> HIDE Numbers DEF IInv
      <4>1. QED  BY DEF Extend
    <3>4. QED  BY <2>2, <3>2, <3>3
  <2>4. part' = Extend(part, more)
    BY <1>c DEF more
  <2>5. ASSUME NEW n \in start..last
        PROVE  part'[n] \in Events /\ (n + REORG_SAFETY_BLOCKS <= to => part'[n] = logs[n])
    <3>1. CASE n \in start..(cursor - 1)
      BY <1>a, <2>3, <2>4, <3>1 DEF Agrees
    <3>2. CASE n \in cursor..last
      <4>1. n \in Blocks
        BY <3>2, <1>b DEF Blocks
      <4>2. logs[n] \in Events
        BY <4>1 DEF TypeOK
      <4>3. QED  BY <2>2, <2>3, <2>4, <3>2, <4>2
    <3>3. QED  BY <1>a, <1>b, <3>1, <3>2
  <2>6. last = cursor' - 1 /\ start <= cursor' /\ cursor' <= End + 1
    <3>1. /\ cursor' = last + 1 /\ start \in Int /\ cursor \in Int /\ to \in Int
          /\ start <= cursor /\ End \in start..to /\ last \in cursor..End
      BY <1>a, <1>b, <1>c
    <3> HIDE Numbers DEF IInv
    <3>2. QED  BY <3>1
  <2>7. part' = [n \in start..(cursor' - 1) |-> part'[n]]
    BY <2>3, <2>4, <2>6
  <2>8. QED  BY <1>a, <1>c, <2>1, <2>5, <2>6, <2>7 DEF PartSoFar, Agrees
<1>5. QED  BY <1>1, <1>2, <1>3, <1>4

(* What a chunk's rows add to the rows before it. *)
LEMMA ChunkRows ==
  ASSUME IInv, phase = "fetch", start < cursor
  PROVE  /\ scanned = start - 1
         /\ DOMAIN Extend(found, part) = Start..(cursor - 1)
         /\ Agrees(Extend(found, part), Start, cursor - 1)
<1> USE Numbers DEF IInv
<1>1. /\ scanned = start - 1 /\ DOMAIN found = Start..scanned /\ Agrees(found, Start, scanned)
      /\ DOMAIN part = start..(cursor - 1) /\ Agrees(part, start, cursor - 1)
  BY DEF FoundSoFar, PartSoFar
<1>2. /\ DOMAIN Extend(found, part) = Start..(cursor - 1)
      /\ \A n \in Start..scanned : Extend(found, part)[n] = found[n]
      /\ \A n \in start..(cursor - 1) : Extend(found, part)[n] = part[n]
  <2>1. start = scanned + 1 /\ Start <= start /\ scanned <= cursor - 1 /\ cursor - 1 \in Int
    BY <1>1
  <2>2. Start..scanned \cup start..(cursor - 1) = Start..(cursor - 1)
        /\ \A n \in start..(cursor - 1) : n \notin Start..scanned
    BY <2>1
  <2>3. /\ Extend(found, part) = [n \in DOMAIN found \cup DOMAIN part |-> Extend(found, part)[n]]
        /\ DOMAIN Extend(found, part) = DOMAIN found \cup DOMAIN part
        /\ \A n \in DOMAIN found : Extend(found, part)[n] = found[n]
        /\ \A n \in DOMAIN part : n \notin DOMAIN found => Extend(found, part)[n] = part[n]
    <3> HIDE Numbers DEF IInv
    <3>1. QED  BY DEF Extend
  <2>4. QED  BY <1>1, <2>2, <2>3
<1>3. Agrees(Extend(found, part), Start, cursor - 1)
  <2> SUFFICES ASSUME NEW n \in Start..(cursor - 1), n + REORG_SAFETY_BLOCKS <= to
               PROVE  Extend(found, part)[n] = logs[n]
    BY DEF Agrees
  <2>1. CASE n \in Start..scanned
    BY <1>1, <1>2, <2>1 DEF Agrees
  <2>2. CASE n \in start..(cursor - 1)
    BY <1>1, <1>2, <2>2 DEF Agrees
  <2>3. QED  BY <1>1, <2>1, <2>2
<1>4. QED  BY <1>1, <1>2, <1>3

(* A fetch that stops short keeps the invariant. *)
LEMMA FetchStopStep ==
  ASSUME IInv, FetchStop
  PROVE  IInv'
<1> USE Numbers DEF IInv
<1>a. /\ phase = "fetch" /\ phase' = "finish" /\ start' = start /\ cursor' = cursor
      /\ to' = to /\ logs' = logs /\ head' = head /\ reorgs' = reorgs
      /\ chunks' = chunks /\ checkpoint' = checkpoint
  BY DEF FetchStop, chain, disk
<1>b. start <= cursor
  BY <1>a DEF PartSoFar
<1>c. FoundSoFar' /\ scanned' \in (Start - 1)..MaxBlock
  <2>1. CASE cursor = start
    <3>1. found' = found /\ scanned' = scanned
      BY <2>1 DEF FetchStop
    <3>2. QED  BY <1>a, <3>1 DEF FoundSoFar, Agrees
  <2>2. CASE cursor # start
    <3>1. found' = Extend(found, part) /\ scanned' = cursor - 1
      BY <2>2 DEF FetchStop
    <3>2. start < cursor
      BY <1>b, <2>2
    <3>3. DOMAIN found' = Start..scanned' /\ Agrees(found, Start, scanned)'
      BY <1>a, <3>1, <3>2, ChunkRows DEF Agrees
    <3>4. scanned' \in (Start - 1)..MaxBlock
      BY <3>1
    <3>5. QED  BY <1>a, <3>3, <3>4 DEF FoundSoFar
  <2>3. QED  BY <2>1, <2>2
<1>1. TypeOK'
  BY <1>a, <1>c DEF TypeOK
<1>2. CacheFaithful' /\ CacheSettled'
  BY <1>a DEF CacheFaithful, CacheSettled
<1>3. PartSoFar'
  BY <1>a DEF PartSoFar
<1>4. QED  BY <1>1, <1>2, <1>3, <1>c

(* Storing a complete chunk keeps the invariant. *)
LEMMA StoreChunkStep ==
  ASSUME IInv, StoreChunk
  PROVE  IInv'
<1> USE Numbers DEF IInv
<1>a. /\ phase = "fetch" /\ phase' = "chunk" /\ start' = End + 1 /\ cursor' = cursor
      /\ scanned' = End /\ found' = Extend(found, part) /\ part' = part
      /\ to' = to /\ logs' = logs /\ head' = head /\ reorgs' = reorgs
      /\ checkpoint' = checkpoint /\ cursor > End
  BY DEF StoreChunk, chain
<1>b. /\ start <= to /\ cursor <= End + 1
      /\ part = [n \in start..(cursor - 1) |-> part[n]]
      /\ \A n \in start..(cursor - 1) : part[n] \in Events
      /\ Agrees(part, start, cursor - 1)
  BY <1>a DEF PartSoFar
<1>c. End \in start..to /\ Key \in Keys /\ Key[1] = start /\ Key[2] = End
  BY <1>b, ChunkBounds
<1>d. cursor - 1 = End /\ start < cursor
  <2>1. cursor > End /\ cursor <= End + 1
    BY <1>a, <1>b
  <2>2. End \in Int /\ start <= End
    BY <1>c
  <2>3. QED  BY <2>1, <2>2
<1>1. (chunks = [k \in Keys |-> chunks[k]])'
      /\ \A k \in Keys :
           \/ chunks'[k] = chunks[k]
           \/ k = Key /\ Settled /\ chunks'[k] = part
  <2>1. chunks = [k \in Keys |-> chunks[k]]
    BY DEF TypeOK
  <2>2. CASE Settled /\ chunks' = [chunks EXCEPT ![Key] = part]
    BY <2>1, <2>2
  <2>3. CASE UNCHANGED chunks
    BY <2>1, <2>3
  <2>4. QED  BY <2>2, <2>3 DEF StoreChunk
<1>2. part \in [start..End -> Events]
  BY <1>b, <1>d
<1>3. TypeOK'
  <2>1. (\A k \in Keys : chunks[k] \in [k[1]..k[2] -> Events] \cup {Absent})'
    BY <1>c, <1>1, <1>2 DEF TypeOK
  <2>2. /\ start' \in Start..(MaxBlock + 1)
        /\ scanned' \in (Start - 1)..MaxBlock
    BY <1>a, <1>c
  <2>3. QED  BY <1>a, <1>1, <2>1, <2>2 DEF TypeOK
<1>4. CacheFaithful' /\ CacheSettled'
  <2> SUFFICES ASSUME NEW k \in Keys, chunks'[k] # Absent
               PROVE  /\ chunks'[k] = Slice(logs', k[1], k[2])
                      /\ k[2] + REORG_SAFETY_BLOCKS <= head'
    BY DEF CacheFaithful, CacheSettled
  <2>1. CASE chunks'[k] = chunks[k]
    BY <1>a, <2>1 DEF CacheFaithful, CacheSettled, Slice
  <2>2. CASE k = Key /\ Settled /\ chunks'[k] = part
    <3>1. End + REORG_SAFETY_BLOCKS <= to
      BY <2>2 DEF Settled
    <3>2. ASSUME NEW n \in start..End PROVE part[n] = logs[n]
      <4>1. n \in start..(cursor - 1)
        BY <1>d
      <4>2. n + REORG_SAFETY_BLOCKS <= to
        BY <1>c, <3>1
      <4>3. QED  BY <1>b, <4>1, <4>2 DEF Agrees
    <3>3. part = [n \in start..End |-> logs[n]]
      BY <1>2, <3>2
    <3>4. chunks'[k] = part /\ k[1] = start /\ k[2] = End
      BY <1>c, <2>2
    <3>5. chunks'[k] = Slice(logs', k[1], k[2])
      BY <1>a, <3>3, <3>4 DEF Slice
    <3>6. k[2] + REORG_SAFETY_BLOCKS <= head'
      <4>1. /\ k[2] = End /\ head' = head /\ to <= head /\ End \in Int
            /\ to \in Int /\ head \in Int /\ REORG_SAFETY_BLOCKS \in Int
        BY <1>a, <1>c, <3>4
      <4> HIDE Numbers DEF IInv
      <4>2. QED  BY <3>1, <4>1
    <3>7. QED  BY <3>5, <3>6
  <2>3. QED  BY <1>1, <2>1, <2>2
<1>5. FoundSoFar'
  <2>1. DOMAIN found' = Start..scanned' /\ Agrees(found, Start, scanned)'
    BY <1>a, <1>d, ChunkRows DEF Agrees
  <2>2. scanned' = start' - 1
    BY <1>a, <1>c
  <2>3. QED  BY <1>a, <2>1, <2>2 DEF FoundSoFar
<1>6. PartSoFar'
  BY <1>a DEF PartSoFar
<1>7. QED  BY <1>3, <1>4, <1>5, <1>6

(* The end of a rebuild keeps the invariant. *)
LEMMA FinishStep ==
  ASSUME IInv, Finish
  PROVE  IInv'
<1> USE Numbers DEF IInv
<1>a. /\ phase \in {"chunk", "finish"} /\ phase' = "ready" /\ start' = start /\ cursor' = cursor
      /\ scanned' = scanned /\ found' = found /\ part' = part
      /\ to' = to /\ logs' = logs /\ head' = head /\ reorgs' = reorgs
      /\ chunks' = chunks
  BY DEF Finish, AllChunksDone, chain
<1>b. checkpoint' \in 0..MaxBlock
  BY DEF Finish, Forward
<1>1. TypeOK'
  BY <1>a, <1>b DEF TypeOK
<1>2. CacheFaithful' /\ CacheSettled'
  BY <1>a DEF CacheFaithful, CacheSettled
<1>3. FoundSoFar' /\ PartSoFar'
  BY <1>a DEF FoundSoFar, PartSoFar, Agrees
<1>4. QED  BY <1>1, <1>2, <1>3

(* The live scan after the rebuild keeps the invariant. *)
LEMMA LiveScanStep ==
  ASSUME IInv, LiveScan
  PROVE  IInv'
<1> USE Numbers DEF IInv
<1> DEFINE more == Slice(logs, checkpoint + 1, checkpoint + 1)
<1>a. /\ phase = "ready" /\ phase' = "ready" /\ start' = start /\ cursor' = cursor
      /\ scanned' = scanned /\ found' = Extend(found, more) /\ part' = part
      /\ to' = to /\ logs' = logs /\ head' = head /\ reorgs' = reorgs
      /\ chunks' = chunks /\ checkpoint' = checkpoint + 1 /\ checkpoint < head
  BY DEF LiveScan, chain
<1> HIDE DEF more
<1>b. checkpoint' \in 0..MaxBlock
  BY <1>a
<1>1. TypeOK'
  BY <1>a, <1>b DEF TypeOK
<1>2. CacheFaithful' /\ CacheSettled'
  BY <1>a DEF CacheFaithful, CacheSettled
<1>3. FoundSoFar' /\ PartSoFar'
  <2>1. /\ DOMAIN Extend(found, more) = DOMAIN found \cup DOMAIN more
        /\ \A n \in DOMAIN found : Extend(found, more)[n] = found[n]
    <3> HIDE Numbers DEF IInv
    <3>1. QED  BY DEF Extend
  <2>2. Start..scanned \subseteq DOMAIN found /\ Agrees(found, Start, scanned)
    BY <1>a DEF FoundSoFar
  <2>3. Start..scanned' \subseteq DOMAIN found' /\ Agrees(found, Start, scanned)'
    BY <1>a, <2>1, <2>2 DEF Agrees
  <2>4. QED  BY <1>a, <2>3 DEF FoundSoFar, PartSoFar
<1>4. QED  BY <1>1, <1>2, <1>3

-----------------------------------------------------------------------------
(* Every step keeps the invariant: one case per action. *)
LEMMA NextStep == IInv /\ [Next]_vars => IInv'
<1> SUFFICES ASSUME IInv, [Next]_vars PROVE IInv'
  OBVIOUS
<1>a. TypeOK
  BY DEF IInv
<1>1. CASE NewBlock
  <2>1. head' \in Blocks /\ head <= head'
    BY <1>1, <1>a, Numbers DEF NewBlock, Blocks
  <2>2. QED  BY <1>1, <1>a, <2>1, ChainStep DEF NewBlock, disk, TypeOK
<1>2. ASSUME NEW d \in 1..ReorgDepth, Reorg(d) PROVE IInv'
  <2>1. PICK new \in [(head - d + 1)..head -> Events] :
          logs' = [n \in Blocks |-> IF n \in DOMAIN new THEN new[n] ELSE logs[n]]
    BY <1>2 DEF Reorg
  <2>2. logs' \in [Blocks -> Events]
    BY <1>a, <2>1 DEF TypeOK
  <2>3. ASSUME NEW n \in Blocks, n + REORG_SAFETY_BLOCKS <= head
        PROVE  logs'[n] = logs[n]
    <3>1. n \notin (head - d + 1)..head
      BY <1>a, <2>3, Numbers, ConstantsAssumption DEF Blocks
    <3>2. QED  BY <2>1, <3>1
  <2>4. reorgs' \in 0..MaxReorgs
    <3>1. reorgs \in 0..MaxReorgs
      BY <1>a DEF TypeOK
    <3>2. reorgs < MaxReorgs /\ reorgs' = reorgs + 1
      BY <1>2 DEF Reorg
    <3>3. MaxReorgs \in Nat
      BY ConstantsAssumption
    <3>4. QED  BY <3>1, <3>2, <3>3
  <2>5. head' = head /\ head \in Blocks /\ head <= head
    BY <1>2, <1>a, Numbers DEF Reorg, TypeOK
  <2>6. QED  BY <1>2, <2>2, <2>3, <2>4, <2>5, ChainStep DEF Reorg, disk
<1>3. ASSUME NEW h \in (Start - 1)..head, Begin(h) PROVE IInv'
  BY <1>3, BeginStep
<1>4. ASSUME NEW last \in cursor..MaxBlock, FetchBatch(last) PROVE IInv'
  BY <1>4, FetchBatchStep
<1>5. CASE FetchFail \/ NoProgress
  BY <1>5, <1>a, DropStep DEF FetchFail, NoProgress, disk, TypeOK
<1>6. CASE Crash
  <2>1. chunks' = [k \in Keys |-> chunks'[k]]
        /\ \A k \in Keys : chunks'[k] = Absent \/ chunks'[k] = chunks[k]
    BY <1>6 DEF Crash
  <2>2. checkpoint' \in 0..MaxBlock
    BY <1>6, <1>a, ConstantsAssumption DEF Crash, TypeOK
  <2>3. QED  BY <1>6, <2>1, <2>2, DropStep DEF Crash
<1>7. CASE UNCHANGED vars
  <2>1. head' \in Blocks /\ head <= head' /\ reorgs' \in 0..MaxReorgs /\ logs' \in [Blocks -> Events]
    BY <1>7, <1>a, Numbers DEF vars, chain, TypeOK
  <2>2. QED  BY <1>7, <2>1, ChainStep DEF vars, chain, disk
<1>8. QED
  BY <1>1, <1>2, <1>3, <1>4, <1>5, <1>6, <1>7, ReadChunkStep, MissChunkStep, FetchStopStep,
     StoreChunkStep, FinishStep, LiveScanStep
  DEF Next

(* The inductive invariant of the rebuild and its log cache. *)
THEOREM InvCorrect == Spec => []IInv
BY InitInv, NextStep, PTL DEF Spec

(* The rebuild never leaves its types. *)
THEOREM RebuildTypes == Spec => []TypeOK
BY InvCorrect, PTL DEF IInv

(* Whatever reorgs within the margin, crashes and partial answers happen, a  *)
(* cached chunk is what the chain holds.                                     *)
THEOREM CacheIsFaithful == Spec => []CacheFaithful
BY InvCorrect, PTL DEF IInv

(* A finished rebuild has every block up to scanned_to. *)
THEOREM SnapshotIsComplete == Spec => []SnapshotComplete
<1>1. IInv => SnapshotComplete
  BY DEF IInv, FoundSoFar, Agrees, SnapshotComplete
<1>2. QED  BY <1>1, InvCorrect, PTL

(* Outside a crash the checkpoint never moves back. *)
THEOREM CheckpointMovesForward == Spec => CheckpointForward
<1>1. TypeOK /\ [Next]_vars => [checkpoint' < checkpoint => phase' = "idle"]_vars
  <2> SUFFICES ASSUME TypeOK, Next, checkpoint' < checkpoint PROVE phase' = "idle"
    OBVIOUS
  <2>1. ~Finish /\ ~LiveScan
    BY Numbers DEF Finish, LiveScan, Forward
  <2>2. checkpoint' # checkpoint
    BY Numbers
  <2>3. QED
    BY <2>1, <2>2
    DEF Next, disk, Crash, Drop, NewBlock, Reorg, Begin, ReadChunk, MissChunk, FetchBatch,
        FetchStop, StoreChunk, FetchFail, NoProgress
<1>2. QED  BY <1>1, RebuildTypes, PTL DEF Spec, CheckpointForward
===============================================================================
