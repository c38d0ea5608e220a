------------------------- MODULE DepositWatcherProofs -------------------------
(* Proofs about DepositWatcher, for every number of tabs, chains, receivers,   *)
(* blocks and transfers, every window and every length of the history: the     *)
(* list of deposits has no hole and repeats nothing, and the watcher           *)
(* implements DepositLedger.                                                   *)
EXTENDS DepositWatcher, FiniteSetTheorems, TLAPS

Worker == [pc : {"idle", "open", "first", "head", "logs"}, job : Nat,
           cursor : Nat, windows : Nat, head : Nat]

(* Everything of r from the start st[r] up to the block b, exclusively, has     *)
(* been counted.                                                               *)
Behind(r, b, st, cnt) ==
  st[r] # Unknown /\ \A e \in Entries(r, st[r], b - 1) : cnt[e] > 0

(* What a running scanChain of the chain c has in hand: a receiver of the      *)
(* chain, a cursor with nothing uncounted behind it, a head the chain reached. *)
Sound(w, c, st, cnt, hd) ==
  /\ w \in Worker
  /\ w.pc # "idle" => w.job \in 1..Len(Jobs[c])
  /\ w.pc = "first" => StartBlock[Jobs[c][w.job]] = Unknown
  /\ w.pc \in {"head", "logs"} => Behind(Jobs[c][w.job], w.cursor, st, cnt)
  /\ w.pc = "logs" => w.cursor <= w.head /\ w.head <= hd[c]

WellTyped ==
  /\ env \in Environments
  /\ head \in [Chains -> 0..MaxHead]
  /\ history \in Seq(AllEntries) /\ Len(history) <= MaxHistory
  /\ cursors \in [ReceiverSet -> Nat \cup {Unknown}]
  /\ lock \in Tabs \cup {NoTab}
  /\ worker \in [Tabs -> [Chains -> Worker]]
  /\ start \in [ReceiverSet -> Nat \cup {Unknown}]
  /\ counted \in [AllEntries -> 0..2]

WorkersSound ==
  \A t \in Tabs, c \in Chains : Sound(worker[t][c], c, start, counted, head)

CursorsBehind ==
  \A r \in ReceiverSet : cursors[r] # Unknown => Behind(r, cursors[r], start, counted)

(* A receiver is watched from its creation block, or from a block its chain    *)
(* has reached.                                                                *)
Starts ==
  \A r \in ReceiverSet :
    IF StartBlock[r] = Unknown THEN start[r] # Unknown => start[r] <= head[ChainOf(r)]
                               ELSE start[r] = StartBlock[r]

(* The history holds what was counted, but for what fell out of it. *)
Remembered ==
  /\ \A e \in Range(history) : counted[e] > 0
  /\ \A e \in AllEntries : counted[e] > 0 => e \in Range(history) \cup evicted

IInv == WellTyped /\ WorkersSound /\ CursorsBehind /\ Starts /\ Remembered /\ CountedOnce

-----------------------------------------------------------------------------
(* Operators of the model                                                  *)

(* A job of a chain is one of its receivers. *)
LEMMA JobReceiver ==
  ASSUME NEW c \in Chains, NEW k \in 1..Len(Jobs[c])
  PROVE  Jobs[c][k] \in ReceiverSet /\ ChainOf(Jobs[c][k]) = c
<1>1. Jobs[c] \in Seq(ReceiverSet) /\ Jobs[c][k] \in Range(Jobs[c])
  BY WatcherAssumption DEF Range
<1>2. \A d \in Chains : Jobs[c][k] \in Range(Jobs[d]) => d = c
  BY <1>1, WatcherAssumption
<1>3. ChainOf(Jobs[c][k]) = c
  BY <1>1, <1>2 DEF ChainOf
<1>4. QED  BY <1>1, <1>3

(* Every watched receiver has a chain. *)
LEMMA ChainOfReceiver == \A r \in ReceiverSet : ChainOf(r) \in Chains
<1> SUFFICES ASSUME NEW r \in ReceiverSet PROVE ChainOf(r) \in Chains
  OBVIOUS
<1>1. \E c \in Chains : r \in Range(Jobs[c])
  BY DEF ReceiverSet
<1>2. QED  BY <1>1 DEF ChainOf

(* The places of the transfers into a receiver. *)
LEMMA Places ==
  ASSUME NEW r \in ReceiverSet
  PROVE  /\ DOMAIN TransfersInto[r] \subseteq Nat /\ IsFiniteSet(DOMAIN TransfersInto[r])
         /\ \A i, j \in DOMAIN TransfersInto[r] :
              TransfersInto[r][i].tx = TransfersInto[r][j].tx =>
                TransfersInto[r][i].block = TransfersInto[r][j].block
<1> DEFINE chain == Transfers[ChainOf(r)]
           D == {j \in DOMAIN chain : chain[j].to = r}
<1>1. TransfersInto[r] = [i \in D |-> chain[i]]
  BY DEF TransfersInto
<1>2. chain \in Seq(Range(chain)) /\ \A i, j \in DOMAIN chain :
        chain[i].tx = chain[j].tx => chain[i].block = chain[j].block
  BY ChainOfReceiver, ChainAssumption
<1> HIDE DEF chain
<1>3. Len(chain) \in Nat /\ DOMAIN chain = 1..Len(chain) /\ D \subseteq 1..Len(chain)
  BY <1>2
<1>4. IsFiniteSet(D)
  <2>1. IsFiniteSet(1..Len(chain))
    BY <1>3, FS_Interval
  <2> HIDE DEF D
  <2>2. QED  BY <1>3, <2>1, FS_Subset
<1>5. QED  BY <1>1, <1>2, <1>3, <1>4

(* The ordinal of a transfer does not depend on the window that finds it: a    *)
(* transaction lies in one block, and a window holds whole blocks.             *)
LEMMA WindowIndependent ==
  ASSUME NEW r \in ReceiverSet, NEW a, NEW b, NEW i \in Found(r, a, b)
  PROVE  EntryId(r, Found(r, a, b), i) = EntryTable[r][i]
<1> DEFINE D == DOMAIN TransfersInto[r]
<1>1. i \in D /\ TransfersInto[r][i].block \in a..b
  BY DEF Found
<1>2. \A j \in D : Base(r, j) = Base(r, i) => j \in Found(r, a, b)
  BY <1>1, Places DEF Base, Found
<1>3. {j \in Found(r, a, b) : j < i /\ Base(r, j) = Base(r, i)}
        = {j \in D : j < i /\ Base(r, j) = Base(r, i)}
  BY <1>2 DEF Found
<1>4. EntryTable[r][i] = EntryId(r, D, i)
  BY <1>1 DEF EntryTable
<1>5. QED  BY <1>3, <1>4 DEF EntryId

(* What a scan of any window finds is an entry of the chain. *)
LEMMA EntriesKnown ==
  ASSUME NEW r \in ReceiverSet, NEW a, NEW b
  PROVE  Entries(r, a, b) \subseteq AllEntries
<1>1. DOMAIN EntryTable[r] = DOMAIN TransfersInto[r]
  BY DEF EntryTable
<1>2. Entries(r, a, b) \subseteq Range(EntryTable[r])
  BY <1>1 DEF Entries, Found, Range
<1>3. QED  BY <1>2 DEF AllEntries

(* A window splits what is behind it: before the window, and in it. *)
LEMMA EntriesSplit ==
  ASSUME NEW r \in ReceiverSet, NEW s \in Int, NEW a \in Int, NEW b \in Int
  PROVE  Entries(r, s, b) \subseteq Entries(r, s, a - 1) \cup Entries(r, a, b)
<1> SUFFICES ASSUME NEW i \in Found(r, s, b)
             PROVE  i \in Found(r, s, a - 1) \/ i \in Found(r, a, b)
  BY DEF Entries
<1>1. i \in DOMAIN TransfersInto[r] /\ TransfersInto[r][i].block \in s..b
  BY DEF Found
<1>2. TransfersInto[r][i].block \in s..(a - 1) \/ TransfersInto[r][i].block \in a..b
  BY <1>1
<1>3. QED  BY <1>1, <1>2 DEF Found

(* A later start leaves less to be counted. *)
LEMMA EntriesLater ==
  ASSUME NEW r \in ReceiverSet, NEW s \in Int, NEW u \in Int, s <= u, NEW b \in Int
  PROVE  Entries(r, u, b) \subseteq Entries(r, s, b)
<1>1. Found(r, u, b) \subseteq Found(r, s, b)
  BY DEF Found
<1>2. QED  BY <1>1 DEF Entries

(* Nothing lies between a block and the one before it. *)
LEMMA EntriesNone ==
  ASSUME NEW r \in ReceiverSet, NEW s \in Int, NEW b \in Int, b < s
  PROVE  Entries(r, s, b) = {}
<1>1. Found(r, s, b) = {}
  BY DEF Found
<1>2. QED  BY <1>1 DEF Entries

(* What a scan adds are the transfers of its window that the history lacks. *)
LEMMA AddedIs ==
  ASSUME NEW r \in ReceiverSet, NEW a, NEW b, NEW added \in Added(r, Found(r, a, b))
  PROVE  /\ added \in Seq(AllEntries)
         /\ Range(added) = Entries(r, a, b) \ Range(history)
<1> DEFINE D == Found(r, a, b)
           S == {i \in D : EntryId(r, D, i) \notin Range(history)}
<1>1. PICK f \in InOrder(S) : added = [k \in DOMAIN f |-> EntryId(r, D, f[k])]
  BY DEF Added
<1>2. f \in [1..Cardinality(S) -> S] /\ \A i \in S : i \in Range(f)
  BY DEF InOrder
<1>3. IsFiniteSet(S) /\ Cardinality(S) \in Nat
  <2>1. S \subseteq DOMAIN TransfersInto[r]
    BY DEF Found
  <2>2. QED  BY <2>1, Places, FS_Subset, FS_CardinalityType
<1>4. \A i \in D : EntryId(r, D, i) = EntryTable[r][i]
  BY WindowIndependent
<1>5. Entries(r, a, b) \ Range(history) = {EntryTable[r][i] : i \in S}
  BY <1>4 DEF Entries
<1>6. Range(added) = {EntryTable[r][i] : i \in S}
  <2> HIDE DEF S, D
  <2>1. \A k \in DOMAIN f : f[k] \in S
    BY <1>2
  <2>2. S \subseteq D
    BY DEF S
  <2>3. Range(added) = {EntryId(r, D, f[k]) : k \in DOMAIN f}
    BY <1>1 DEF Range
  <2>4. Range(added) = {EntryTable[r][f[k]] : k \in DOMAIN f}
    BY <1>4, <2>1, <2>2, <2>3
  <2>5. S = {f[k] : k \in DOMAIN f}
    BY <1>2, <2>1 DEF Range
  <2>6. QED  BY <2>4, <2>5
<1>7. added \in Seq(AllEntries)
  <2> DEFINE n == Cardinality(S)
  <2>1. DOMAIN added = 1..n /\ n \in Nat
    BY <1>1, <1>2, <1>3
  <2>2. \A k \in 1..n : added[k] \in AllEntries
    BY <1>5, <1>6, <2>1, EntriesKnown DEF Range
  <2>3. added = [k \in 1..n |-> added[k]]
    BY <1>1, <2>1
  <2> HIDE DEF n
  <2>4. added \in [1..n -> AllEntries]
    BY <2>2, <2>3
  <2>5. QED  BY <2>1, <2>4
<1>8. QED  BY <1>5, <1>6, <1>7

(* Putting a list, reversed, in front of another. *)
LEMMA Merged ==
  ASSUME NEW S, NEW a \in Seq(S), NEW h \in Seq(S)
  PROVE  Reverse(a) \o h \in Seq(S) /\ Range(Reverse(a) \o h) = Range(a) \cup Range(h)
<1>1. /\ Reverse(a) \in Seq(S) /\ Len(Reverse(a)) = Len(a)
      /\ \A i \in 1..Len(a) : Reverse(a)[i] = a[Len(a) - i + 1]
  BY DEF Reverse
<1>2. Range(Reverse(a)) = Range(a)
  <2>1. ASSUME NEW i \in 1..Len(a)
        PROVE  Len(a) - i + 1 \in 1..Len(a) /\ a[i] = Reverse(a)[Len(a) - i + 1]
    <3>1. Len(a) \in Nat
      OBVIOUS
    <3>2. Len(a) - i + 1 \in 1..Len(a) /\ Len(a) - (Len(a) - i + 1) + 1 = i
      BY <3>1
    <3>3. QED  BY <1>1, <3>2
  <2>2. DOMAIN a = 1..Len(a) /\ DOMAIN Reverse(a) = 1..Len(a)
    BY <1>1
  <2>3. \A i \in DOMAIN a : a[i] \in Range(Reverse(a))
    BY <2>1, <2>2 DEF Range
  <2>4. \A i \in DOMAIN Reverse(a) : Reverse(a)[i] \in Range(a)
    BY <1>1, <2>1, <2>2 DEF Range
  <2>5. QED  BY <2>3, <2>4 DEF Range
<1>3. \A g \in Seq(S) : Range(g \o h) = Range(g) \cup Range(h)
  <2> SUFFICES ASSUME NEW g \in Seq(S) PROVE Range(g \o h) = Range(g) \cup Range(h)
    OBVIOUS
  <2>1. /\ DOMAIN (g \o h) = 1..(Len(g) + Len(h))
        /\ \A i \in 1..Len(g) : (g \o h)[i] = g[i]
        /\ \A i \in 1..Len(h) : (g \o h)[Len(g) + i] = h[i] /\ Len(g) + i \in 1..(Len(g) + Len(h))
        /\ \A i \in 1..(Len(g) + Len(h)) : i \in 1..Len(g) \/ i - Len(g) \in 1..Len(h)
        /\ DOMAIN g = 1..Len(g) /\ DOMAIN h = 1..Len(h)
        /\ 1..Len(g) \subseteq 1..(Len(g) + Len(h))
    OBVIOUS
  <2>2. Range(g) \cup Range(h) \subseteq Range(g \o h)
    BY <2>1 DEF Range
  <2>3. ASSUME NEW i \in DOMAIN (g \o h) PROVE (g \o h)[i] \in Range(g) \cup Range(h)
    <3>1. CASE i \in 1..Len(g)
      BY <2>1, <3>1 DEF Range
    <3>2. CASE i - Len(g) \in 1..Len(h)
      <4>1. i = Len(g) + (i - Len(g))
        BY <2>1, <2>3, <3>2
      <4>2. (g \o h)[i] = h[i - Len(g)]
        BY <2>1, <3>2, <4>1
      <4>3. QED  BY <2>1, <3>2, <4>2 DEF Range
    <3>3. QED  BY <2>1, <2>3, <3>1, <3>2
  <2>4. QED  BY <2>2, <2>3 DEF Range
<1>4. QED  BY <1>1, <1>2, <1>3

(* Keeping the first k of a list. *)
LEMMA Cut ==
  ASSUME NEW S, NEW m \in Seq(S), NEW k \in 0..Len(m)
  PROVE  /\ SubSeq(m, 1, k) \in Seq(S) /\ Len(SubSeq(m, 1, k)) = k
         /\ Range(SubSeq(m, 1, k)) \subseteq Range(m)
<1>1. /\ SubSeq(m, 1, k) \in Seq(S) /\ Len(SubSeq(m, 1, k)) = k
      /\ DOMAIN SubSeq(m, 1, k) = 1..k /\ DOMAIN m = 1..Len(m)
      /\ \A i \in 1..k : SubSeq(m, 1, k)[i] = m[i] /\ i \in 1..Len(m)
  OBVIOUS
<1>2. Range(SubSeq(m, 1, k)) \subseteq Range(m)
  BY <1>1 DEF Range
<1>3. QED  BY <1>1, <1>2

-----------------------------------------------------------------------------
(* Time passes                                                             *)

(* Nothing is uncounted, no watch moves back, no chain shrinks. *)
Later ==
  /\ \A e \in AllEntries : counted[e] > 0 => counted'[e] > 0
  /\ \A r \in ReceiverSet : start[r] # Unknown => start'[r] # Unknown /\ start[r] <= start'[r]
  /\ \A c \in Chains : head[c] <= head'[c]

(* What is behind a block stays behind it. *)
LEMMA BehindKept ==
  ASSUME WellTyped, WellTyped', Later, NEW r \in ReceiverSet, NEW b \in Nat,
         Behind(r, b, start, counted)
  PROVE  Behind(r, b, start', counted')
<1>1. /\ start[r] \in Int /\ start'[r] \in Int /\ start[r] <= start'[r] /\ start'[r] # Unknown
      /\ b - 1 \in Int
  BY DEF WellTyped, Later, Behind
<1>2. Entries(r, start'[r], b - 1) \subseteq Entries(r, start[r], b - 1)
  BY <1>1, EntriesLater
<1>3. QED  BY <1>1, <1>2, EntriesKnown DEF Behind, Later

(* A worker's position stays sound when heads and counts only grow. *)
LEMMA SoundKept ==
  ASSUME WellTyped, WellTyped', Later, NEW c \in Chains, NEW w, Sound(w, c, start, counted, head)
  PROVE  Sound(w, c, start', counted', head')
<1>1. w \in Worker /\ w.cursor \in Nat /\ w.head \in Nat
  BY DEF Sound, Worker
<1>2. head[c] \in Int /\ head'[c] \in Int /\ head[c] <= head'[c]
  BY WatcherAssumption DEF WellTyped, Later
<1>3. w.pc \in {"head", "logs"} => Behind(Jobs[c][w.job], w.cursor, start', counted')
  <2> SUFFICES ASSUME w.pc \in {"head", "logs"}
               PROVE  Behind(Jobs[c][w.job], w.cursor, start', counted')
    OBVIOUS
  <2>1. w.job \in 1..Len(Jobs[c]) /\ Behind(Jobs[c][w.job], w.cursor, start, counted)
    BY DEF Sound
  <2>2. QED  BY <1>1, <2>1, JobReceiver, BehindKept
<1>4. w.pc = "logs" => w.cursor <= w.head /\ w.head <= head'[c]
  BY <1>1, <1>2 DEF Sound
<1>5. QED  BY <1>3, <1>4 DEF Sound

(* So does every worker's position, and every stored cursor. *)
LEMMA LaterSound ==
  ASSUME IInv, WellTyped', Later
  PROVE  /\ \A t \in Tabs, c \in Chains : Sound(worker[t][c], c, start', counted', head')
         /\ \A r \in ReceiverSet : cursors[r] # Unknown => Behind(r, cursors[r], start', counted')
<1>1. WellTyped
  BY DEF IInv
<1>2. \A t \in Tabs, c \in Chains : Sound(worker[t][c], c, start', counted', head')
  <2> TAKE t \in Tabs, c \in Chains
  <2>1. Sound(worker[t][c], c, start, counted, head)
    BY DEF IInv, WorkersSound
  <2>2. QED  BY <1>1, <2>1, SoundKept
<1>3. ASSUME NEW r \in ReceiverSet, cursors[r] # Unknown
      PROVE  Behind(r, cursors[r], start', counted')
  <2>1. cursors[r] \in Nat /\ Behind(r, cursors[r], start, counted)
    BY <1>3 DEF IInv, WellTyped, CursorsBehind
  <2>2. QED  BY <1>1, <2>1, BehindKept
<1>4. QED  BY <1>2, <1>3

(* A worker between two receivers knows nothing yet. *)
Resting(w, c) == /\ w \in Worker /\ w.pc \in {"idle", "open"}
                 /\ w.pc = "open" => w.job \in 1..Len(Jobs[c])

(* A worker that holds no window is sound in any state. *)
LEMMA RestingSound ==
  ASSUME NEW c \in Chains, NEW w, Resting(w, c)
  PROVE  w \in Worker /\ \A st, cnt, hd : Sound(w, c, st, cnt, hd)
BY DEF Resting, Sound

(* An idle worker, and one that just opened a job, hold no window. *)
LEMMA IdleRests ==
  ASSUME NEW c \in Chains
  PROVE  /\ Resting(Idle, c)
         /\ \A k \in 1..Len(Jobs[c]) : Resting([Idle EXCEPT !.pc = "open", !.job = k], c)
<1>1. Len(Jobs[c]) \in Nat
  BY WatcherAssumption
<1>2. Resting(Idle, c)
  BY DEF Resting, Idle, Worker
<1>3. ASSUME NEW k \in 1..Len(Jobs[c])
      PROVE  Resting([Idle EXCEPT !.pc = "open", !.job = k], c)
  <2> DEFINE w == [Idle EXCEPT !.pc = "open", !.job = k]
  <2>1. k \in Nat
    BY <1>1
  <2>2. Idle \in Worker
    BY <1>2 DEF Resting
  <2>3. w \in Worker /\ w.pc = "open" /\ w.job = k
    BY <2>1, <2>2 DEF Worker
  <2>4. QED  BY <2>3 DEF Resting
<1>4. QED  BY <1>2, <1>3

(* Writing one worker leaves the others alone. *)
LEMMA SetWorkerEffect ==
  ASSUME WellTyped, NEW t \in Tabs, NEW c \in Chains, NEW w \in Worker, SetWorker(t, c, w)
  PROVE  /\ worker' \in [Tabs -> [Chains -> Worker]]
         /\ worker'[t][c] = w
         /\ \A u \in Tabs, d \in Chains : u # t \/ d # c => worker'[u][d] = worker[u][d]
BY DEF WellTyped, SetWorker

(* The next receiver, or the end of the poll. *)
LEMMA NextJobEffect ==
  ASSUME IInv, NEW t \in Tabs, NEW c \in Chains, NextJob(t, c), worker[t][c].pc # "idle"
  PROVE  \E w : SetWorker(t, c, w) /\ Resting(w, c) /\ lock' \in Tabs \cup {NoTab}
<1>1. lock \in Tabs \cup {NoTab}
  BY DEF IInv, WellTyped
<1>2. CASE worker[t][c].job < Len(Jobs[c])
  <2>1. worker[t][c].job + 1 \in 1..Len(Jobs[c])
    <3>1. worker[t][c].job \in 1..Len(Jobs[c]) /\ Len(Jobs[c]) \in Nat
      BY WatcherAssumption DEF IInv, WorkersSound, Sound
    <3>2. QED  BY <1>2, <3>1
  <2>2. Resting([Idle EXCEPT !.pc = "open", !.job = worker[t][c].job + 1], c)
    BY <2>1, IdleRests
  <2>3. QED  BY <1>1, <1>2, <2>2 DEF NextJob
<1>3. CASE ~ (worker[t][c].job < Len(Jobs[c]))
  BY <1>1, <1>3, IdleRests DEF NextJob, Release
<1>4. QED  BY <1>2, <1>3

(* A worker that backs off holds no window any more. *)
LEMMA BackOffEffect ==
  ASSUME IInv, NEW t \in Tabs, NEW c \in Chains, BackOff(t, c)
  PROVE  \E w : SetWorker(t, c, w) /\ Resting(w, c) /\ lock' \in Tabs \cup {NoTab}
<1>1. lock \in Tabs \cup {NoTab}
  BY DEF IInv, WellTyped
<1>2. QED  BY <1>1, IdleRests DEF BackOff, Release

-----------------------------------------------------------------------------
(* The invariant holds before the first poll. *)
LEMMA InitInv == Init => IInv
<1> SUFFICES ASSUME Init PROVE IInv
  OBVIOUS
<1>0. /\ env \in Environments /\ head = [c \in Chains |-> 0] /\ history = <<>>
      /\ cursors = [r \in ReceiverSet |-> Unknown] /\ lock = NoTab
      /\ worker = [t \in Tabs |-> [c \in Chains |-> Idle]]
      /\ start = StartBlock /\ counted = [e \in AllEntries |-> 0]
  BY DEF Init
<1>1. WellTyped
  <2>1. Idle \in Worker
    BY DEF Idle, Worker
  <2>2. worker \in [Tabs -> [Chains -> Worker]]
    BY <1>0, <2>1
  <2>3. head \in [Chains -> 0..MaxHead] /\ counted \in [AllEntries -> 0..2]
    BY <1>0, WatcherAssumption
  <2>4. history \in Seq(AllEntries) /\ Len(history) <= MaxHistory
    BY <1>0, WatcherAssumption
  <2>5. QED  BY <1>0, <2>2, <2>3, <2>4, WatcherAssumption DEF WellTyped
<1>2. WorkersSound
  BY <1>0, IdleRests, RestingSound DEF WorkersSound
<1>3. CursorsBehind
  BY <1>0 DEF CursorsBehind
<1>4. Starts
  BY <1>0 DEF Starts
<1>5. Remembered /\ CountedOnce
  <2>1. Range(history) = {}
    BY <1>0 DEF Range
  <2>2. \A e \in AllEntries : counted[e] = 0
    BY <1>0
  <2>3. QED  BY <2>1, <2>2 DEF Remembered, CountedOnce
<1>6. QED  BY <1>1, <1>2, <1>3, <1>4, <1>5 DEF IInv

(* A step that leaves the chains and the storage alone. *)
LEMMA QuietStep ==
  ASSUME IInv, UNCHANGED <<env, head, shared>>, lock' \in Tabs \cup {NoTab},
         worker' \in [Tabs -> [Chains -> Worker]],
         \A t \in Tabs, c \in Chains : Sound(worker'[t][c], c, start, counted, head)
  PROVE  IInv'
<1>1. UNCHANGED <<env, head, history, cursors, start, counted, evicted>>
  BY DEF shared
<1>2. WellTyped'
  BY <1>1 DEF IInv, WellTyped
<1>3. WorkersSound'
  BY <1>1 DEF WorkersSound
<1>4. CursorsBehind' /\ Starts' /\ Remembered' /\ CountedOnce'
  BY <1>1 DEF IInv, CursorsBehind, Starts, Remembered, CountedOnce
<1>5. QED  BY <1>2, <1>3, <1>4 DEF IInv

(* The same, where one worker moves. *)
LEMMA QuietWorker ==
  ASSUME IInv, UNCHANGED <<env, head, shared>>, lock' \in Tabs \cup {NoTab},
         NEW t \in Tabs, NEW c \in Chains, NEW w, SetWorker(t, c, w),
         Sound(w, c, start, counted, head)
  PROVE  IInv'
<1>1. w \in Worker /\ WellTyped
  BY DEF Sound, IInv
<1>2. /\ worker' \in [Tabs -> [Chains -> Worker]]
      /\ worker'[t][c] = w
      /\ \A u \in Tabs, d \in Chains : u # t \/ d # c => worker'[u][d] = worker[u][d]
  BY <1>1, SetWorkerEffect
<1>3. \A u \in Tabs, d \in Chains : Sound(worker'[u][d], d, start, counted, head)
  <2> TAKE u \in Tabs, d \in Chains
  <2>1. CASE u = t /\ d = c
    BY <1>2, <2>1
  <2>2. CASE u # t \/ d # c
    <3>1. Sound(worker[u][d], d, start, counted, head)
      BY DEF IInv, WorkersSound
    <3>2. QED  BY <1>2, <2>2, <3>1
  <2>3. QED  BY <2>1, <2>2
<1>4. QED  BY <1>2, <1>3, QuietStep

(* Starting a poll keeps the invariant. *)
LEMMA PollNowStep ==
  ASSUME IInv, NEW t \in Tabs, PollNow(t) PROVE IInv'
<1> DEFINE ws == [c \in Chains |-> IF c \in env.chains \ backoff[t]
                                   THEN [Idle EXCEPT !.pc = "open", !.job = 1] ELSE Idle]
<1>1. /\ UNCHANGED <<env, head, shared>> /\ worker' = [worker EXCEPT ![t] = ws]
      /\ lock' \in Tabs \cup {NoTab}
  BY DEF PollNow, IInv, WellTyped
<1>2. \A c \in Chains : Resting(ws[c], c)
  <2> TAKE c \in Chains
  <2>1. 1 \in 1..Len(Jobs[c])
    BY WatcherAssumption
  <2>2. QED  BY <2>1, IdleRests
<1>3. \A c \in Chains : ws[c] \in Worker /\ Sound(ws[c], c, start, counted, head)
  BY <1>2, RestingSound
<1>w. worker \in [Tabs -> [Chains -> Worker]]
  BY DEF IInv, WellTyped
<1>4. ws \in [Chains -> Worker]
  BY <1>3
<1> HIDE DEF ws
<1>5. /\ worker' \in [Tabs -> [Chains -> Worker]] /\ worker'[t] = ws
      /\ \A u \in Tabs \ {t} : worker'[u] = worker[u]
  BY <1>1, <1>4, <1>w
<1>6. \A u \in Tabs, c \in Chains : Sound(worker'[u][c], c, start, counted, head)
  <2> TAKE u \in Tabs, c \in Chains
  <2>1. Sound(worker[u][c], c, start, counted, head)
    BY DEF IInv, WorkersSound
  <2>2. QED  BY <1>3, <1>5, <2>1
<1>7. QED  BY <1>1, <1>5, <1>6, QuietStep

(* Closing a tab in the middle of a poll keeps the invariant. *)
LEMMA CloseTabStep ==
  ASSUME IInv, NEW t \in Tabs, CloseTab(t) PROVE IInv'
<1> DEFINE ws == [c \in Chains |-> Idle]
<1>1. /\ UNCHANGED <<env, head, shared>> /\ worker' = [worker EXCEPT ![t] = ws]
      /\ lock' \in Tabs \cup {NoTab} /\ worker \in [Tabs -> [Chains -> Worker]]
  BY DEF CloseTab, IInv, WellTyped
<1>2. \A c \in Chains : ws[c] \in Worker /\ Sound(ws[c], c, start, counted, head)
  BY IdleRests, RestingSound
<1>3. ws \in [Chains -> Worker]
  BY <1>2
<1> HIDE DEF ws
<1>4. /\ worker' \in [Tabs -> [Chains -> Worker]] /\ worker'[t] = ws
      /\ \A u \in Tabs \ {t} : worker'[u] = worker[u]
  BY <1>1, <1>3
<1>5. \A u \in Tabs, c \in Chains : Sound(worker'[u][c], c, start, counted, head)
  <2> TAKE u \in Tabs, c \in Chains
  <2>1. Sound(worker[u][c], c, start, counted, head)
    BY DEF IInv, WorkersSound
  <2>2. QED  BY <1>2, <1>4, <2>1
<1>6. QED  BY <1>1, <1>4, <1>5, QuietStep

(* A failed request, or a scan out of pages, keeps the invariant. *)
LEMMA RpcFailsStep ==
  ASSUME IInv, NEW t \in Tabs, NEW c \in Chains, RpcFails(t, c) \/ OutOfPages(t, c) PROVE IInv'
<1>1. UNCHANGED <<env, head, shared>> /\ BackOff(t, c)
  BY DEF RpcFails, OutOfPages, ScanFailed
<1>2. PICK w : SetWorker(t, c, w) /\ Resting(w, c) /\ lock' \in Tabs \cup {NoTab}
  BY <1>1, BackOffEffect
<1>3. Sound(w, c, start, counted, head)
  BY <1>2, RestingSound
<1>4. QED  BY <1>1, <1>2, <1>3, QuietWorker

(* The end of a back-off keeps the invariant. *)
LEMMA BackoffOverStep ==
  ASSUME IInv, NEW t \in Tabs, NEW c \in Chains, BackoffOver(t, c) PROVE IInv'
<1>1. UNCHANGED <<env, head, shared>> /\ lock' = lock /\ worker' = worker
  BY DEF BackoffOver
<1>2. lock' \in Tabs \cup {NoTab} /\ worker' \in [Tabs -> [Chains -> Worker]]
  BY <1>1 DEF IInv, WellTyped
<1>3. \A u \in Tabs, d \in Chains : Sound(worker'[u][d], d, start, counted, head)
  BY <1>1 DEF IInv, WorkersSound
<1>4. QED  BY <1>1, <1>2, <1>3, QuietStep

(* The head is read: a window opens no further than the chain is. *)
LEMMA ReadHeadStep ==
  ASSUME IInv, NEW t \in Tabs, NEW c \in Chains, ReadHead(t, c) PROVE IInv'
<1> DEFINE v == worker[t][c]
<1>1. UNCHANGED <<env, head, shared>> /\ v.pc = "head" /\ Sound(v, c, start, counted, head)
  BY DEF ReadHead, IInv, WorkersSound
<1>2. head[c] \in Nat /\ v \in Worker /\ v.cursor \in Nat
  BY <1>1, WatcherAssumption DEF IInv, WellTyped, Sound, Worker
<1>3. CASE v.cursor > head[c]
  <2>1. NextJob(t, c)
    BY <1>3 DEF ReadHead
  <2>2. PICK w : SetWorker(t, c, w) /\ Resting(w, c) /\ lock' \in Tabs \cup {NoTab}
    BY <1>1, <2>1, NextJobEffect
  <2>3. Sound(w, c, start, counted, head)
    BY <2>2, RestingSound
  <2>4. QED  BY <1>1, <2>2, <2>3, QuietWorker
<1>4. CASE ~ (v.cursor > head[c])
  <2> DEFINE w == [v EXCEPT !.pc = "logs", !.head = head[c]]
  <2>1. SetWorker(t, c, w) /\ lock' = lock
    BY <1>4 DEF ReadHead
  <2>2. w \in Worker /\ w.pc = "logs" /\ w.head = head[c] /\ w.cursor = v.cursor /\ w.job = v.job
    BY <1>2 DEF Worker
  <2> HIDE DEF w, v
  <2>3. Sound(w, c, start, counted, head)
    BY <1>1, <1>2, <1>4, <2>2 DEF Sound
  <2>4. lock' \in Tabs \cup {NoTab}
    BY <2>1 DEF IInv, WellTyped
  <2>5. QED  BY <1>1, <2>1, <2>3, <2>4, QuietWorker
<1>5. QED  BY <1>3, <1>4

(* A new block keeps the invariant. *)
LEMMA MineStep ==
  ASSUME IInv, NEW c \in Chains, Mine(c) PROVE IInv'
<1>1. /\ UNCHANGED <<env, lock, worker, history, cursors, start, counted, evicted>>
      /\ head \in [Chains -> 0..MaxHead] /\ head[c] < MaxHead
      /\ head' = [head EXCEPT ![c] = @ + 1]
  BY DEF Mine, shared, IInv, WellTyped
<1>2. head' \in [Chains -> 0..MaxHead] /\ \A d \in Chains : head[d] <= head'[d]
  BY <1>1, WatcherAssumption
<1>3. WellTyped'
  BY <1>1, <1>2 DEF IInv, WellTyped
<1>4. Later
  BY <1>1, <1>2 DEF Later, IInv, WellTyped
<1>5. WorkersSound' /\ CursorsBehind'
  BY <1>1, <1>3, <1>4, LaterSound DEF WorkersSound, CursorsBehind
<1>6. Starts'
  <2>1. \A r \in ReceiverSet : head[ChainOf(r)] \in Int /\ head'[ChainOf(r)] \in Int
                               /\ head[ChainOf(r)] <= head'[ChainOf(r)]
    BY <1>1, <1>2, ChainOfReceiver, WatcherAssumption
  <2>2. \A r \in ReceiverSet : start[r] # Unknown => start[r] \in Int
    BY DEF IInv, WellTyped
  <2>3. QED  BY <1>1, <2>1, <2>2 DEF IInv, Starts
<1>7. Remembered' /\ CountedOnce'
  BY <1>1 DEF IInv, Remembered, CountedOnce
<1>8. QED  BY <1>3, <1>5, <1>6, <1>7 DEF IInv

(* A step of one worker that may also move the cursor of a receiver. *)
LEMMA MoveStep ==
  ASSUME IInv, WellTyped', Later, Starts', Remembered', CountedOnce',
         NEW t \in Tabs, NEW c \in Chains, NEW w \in Worker, SetWorker(t, c, w),
         Sound(w, c, start', counted', head'),
         \A r \in ReceiverSet : cursors'[r] = cursors[r] \/ Behind(r, cursors'[r], start', counted')
  PROVE  IInv'
<1>1. WellTyped
  BY DEF IInv
<1>2. /\ worker'[t][c] = w
      /\ \A u \in Tabs, d \in Chains : u # t \/ d # c => worker'[u][d] = worker[u][d]
  BY <1>1, SetWorkerEffect
<1>3. \A u \in Tabs, d \in Chains : Sound(worker'[u][d], d, start', counted', head')
  <2> TAKE u \in Tabs, d \in Chains
  <2>1. Sound(worker[u][d], d, start', counted', head')
    BY LaterSound
  <2>2. QED  BY <1>2, <2>1
<1>4. WorkersSound'
  BY <1>3 DEF WorkersSound
<1>5. CursorsBehind'
  BY LaterSound DEF CursorsBehind
<1>6. QED  BY <1>4, <1>5 DEF IInv

(* scanReceiver takes up the stored cursor or the creation block. *)
LEMMA OpenReceiverStep ==
  ASSUME IInv, NEW t \in Tabs, NEW c \in Chains, OpenReceiver(t, c) PROVE IInv'
<1> DEFINE v == worker[t][c]
           r == Jobs[c][v.job]
           from == IF cursors[r] # Unknown THEN cursors[r] ELSE StartBlock[r]
           w == [v EXCEPT !.pc = IF from = Unknown THEN "first" ELSE "head",
                          !.cursor = IF from = Unknown THEN 0 ELSE from]
<1>1. /\ v.pc = "open" /\ SetWorker(t, c, w)
      /\ IF cursors[r] = from THEN UNCHANGED <<cursors, faults>> ELSE SetCursor(r, from)
      /\ UNCHANGED <<env, head, lock, history, start, counted, evicted>>
  BY DEF OpenReceiver, Receiver
<1>2. v \in Worker /\ v.job \in 1..Len(Jobs[c]) /\ WellTyped
  BY <1>1 DEF IInv, WorkersSound, Sound
<1>3. r \in ReceiverSet /\ ChainOf(r) = c
  BY <1>2, JobReceiver
<1>4. from \in Nat \cup {Unknown} /\ (from = Unknown => cursors[r] = Unknown /\ StartBlock[r] = Unknown)
  BY <1>2, <1>3, WatcherAssumption DEF WellTyped
<1>5. from # Unknown => Behind(r, from, start, counted)
  <2>1. CASE cursors[r] # Unknown
    BY <1>3, <2>1 DEF IInv, CursorsBehind
  <2>2. CASE cursors[r] = Unknown /\ StartBlock[r] # Unknown
    <3>1. start[r] = StartBlock[r] /\ from = StartBlock[r] /\ StartBlock[r] \in Nat
      BY <1>3, <1>4, <2>2 DEF IInv, Starts
    <3> HIDE DEF from, r
    <3>2. Entries(r, start[r], from - 1) = {}
      BY <1>3, <3>1, EntriesNone
    <3>3. QED  BY <2>2, <3>1, <3>2 DEF Behind
  <2>3. QED  BY <1>4, <2>1, <2>2
<1> HIDE DEF from
<1>6. /\ w \in Worker /\ w.pc = (IF from = Unknown THEN "first" ELSE "head")
      /\ w.cursor = (IF from = Unknown THEN 0 ELSE from) /\ w.job = v.job
  BY <1>2, <1>4 DEF Worker
<1>7. \/ UNCHANGED cursors
      \/ from # Unknown /\ cursors' = [cursors EXCEPT ![r] = from]
  BY <1>1, <1>4 DEF SetCursor
<1> HIDE DEF w, r
<1>8. Sound(w, c, start, counted, head)
  BY <1>2, <1>4, <1>5, <1>6 DEF Sound, r
<1>9. WellTyped'
  <2>1. cursors' \in [ReceiverSet -> Nat \cup {Unknown}]
    BY <1>2, <1>3, <1>4, <1>7 DEF WellTyped
  <2>2. worker' \in [Tabs -> [Chains -> Worker]]
    BY <1>1, <1>2, <1>6, SetWorkerEffect
  <2>3. QED  BY <1>1, <1>2, <2>1, <2>2 DEF WellTyped
<1>10. Later
  <2>1. \A x \in Chains : head[x] \in Int
    BY <1>2, WatcherAssumption DEF WellTyped
  <2>2. \A x \in ReceiverSet : start[x] # Unknown => start[x] \in Int
    BY <1>2 DEF WellTyped
  <2>3. QED  BY <1>1, <2>1, <2>2 DEF Later
<1>11. Starts' /\ Remembered' /\ CountedOnce'
  BY <1>1 DEF IInv, Starts, Remembered, CountedOnce
<1>12. \A x \in ReceiverSet : cursors'[x] = cursors[x] \/ Behind(x, cursors'[x], start, counted)
  BY <1>2, <1>3, <1>5, <1>7 DEF WellTyped
<1>13. QED  BY <1>1, <1>6, <1>8, <1>9, <1>10, <1>11, <1>12, MoveStep

(* Watching starts at the head: what came before is not promised. *)
LEMMA FirstCursorStep ==
  ASSUME IInv, NEW t \in Tabs, NEW c \in Chains, FirstCursor(t, c) PROVE IInv'
<1> DEFINE v == worker[t][c]
           r == Jobs[c][v.job]
           w == [v EXCEPT !.pc = "head", !.cursor = head[c]]
<1>1. /\ v.pc = "first" /\ SetWorker(t, c, w) /\ SetCursor(r, head[c])
      /\ start' = [start EXCEPT ![r] = head[c]]
      /\ UNCHANGED <<env, head, lock, history, counted, evicted>>
  BY DEF FirstCursor, Receiver
<1>2. /\ v \in Worker /\ v.job \in 1..Len(Jobs[c]) /\ WellTyped
      /\ StartBlock[r] = Unknown
  BY <1>1 DEF IInv, WorkersSound, Sound
<1>3. r \in ReceiverSet /\ ChainOf(r) = c
  BY <1>2, JobReceiver
<1>4. head[c] \in Nat /\ head[c] # Unknown /\ \A x \in Chains : head[x] \in Int
  BY <1>2, WatcherAssumption DEF WellTyped
<1>5. w \in Worker /\ w.pc = "head" /\ w.cursor = head[c] /\ w.job = v.job
  BY <1>2, <1>4 DEF Worker
<1>6. cursors' = cursors \/ cursors' = [cursors EXCEPT ![r] = head[c]]
  BY <1>1 DEF SetCursor
<1> HIDE DEF w, r
<1>7. /\ start' \in [ReceiverSet -> Nat \cup {Unknown}] /\ start'[r] = head[c]
      /\ \A x \in ReceiverSet \ {r} : start'[x] = start[x]
  BY <1>1, <1>2, <1>3, <1>4 DEF WellTyped
<1>8. Behind(r, head[c], start', counted')
  <2>1. Entries(r, head[c], head[c] - 1) = {}
    BY <1>3, <1>4, EntriesNone
  <2>2. QED  BY <1>4, <1>7, <2>1 DEF Behind
<1>9. Sound(w, c, start', counted', head')
  BY <1>2, <1>5, <1>8 DEF Sound, r
<1>10. WellTyped'
  <2>1. cursors' \in [ReceiverSet -> Nat \cup {Unknown}]
    BY <1>2, <1>3, <1>4, <1>6 DEF WellTyped
  <2>2. worker' \in [Tabs -> [Chains -> Worker]]
    BY <1>1, <1>2, <1>5, SetWorkerEffect
  <2>3. QED  BY <1>1, <1>2, <1>7, <2>1, <2>2 DEF WellTyped
<1>11. Later
  <2>1. start[r] # Unknown => start[r] <= head[c]
    BY <1>2, <1>3 DEF IInv, Starts
  <2>2. \A x \in ReceiverSet : start[x] # Unknown => start[x] \in Int
    BY <1>2 DEF WellTyped
  <2>3. QED  BY <1>1, <1>4, <1>7, <2>1, <2>2 DEF Later
<1>12. Starts'
  BY <1>1, <1>2, <1>3, <1>4, <1>7 DEF IInv, Starts
<1>13. Remembered' /\ CountedOnce'
  BY <1>1 DEF IInv, Remembered, CountedOnce
<1>14. \A x \in ReceiverSet : cursors'[x] = cursors[x] \/ Behind(x, cursors'[x], start', counted')
  BY <1>2, <1>3, <1>6, <1>8 DEF WellTyped
<1>15. QED  BY <1>1, <1>5, <1>9, <1>10, <1>11, <1>12, <1>13, <1>14, MoveStep

(* What recordScan does to the storage: the entries of the window are counted  *)
(* once, unless the history was not written at all.                            *)
LEMMA RecordEffect ==
  ASSUME IInv, NEW r \in ReceiverSet, NEW a \in Nat, NEW b \in Int, b + 1 \in Nat,
         NEW stored \in {"both", "history", "none"},
         RecordScan(r, Found(r, a, b), b + 1, stored)
  PROVE  /\ UNCHANGED start
         /\ history' \in Seq(AllEntries) /\ Len(history') <= MaxHistory
         /\ counted' \in [AllEntries -> 0..2]
         /\ \A e \in AllEntries : counted[e] > 0 => counted'[e] > 0
         /\ \A e \in AllEntries : counted'[e] > 0 =>
              counted[e] > 0 \/ (stored # "none" /\ e \in Entries(r, a, b))
         /\ stored # "none" => \A e \in Entries(r, a, b) : counted'[e] > 0
         /\ Remembered' /\ CountedOnce'
         /\ cursors' = IF stored = "both" THEN [cursors EXCEPT ![r] = b + 1] ELSE cursors
<1>1. PICK added \in Added(r, Found(r, a, b)) : Store(r, added, b + 1, stored)
  BY DEF RecordScan
<1>2. added \in Seq(AllEntries) /\ Range(added) = Entries(r, a, b) \ Range(history)
  BY AddedIs
<1> DEFINE m == Reverse(added) \o history
           n == IF Len(m) > MaxHistory THEN MaxHistory ELSE Len(m)
           kept == SubSeq(m, 1, n)
<1>3. /\ history \in Seq(AllEntries) /\ Len(history) <= MaxHistory
      /\ counted \in [AllEntries -> 0..2] /\ MaxHistory \in Nat
      /\ \A e \in Range(history) : e \in AllEntries /\ counted[e] > 0
      /\ \A e \in AllEntries : counted[e] > 0 => e \in Range(history) \cup evicted
      /\ \A e \in AllEntries : counted[e] > 1 => e \in evicted
  <2>1. history \in Seq(AllEntries)
    BY DEF IInv, WellTyped
  <2>2. Range(history) \subseteq AllEntries
    BY <2>1 DEF Range
  <2>3. QED  BY <2>1, <2>2, WatcherAssumption DEF IInv, WellTyped, Remembered, CountedOnce
<1>4. m \in Seq(AllEntries) /\ n \in 0..Len(m) /\ n <= MaxHistory
  <2>1. Reverse(added) \in Seq(AllEntries)
    BY <1>2 DEF Reverse
  <2>2. m \in Seq(AllEntries)
    BY <1>3, <2>1
  <2> HIDE DEF m
  <2>3. Len(m) \in Nat
    BY <2>2
  <2>4. QED  BY <1>3, <2>2, <2>3
<1>5. /\ history' = IF stored # "none" THEN kept ELSE history
      /\ cursors' = IF stored = "both" THEN [cursors EXCEPT ![r] = b + 1] ELSE cursors
      /\ counted' = [e \in AllEntries |-> IF stored # "none" /\ counted[e] < 2 /\ e \in Range(added)
                                          THEN counted[e] + 1 ELSE counted[e]]
      /\ evicted' = IF stored # "none" THEN evicted \cup (Range(m) \ Range(kept)) ELSE evicted
      /\ UNCHANGED start
  BY <1>1 DEF Store
<1>6. /\ Range(m) = Range(added) \cup Range(history)
      /\ kept \in Seq(AllEntries) /\ Len(kept) = n /\ Range(kept) \subseteq Range(m)
  <2>1. Range(m) = Range(added) \cup Range(history)
    BY <1>2, <1>3, Merged
  <2> HIDE DEF n, m
  <2>2. /\ SubSeq(m, 1, n) \in Seq(AllEntries) /\ Len(SubSeq(m, 1, n)) = n
        /\ Range(SubSeq(m, 1, n)) \subseteq Range(m)
    BY <1>4, Cut
  <2>3. QED  BY <2>1, <2>2
<1> HIDE DEF m, n, kept
<1>7. history' \in Seq(AllEntries) /\ Len(history') <= MaxHistory
  BY <1>3, <1>4, <1>5, <1>6
<1>8. \A e \in AllEntries : /\ counted[e] \in 0..2 /\ counted'[e] \in 0..2
                            /\ counted[e] > 0 => counted'[e] > 0
                            /\ counted'[e] > 0 => counted[e] > 0 \/ (stored # "none" /\ e \in Range(added))
                            /\ stored # "none" /\ e \in Range(added) => counted'[e] > 0
                            /\ counted'[e] > 1 => counted[e] > 1 \/ (counted[e] > 0 /\ e \in Range(added))
  BY <1>3, <1>5
<1>9. counted' \in [AllEntries -> 0..2]
  BY <1>5, <1>8
<1>10. \A e \in Entries(r, a, b) : e \in AllEntries /\ (e \in Range(history) \/ e \in Range(added))
  BY <1>2, EntriesKnown
<1>11. stored # "none" => \A e \in Entries(r, a, b) : counted'[e] > 0
  BY <1>3, <1>8, <1>10
<1>12. \A e \in Range(history') : e \in AllEntries /\ counted'[e] > 0
  <2>1. CASE stored = "none"
    BY <1>3, <1>5, <1>8, <2>1
  <2>2. CASE stored # "none"
    <3>1. \A e \in Range(added) : e \in AllEntries
      BY <1>2, <1>10
    <3>2. QED  BY <1>3, <1>5, <1>6, <1>8, <2>2, <3>1
  <2>3. QED  BY <2>1, <2>2
<1>13. \A e \in AllEntries : counted'[e] > 0 => e \in Range(history') \cup evicted'
  <2>1. CASE stored = "none"
    BY <1>3, <1>5, <1>8, <2>1
  <2>2. CASE stored # "none"
    <3>1. \A e \in AllEntries : counted'[e] > 0 => e \in Range(m) \cup evicted
      BY <1>3, <1>6, <1>8
    <3>2. QED  BY <1>5, <2>2, <3>1
  <2>3. QED  BY <2>1, <2>2
<1>14. \A e \in AllEntries : counted'[e] > 1 => e \in evicted'
  <2>1. \A e \in AllEntries : counted'[e] > 1 => e \in evicted
    BY <1>2, <1>3, <1>8
  <2>2. QED  BY <1>5, <2>1
<1>15. Remembered' /\ CountedOnce'
  BY <1>12, <1>13, <1>14 DEF Remembered, CountedOnce
<1>16. \A e \in AllEntries : counted'[e] > 0 =>
         counted[e] > 0 \/ (stored # "none" /\ e \in Entries(r, a, b))
  BY <1>2, <1>8
<1>17. QED  BY <1>5, <1>7, <1>8, <1>9, <1>11, <1>15, <1>16

(* The window that was scanned: a..b, within the chain, with nothing uncounted *)
(* before it.                                                                  *)
LEMMA WindowScanned ==
  ASSUME IInv, NEW t \in Tabs, NEW c \in Chains, ScanWindow(t, c)
  PROVE  \E r \in ReceiverSet, a, b \in Nat, stored \in {"both", "history", "none"} :
           /\ r = Jobs[c][worker[t][c].job] /\ a = worker[t][c].cursor
           /\ ChainOf(r) = c /\ a <= head[c] /\ b <= head[c]
           /\ Behind(r, a, start, counted)
           /\ RecordScan(r, Found(r, a, b), b + 1, stored)
           /\ IF stored # "both" THEN ScanFailed(t, c)
              ELSE /\ IF worker[t][c].windows + 1 < MaxWindows
                      THEN /\ SetWorker(t, c, [worker[t][c] EXCEPT !.pc = "head", !.cursor = b + 1,
                                                        !.windows = @ + 1, !.head = 0])
                           /\ UNCHANGED <<lock, backoff>>
                      ELSE NextJob(t, c)
                   /\ UNCHANGED faults
           /\ UNCHANGED <<env, head>>
<1> DEFINE v == worker[t][c]
           r == Jobs[c][v.job]
           a == v.cursor
           b == IF c \notin SolanaChains /\ v.cursor + Window - 1 < v.head
                THEN v.cursor + Window - 1 ELSE v.head
<1>1. v.pc = "logs" /\ Sound(v, c, start, counted, head)
  BY DEF ScanWindow, IInv, WorkersSound
<1>2. /\ v.cursor \in Nat /\ v.head \in Nat /\ v.cursor <= v.head /\ v.head <= head[c]
      /\ v.job \in 1..Len(Jobs[c]) /\ Behind(r, a, start, counted)
  BY <1>1 DEF Sound, Worker
<1>3. r \in ReceiverSet /\ ChainOf(r) = c
  BY <1>2, JobReceiver
<1>4. head[c] \in Nat /\ Window \in Nat \ {0}
  BY WatcherAssumption DEF IInv, WellTyped
<1>5. a \in Nat /\ b \in Nat /\ a <= head[c] /\ b <= head[c]
  BY <1>2, <1>4
<1>6. PICK stored \in (IF "refuse" \in env.faults /\ faults < MaxFaults
                       THEN {"both", "history", "none"} ELSE {"both"}) :
        /\ RecordScan(r, Found(r, a, b), b + 1, stored)
        /\ IF stored # "both" THEN ScanFailed(t, c)
           ELSE /\ IF v.windows + 1 < MaxWindows
                   THEN /\ SetWorker(t, c, [v EXCEPT !.pc = "head", !.cursor = b + 1,
                                                     !.windows = @ + 1, !.head = 0])
                        /\ UNCHANGED <<lock, backoff>>
                   ELSE NextJob(t, c)
                /\ UNCHANGED faults
  BY DEF ScanWindow, Receiver
<1>7. stored \in {"both", "history", "none"} /\ UNCHANGED <<env, head>>
  BY <1>6 DEF ScanWindow
<1> HIDE DEF b
<1>8. QED  BY <1>2, <1>3, <1>5, <1>6, <1>7

(* Scanning a window and storing what it found keeps the invariant. *)
LEMMA ScanWindowStep ==
  ASSUME IInv, NEW t \in Tabs, NEW c \in Chains, ScanWindow(t, c) PROVE IInv'
<1> DEFINE v == worker[t][c]
<1>1. PICK r \in ReceiverSet, a, b \in Nat, stored \in {"both", "history", "none"} :
        /\ r = Jobs[c][v.job] /\ a = v.cursor
        /\ ChainOf(r) = c /\ a <= head[c] /\ b <= head[c]
        /\ Behind(r, a, start, counted)
        /\ RecordScan(r, Found(r, a, b), b + 1, stored)
        /\ IF stored # "both" THEN ScanFailed(t, c)
           ELSE /\ IF v.windows + 1 < MaxWindows
                   THEN /\ SetWorker(t, c, [v EXCEPT !.pc = "head", !.cursor = b + 1,
                                                     !.windows = @ + 1, !.head = 0])
                        /\ UNCHANGED <<lock, backoff>>
                   ELSE NextJob(t, c)
                /\ UNCHANGED faults
        /\ UNCHANGED <<env, head>>
  BY WindowScanned
<1>2. v.pc = "logs" /\ v \in Worker /\ v.job \in 1..Len(Jobs[c]) /\ WellTyped
  BY DEF ScanWindow, IInv, WorkersSound, Sound
<1>3. /\ UNCHANGED start
      /\ history' \in Seq(AllEntries) /\ Len(history') <= MaxHistory
      /\ counted' \in [AllEntries -> 0..2]
      /\ \A e \in AllEntries : counted[e] > 0 => counted'[e] > 0
      /\ \A e \in AllEntries : counted'[e] > 0 =>
           counted[e] > 0 \/ (stored # "none" /\ e \in Entries(r, a, b))
      /\ stored # "none" => \A e \in Entries(r, a, b) : counted'[e] > 0
      /\ Remembered' /\ CountedOnce'
      /\ cursors' = IF stored = "both" THEN [cursors EXCEPT ![r] = b + 1] ELSE cursors
  <2>1. b \in Int /\ b + 1 \in Nat
    OBVIOUS
  <2>2. RecordScan(r, Found(r, a, b), b + 1, stored)
    BY <1>1
  <2>3. /\ UNCHANGED start
        /\ \A e \in AllEntries : counted[e] > 0 => counted'[e] > 0
        /\ \A e \in AllEntries : counted'[e] > 0 =>
             counted[e] > 0 \/ (stored # "none" /\ e \in Entries(r, a, b))
        /\ stored # "none" => \A e \in Entries(r, a, b) : counted'[e] > 0
    BY <2>1, <2>2, RecordEffect
  <2>4. history' \in Seq(AllEntries) /\ Len(history') <= MaxHistory /\ counted' \in [AllEntries -> 0..2]
    BY <2>1, <2>2, RecordEffect
  <2>5. Remembered' /\ CountedOnce'
    BY <2>1, <2>2, RecordEffect
  <2>6. cursors' = IF stored = "both" THEN [cursors EXCEPT ![r] = b + 1] ELSE cursors
    BY <2>1, <2>2, RecordEffect
  <2>7. QED  BY <2>3, <2>4, <2>5, <2>6
<1>4. stored = "both" => Behind(r, b + 1, start', counted')
  <2> SUFFICES ASSUME stored = "both" PROVE Behind(r, b + 1, start', counted')
    OBVIOUS
  <2>1. start[r] # Unknown /\ start[r] \in Int
    <3>1. Behind(r, a, start, counted)
      BY <1>1
    <3>2. start[r] # Unknown
      BY <3>1 DEF Behind
    <3>3. start \in [ReceiverSet -> Nat \cup {Unknown}]
      BY <1>2 DEF WellTyped
    <3>4. QED  BY <3>2, <3>3
  <2>2. Entries(r, start[r], b) \subseteq Entries(r, start[r], a - 1) \cup Entries(r, a, b)
    BY <2>1, EntriesSplit
  <2>3. \A e \in Entries(r, start[r], a - 1) : e \in AllEntries /\ counted[e] > 0
    <3>1. Behind(r, a, start, counted)
      BY <1>1
    <3>2. \A e \in Entries(r, start[r], a - 1) : counted[e] > 0
      BY <3>1 DEF Behind
    <3>3. Entries(r, start[r], a - 1) \subseteq AllEntries
      BY EntriesKnown
    <3>4. QED  BY <3>2, <3>3
  <2>4. \A e \in Entries(r, start[r], b) : counted'[e] > 0
    BY <1>3, <2>2, <2>3
  <2>5. (b + 1) - 1 = b
    OBVIOUS
  <2>6. QED  BY <1>3, <2>1, <2>4, <2>5 DEF Behind
<1>5. \E w \in Worker : /\ SetWorker(t, c, w) /\ Sound(w, c, start', counted', head')
                        /\ lock' \in Tabs \cup {NoTab}
  <2>1. CASE stored # "both"
    <3>1. PICK w : SetWorker(t, c, w) /\ Resting(w, c) /\ lock' \in Tabs \cup {NoTab}
      BY <1>1, <2>1, BackOffEffect DEF ScanFailed
    <3>2. QED  BY <3>1, RestingSound
  <2>2. CASE stored = "both" /\ ~ (v.windows + 1 < MaxWindows)
    <3>1. PICK w : SetWorker(t, c, w) /\ Resting(w, c) /\ lock' \in Tabs \cup {NoTab}
      BY <1>1, <1>2, <2>2, NextJobEffect
    <3>2. QED  BY <3>1, RestingSound
  <2>3. CASE stored = "both" /\ v.windows + 1 < MaxWindows
    <3> DEFINE w == [v EXCEPT !.pc = "head", !.cursor = b + 1, !.windows = @ + 1, !.head = 0]
    <3>1. SetWorker(t, c, w) /\ lock' = lock
      BY <1>1, <2>3
    <3>2. w \in Worker /\ w.pc = "head" /\ w.cursor = b + 1 /\ w.job = v.job
      <4> DEFINE x == b + 1
                 y == v.windows + 1
      <4>1. x \in Nat /\ y \in Nat
        BY <1>2 DEF Worker
      <4> HIDE DEF x, y, v
      <4>2. w = [v EXCEPT !.pc = "head", !.cursor = x, !.windows = y, !.head = 0]
        BY DEF x, y
      <4>3. w \in Worker
        BY <1>2, <4>1, <4>2 DEF Worker
      <4>4. w.pc = "head" /\ w.cursor = x /\ w.job = v.job
        BY <1>2, <4>2 DEF Worker
      <4>5. QED  BY <4>3, <4>4 DEF x
    <3> HIDE DEF w
    <3>3. Sound(w, c, start', counted', head')
      BY <1>1, <1>2, <1>4, <2>3, <3>2 DEF Sound
    <3>4. lock' \in Tabs \cup {NoTab}
      BY <1>2, <3>1 DEF WellTyped
    <3>5. QED  BY <3>1, <3>2, <3>3, <3>4
  <2>4. QED  BY <2>1, <2>2, <2>3
<1>6. PICK w \in Worker : /\ SetWorker(t, c, w) /\ Sound(w, c, start', counted', head')
                          /\ lock' \in Tabs \cup {NoTab}
  BY <1>5
<1>7. WellTyped'
  <2>1. cursors' \in [ReceiverSet -> Nat \cup {Unknown}]
    BY <1>2, <1>3 DEF WellTyped
  <2>2. worker' \in [Tabs -> [Chains -> Worker]]
    BY <1>2, <1>6, SetWorkerEffect
  <2>3. UNCHANGED <<env, head>>
    BY <1>1
  <2>4. QED  BY <1>2, <1>3, <1>6, <2>1, <2>2, <2>3 DEF WellTyped
<1>8. Later
  <2>1. \A x \in Chains : head[x] \in Int
    BY <1>2, WatcherAssumption DEF WellTyped
  <2>2. \A x \in ReceiverSet : start[x] # Unknown => start[x] \in Int
    BY <1>2 DEF WellTyped
  <2>3. head' = head /\ start' = start
    BY <1>1, <1>3
  <2>4. \A x \in Chains : head[x] <= head'[x]
    BY <2>1, <2>3
  <2>5. \A x \in ReceiverSet : start[x] # Unknown => start'[x] # Unknown /\ start[x] <= start'[x]
    BY <2>2, <2>3
  <2>6. \A e \in AllEntries : counted[e] > 0 => counted'[e] > 0
    BY <1>3
  <2>7. QED  BY <2>4, <2>5, <2>6 DEF Later
<1>9. Starts'
  BY <1>1, <1>3 DEF IInv, Starts
<1>10. \A x \in ReceiverSet : cursors'[x] = cursors[x] \/ Behind(x, cursors'[x], start', counted')
  BY <1>2, <1>3, <1>4 DEF WellTyped
<1>11. Remembered' /\ CountedOnce'
  BY <1>3
<1>12. QED  BY <1>6, <1>7, <1>8, <1>9, <1>10, <1>11, MoveStep

-----------------------------------------------------------------------------
(* Every step keeps the invariant: one case per action. *)
LEMMA NextInv == IInv /\ [Next]_vars => IInv'
<1> SUFFICES ASSUME IInv, [Next]_vars PROVE IInv'
  OBVIOUS
<1>1. CASE \E c \in Chains : Mine(c)
  BY <1>1, MineStep
<1>2. CASE \E t \in Tabs : PollNow(t) \/ CloseTab(t)
  BY <1>2, PollNowStep, CloseTabStep
<1>3. CASE \E t \in Tabs, c \in Chains : Scan(t, c) \/ RpcFails(t, c) \/ BackoffOver(t, c)
  BY <1>3, OpenReceiverStep, FirstCursorStep, ReadHeadStep, ScanWindowStep, RpcFailsStep,
     BackoffOverStep DEF Scan
<1>4. CASE UNCHANGED vars
  <2>1. UNCHANGED <<env, head, shared>> /\ lock' = lock /\ worker' = worker
    BY <1>4 DEF vars, shared
  <2>2. lock' \in Tabs \cup {NoTab} /\ worker' \in [Tabs -> [Chains -> Worker]]
    BY <2>1 DEF IInv, WellTyped
  <2>3. \A t \in Tabs, c \in Chains : Sound(worker'[t][c], c, start, counted, head)
    BY <2>1 DEF IInv, WorkersSound
  <2>4. QED  BY <2>1, <2>2, <2>3, QuietStep
<1>5. QED  BY <1>1, <1>2, <1>3, <1>4 DEF Next

(* The inductive invariant of the deposit watcher. *)
THEOREM Invariance == Spec => []IInv
BY InitInv, NextInv, PTL DEF Spec

(* Heads, cursors, the lock, the capped history and the workers of all tabs    *)
(* keep their types.                                                           *)
THEOREM TypeCorrect == Spec => []TypeOK
<1>1. IInv => TypeOK
  <2> SUFFICES ASSUME WellTyped PROVE TypeOK
    BY DEF IInv
  <2>1. Range(history) \subseteq AllEntries
    BY DEF WellTyped, Range
  <2>2. \A t \in Tabs, c \in Chains : worker[t][c].pc \in {"idle", "open", "first", "head", "logs"}
    BY DEF WellTyped, Worker
  <2>3. QED  BY <2>1, <2>2 DEF WellTyped, TypeOK
<1>2. QED  BY <1>1, Invariance, PTL

(* Behind the cursor of a receiver every transfer is in the list, once,        *)
(* whatever tabs, crashes, retries and refused writes there were between the   *)
(* head, the logs and the two writes (store.js:91-93, onchain.js:274).         *)
THEOREM ExactlyOnce == Spec => []CountedExactlyOnce
<1>1. IInv => CountedExactlyOnce
  BY DEF IInv, CursorsBehind, Behind, CountedExactlyOnce, NothingSkipped
<1>2. QED  BY <1>1, Invariance, PTL

-----------------------------------------------------------------------------
(* The refinement                                                          *)

Reported == {e \in AllEntries : counted[e] > 0}

(* Watching from the head is the ledger's Watch. *)
LEMMA FirstCursorWatches ==
  ASSUME IInv, NEW t \in Tabs, NEW c \in Chains, FirstCursor(t, c)
  PROVE  Ledger!Next
<1> DEFINE v == worker[t][c]
           r == Jobs[c][v.job]
<1>1. /\ v.pc = "first" /\ start' = [start EXCEPT ![r] = head[c]]
      /\ UNCHANGED <<head, counted>>
  BY DEF FirstCursor, Receiver
<1>2. v.job \in 1..Len(Jobs[c]) /\ StartBlock[r] = Unknown
  BY <1>1 DEF IInv, WorkersSound, Sound
<1>3. r \in ReceiverSet /\ ChainOf(r) = c
  BY <1>2, JobReceiver
<1>4. head[c] \in 0..head[c]
  BY WatcherAssumption DEF IInv, WellTyped
<1> HIDE DEF r
<1>5. Ledger!Watch(r, head[c])
  BY <1>1, <1>2, <1>3, <1>4 DEF Ledger!Watch
<1>6. QED  BY <1>3, <1>4, <1>5 DEF Ledger!Next

(* A recorded window is the ledger's Report; a window that storage refused     *)
(* changes nothing of it.                                                      *)
LEMMA ScanWindowReports ==
  ASSUME IInv, NEW t \in Tabs, NEW c \in Chains, ScanWindow(t, c)
  PROVE  [Ledger!Next]_(Ledger!vars)
<1>0. PICK r \in ReceiverSet, a, b \in Nat, stored \in {"both", "history", "none"} :
        /\ r = Jobs[c][worker[t][c].job] /\ a = worker[t][c].cursor
        /\ ChainOf(r) = c /\ a <= head[c] /\ b <= head[c]
        /\ Behind(r, a, start, counted)
        /\ RecordScan(r, Found(r, a, b), b + 1, stored)
        /\ IF stored # "both" THEN ScanFailed(t, c)
           ELSE /\ IF worker[t][c].windows + 1 < MaxWindows
                   THEN /\ SetWorker(t, c, [worker[t][c] EXCEPT !.pc = "head", !.cursor = b + 1,
                                                     !.windows = @ + 1, !.head = 0])
                        /\ UNCHANGED <<lock, backoff>>
                   ELSE NextJob(t, c)
                /\ UNCHANGED faults
        /\ UNCHANGED <<env, head>>
  BY WindowScanned
<1>1. /\ ChainOf(r) = c /\ a <= head[c] /\ b <= head[c]
      /\ Behind(r, a, start, counted)
      /\ RecordScan(r, Found(r, a, b), b + 1, stored)
      /\ UNCHANGED <<env, head>>
  BY <1>0
<1>2. /\ UNCHANGED start
      /\ \A e \in AllEntries : counted[e] > 0 => counted'[e] > 0
      /\ \A e \in AllEntries : counted'[e] > 0 =>
           counted[e] > 0 \/ (stored # "none" /\ e \in Entries(r, a, b))
      /\ stored # "none" => \A e \in Entries(r, a, b) : counted'[e] > 0
  <2>1. b \in Int /\ b + 1 \in Nat
    OBVIOUS
  <2>2. RecordScan(r, Found(r, a, b), b + 1, stored)
    BY <1>1
  <2>3. QED  BY <2>1, <2>2, RecordEffect
<1>3. Entries(r, a, b) \subseteq AllEntries /\ Entries(r, start[r], a - 1) \subseteq Reported
  BY <1>1, EntriesKnown DEF Behind, Reported
<1>4. CASE stored = "none"
  <2>1. Reported' = Reported
    BY <1>2, <1>4 DEF Reported
  <2>2. QED  BY <1>1, <1>2, <2>1 DEF Ledger!vars, Reported
<1>5. CASE stored # "none"
  <2>1. Reported' = Reported \cup Entries(r, a, b)
    BY <1>2, <1>3, <1>5 DEF Reported
  <2>2. start[r] # Unknown /\ a \in 0..head[c] /\ b \in 0..head[c]
    <3>1. head[c] \in Nat
      BY WatcherAssumption DEF IInv, WellTyped
    <3>2. QED  BY <1>1, <3>1 DEF Behind
  <2>3. Ledger!Report(r, a, b)
    BY <1>1, <1>2, <1>3, <2>1, <2>2 DEF Ledger!Report, Reported
  <2>4. QED  BY <1>1, <2>2, <2>3 DEF Ledger!Next
<1>6. QED  BY <1>4, <1>5

(* Every step is a step of the ledger or leaves it alone. *)
LEMMA StepRefines == IInv /\ [Next]_vars => [Ledger!Next]_(Ledger!vars)
<1> SUFFICES ASSUME IInv, [Next]_vars PROVE [Ledger!Next]_(Ledger!vars)
  OBVIOUS
<1>q. ASSUME UNCHANGED <<head, start, counted>> PROVE UNCHANGED Ledger!vars
  BY <1>q DEF Ledger!vars
<1>1. CASE \E c \in Chains : Mine(c)
  <2>1. PICK c \in Chains : Mine(c)
    BY <1>1
  <2>2. Ledger!Grow(c)
    BY <2>1 DEF Mine, shared, Ledger!Grow
  <2>3. QED  BY <2>2 DEF Ledger!Next
<1>2. CASE \E t \in Tabs : PollNow(t) \/ CloseTab(t)
  BY <1>2, <1>q DEF PollNow, CloseTab, shared
<1>3. CASE \E t \in Tabs, c \in Chains : Scan(t, c) \/ RpcFails(t, c) \/ BackoffOver(t, c)
  <2>1. PICK t \in Tabs, c \in Chains : Scan(t, c) \/ RpcFails(t, c) \/ BackoffOver(t, c)
    BY <1>3
  <2>2. CASE OpenReceiver(t, c) \/ ReadHead(t, c) \/ OutOfPages(t, c) \/ RpcFails(t, c) \/ BackoffOver(t, c)
    BY <2>2, <1>q DEF OpenReceiver, ReadHead, OutOfPages, RpcFails, BackoffOver, shared
  <2>3. CASE FirstCursor(t, c)
    BY <2>3, FirstCursorWatches
  <2>4. CASE ScanWindow(t, c)
    BY <2>4, ScanWindowReports
  <2>5. QED  BY <2>1, <2>2, <2>3, <2>4 DEF Scan
<1>4. CASE UNCHANGED vars
  BY <1>4, <1>q DEF vars
<1>5. QED  BY <1>1, <1>2, <1>3, <1>4 DEF Next

(* The deposit watcher implements the ledger: what the merchant is shown of a  *)
(* receiver is on its chain, has no hole after the block where watching        *)
(* started, and is never taken back, for any number of tabs on one storage.    *)
THEOREM Refinement == Spec => ImplementsLedger
<1>1. Init => Ledger!Init
  <2> SUFFICES ASSUME Init PROVE Ledger!Init
    OBVIOUS
  <2>1. Reported = {}
    BY DEF Init, Reported
  <2>2. QED  BY <2>1 DEF Init, Ledger!Init, Reported
<1>2. QED  BY <1>1, StepRefines, Invariance, PTL DEF Spec, ImplementsLedger, Ledger!Spec
===============================================================================
