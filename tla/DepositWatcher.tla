--------------------------- MODULE DepositWatcher ---------------------------
(***************************************************************************)
(* The deposit watcher of the merchant's pages: public/scripts/watcher.js, *)
(* the history and the cursors it keeps through store.js, and the window   *)
(* scan of onchain.js.  Several tabs share one localStorage.               *)
(*                                                                         *)
(* A page runs one piece of JavaScript at a time, so a step here is what   *)
(* happens between two awaits.  A tab polls every chain concurrently       *)
(* (Promise.all) and the receivers of one chain one after the other.       *)
(***************************************************************************)
EXTENDS Integers, Sequences, SequencesExt, FiniteSets

CONSTANTS
    Tabs,            \* the merchant's open pages
    Chains,
    Jobs,            \* [Chains -> Seq(receivers)]: order of a chain's receivers
    Transfers,       \* [Chains -> Seq([to, tx, amount, block])]: what the chains will hold, in order
    OtherTxs,        \* [receivers -> set of [tx, block]]: what else touches a Solana receiver's account
    MaxHead,         \* bound on the height of a chain
    StartBlock,      \* [receivers -> block or Unknown]: lane.receivers[].startBlock
    SolanaChains,    \* those scanned by signature instead of by window
    Window,          \* blocks per scan (EVM_LOG_WINDOW, STARKNET_EVENT_WINDOW)
    MaxSignatures,   \* SOLANA_MAX_SIG_PAGES full pages
    MaxWindows,      \* MAX_WINDOWS_PER_RECEIVER
    MaxHistory,      \* MAX_HISTORY
    MaxFaults,       \* bound on failures, refused writes and closed tabs
    Environments,    \* [faults, chains]: circumstances, and chains the lanes have receivers on
    Unknown, NoTab

ReceiverSet == UNION {Range(Jobs[c]) : c \in Chains}
ChainOf(r) == CHOOSE c \in Chains : r \in Range(Jobs[c])

ASSUME WatcherAssumption ==
    /\ Window \in Nat \ {0} /\ MaxWindows \in Nat \ {0}
    /\ MaxHistory \in Nat \ {0} /\ MaxFaults \in Nat /\ MaxSignatures \in Nat
    /\ MaxHead \in Nat
    /\ SolanaChains \subseteq Chains
    /\ Unknown \notin Int /\ NoTab \notin Tabs
    /\ StartBlock \in [ReceiverSet -> Nat \cup {Unknown}]
    /\ \A r \in ReceiverSet : \A x \in OtherTxs[r] : x.block \in Nat
    /\ \A c \in Chains : Jobs[c] \in Seq(ReceiverSet) /\ Jobs[c] # <<>>
    /\ \A c, d \in Chains : c # d => Range(Jobs[c]) \cap Range(Jobs[d]) = {}
    /\ \A e \in Environments : e \in [faults : SUBSET {"nolocks", "refuse", "close"}, chains : SUBSET Chains]

\* A transfer has one place on its chain, and a transaction lies in one block.
ASSUME ChainAssumption ==
    \A c \in Chains :
        /\ Transfers[c] \in Seq(Range(Transfers[c]))
        /\ \A i, j \in DOMAIN Transfers[c] :
              /\ Transfers[c][i].block \in Nat
              /\ i < j => Transfers[c][i].block <= Transfers[c][j].block
              /\ Transfers[c][i].tx = Transfers[c][j].tx => Transfers[c][i].block = Transfers[c][j].block

VARIABLES
    env,       \* no Web Locks, storage refuses, tabs close; chains in use
    head,      \* height of each chain
    history,   \* beanie.history.v2: entry ids, newest first
    cursors,   \* beanie.cursors.v2
    lock,      \* holder of the Web Lock "beanie-watcher"
    worker,    \* per tab and chain: the running scanChain
    backoff,   \* per tab: chains whose nextAt lies in the future
    faults,
    start,     \* history variable: block each receiver is watched from
    counted,   \* history variable: how often an entry was added (up to 2)
    evicted    \* history variable: entries that fell out of the capped history

shared == <<history, cursors, start, counted, evicted>>
vars == <<env, head, history, cursors, lock, worker, backoff, faults, start, counted, evicted>>

-----------------------------------------------------------------------------
(* Scanning a window                                                       *)

\* The transfers into r by their place on its chain: the filter of eth_getLogs
\* and starknet_getEvents, or solanaTransfersInto.
TransfersInto == [r \in ReceiverSet |->
    LET chain == Transfers[ChainOf(r)]
    IN [i \in {j \in DOMAIN chain : chain[j].to = r} |-> chain[i]]]

\* A list of deposits is the set of their places: those in blocks a..b, all pages
\* of them.
Found(r, a, b) == {i \in DOMAIN TransfersInto[r] : TransfersInto[r][i].block \in a..b}

\* The id recordScan gives to one of the deposits of a scan: receiver, transaction,
\* amount, and the ordinal among those of the scan that have these in common.
Base(r, i) == <<r, TransfersInto[r][i].tx, TransfersInto[r][i].amount>>
EntryId(r, deposits, i) ==
    <<Base(r, i), Cardinality({j \in deposits : j < i /\ Base(r, j) = Base(r, i)})>>

\* The transfers themselves, whatever scan finds them: the ordinals count all
\* that went into r.
EntryTable == [r \in ReceiverSet |->
    [i \in DOMAIN TransfersInto[r] |-> EntryId(r, DOMAIN TransfersInto[r], i)]]
Entries(r, a, b) == {EntryTable[r][i] : i \in Found(r, a, b)}
AllEntries == UNION {Range(EntryTable[r]) : r \in ReceiverSet}

Idle == [pc |-> "idle", job |-> 0, cursor |-> 0, windows |-> 0, head |-> 0]
Receiver(t, c) == Jobs[c][worker[t][c].job]
Polling(t) == \E c \in Chains : worker[t][c].pc # "idle"
SetWorker(t, c, w) == worker' = [worker EXCEPT ![t][c] = w]

Init ==
    /\ env \in Environments
    /\ head = [c \in Chains |-> 0]
    /\ history = <<>>
    /\ cursors = [r \in ReceiverSet |-> Unknown]
    /\ lock = NoTab
    /\ worker = [t \in Tabs |-> [c \in Chains |-> Idle]]
    /\ backoff = [t \in Tabs |-> {}]
    /\ faults = 0
    /\ start = StartBlock
    /\ counted = [e \in AllEntries |-> 0]
    /\ evicted = {}

\* A block is mined.
Mine(c) ==
    /\ c \in env.chains /\ head[c] < MaxHead
    /\ head' = [head EXCEPT ![c] = @ + 1]
    /\ UNCHANGED <<env, lock, worker, backoff, faults, shared>>

-----------------------------------------------------------------------------
(* A poll                                                                  *)

\* The tick of a visible tab: pollNow asks for the lock if the browser has Web
\* Locks and gives up if another tab holds it; runPoll gives up if this tab is
\* polling; scanChain gives up while the chain backs off.
PollNow(t) ==
    /\ ~Polling(t)
    /\ IF "nolocks" \in env.faults THEN lock' = lock
       ELSE lock = NoTab /\ lock' = t
    /\ env.chains \ backoff[t] # {}
    /\ worker' = [worker EXCEPT ![t] =
                    [c \in Chains |-> IF c \in env.chains \ backoff[t]
                                      THEN [Idle EXCEPT !.pc = "open", !.job = 1] ELSE Idle]]
    /\ UNCHANGED <<env, head, backoff, faults, shared>>

BugRelease(t, c) == UNCHANGED lock

\* runPoll returns when the last chain is done; the lock goes with it.
Release(t, c) ==
    lock' = IF lock = t /\ \A d \in Chains \ {c} : worker[t][d].pc = "idle" THEN NoTab ELSE lock

\* The next receiver of the chain, or the end of scanChain without a failure.
NextJob(t, c) ==
    IF worker[t][c].job < Len(Jobs[c])
    THEN /\ SetWorker(t, c, [Idle EXCEPT !.pc = "open", !.job = worker[t][c].job + 1])
         /\ UNCHANGED <<lock, backoff>>
    ELSE /\ SetWorker(t, c, Idle)
         /\ backoff' = [backoff EXCEPT ![t] = @ \ {c}]
         /\ Release(t, c)

\* scanChain catches: the chain backs off and its other receivers are dropped.
BackOff(t, c) ==
    /\ SetWorker(t, c, Idle)
    /\ backoff' = [backoff EXCEPT ![t] = @ \cup {c}]
    /\ Release(t, c)

ScanFailed(t, c) == faults' = faults + 1 /\ BackOff(t, c)

\* setCursor: nobody looks at whether the storage took it.
SetCursor(r, block) ==
    \/ /\ cursors' = [cursors EXCEPT ![r] = block]
       /\ UNCHANGED faults
    \/ /\ "refuse" \in env.faults /\ faults < MaxFaults
       /\ faults' = faults + 1
       /\ UNCHANGED cursors

BugOpenReceiver(t, c) ==
    LET r == Receiver(t, c)
        from == IF cursors[r] # Unknown THEN cursors[r]
                ELSE IF StartBlock[r] # Unknown THEN StartBlock[r] ELSE 0
    IN /\ worker[t][c].pc = "open"
       /\ SetWorker(t, c, [worker[t][c] EXCEPT !.pc = "head", !.cursor = from])
       /\ IF cursors[r] = from THEN UNCHANGED <<cursors, faults>> ELSE SetCursor(r, from)
       /\ UNCHANGED <<env, head, lock, backoff, history, start, counted, evicted>>

\* scanReceiver takes up the stored cursor, the lane's start block, or first
\* asks for the head.
OpenReceiver(t, c) ==
    LET r == Receiver(t, c)
        from == IF cursors[r] # Unknown THEN cursors[r] ELSE StartBlock[r]
    IN /\ worker[t][c].pc = "open"
       /\ SetWorker(t, c, [worker[t][c] EXCEPT !.pc = IF from = Unknown THEN "first" ELSE "head",
                                               !.cursor = IF from = Unknown THEN 0 ELSE from])
       /\ IF cursors[r] = from THEN UNCHANGED <<cursors, faults>> ELSE SetCursor(r, from)
       /\ UNCHANGED <<env, head, lock, backoff, history, start, counted, evicted>>

\* The head has come: watching starts there and setCursor keeps it.
FirstCursor(t, c) ==
    LET r == Receiver(t, c)
    IN /\ worker[t][c].pc = "first"
       /\ SetWorker(t, c, [worker[t][c] EXCEPT !.pc = "head", !.cursor = head[c]])
       /\ SetCursor(r, head[c])
       /\ start' = [start EXCEPT ![r] = head[c]]
       /\ UNCHANGED <<env, head, lock, backoff, history, counted, evicted>>

\* scanDeposits has the head: nothing to do behind the cursor, else the logs of
\* one window are asked for.
ReadHead(t, c) ==
    /\ worker[t][c].pc = "head"
    /\ IF worker[t][c].cursor > head[c]
       THEN NextJob(t, c)
       ELSE /\ SetWorker(t, c, [worker[t][c] EXCEPT !.pc = "logs", !.head = head[c]])
            /\ UNCHANGED <<lock, backoff>>
    /\ UNCHANGED <<env, head, faults, shared>>

\* An RPC call fails on both the proxy and the public node, or the node answers
\* with an error.
RpcFails(t, c) ==
    /\ worker[t][c].pc \in {"first", "head", "logs"}
    /\ faults < MaxFaults
    /\ ScanFailed(t, c)
    /\ UNCHANGED <<env, head, shared>>

\* The writes of recordScan: `added` goes in front of the history, then the
\* cursor moves.  `stored` tells how far storage let it get.
Store(r, added, next, stored) ==
    LET merged == Reverse(added) \o history
        kept == SubSeq(merged, 1, IF Len(merged) > MaxHistory THEN MaxHistory ELSE Len(merged))
        written == stored # "none"
    IN /\ history' = IF written THEN kept ELSE history
       /\ cursors' = IF stored = "both" THEN [cursors EXCEPT ![r] = next] ELSE cursors
       /\ counted' = [e \in AllEntries |-> IF written /\ counted[e] < 2 /\ e \in Range(added)
                                           THEN counted[e] + 1 ELSE counted[e]]
       /\ evicted' = IF written THEN evicted \cup (Range(merged) \ Range(kept)) ELSE evicted
       /\ UNCHANGED start

\* The lists of the members of S in their order; there is one.
InOrder(S) ==
    {f \in [1..Cardinality(S) -> S] :
        /\ \A j, k \in DOMAIN f : j < k => f[j] < f[k]
        /\ \A i \in S : i \in Range(f)}

BugAdded(r, deposits) ==
    {[k \in DOMAIN f |-> EntryId(r, deposits, f[k])] : f \in InOrder(deposits)}

\* The entries of a scan that are not in the retained history, in chain order.
Added(r, deposits) ==
    {[k \in DOMAIN f |-> EntryId(r, deposits, f[k])] :
        f \in InOrder({i \in deposits : EntryId(r, deposits, i) \notin Range(history)})}

BugCursorFirst(r, deposits, next, stored) ==
    \E added \in Added(r, deposits) :
        IF stored = "history"
        THEN cursors' = [cursors EXCEPT ![r] = next] /\ UNCHANGED <<history, start, counted, evicted>>
        ELSE Store(r, added, next, stored)

\* store.recordScan: the entries that are not in the retained history are new.
RecordScan(r, deposits, next, stored) ==
    \E added \in Added(r, deposits) : Store(r, added, next, stored)

\* What getSignaturesForAddress lists: the transactions of the transfers, the
\* keeper's sweeps, failed ones and all else that touches the account.
Signatures(r) ==
    {[tx |-> TransfersInto[r][i].tx, block |-> TransfersInto[r][i].block] : i \in DOMAIN TransfersInto[r]}
      \cup OtherTxs[r]

\* solanaDeposits pages through the signatures from the newest back to the
\* cursor; it throws if the allowed pages do not reach it.
TooManySignatures(r, from) ==
    /\ ChainOf(r) \in SolanaChains
    /\ Cardinality({s \in Signatures(r) : s.block \in from..head[ChainOf(r)]}) >= MaxSignatures

OutOfPages(t, c) ==
    /\ worker[t][c].pc = "logs" /\ TooManySignatures(Receiver(t, c), worker[t][c].cursor)
    /\ BackOff(t, c)
    /\ UNCHANGED <<env, head, faults, shared>>

\* The logs of the window have come, from a source that knows the head that was
\* read, and recordScan runs.  A refused write throws: the chain fails.  A page that is closed
\* between the two writes leaves the same storage.
ScanWindow(t, c) ==
    LET r == Receiver(t, c)
        w == worker[t][c]
        to == IF c \notin SolanaChains /\ w.cursor + Window - 1 < w.head THEN w.cursor + Window - 1 ELSE w.head
    IN /\ w.pc = "logs" /\ ~TooManySignatures(r, w.cursor)
       /\ \E stored \in (IF "refuse" \in env.faults /\ faults < MaxFaults
                          THEN {"both", "history", "none"} ELSE {"both"}) :
            /\ RecordScan(r, Found(r, w.cursor, to), to + 1, stored)
            /\ IF stored # "both" THEN ScanFailed(t, c)
               ELSE /\ IF w.windows + 1 < MaxWindows
                       THEN /\ SetWorker(t, c, [w EXCEPT !.pc = "head", !.cursor = to + 1,
                                                         !.windows = @ + 1, !.head = 0])
                            /\ UNCHANGED <<lock, backoff>>
                       ELSE NextJob(t, c)
                    /\ UNCHANGED faults
       /\ UNCHANGED <<env, head>>

\* The delay of a failed chain is over.
BackoffOver(t, c) ==
    /\ c \in backoff[t] /\ worker[t][c].pc = "idle"
    /\ backoff' = [backoff EXCEPT ![t] = @ \ {c}]
    /\ UNCHANGED <<env, head, lock, worker, faults, shared>>

\* The page is closed or reloaded in the middle of anything; the browser frees
\* its lock.
CloseTab(t) ==
    /\ "close" \in env.faults /\ faults < MaxFaults
    /\ Polling(t)
    /\ worker' = [worker EXCEPT ![t] = [c \in Chains |-> Idle]]
    /\ backoff' = [backoff EXCEPT ![t] = {}]
    /\ lock' = IF lock = t THEN NoTab ELSE lock
    /\ faults' = faults + 1
    /\ UNCHANGED <<env, head, shared>>

Scan(t, c) == \/ OpenReceiver(t, c) \/ FirstCursor(t, c)
              \/ ReadHead(t, c) \/ ScanWindow(t, c) \/ OutOfPages(t, c)

Next == \/ \E c \in Chains : Mine(c)
        \/ \E t \in Tabs : PollNow(t) \/ CloseTab(t)
        \/ \E t \in Tabs, c \in Chains :
              Scan(t, c) \/ RpcFails(t, c) \/ BackoffOver(t, c)

\* A visible page ticks every TICK_MS and every call it makes ends (answer,
\* error or TIMEOUT_MS); a back-off lasts MAX_BACKOFF_MS at most.  It need not
\* be the same page every time.
Fairness ==
    /\ WF_vars(\E t \in Tabs : PollNow(t))
    /\ \A c \in Chains : WF_vars(\E t \in Tabs : Scan(t, c))
    /\ \A c \in Chains : WF_vars(\E t \in Tabs : BackoffOver(t, c))

Spec == Init /\ [][Next]_vars /\ Fairness

-----------------------------------------------------------------------------
(* Properties                                                              *)

TypeOK ==
    /\ env \in Environments
    /\ \A c \in Chains : head[c] \in 0..MaxHead
    /\ Range(history) \subseteq AllEntries /\ Len(history) <= MaxHistory
    /\ \A r \in ReceiverSet : cursors[r] \in Nat \cup {Unknown}
    /\ lock \in Tabs \cup {NoTab}
    /\ \A t \in Tabs, c \in Chains : worker[t][c].pc \in {"idle", "open", "first", "head", "logs"}

\* The cursor of a receiver never passes a transfer that has not been recorded
\* (onchain.js:274: "a cursor never sits ahead of what scans can see"; store.js:93:
\* "the cursor is then NOT advanced"), whatever fails between the head, the logs
\* and the two writes.
NothingSkipped ==
    \A r \in ReceiverSet :
        cursors[r] # Unknown /\ start[r] # Unknown =>
            \A e \in Entries(r, start[r], cursors[r] - 1) : counted[e] > 0

\* A transfer is added to the history once (store.js:91: "two tabs or a retry
\* after a crash cannot double-count"), as long as the capped history has not
\* forgotten it.
CountedOnce == \A e \in AllEntries : counted[e] > 1 => e \in evicted

\* Behind the cursor every transfer is in the history, once: no crash, retry,
\* second tab or refused write between the two stores loses or repeats one
\* (store.js:91-93).
CountedExactlyOnce == NothingSkipped /\ CountedOnce

\* The watcher implements the ledger: what it has reported of a receiver never
\* has a hole, never shrinks, and is on the chain.
Ledger == INSTANCE DepositLedger WITH
              Receivers <- ReceiverSet,
              reported <- {e \in AllEntries : counted[e] > 0}
ImplementsLedger == Ledger!Spec

\* Every retry of a Solana receiver that fell too many signatures behind starts
\* again from the newest one and fails (onchain.js:381-383), and takes the
\* receivers behind it in the chain's order with it (watcher.js:61).
HeldUp(r) ==
    \E k \in DOMAIN Jobs[ChainOf(r)] :
        LET q == Jobs[ChainOf(r)][k] IN
        /\ \E j \in DOMAIN Jobs[ChainOf(r)] : j >= k /\ Jobs[ChainOf(r)][j] = r
        /\ cursors[q] # Unknown /\ TooManySignatures(q, cursors[q])

\* Every transfer behind the start of its receiver is recorded in the end: no
\* lock, back-off or failed receiver keeps the scan from it for ever, but for a
\* Solana receiver that is too far behind, or one that comes after it.
DepositsCounted ==
    \A r \in ReceiverSet :
        <>[](ChainOf(r) \in env.chains =>
             \/ HeldUp(r)
             \/ /\ start[r] # Unknown
                /\ cursors[r] # Unknown
                /\ \A e \in Entries(r, start[r], head[ChainOf(r)]) : counted[e] > 0)
=============================================================================
