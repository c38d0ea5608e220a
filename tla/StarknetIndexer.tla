--------------------------- MODULE StarknetIndexer ---------------------------
(***************************************************************************)
(* The Starknet worker's view of the chain: the one-shot catch-up, the tip *)
(* poller, the debounced live loop and its reconciliation tick (beanie_api/*)
(* src/transfer_workers/starknet.rs, beanie_keeper/src/starknet_indexer.rs *)
(* and starknet_ws.rs).  Unlike the EVM worker it keeps no chunks of       *)
(* results, commits a checkpoint after every chunk of both scans and does  *)
(* not repeat a catch-up that fails.                                       *)
(*                                                                         *)
(* env is what the environment does in a behaviour: "crash" (the process   *)
(* stops and starts again), "startup" (a request of the catch-up fails for *)
(* good) and "fatal" (a request of a live scan does).                      *)
(***************************************************************************)
EXTENDS Integers, Sequences

CONSTANTS
  Receivers,
  None,             \* a block without events of interest
  Events,           \* what a block may hold: None or [kind, receiver]
  Environments,     \* the faults a behaviour may have: a set of sets
  MAX_BLOCK_RANGE,  \* blocks of one starknet_getEvents chunk
  TIP_CHANNEL,      \* capacity of the tip channel
  MaxBlock          \* bound: the chain's last block

ConstantsOK ==
  /\ Events \subseteq
       [kind : {"announce", "register", "deposit"}, receiver : Receivers] \cup {None}
  /\ None \notin [kind : {"announce", "register", "deposit"}, receiver : Receivers]
  /\ MAX_BLOCK_RANGE \in Nat \ {0}
  /\ TIP_CHANNEL \in Nat \ {0}
  /\ MaxBlock \in Nat

ASSUME ConstantsAssumption == ConstantsOK

Blocks == 1..MaxBlock

VARIABLES
  logs, head,     \* the chain
  regCp, depCp,   \* LogCache checkpoints of the two scans, 0 for None
  map,            \* merchant_map: "absent", "bare" (no route) or "routed"
  lastSent,       \* the last block number the poller sent
  tips,           \* the tip channel
  scanned,        \* last_live_scan is Some(_)
  phase,          \* where the worker is
  startup,        \* whether that is in run_starknet_catchup
  tip,            \* to_block of the scans under way
  found,          \* the rows discover_merchants holds
  pending,        \* the deposits the deposit scan holds
  env,            \* the faults of this behaviour
  acted           \* history: block -> how often its deposit was acted on

chain  == <<logs, head>>
poller == <<lastSent, tips>>
vars   == <<chain, regCp, depCp, map, poller, scanned, phase, startup, tip, found,
            pending, acted, env>>

NobodyKnown == [r \in Receivers |-> "absent"]

Known(m) == {r \in Receivers : m[r] # "absent"}

Is(n, kind, r) == logs[n] # None /\ logs[n].kind = kind /\ logs[n].receiver = r

NewBlock(e) ==
  /\ head < MaxBlock
  /\ head' = head + 1
  /\ logs' = [logs EXCEPT ![head + 1] = e]
  /\ UNCHANGED <<regCp, depCp, map, poller, scanned, phase, startup, tip, found,
                 pending, acted, env>>

-----------------------------------------------------------------------------
(* The registry rows of blocks a..b. *)
Rows(a, b) ==
  [r \in Receivers |->
     IF \E n \in a..b : Is(n, "announce", r) THEN "routed"
     ELSE IF \E n \in a..b : Is(n, "register", r) THEN "bare" ELSE "absent"]

BugMerge(m, rows) == [r \in Receivers |-> IF rows[r] # "absent" THEN rows[r] ELSE m[r]]

(* remember_starknet_receiver for each row: a row without a route never      *)
(* erases one.                                                               *)
Merge(m, rows) ==
  [r \in Receivers |->
     IF rows[r] = "routed" \/ m[r] = "absent" THEN rows[r] ELSE m[r]]

(* The Transfer events of blocks a..b whose receiver the filter names. *)
DepositsIn(a, b, receivers) ==
  {n \in a..b : \E r \in receivers : Is(n, "deposit", r)}

(* The receivers given to fetch_deposits_since_block: the catch-up uses what *)
(* its own registry scan returned, the live loop the whole map.              *)
Filter == IF startup THEN Known(found) ELSE Known(map)

ChunkEnd(cp) == IF cp + MAX_BLOCK_RANGE <= tip THEN cp + MAX_BLOCK_RANGE ELSE tip

-----------------------------------------------------------------------------
(* What starts a pass *)

(* run_starknet_catchup reads the head. *)
CatchUp ==
  /\ phase = "boot"
  /\ startup' = TRUE
  /\ tip' = head
  /\ phase' = "registry"
  /\ UNCHANGED <<chain, regCp, depCp, map, poller, scanned, found, pending, acted, env>>

(* Without a head the catch-up is over before it began. *)
NoHead ==
  /\ "startup" \in env
  /\ phase = "boot"
  /\ phase' = "live"
  /\ UNCHANGED <<chain, regCp, depCp, map, poller, scanned, startup, tip, found,
                 pending, acted, env>>

(* run_starknet_tip_source, a task that starts after the catch-up: only the  *)
(* newest block number is sent.                                              *)
Poll ==
  /\ phase # "boot" /\ ~startup
  /\ head # lastSent
  /\ Len(tips) < TIP_CHANNEL
  /\ tips' = Append(tips, head)
  /\ lastSent' = head
  /\ UNCHANGED <<chain, regCp, depCp, map, scanned, phase, startup, tip, found,
                 pending, acted, env>>

TakeTip ==
  /\ phase = "live"
  /\ tips # <<>>
  /\ tip' = Head(tips)
  /\ tips' = Tail(tips)
  /\ scanned' = TRUE
  /\ phase' = "registry"
  /\ UNCHANGED <<chain, regCp, depCp, map, lastSent, startup, found, pending, acted, env>>

(* The debounce: less than STARKNET_MIN_LIVE_SCAN_INTERVAL since the last    *)
(* scan, and the tip is forgotten.                                           *)
DropTip ==
  /\ phase = "live"
  /\ tips # <<>>
  /\ scanned
  /\ tips' = Tail(tips)
  /\ UNCHANGED <<chain, regCp, depCp, map, lastSent, scanned, phase, startup, tip, found,
                 pending, acted, env>>

BugReconcile ==
  /\ phase = "live"
  /\ tip' = IF scanned THEN tip ELSE head
  /\ scanned' = TRUE
  /\ phase' = "registry"
  /\ UNCHANGED <<chain, regCp, depCp, map, poller, startup, found, pending, acted, env>>

(* The reconciliation tick: force_scan overrides the debounce. *)
Reconcile ==
  /\ phase = "live"
  /\ tip' = head
  /\ scanned' = TRUE
  /\ phase' = "registry"
  /\ UNCHANGED <<chain, regCp, depCp, map, poller, startup, found, pending, acted, env>>

-----------------------------------------------------------------------------
(* discover_merchants *)

RegistryChunk ==
  /\ phase = "registry"
  /\ regCp < tip
  /\ found' = Merge(found, Rows(regCp + 1, ChunkEnd(regCp)))
  /\ regCp' = ChunkEnd(regCp)
  /\ UNCHANGED <<chain, depCp, map, poller, scanned, phase, startup, tip, pending, acted, env>>

BugRegistryDone ==
  /\ phase = "registry"
  /\ regCp >= tip
  /\ phase' = "deposits"
  /\ UNCHANGED <<chain, regCp, depCp, map, poller, scanned, startup, tip, found,
                 pending, acted, env>>

(* The rows are handed over.  The live loop stops here while it knows nobody.*)
RegistryDone ==
  /\ phase = "registry"
  /\ regCp >= tip
  /\ IF startup
       THEN /\ phase' = "deposits"
            /\ UNCHANGED <<map, found>>
       ELSE /\ map' = Merge(map, found)
            /\ found' = NobodyKnown
            /\ phase' = IF Known(Merge(map, found)) = {} THEN "live" ELSE "deposits"
  /\ UNCHANGED <<chain, regCp, depCp, poller, scanned, startup, tip, pending, acted, env>>

(* A request fails for good: the rows of the chunks before it are dropped.   *)
(* The live loop goes on with the map it has; the catch-up is over.          *)
RegistryFail ==
  /\ (IF startup THEN "startup" ELSE "fatal") \in env
  /\ phase = "registry"
  /\ regCp < tip
  /\ found' = NobodyKnown
  /\ phase' = IF startup \/ Known(map) = {} THEN "live" ELSE "deposits"
  /\ startup' = FALSE
  /\ UNCHANGED <<chain, regCp, depCp, map, poller, scanned, tip, pending, acted, env>>

-----------------------------------------------------------------------------
(* fetch_deposits_since_block *)

BugDepositChunk ==
  /\ phase = "deposits"
  /\ Filter # {}
  /\ depCp < tip
  /\ pending' = pending \cup DepositsIn(IF depCp = 0 THEN 1 ELSE depCp, ChunkEnd(depCp), Filter)
  /\ depCp' = ChunkEnd(depCp)
  /\ UNCHANGED <<chain, regCp, map, poller, scanned, phase, startup, tip, found, acted, env>>

DepositChunk ==
  /\ phase = "deposits"
  /\ Filter # {}
  /\ depCp < tip
  /\ pending' = pending \cup DepositsIn(depCp + 1, ChunkEnd(depCp), Filter)
  /\ depCp' = ChunkEnd(depCp)
  /\ UNCHANGED <<chain, regCp, map, poller, scanned, phase, startup, tip, found, acted, env>>

DepositsDone ==
  /\ phase = "deposits"
  /\ Filter = {} \/ depCp >= tip
  /\ map' = Merge(map, found)
  /\ found' = NobodyKnown
  /\ startup' = FALSE
  /\ phase' = "act"
  /\ UNCHANGED <<chain, regCp, depCp, poller, scanned, tip, pending, acted, env>>

(* A request fails for good: what the chunks before it held is dropped, and  *)
(* in the catch-up the receivers with it.                                    *)
DepositsFail ==
  /\ (IF startup THEN "startup" ELSE "fatal") \in env
  /\ phase = "deposits"
  /\ Filter # {}
  /\ depCp < tip
  /\ found' = NobodyKnown
  /\ pending' = {}
  /\ startup' = FALSE
  /\ phase' = "live"
  /\ UNCHANGED <<chain, regCp, depCp, map, poller, scanned, tip, acted, env>>

(* act_on_starknet_deposits, which StarknetSweep looks into. *)
Act ==
  /\ phase = "act"
  /\ acted' = [n \in Blocks |-> IF n \in pending THEN acted[n] + 1 ELSE acted[n]]
  /\ pending' = {}
  /\ phase' = "live"
  /\ UNCHANGED <<chain, regCp, depCp, map, poller, scanned, startup, tip, found, env>>

Crash ==
  /\ "crash" \in env
  /\ phase # "boot"
  /\ phase' = "boot"
  /\ map' = NobodyKnown /\ found' = NobodyKnown
  /\ lastSent' = 0 /\ tips' = <<>>
  /\ scanned' = FALSE /\ startup' = FALSE
  /\ tip' = 0
  /\ pending' = {}
  /\ UNCHANGED <<chain, regCp, depCp, acted, env>>

-----------------------------------------------------------------------------
Init ==
  /\ env \in Environments
  /\ logs = [n \in Blocks |-> None]
  /\ head = 0
  /\ regCp = 0 /\ depCp = 0
  /\ map = NobodyKnown /\ found = NobodyKnown
  /\ lastSent = 0 /\ tips = <<>>
  /\ scanned = FALSE /\ startup = FALSE
  /\ phase = "boot"
  /\ tip = 0
  /\ pending = {}
  /\ acted = [n \in Blocks |-> 0]

Worker ==
  \/ CatchUp
  \/ RegistryChunk
  \/ RegistryDone
  \/ DepositChunk
  \/ DepositsDone
  \/ Act

Next ==
  \/ \E e \in Events : NewBlock(e)
  \/ Worker
  \/ NoHead
  \/ Poll
  \/ TakeTip
  \/ DropTip
  \/ Reconcile
  \/ RegistryFail
  \/ DepositsFail
  \/ Crash

Spec == Init /\ [][Next]_vars

(* The runtime keeps polling the worker, and the reconcile ticker fires. *)
Fairness ==
  /\ WF_vars(Worker)
  /\ SF_vars(Reconcile)

FairSpec == Spec /\ Fairness

-----------------------------------------------------------------------------
(* The type invariant; both checkpoints stay within the chain. *)
TypeOK ==
  /\ env \in Environments
  /\ logs \in [Blocks -> Events \cup {None}]
  /\ head \in 0..MaxBlock
  /\ regCp \in 0..head
  /\ depCp \in 0..head
  /\ map \in [Receivers -> {"absent", "bare", "routed"}]
  /\ found \in [Receivers -> {"absent", "bare", "routed"}]
  /\ lastSent \in 0..head
  /\ Len(tips) <= TIP_CHANNEL
  /\ scanned \in BOOLEAN /\ startup \in BOOLEAN
  /\ phase \in {"boot", "registry", "deposits", "act", "live"}
  /\ tip \in 0..head
  /\ pending \subseteq Blocks
  /\ acted \in [Blocks -> Nat]

AnnouncedBy(n, r) == \E b \in 1..n : Is(b, "announce", r)

(* A deposit is acted on at most once: each block is behind the checkpoint   *)
(* before anyone acts, so no chunk, tick or restart returns it again.        *)
ActedOnce == \A n \in Blocks : acted[n] + (IF n \in pending THEN 1 ELSE 0) <= 1

(* A deposit is "picked up 5 minutes late, never lost"                       *)
(* (beanie_keeper/README.md:137): behind the deposits checkpoint, where no   *)
(* scan looks again, every deposit to a receiver announced before it was     *)
(* returned to the worker.  It takes a process that does not stop and scans  *)
(* whose requests succeed.                                                   *)
NoDepositSkipped ==
  env = {} =>
    \A n \in 1..depCp, r \in Receivers :
      Is(n, "deposit", r) /\ AnnouncedBy(n, r) => acted[n] > 0 \/ n \in pending

(* While the worker waits for a tip it knows every receiver of the blocks    *)
(* behind the registry checkpoint, and the route of every announced one.     *)
AllKnown ==
  phase = "live" =>
    \A n \in 1..regCp, r \in Receivers :
      /\ Is(n, "announce", r) => map[r] = "routed"
      /\ Is(n, "register", r) => map[r] # "absent"

(* In a process that never stopped and whose scans succeeded. *)
MapComplete == env = {} => AllKnown

(* Behind its two checkpoints the worker has passed over neither a receiver  *)
(* nor a deposit (beanie_keeper/README.md:137 "never lost").                 *)
NothingMissed == MapComplete /\ NoDepositSkipped

(* A deposit to an announced receiver is eventually acted on, whatever tips  *)
(* the debounce drops.                                                       *)
DepositsActedOn ==
  \A n \in Blocks :
    env = {} /\ (\E r \in Receivers : Is(n, "deposit", r) /\ AnnouncedBy(n, r))
      ~> acted[n] > 0
===============================================================================
