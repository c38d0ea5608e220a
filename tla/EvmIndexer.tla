------------------------------ MODULE EvmIndexer ------------------------------
(***************************************************************************)
(* The EVM worker's view of one chain: startup catch-up, the block-tip     *)
(* subscription and the live loop with its reconciliation tick             *)
(* (beanie_api/src/transfer_workers/evm.rs, beanie_keeper/src/             *)
(* evm_indexer.rs and evm_ws.rs), over the two checkpoints in the log      *)
(* cache.  Chain, Portal, subscription and worker interleave between any   *)
(* two requests.                                                           *)
(*                                                                         *)
(* The worker has the checkpoints written to disk at the end of the        *)
(* catch-up only; the live loop leaves that to the store, so that a stop   *)
(* may lose what it wrote to either of them since.                         *)
(*                                                                         *)
(* env is what the environment does in a behaviour: "crash" (the process   *)
(* stops and starts again), "lag" (Portal answers only a prefix of a       *)
(* range), "fatal" (a Portal error that ends the scan) and "skip" (a tip   *)
(* that does not decode).  The registry rebuild of the catch-up is one     *)
(* step here: it is RegistryRebuild, whose snapshot is complete.           *)
(***************************************************************************)
EXTENDS Integers, Sequences

CONSTANTS
  Receivers,
  None,           \* a block without logs of interest
  Events,         \* what a block may hold: None or [kind, receiver]
  Environments,   \* the faults a behaviour may have: a set of sets
  TIP_CHANNEL,    \* capacity of the tip channel
  MaxBlock,       \* bound: the chain's last block
  MaxForgotten    \* bound: how many stops forget that a block was scanned

ASSUME ConstantsAssumption ==
  /\ Events \subseteq
       [kind : {"announce", "register", "deposit"}, receiver : Receivers] \cup {None}
  /\ None \notin [kind : {"announce", "register", "deposit"}, receiver : Receivers]
  /\ TIP_CHANNEL \in Nat \ {0}
  /\ MaxBlock \in Nat
  /\ MaxForgotten \in Nat

Blocks == 1..MaxBlock

VARIABLES
  logs, head,     \* the chain
  regCp, depCp,   \* LogCache checkpoints: registry_webhook and deposits, 0 for None
  regSaved,       \* what of them was flushed
  depSaved,
  map,            \* merchant_map: "absent", "bare" (no route) or "routed"
  wsCursor,       \* the subscription's current_block
  tips,           \* the tip channel
  phase,          \* where the worker is
  tip,            \* the tip in hand: [block, active]
  scanFrom,       \* first block of the registry scan under way
  cursor,         \* its cursor
  scanned,        \* the catch-up snapshot's scanned_to
  pending,        \* the deposits a scan returned and nobody acted on yet
  env,            \* the faults of this behaviour
  acted,          \* history: block -> how often its deposit was acted on
  forgotten       \* history: block -> how many stops forgot it was scanned for deposits

chain  == <<logs, head>>
disk   == <<regSaved, depSaved>>
cps    == <<regCp, depCp>>
stream == <<wsCursor, tips>>
scan   == <<tip, scanFrom, cursor, scanned>>
vars   == <<chain, cps, disk, map, stream, phase, scan, pending, acted, forgotten, env>>

NoTip == [block |-> 0, active |-> FALSE]

Is(n, kind, r) == logs[n] # None /\ logs[n].kind = kind /\ logs[n].receiver = r

(* run_evm_subscription's flags: the factory or the webhook registry logged. *)
Active(n) == logs[n] # None /\ logs[n].kind \in {"announce", "register"}

Known(m) == {r \in Receivers : m[r] # "absent"}

-----------------------------------------------------------------------------
NewBlock(e) ==
  /\ head < MaxBlock
  /\ head' = head + 1
  /\ logs' = [logs EXCEPT ![head + 1] = e]
  /\ UNCHANGED <<cps, disk, map, stream, phase, scan, pending, acted, forgotten, env>>

(* How far Portal answers a request for blocks up to b. *)
Answers(b) == IF "lag" \in env THEN 0..b ELSE {b}

-----------------------------------------------------------------------------
(* The maps *)

BugRemember(m, a, b) ==
  [r \in Receivers |->
     IF \E n \in a..b : Is(n, "register", r) THEN "bare"
     ELSE IF \E n \in a..b : Is(n, "announce", r) THEN "routed" ELSE m[r]]

(* remember_evm_receiver for every row of blocks a..b: a row without a route *)
(* never erases a route.                                                     *)
Remember(m, a, b) ==
  [r \in Receivers |->
     IF \E n \in a..b : Is(n, "announce", r) THEN "routed"
     ELSE IF m[r] = "absent" /\ \E n \in a..b : Is(n, "register", r) THEN "bare" ELSE m[r]]

(* The Transfer logs of blocks a..b whose receiver the filter names. *)
DepositsIn(a, b, receivers) ==
  {n \in a..b : \E r \in receivers : Is(n, "deposit", r)}

-----------------------------------------------------------------------------
(* Startup: run_evm_catchup, retried until it succeeds *)

NobodyKnown == [r \in Receivers |-> "absent"]

(* rebuild_registry_state: everything up to s, whatever the checkpoint says; *)
(* the checkpoint only moves forward.                                        *)
CatchUpRegistry(s) ==
  /\ phase = "catchup"
  /\ map' = Remember(NobodyKnown, 1, s)
  /\ regCp' = IF s > regCp THEN s ELSE regCp
  /\ scanned' = s
  /\ phase' = "catchupDeposits"
  /\ UNCHANGED <<chain, depCp, disk, stream, tip, scanFrom, cursor, pending, acted, forgotten, env>>

BugCatchUpDeposits(last) ==
  /\ phase = "catchupDeposits"
  /\ IF Known(map) # {} /\ depCp < head /\ last > depCp
       THEN /\ pending' = DepositsIn(depCp + 1, head, Known(map))
            /\ depCp' = head
       ELSE UNCHANGED <<pending, depCp>>
  /\ regSaved' = regCp /\ depSaved' = depCp'
  /\ wsCursor' = scanned + 1
  /\ phase' = "act"
  /\ UNCHANGED <<chain, regCp, map, tips, scan, acted, forgotten, env>>

(* fetch_deposits_since_block up to the block the registry is known through, *)
(* and the flush of the log cache; the subscription starts behind that block.*)
CatchUpDeposits(last) ==
  /\ phase = "catchupDeposits"
  /\ IF Known(map) # {} /\ depCp < scanned /\ last > depCp
       THEN /\ pending' = DepositsIn(depCp + 1, last, Known(map))
            /\ depCp' = last
       ELSE UNCHANGED <<pending, depCp>>
  /\ regSaved' = regCp /\ depSaved' = depCp'
  /\ wsCursor' = scanned + 1
  /\ phase' = "act"
  /\ UNCHANGED <<chain, regCp, map, tips, scan, acted, forgotten, env>>

(* Either scan fails: the catch-up starts over. *)
CatchUpFail ==
  /\ "fatal" \in env
  /\ phase = "catchupDeposits"
  /\ phase' = "catchup"
  /\ map' = NobodyKnown
  /\ UNCHANGED <<chain, cps, disk, stream, scan, pending, acted, forgotten, env>>

(* act_on_evm_deposits, which EvmSweep looks into. *)
Act ==
  /\ phase = "act"
  /\ acted' = [n \in Blocks |-> IF n \in pending THEN acted[n] + 1 ELSE acted[n]]
  /\ pending' = {}
  /\ phase' = "live"
  /\ UNCHANGED <<chain, cps, disk, map, stream, scan, forgotten, env>>

-----------------------------------------------------------------------------
(* run_evm_subscription, a task of its own *)

(* It is spawned once the deposits of the catch-up are acted on; a tip sent  *)
(* during that step waits in the channel all the same.                       *)
Subscribed == phase \notin {"catchup", "catchupDeposits"}

PushTip ==
  /\ Subscribed
  /\ wsCursor <= head
  /\ Len(tips) < TIP_CHANNEL
  /\ tips' = Append(tips, [block |-> wsCursor, active |-> Active(wsCursor)])
  /\ wsCursor' = wsCursor + 1
  /\ UNCHANGED <<chain, cps, disk, map, phase, scan, pending, acted, forgotten, env>>

(* A line that does not decode is skipped; the next one moves current_block  *)
(* past it, so its tip is never sent.                                        *)
SkipTip ==
  /\ "skip" \in env
  /\ Subscribed
  /\ wsCursor < head
  /\ wsCursor' = wsCursor + 1
  /\ UNCHANGED <<chain, cps, disk, map, tips, phase, scan, pending, acted, forgotten, env>>

-----------------------------------------------------------------------------
(* process_evm_tip *)

TakeTip ==
  /\ phase = "live"
  /\ tips # <<>>
  /\ tip' = Head(tips)
  /\ tips' = Tail(tips)
  /\ phase' = "registry"
  /\ UNCHANGED <<chain, cps, disk, map, wsCursor, scanFrom, cursor, scanned, pending, acted, forgotten, env>>

(* The reconciliation tick: the RPC's head, both activity flags set. *)
Reconcile ==
  /\ phase = "live"
  /\ head > 0
  /\ tip' = [block |-> head, active |-> TRUE]
  /\ phase' = "registry"
  /\ UNCHANGED <<chain, cps, disk, map, stream, scanFrom, cursor, scanned, pending, acted, forgotten, env>>

Watermark == regCp + 1

BugDue(t) == Watermark <= t.block /\ t.active
Due(t) == Watermark <= t.block /\ (t.active \/ Watermark < t.block)

(* discover_registry_activity from the checkpoint on. *)
BeginRegistryScan ==
  /\ phase = "registry"
  /\ Due(tip)
  /\ phase' = "scan"
  /\ scanFrom' = Watermark
  /\ cursor' = Watermark
  /\ UNCHANGED <<chain, cps, disk, map, stream, tip, scanned, pending, acted, forgotten, env>>

(* Not due, and the stream said the one block behind the checkpoint is empty *)
(* or there is nothing to scan.                                              *)
SkipRegistryScan ==
  /\ phase = "registry"
  /\ ~Due(tip)
  /\ regCp' = IF Watermark = tip.block THEN tip.block ELSE regCp
  /\ phase' = "deposits"
  /\ UNCHANGED <<chain, depCp, disk, map, stream, scan, pending, acted, forgotten, env>>

(* stream_logs with persist_checkpoint = true: one Portal answer, committed  *)
(* to the checkpoint at once.                                                *)
ScanBatch(last) ==
  /\ phase = "scan"
  /\ last <= tip.block
  /\ regCp' = last
  /\ cursor' = last + 1
  /\ UNCHANGED <<chain, depCp, disk, map, stream, phase, tip, scanFrom, scanned, pending, acted, forgotten, env>>

(* The scan returns, at its end or on an empty answer, and its rows are      *)
(* folded into the map.                                                      *)
ScanDone ==
  /\ phase = "scan"
  /\ cursor > tip.block \/ "lag" \in env
  /\ map' = Remember(map, scanFrom, cursor - 1)
  /\ phase' = "deposits"
  /\ UNCHANGED <<chain, cps, disk, stream, scan, pending, acted, forgotten, env>>

(* A fatal error: the rows of the batches before it go with it.              *)
ScanFail ==
  /\ "fatal" \in env
  /\ phase = "scan"
  /\ phase' = "deposits"
  /\ UNCHANGED <<chain, cps, disk, map, stream, scan, pending, acted, forgotten, env>>

BugScanDeposits(last) ==
  /\ phase = "deposits"
  /\ Known(map) # {}
  /\ last > depCp
  /\ last <= tip.block
  /\ pending' = DepositsIn(IF depCp = 0 THEN 1 ELSE depCp, last, Known(map))
  /\ depCp' = last
  /\ phase' = "act"
  /\ UNCHANGED <<chain, regCp, disk, map, stream, scan, acted, forgotten, env>>

(* fetch_deposits_since_block up to the tip, over the receivers known now.   *)
(* Its checkpoint is written once the scan is over.                          *)
ScanDeposits(last) ==
  /\ phase = "deposits"
  /\ Known(map) # {}
  /\ last > depCp
  /\ last <= tip.block
  /\ pending' = DepositsIn(depCp + 1, last, Known(map))
  /\ depCp' = last
  /\ phase' = "act"
  /\ UNCHANGED <<chain, regCp, disk, map, stream, scan, acted, forgotten, env>>

BugNoDeposits ==
  /\ phase = "deposits"
  /\ \/ Known(map) = {}
     \/ depCp + 1 >= tip.block
     \/ env \cap {"lag", "fatal"} # {}
  /\ phase' = "live"
  /\ UNCHANGED <<chain, cps, disk, map, stream, scan, pending, acted, forgotten, env>>

(* No receivers, nothing new, no answer or an error: the tip is done. *)
NoDeposits ==
  /\ phase = "deposits"
  /\ \/ Known(map) = {}
     \/ depCp >= tip.block
     \/ env \cap {"lag", "fatal"} # {}
  /\ phase' = "live"
  /\ UNCHANGED <<chain, cps, disk, map, stream, scan, pending, acted, forgotten, env>>

(* The process stops and starts again from the disk, where the store's       *)
(* background flush has left each checkpoint at one of its values since the  *)
(* last flush.                                                               *)
Crash(reg, dep) ==
  /\ "crash" \in env
  /\ phase # "catchup"
  /\ \A n \in (dep + 1)..depCp : forgotten[n] < MaxForgotten
  /\ phase' = "catchup"
  /\ regCp' = reg /\ regSaved' = reg
  /\ depCp' = dep /\ depSaved' = dep
  /\ forgotten' = [n \in Blocks |->
       IF n \in (dep + 1)..depCp THEN forgotten[n] + 1 ELSE forgotten[n]]
  /\ map' = NobodyKnown
  /\ tips' = <<>>
  /\ pending' = {}
  /\ wsCursor' = 1 /\ tip' = NoTip
  /\ scanFrom' = 0 /\ cursor' = 0 /\ scanned' = 0
  /\ UNCHANGED <<chain, acted, env>>

-----------------------------------------------------------------------------
Init ==
  /\ env \in Environments
  /\ logs = [n \in Blocks |-> None]
  /\ head = 0
  /\ regCp = 0 /\ depCp = 0
  /\ regSaved = 0 /\ depSaved = 0
  /\ map = NobodyKnown
  /\ wsCursor = 1 /\ tips = <<>>
  /\ phase = "catchup"
  /\ tip = NoTip
  /\ scanFrom = 0 /\ cursor = 0 /\ scanned = 0
  /\ pending = {}
  /\ acted = [n \in Blocks |-> 0]
  /\ forgotten = [n \in Blocks |-> 0]

Worker ==
  \/ \E s \in Answers(head) \ {0} : CatchUpRegistry(s)
  \/ \E last \in Answers(scanned) : CatchUpDeposits(last)
  \/ Act
  \/ BeginRegistryScan
  \/ SkipRegistryScan
  \/ \E last \in cursor..tip.block : ScanBatch(last)
  \/ ScanDone
  \/ \E last \in Answers(tip.block) : ScanDeposits(last)
  \/ NoDeposits

Next ==
  \/ \E e \in Events : NewBlock(e)
  \/ PushTip
  \/ SkipTip
  \/ TakeTip
  \/ Reconcile
  \/ Worker
  \/ CatchUpFail
  \/ ScanFail
  \/ \E reg \in regSaved..regCp, dep \in depSaved..depCp : Crash(reg, dep)

Spec == Init /\ [][Next]_vars

(* The runtime keeps polling both tasks, and the reconcile ticker fires.     *)
Fairness ==
  /\ WF_vars(Worker)
  /\ WF_vars(PushTip)
  /\ SF_vars(TakeTip)
  /\ SF_vars(Reconcile)

FairSpec == Spec /\ Fairness

-----------------------------------------------------------------------------
(* The type invariant; both checkpoints and the tip stay within the chain,   *)
(* and the disk is never ahead of the checkpoints.                           *)
TypeOK ==
  /\ env \in Environments
  /\ logs \in [Blocks -> Events \cup {None}]
  /\ head \in 0..MaxBlock
  /\ regCp \in 0..head
  /\ depCp \in 0..head
  /\ regSaved \in 0..regCp
  /\ depSaved \in 0..depCp
  /\ map \in [Receivers -> {"absent", "bare", "routed"}]
  /\ wsCursor \in 1..(MaxBlock + 1)
  /\ Len(tips) <= TIP_CHANNEL
  /\ phase \in {"catchup", "catchupDeposits", "act", "live", "registry", "scan", "deposits"}
  /\ tip.block \in 0..head
  /\ pending \subseteq Blocks

AnnouncedBy(n, r) == \E b \in 1..n : Is(b, "announce", r)

(* "state.merchant_map holding the FULL receiver set" (evm.rs:217): while    *)
(* the worker waits for a tip, it knows every receiver of the blocks behind  *)
(* the registry checkpoint, and the route of every announced one.  A fatal   *)
(* error in a live scan drops rows the checkpoint counts, and a restart may  *)
(* rebuild less than the checkpoint covers while Portal lags.                *)
MapComplete ==
  /\ "fatal" \notin env
  /\ ~({"lag", "crash"} \subseteq env)
  /\ phase = "live"
  => \A n \in 1..regCp, r \in Receivers :
       /\ Is(n, "announce", r) => map[r] = "routed"
       /\ Is(n, "register", r) => map[r] # "absent"

(* "a receiver can never be missing from the filter for a block range we     *)
(* then mark as scanned" (evm_indexer.rs:1193): the catch-up marks a block   *)
(* as scanned for deposits only with every receiver announced by then.       *)
CatchUpCoverage ==
  [][phase = "catchupDeposits" =>
       \A n \in (depCp + 1)..depCp', r \in Receivers :
         AnnouncedBy(n, r) => map[r] # "absent"]_vars

(* A deposit is acted on once, and once more only for each stop that lost    *)
(* the checkpoint behind its block: the checkpoint is moved before anyone    *)
(* acts, so no later scan or tick returns the deposit again, and no restart  *)
(* that remembers the block.                                                 *)
ActedOnce ==
  \A n \in Blocks : acted[n] + (IF n \in pending THEN 1 ELSE 0) <= 1 + forgotten[n]

(* Nothing but undecodable tips goes wrong. *)
Calm == env \subseteq {"skip"}

(* "receivers must be the complete set known as of to_block"                 *)
(* (evm_indexer.rs:1039), so that a deposit to a receiver announced before   *)
(* it is not passed over: behind the deposits checkpoint each was returned.  *)
(* A stop before the deposits are acted on loses them, and so does a         *)
(* registry scan that ends before the tip the deposit scan goes to.          *)
NoDepositSkipped ==
  Calm =>
    \A n \in 1..depCp, r \in Receivers :
      Is(n, "deposit", r) /\ AnnouncedBy(n, r) => acted[n] > 0 \/ n \in pending

(* Nothing the chain announced or paid is passed over: neither a receiver    *)
(* by the merchant map (evm.rs:217) nor a deposit by the scans               *)
(* (evm_indexer.rs:1039), where no later scan looks again.                   *)
NothingMissed == MapComplete /\ NoDepositSkipped

(* A deposit to an announced receiver is eventually acted on, also if the    *)
(* tip of its block never came.                                              *)
DepositsActedOn ==
  \A n \in Blocks :
    Calm /\ (\E r \in Receivers : Is(n, "deposit", r) /\ AnnouncedBy(n, r))
      ~> acted[n] > 0
===============================================================================
