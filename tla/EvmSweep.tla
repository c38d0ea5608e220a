------------------------------- MODULE EvmSweep -------------------------------
(***************************************************************************)
(* What the EVM worker does with the deposits it found and with every      *)
(* reconciliation tick (beanie_api/src/transfer_workers/evm.rs):           *)
(* act_on_evm_deposits, sweep_evm_receivers and send_evm_multicall.  The   *)
(* worker asks the chain, builds one atomic Multicall3 batch, sends it and *)
(* waits for its receipt; payers, the payment worker and anyone else act   *)
(* on the same receivers between these steps.                              *)
(*                                                                         *)
(* env is what the environment does in a behaviour: "balance" (the         *)
(* balanceOf batch fails), "getcode" (the existence checks fail), "drop"   *)
(* (a send fails or its receipt never arrives) and "race" (others act      *)
(* while a sent batch waits for inclusion).                                *)
(***************************************************************************)
EXTENDS Integers, FiniteSets

CONSTANTS
  Receivers,            \* the receivers in merchant_map
  Routed,               \* those with an announced route
  MerchantSet,          \* the merchants of these receivers
  merchantOf,           \* receiver -> merchant
  Deposits,             \* the transfers payers make
  depositTo,            \* deposit -> receiver
  InitiallyDeployed,
  ReceiverCap,          \* MAX_RECEIVERS_PER_MERCHANT of the factory
  Environments          \* the faults a behaviour may have: a set of sets

ASSUME SweepConstants ==
  /\ Routed \subseteq Receivers
  /\ merchantOf \in [Receivers -> MerchantSet]
  /\ depositTo \in [Deposits -> Receivers]
  /\ InitiallyDeployed \subseteq Receivers
  /\ Receivers \ Routed \subseteq InitiallyDeployed
  /\ IsFiniteSet(Receivers)
  /\ ReceiverCap \in Nat

VARIABLES
  made,       \* the transfers on chain
  settled,    \* those a sweep has forwarded
  code,       \* the receivers that are deployed
  deployed,   \* EvmState.deployed
  seen,       \* the deposits behind the deposits checkpoint
  phase,      \* where sweep_evm_receivers is
  batch,      \* the deposits being acted on, empty for a reconciliation
  unique,     \* the receivers of this pass
  indeterminate,
  env,        \* the faults of this behaviour
  notified    \* history: deposits a webhook job was queued for

chain  == <<made, settled, code>>
pass   == <<phase, batch, unique, indeterminate>>
sweepVars   == <<chain, deployed, seen, pass, notified, env>>

(* balanceOf(r), as the transfers it is made of. *)
Held(r) == {d \in made \ settled : depositTo[d] = r}

Count(m) == Cardinality({r \in code : merchantOf[r] = m})

-----------------------------------------------------------------------------
(* Everyone else *)

Pay(d) ==
  /\ d \notin made
  /\ made' = made \cup {d}
  /\ UNCHANGED <<settled, code, deployed, seen, pass, notified, env>>

OthersMayAct == phase = "inflight" => "race" \in env

OthersRegister(r) ==
  /\ OthersMayAct
  /\ r \notin code
  /\ Count(merchantOf[r]) < ReceiverCap
  /\ code' = code \cup {r}
  /\ UNCHANGED <<made, settled, deployed, seen, pass, notified, env>>

OthersSweep(r) ==
  /\ OthersMayAct
  /\ r \in code
  /\ Held(r) # {}
  /\ settled' = settled \cup Held(r)
  /\ UNCHANGED <<made, code, deployed, seen, pass, notified, env>>

-----------------------------------------------------------------------------
(* The start of a pass *)

(* act_on_evm_deposits on what a deposit scan returned. *)
ActOnDeposits(found) ==
  /\ phase = "idle"
  /\ found # {}
  /\ seen' = seen \cup found
  /\ batch' = found
  /\ unique' = {depositTo[d] : d \in found}
  /\ phase' = "filter"
  /\ UNCHANGED <<chain, deployed, indeterminate, notified, env>>

BugReconcile ==
  /\ phase = "idle"
  /\ Receivers # {}
  /\ batch' = {}
  /\ unique' = {r \in Receivers : r \notin deployed}
  /\ phase' = "filter"
  /\ UNCHANGED <<chain, deployed, seen, indeterminate, notified, env>>

(* The balance-driven backstop of the reconcile tick: every known receiver. *)
Reconcile ==
  /\ phase = "idle"
  /\ Receivers # {}
  /\ batch' = {}
  /\ unique' = Receivers
  /\ phase' = "filter"
  /\ UNCHANGED <<chain, deployed, seen, indeterminate, notified, env>>

(* The pass returns None: no webhook. *)
GiveUp ==
  /\ phase' = "idle"
  /\ batch' = {} /\ unique' = {} /\ indeterminate' = {}

-----------------------------------------------------------------------------
(* sweep_evm_receivers *)

(* batch_check_evm_nonzero_balance; with nobody left the pass returns None. *)
FilterZero ==
  /\ phase = "filter"
  /\ LET nonzero == {r \in unique : Held(r) # {}} IN
     IF nonzero = {}
       THEN GiveUp
       ELSE /\ unique' = nonzero
            /\ phase' = "exists"
            /\ UNCHANGED <<batch, indeterminate>>
  /\ UNCHANGED <<chain, deployed, seen, notified, env>>

FilterFails ==
  /\ "balance" \in env
  /\ phase = "filter"
  /\ phase' = "exists"
  /\ UNCHANGED <<chain, deployed, seen, batch, unique, indeterminate, notified, env>>

Unknown == unique \ deployed

(* The existence checks: one batch, or call by call when it fails, in which  *)
(* case some may remain unanswered.                                          *)
CheckDeployed(unanswered) ==
  /\ phase = "exists"
  /\ unanswered # {} => "getcode" \in env
  /\ deployed' = deployed \cup ((Unknown \ unanswered) \cap code)
  /\ indeterminate' = unanswered
  /\ phase' = "send"
  /\ UNCHANGED <<chain, seen, batch, unique, notified, env>>

(* The calls of the batch.  A receiver is swept if it is deployed or can be  *)
(* registered with its announced route, and registered before if need be.   *)
BugSweeps == {r \in unique \ indeterminate : r \in deployed}
Sweeps == {r \in unique \ indeterminate : r \in deployed \cup Routed}
Registers == Sweeps \ deployed

(* Whether the batch would execute now: no call with allow_failure = false   *)
(* reverts.  A call to an address without code does not revert.              *)
Executes ==
  /\ Registers \cap code = {}
  /\ \A m \in MerchantSet :
       Count(m) + Cardinality({r \in Registers : merchantOf[r] = m})
         <= ReceiverCap
     \/ ~\E r \in Registers : merchantOf[r] = m

(* send_evm_multicall: gas estimation runs the batch first. *)
Send ==
  /\ phase = "send"
  /\ Sweeps # {}
  /\ Executes
  /\ phase' = "inflight"
  /\ UNCHANGED <<chain, deployed, seen, batch, unique, indeterminate, notified, env>>

(* No calls, a revert in gas estimation, or a send that fails. *)
NotSent ==
  /\ phase = "send"
  /\ Sweeps = {} \/ ~Executes \/ "drop" \in env
  /\ GiveUp
  /\ UNCHANGED <<chain, deployed, seen, notified, env>>

(* What the batch does when it is executed. *)
Swept == {d \in made \ settled : depositTo[d] \in Sweeps \cap (code \cup Registers)}

Execute ==
  IF Executes
    THEN /\ code' = code \cup Registers
         /\ settled' = settled \cup Swept
         /\ UNCHANGED made
    ELSE UNCHANGED chain

BugConfirm ==
  /\ phase = "inflight"
  /\ Execute
  /\ deployed' = deployed \cup unique
  /\ phase' = "notify"
  /\ UNCHANGED <<seen, batch, unique, indeterminate, notified, env>>

(* A receipt arrives.  Its status is not looked at: a reverted batch counts  *)
(* as sent too.                                                              *)
Confirm ==
  /\ phase = "inflight"
  /\ Execute
  /\ deployed' = deployed \cup Registers
  /\ phase' = "notify"
  /\ UNCHANGED <<seen, batch, unique, indeterminate, notified, env>>

(* No receipt: the transaction was dropped, or only its receipt was lost.    *)
NoReceipt ==
  /\ "drop" \in env
  /\ phase = "inflight"
  /\ Execute \/ UNCHANGED chain
  /\ GiveUp
  /\ UNCHANGED <<deployed, seen, notified, env>>

(* act_on_evm_deposits: one webhook job for each deposit of the batch.       *)
Notify ==
  /\ phase = "notify"
  /\ notified' = notified \cup batch
  /\ GiveUp
  /\ UNCHANGED <<chain, deployed, seen, env>>

-----------------------------------------------------------------------------
SweepInit ==
  /\ env \in Environments
  /\ made = {} /\ settled = {}
  /\ code = InitiallyDeployed
  /\ deployed = {}
  /\ seen = {}
  /\ phase = "idle"
  /\ batch = {} /\ unique = {} /\ indeterminate = {}
  /\ notified = {}

SweepNext ==
  \/ \E d \in Deposits : Pay(d)
  \/ \E r \in Receivers : OthersRegister(r)
  \/ \E r \in Receivers : OthersSweep(r)
  \/ \E found \in SUBSET (made \ seen) : ActOnDeposits(found)
  \/ Reconcile
  \/ FilterZero
  \/ FilterFails
  \/ \E unanswered \in SUBSET Unknown : CheckDeployed(unanswered)
  \/ Send
  \/ NotSent
  \/ Confirm
  \/ NoReceipt
  \/ Notify

SweepSpec == SweepInit /\ [][SweepNext]_sweepVars

(* The worker keeps running, the reconcile ticker fires and the node answers *)
(* again and again.                                                          *)
SweepFairness ==
  /\ SF_sweepVars(Reconcile)
  /\ SF_sweepVars(FilterZero)
  /\ SF_sweepVars(CheckDeployed({}))
  /\ SF_sweepVars(Send)
  /\ WF_sweepVars(NotSent)
  /\ SF_sweepVars(Confirm)
  /\ WF_sweepVars(Notify)

SweepFairSpec == SweepSpec /\ SweepFairness

-----------------------------------------------------------------------------
(* The type invariant: what is swept was paid, what is reported was seen and *)
(* a pass that is over leaves nothing behind.                                *)
SweepTypes ==
  /\ env \in Environments
  /\ settled \subseteq made /\ made \subseteq Deposits
  /\ code \subseteq Receivers
  /\ deployed \subseteq Receivers
  /\ seen \subseteq made
  /\ phase \in {"idle", "filter", "exists", "send", "inflight", "notify"}
  /\ batch \subseteq seen
  /\ unique \subseteq Receivers
  /\ indeterminate \subseteq unique
  /\ notified \subseteq seen

(* "Only ever set once a deploy send is *confirmed* successful (or an        *)
(* existence check confirms it)" (evm.rs:198): the cache of deployed         *)
(* receivers, which is never checked again, names deployed ones only.  It    *)
(* takes somebody who registers a receiver of a batch on its way to break    *)
(* this, since the status of the receipt is not looked at.                   *)
DeployedIsDeployed == "race" \notin env => deployed \subseteq code

(* A merchant is told of a deposit only after it was forwarded.  A deposit   *)
(* whose receiver was left out because its existence check failed is         *)
(* reported with the others of its batch, so the checks must answer.         *)
NotifiedWereSettled == env \cap {"getcode", "race"} = {} => notified \subseteq settled

(* A merchant whose paid receivers without code are more than its list of    *)
(* receivers has room for.                                                   *)
Overfull(m) ==
  Count(m) + Cardinality({r \in Receivers \ code : merchantOf[r] = m /\ Held(r) # {}})
    > ReceiverCap

(* Every transfer to a known receiver is eventually forwarded, whatever      *)
(* sends and receipts are lost, if the existence checks answer, unless some  *)
(* merchant, not necessarily the one who was paid, is over the cap: the      *)
(* batch of a reconciliation is atomic and fails for all receivers together. *)
EveryDepositSettles ==
  \A d \in Deposits :
    env \cap {"getcode", "race"} = {} /\ d \in made
      ~> d \in settled \/ \E m \in MerchantSet : Overfull(m)
===============================================================================
