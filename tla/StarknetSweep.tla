---------------------------- MODULE StarknetSweep ----------------------------
(***************************************************************************)
(* What is done with deposits on Starknet: act_on_starknet_deposits        *)
(* (beanie_api/src/transfer_workers/starknet.rs) and the Starknet branch   *)
(* of run_payment_worker (payment_workers.rs).  Both send from the         *)
(* keeper's one account, and so do the announce worker and the stealth     *)
(* worker: the transfer worker numbers its transactions with a cached      *)
(* nonce, the others ask for one each time.                                *)
(*                                                                         *)
(* faults is what happens in a behaviour beside transfers and sweeps:      *)
(* "gasless" (payments are sent to POST /pay), "payer" (what a payer       *)
(* signed stops being executable: the money is spent, the authorization    *)
(* used or expired), "tasks" (the announce and stealth workers use the     *)
(* account), "balance" (the balanceOf batch fails), "classhash" (an        *)
(* existence check fails), "nonce" (the nonce is not answered), "send" (an *)
(* invoke is answered with an error, whether or not it arrived), "crash"   *)
(* (the process restarts), "others" (anyone else registers receivers) and  *)
(* "slow" (an invoke is not executed before the next one is built; the     *)
(* debounce of 30 seconds makes that rare for the transfer worker).  A     *)
(* transaction that was accepted is executed or reverts: one that leaves   *)
(* the mempool is not modelled.  Every payment names a webhook_url; the    *)
(* webhook map of the transfer worker is always empty (starknet.rs:76), so *)
(* nobody is told of a transfer.                                           *)
(***************************************************************************)
EXTENDS Integers, FiniteSets

CONSTANTS
  MappedReceivers,  \* the receivers in merchant_map
  Routed,           \* those with an announced route
  Transfers,        \* the transfers payers make themselves
  Gasless,          \* the payments sent to POST /pay
  depositTo,        \* transfer or payment -> receiver
  OtherTasks,       \* what the announce and stealth workers send from the account
  FirstNonce,       \* the account's nonce when a behaviour begins
  NoNonce,          \* next_nonce = None
  FaultSets         \* what may happen in a behaviour: a set of sets

Deposits == Transfers \cup Gasless

ASSUME SweepConstants ==
  /\ Routed \subseteq MappedReceivers
  /\ Transfers \cap Gasless = {}
  /\ depositTo \in [Deposits -> MappedReceivers]
  /\ NoNonce \notin Nat
  /\ FirstNonce \in Nat

VARIABLES
  made,       \* the token transfers executed on chain
  settled,    \* those a sweep has forwarded
  code,       \* the deployed receivers
  l1,         \* those of them the L1Accepted state has
  nonce,      \* the account's nonce on chain
  voided,     \* the payments whose outside execution reverts
  pool,       \* accepted transactions that are not executed yet
  next_nonce, \* StarknetState.next_nonce
  deployed,   \* StarknetState.deployed
  seen,       \* transfers behind the deposits checkpoint
  stage,      \* where act_on_starknet_deposits is
  batch,      \* the deposits of this pass
  unique,     \* the receivers of this pass
  calls,      \* the calls it has built: receivers to register and to sweep
  queued,     \* the payment queue
  tasks,      \* those of OtherTasks that are still to be done
  faults,     \* what happens in this behaviour
  told        \* history: payments a webhook job was queued for

chainState == <<made, settled, code, l1, nonce, voided, pool>>
worker     == <<next_nonce, deployed, seen, stage, batch, unique, calls>>
queues     == <<queued, tasks>>
sweepVars  == <<chainState, worker, queues, told, faults>>

NoCalls == [registers |-> {}, sweeps |-> {}]

Held(r) == {d \in made \ settled : depositTo[d] = r}

-----------------------------------------------------------------------------
(* The chain *)

(* register_merchant reverts if the receiver exists, and so does a call to an *)
(* address without a contract.  MAX_RECEIVERS_PER_MERCHANT is not reached     *)
(* here: EvmSweep looks at what a merchant at the cap does.                   *)
Sound(t) ==
  /\ t.registers \cap code = {}
  /\ t.sweeps \subseteq code \cup t.registers

(* An invoke is atomic: all its calls, the payer's among them, or none. *)
Executes(t) == Sound(t) /\ t.pays \cap voided = {}

(* The next transaction of the account is executed, or reverts; either way    *)
(* its nonce is used.                                                         *)
ExecuteTx(t) ==
  /\ t.nonce = nonce
  /\ nonce' = nonce + 1
  /\ pool' = pool \ {t}
  /\ IF Executes(t)
       THEN LET paid == made \cup t.pays IN
            /\ made' = paid
            /\ code' = code \cup t.registers
            /\ settled' = settled \cup {d \in paid : depositTo[d] \in t.sweeps}
       ELSE UNCHANGED <<made, code, settled>>
  /\ UNCHANGED <<l1, voided, worker, queues, told, faults>>

(* The sequencer's state reaches L1, hours later. *)
L1Accept(r) ==
  /\ r \in code \ l1
  /\ l1' = l1 \cup {r}
  /\ UNCHANGED <<made, settled, code, nonce, voided, pool, worker, queues, told, faults>>

Pay(d) ==
  /\ d \in Transfers \ made
  /\ made' = made \cup {d}
  /\ UNCHANGED <<settled, code, l1, nonce, voided, pool, worker, queues, told, faults>>

OthersRegister(r) ==
  /\ "others" \in faults
  /\ r \notin code
  /\ code' = code \cup {r}
  /\ UNCHANGED <<made, settled, l1, nonce, voided, pool, worker, queues, told, faults>>

OnItsWay(d) == \E t \in pool : d \in t.pays

(* The payer's signature no longer does what it was checked for. *)
Void(d) ==
  /\ "payer" \in faults
  /\ d \in queued \/ OnItsWay(d)
  /\ voided' = voided \cup {d}
  /\ UNCHANGED <<made, settled, code, l1, nonce, pool, worker, queues, told, faults>>

(* execute_v3(..).send(): the fee estimate runs the calls, and the node takes *)
(* a nonce once and none that is used.                                        *)
Accepts(t) ==
  /\ Executes(t)
  /\ t.nonce >= nonce
  /\ \A u \in pool : u.nonce # t.nonce

-----------------------------------------------------------------------------
(* act_on_starknet_deposits *)

ActOnDeposits(found) ==
  /\ stage = "idle"
  /\ pool # {} => "slow" \in faults
  /\ found # {}
  /\ seen' = seen \cup found
  /\ batch' = found
  /\ unique' = {depositTo[d] : d \in found}
  /\ stage' = "filter"
  /\ UNCHANGED <<chainState, next_nonce, deployed, calls, queues, told, faults>>

(* batch_check_nonzero_balance *)
FilterZero ==
  /\ stage = "filter"
  /\ unique' = {r \in unique : Held(r) # {}}
  /\ stage' = "exists"
  /\ UNCHANGED <<chainState, next_nonce, deployed, seen, batch, calls, queues, told, faults>>

FilterFails ==
  /\ "balance" \in faults
  /\ stage = "filter"
  /\ stage' = "exists"
  /\ UNCHANGED <<chainState, next_nonce, deployed, seen, batch, unique, calls, queues, told, faults>>

Unknown == unique \ deployed

BugBuildCalls(unanswered) ==
  LET known     == deployed \cup ((Unknown \ unanswered) \cap l1)
      registers == ((Unknown \ unanswered) \ l1) \cap Routed
  IN
  /\ stage = "exists"
  /\ unanswered # {} => "classhash" \in faults
  /\ deployed' = known \cup registers
  /\ calls' = [registers |-> registers, sweeps |-> (unique \cap known) \cup registers]
  /\ stage' = "send"
  /\ UNCHANGED <<chainState, next_nonce, seen, batch, unique, queues, told, faults>>

(* get_class_hash_at(L1Accepted) for each receiver that is not cached; one    *)
(* that is unanswered, or undeployed and without a route, is left out.        *)
BuildCalls(unanswered) ==
  LET known     == deployed \cup ((Unknown \ unanswered) \cap l1)
      registers == ((Unknown \ unanswered) \ l1) \cap Routed
  IN
  /\ stage = "exists"
  /\ unanswered # {} => "classhash" \in faults
  /\ deployed' = known
  /\ calls' = [registers |-> registers, sweeps |-> (unique \cap known) \cup registers]
  /\ stage' = "send"
  /\ UNCHANGED <<chainState, next_nonce, seen, batch, unique, queues, told, faults>>

(* The nonce of the invoke; next_nonce is read even if there are no calls. *)
InvokeNonce == IF next_nonce = NoNonce THEN nonce ELSE next_nonce

(* get_nonce(..).unwrap_or(Felt::ZERO), which next_nonce then holds. *)
NonceUnanswered ==
  /\ "nonce" \in faults
  /\ stage = "send"
  /\ next_nonce = NoNonce
  /\ next_nonce' = 0
  /\ UNCHANGED <<chainState, deployed, seen, stage, batch, unique, calls, queues, told, faults>>

Invoke == [nonce |-> InvokeNonce, registers |-> calls.registers, sweeps |-> calls.sweeps,
           pays |-> {}]

EndPass ==
  /\ stage' = "idle"
  /\ batch' = {}
  /\ unique' = {}
  /\ calls' = NoCalls

NothingToSend ==
  /\ stage = "send"
  /\ calls.sweeps = {}
  /\ next_nonce' = InvokeNonce
  /\ EndPass
  /\ UNCHANGED <<chainState, deployed, seen, queues, told, faults>>

BugSend ==
  /\ stage = "send"
  /\ calls.sweeps # {}
  /\ Accepts(Invoke)
  /\ pool' = pool \cup {Invoke}
  /\ next_nonce' = InvokeNonce
  /\ deployed' = deployed \cup calls.registers
  /\ EndPass
  /\ UNCHANGED <<made, settled, code, l1, nonce, voided, seen, queues, told, faults>>

(* The invoke is accepted: its receivers count as deployed from now on. *)
Send ==
  /\ stage = "send"
  /\ calls.sweeps # {}
  /\ Accepts(Invoke)
  /\ pool' = pool \cup {Invoke}
  /\ next_nonce' = InvokeNonce + 1
  /\ deployed' = deployed \cup calls.registers
  /\ EndPass
  /\ UNCHANGED <<made, settled, code, l1, nonce, voided, seen, queues, told, faults>>

BugSendFails ==
  /\ stage = "send"
  /\ calls.sweeps # {}
  /\ ~Accepts(Invoke) \/ "send" \in faults
  /\ UNCHANGED pool
  /\ next_nonce' = InvokeNonce + 1
  /\ EndPass
  /\ UNCHANGED <<made, settled, code, l1, nonce, voided, deployed, seen, queues, told, faults>>

(* The invoke is answered with an error.  Nothing remembers the receivers.    *)
SendFails ==
  /\ stage = "send"
  /\ calls.sweeps # {}
  /\ \/ ~Accepts(Invoke) /\ UNCHANGED pool
     \/ "send" \in faults /\ UNCHANGED pool
     \/ "send" \in faults /\ Accepts(Invoke) /\ pool' = pool \cup {Invoke}
  /\ next_nonce' = NoNonce
  /\ EndPass
  /\ UNCHANGED <<made, settled, code, l1, nonce, voided, deployed, seen, queues, told, faults>>

-----------------------------------------------------------------------------
(* The payment worker *)

(* receive_payment *)
Submit(d) ==
  /\ "gasless" \in faults
  /\ d \in Gasless \ queued
  /\ d \notin made
  /\ ~OnItsWay(d)
  /\ queued' = queued \cup {d}
  /\ UNCHANGED <<chainState, worker, tasks, told, faults>>

(* register_merchant, the payer's outside execution and sweep in one invoke.  *)
(* create_if_missing is always set and no existence check precedes it.        *)
PaymentInvoke(d) ==
  [nonce |-> nonce, registers |-> {depositTo[d]}, sweeps |-> {depositTo[d]}, pays |-> {d}]

PaymentAccepted(d) == depositTo[d] \in Routed /\ Accepts(PaymentInvoke(d))

BugSendPayment(d) ==
  /\ d \in queued
  /\ pool # {} => "slow" \in faults
  /\ queued' = queued \ {d}
  /\ told' = told \cup {d}
  /\ pool' = IF PaymentAccepted(d) THEN pool \cup {PaymentInvoke(d)} ELSE pool
  /\ UNCHANGED <<made, settled, code, l1, nonce, voided, worker, tasks, faults>>

(* The webhook job is queued as soon as the invoke is accepted. *)
SendPayment(d) ==
  /\ d \in queued
  /\ pool # {} => "slow" \in faults
  /\ queued' = queued \ {d}
  /\ \/ /\ PaymentAccepted(d)
        /\ pool' = pool \cup {PaymentInvoke(d)}
        /\ told' = told \cup {d} \/ ("send" \in faults /\ UNCHANGED told)
     \/ /\ ~PaymentAccepted(d) \/ "send" \in faults
        /\ UNCHANGED <<pool, told>>
  /\ UNCHANGED <<made, settled, code, l1, nonce, voided, worker, tasks, faults>>

-----------------------------------------------------------------------------
(* The other users of the account: announce_receiver, which is not waited for,*)
(* and the deployment and top-up of a stealth account, which is.              *)
OtherInvoke == [nonce |-> nonce, registers |-> {}, sweeps |-> {}, pays |-> {}]

SendOther(k) ==
  /\ "tasks" \in faults
  /\ k \in tasks
  /\ pool # {} => "slow" \in faults
  /\ tasks' = tasks \ {k}
  /\ \/ Accepts(OtherInvoke) /\ pool' = pool \cup {OtherInvoke}
     \/ (~Accepts(OtherInvoke) \/ "send" \in faults) /\ UNCHANGED pool
  /\ UNCHANGED <<made, settled, code, l1, nonce, voided, worker, queued, told, faults>>

KeeperCrash ==
  /\ "crash" \in faults
  /\ next_nonce' = NoNonce
  /\ deployed' = {}
  /\ queued' = {} /\ tasks' = {}
  /\ EndPass
  /\ UNCHANGED <<chainState, seen, told, faults>>

-----------------------------------------------------------------------------
SweepInit ==
  /\ faults \in FaultSets
  /\ made = {} /\ settled = {}
  /\ code = {} /\ l1 = {}
  /\ nonce = FirstNonce /\ voided = {} /\ pool = {}
  /\ next_nonce = NoNonce
  /\ deployed = {}
  /\ seen = {}
  /\ stage = "idle" /\ batch = {} /\ unique = {} /\ calls = NoCalls
  /\ queued = {} /\ tasks = OtherTasks
  /\ told = {}

SweepNext ==
  \/ \E d \in Transfers : Pay(d)
  \/ \E r \in MappedReceivers : OthersRegister(r)
  \/ \E t \in pool : ExecuteTx(t)
  \/ \E r \in MappedReceivers : L1Accept(r)
  \/ \E found \in SUBSET ((made \cap Transfers) \ seen) : ActOnDeposits(found)
  \/ FilterZero
  \/ FilterFails
  \/ \E unanswered \in SUBSET Unknown : BuildCalls(unanswered)
  \/ NonceUnanswered
  \/ NothingToSend
  \/ Send
  \/ SendFails
  \/ \E d \in Gasless : Submit(d)
  \/ \E d \in Gasless : SendPayment(d)
  \/ \E d \in Gasless : Void(d)
  \/ \E k \in OtherTasks : SendOther(k)
  \/ KeeperCrash

SweepSpec == SweepInit /\ [][SweepNext]_sweepVars

(* The worker keeps running and the sequencer executes what it accepted. *)
SweepFairness ==
  /\ WF_sweepVars(ActOnDeposits((made \cap Transfers) \ seen))
  /\ WF_sweepVars(FilterZero)
  /\ WF_sweepVars(BuildCalls({}))
  /\ WF_sweepVars(NothingToSend)
  /\ WF_sweepVars(Send)
  /\ WF_sweepVars(SendFails)
  /\ WF_sweepVars(\E t \in pool : ExecuteTx(t))
  /\ \A d \in Gasless : WF_sweepVars(SendPayment(d))

SweepFairSpec == SweepSpec /\ SweepFairness

-----------------------------------------------------------------------------
(* The type invariant; what is swept was paid, what is L1-accepted exists, and *)
(* merchants are told of payments only.                                        *)
SweepTypes ==
  /\ faults \in FaultSets
  /\ settled \subseteq made /\ made \subseteq Deposits
  /\ l1 \subseteq code /\ code \subseteq MappedReceivers
  /\ nonce \in Nat
  /\ voided \subseteq Gasless
  /\ pool \subseteq
       [nonce : Nat, registers : SUBSET MappedReceivers, sweeps : SUBSET MappedReceivers,
        pays : SUBSET Gasless]
  /\ next_nonce \in Nat \cup {NoNonce}
  /\ deployed \subseteq MappedReceivers
  /\ seen \subseteq made
  /\ stage \in {"idle", "filter", "exists", "send"}
  /\ batch \subseteq seen
  /\ unique \subseteq MappedReceivers
  /\ calls.registers \subseteq calls.sweeps /\ calls.sweeps \subseteq unique
  /\ queued \subseteq Gasless
  /\ tasks \subseteq OtherTasks
  /\ told \subseteq Gasless

(* The nonces of the account leave no gap: whatever the four workers do, and  *)
(* whichever invokes fail or revert, every transaction on its way gets its    *)
(* turn, so the cached nonce never runs ahead and stalls the keeper.          *)
NoNonceGap ==
  /\ \A t \in pool : \A n \in nonce..(t.nonce - 1) : \E u \in pool : u.nonce = n
  /\ next_nonce # NoNonce => next_nonce <= nonce + Cardinality(pool)

(* A receiver that counts as deployed is, or will be by a transaction on its *)
(* way that no payer can make revert: the worker never sweeps an address it  *)
(* did not see or make, as long as nobody else registers a receiver of an    *)
(* accepted invoke first.                                                    *)
DeployedOrPending ==
  "others" \notin faults =>
    \A r \in deployed : r \in code \/ \E t \in pool : r \in t.registers /\ t.pays = {}

(* A merchant is told of a payment only if it is made, on its way, or the     *)
(* payer's own call made it revert after the webhook was queued, as long as   *)
(* nobody else registers the receiver first.                                  *)
ToldWereMade ==
  "others" \notin faults =>
    \A d \in told : d \in made \/ d \in voided \/ OnItsWay(d)

(* What the workers remember and report on acceptance, before an invoke is    *)
(* executed, comes true but for a payer who undoes the payment: the receivers *)
(* they sweep without another check exist, and the payments they announce are *)
(* made.                                                                      *)
AcceptedIsMade == DeployedOrPending /\ ToldWereMade

(* Every transfer to a known receiver is eventually forwarded, whether or not *)
(* the balances are answered, if the existence checks and the nonce are, no   *)
(* invoke fails and nobody else uses the account: the nonce that is cached is *)
(* then always the right one.                                                 *)
EveryDepositSettles ==
  \A d \in Transfers : faults \subseteq {"balance"} /\ d \in made ~> d \in settled
===============================================================================
