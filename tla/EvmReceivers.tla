----------------------------- MODULE EvmReceivers -----------------------------
(***************************************************************************)
(* The EVM leg on one chain: ReceiverFactory, the ChainXReceiver clones it *)
(* deploys and the WebhookRegistry (evm_beanie/src).  A transaction is one *)
(* atomic step; a revert is a step that is not enabled.                    *)
(*                                                                         *)
(* A receiver's address is a pure function of (merchant, cctpMintChain,    *)
(* cctpMintRecipient): CREATE2 and keccak256 are taken to be injective, so *)
(* the address is the triple itself.                                       *)
(*                                                                         *)
(* Definitions named Bug... are plausible slips in the code; nothing in    *)
(* the specification uses them.                                            *)
(***************************************************************************)
EXTENDS Integers, Sequences

CONSTANTS
  Merchants,          \* merchant addresses callers name
  ChainNames,         \* the names the constructor puts into validDomains
  UnknownNames,       \* other bytes32 values a caller may pass as a chain
  Recipients,         \* non-zero mint recipients
  Zero,               \* bytes32(0), address(0)
  Implementation,     \* the contract the clones delegate to
  NoCode,             \* an address nothing was deployed to
  Uninitialized,      \* a deployed receiver with initialized = false
  destinationDomain,  \* chain name -> CCTP domain, as given to the constructor
  MAX_RECEIVERS_PER_MERCHANT,
  Senders,            \* msg.sender values that are no merchant (Multicall3)
  Urls, NoUrl,
  Amounts,            \* the transfers a payer may make
  PaidReceivers,      \* bound: the addresses payers pay
  MaxPayments         \* bound: transfers payers ever make

FEE_BPS          == 50
BPS_DENOM        == 10000
CALLER_SHARE_BPS == 1000

Names     == {Zero} \cup ChainNames \cup UnknownNames
Route     == [merchant : Merchants, chain : Names, recipient : {Zero} \cup Recipients]
Receiver  == Merchants \X Names \X ({Zero} \cup Recipients)
Contracts == Receiver \cup {Implementation}

(* mapping(bytes32 => uint32): a name never written reads as 0. *)
DomainOf(name) == IF name \in ChainNames THEN destinationDomain[name] ELSE 0

Domains == {DomainOf(name) : name \in Names}

(* What initialize() pins.  token, treasury and tokenMessenger are the same *)
(* for every clone of one factory and are left out.                         *)
Config == [domain : Domains, mintRecipient : {Zero} \cup Recipients, merchant : Merchants]

(* The constructor's "provide unique cctp domains" check. *)
ASSUME DomainsAssumption ==
  /\ destinationDomain \in [ChainNames -> Nat]
  /\ \A a, b \in ChainNames : destinationDomain[a] = destinationDomain[b] => a = b

ASSUME NamesAssumption ==
  /\ Zero \notin ChainNames \cup UnknownNames \cup Recipients
  /\ ChainNames \cap UnknownNames = {}
  /\ Implementation \notin Receiver
  /\ NoCode \notin Config
  /\ Uninitialized \notin Config
  /\ NoCode # Uninitialized

ASSUME BoundsAssumption ==
  /\ MAX_RECEIVERS_PER_MERCHANT \in Nat
  /\ Amounts \subseteq Nat
  /\ PaidReceivers \subseteq Receiver
  /\ MaxPayments \in Nat

VARIABLES
  config,             \* contract -> NoCode, Uninitialized or what it pinned
  merchantReceivers,  \* merchantReceiversMap
  webhookUrl,         \* WebhookRegistry.webhookUrl
  announced,          \* the ReceiverAnnounced logs: [receiver, route]
  balance,            \* token balance of each receiver
  payments,           \* history: how many transfers were made (bounds the runs)
  deposited,          \* history: tokens ever sent to the receiver
  swept,              \* history: gross amount of its sweeps
  paidNet,            \* history: what its sweeps sent to the route
  paidFee,            \* history: what its sweeps sent to treasury and caller
  netDest             \* history: where its net amounts went

factory == <<config, merchantReceivers, announced>>
ledger  == <<balance, payments, deposited, swept, paidNet, paidFee, netDest>>
vars    == <<factory, webhookUrl, ledger>>

-----------------------------------------------------------------------------
(* ReceiverFactory *)

(* _salt and _predict: the address commits to all three parts of the route. *)
Predict(rt) == <<rt.merchant, rt.chain, rt.recipient>>

(* _checkRoute *)
CheckRoute(rt) ==
  IF rt.chain # Zero
    THEN rt.chain \in ChainNames /\ rt.recipient # Zero
    ELSE rt.recipient = Zero

(* The arguments registerMerchant gives to initialize(). *)
InitializedWith(rt) ==
  [domain |-> DomainOf(rt.chain), mintRecipient |-> rt.recipient, merchant |-> rt.merchant]

BugRegisterOneTooMany(rt) ==
  LET clone == Predict(rt) IN
  /\ Len(merchantReceivers[rt.merchant]) <= MAX_RECEIVERS_PER_MERCHANT
  /\ CheckRoute(rt)
  /\ config[clone] = NoCode
  /\ config' = [config EXCEPT ![clone] = InitializedWith(rt)]
  /\ merchantReceivers' = [merchantReceivers EXCEPT ![rt.merchant] = Append(@, clone)]
  /\ UNCHANGED <<webhookUrl, announced, ledger>>

(* What registerMerchant requires.  CREATE2 onto a live address reverts, and *)
(* so does initialize() for the zero merchant.                               *)
Registrable(rt) ==
  /\ Len(merchantReceivers[rt.merchant]) < MAX_RECEIVERS_PER_MERCHANT
  /\ CheckRoute(rt)
  /\ config[Predict(rt)] = NoCode
  /\ rt.merchant # Zero

(* registerMerchant: anyone may call it. *)
RegisterMerchant(rt) ==
  LET clone == Predict(rt) IN
  /\ Registrable(rt)
  /\ config' = [config EXCEPT ![clone] = InitializedWith(rt)]
  /\ merchantReceivers' = [merchantReceivers EXCEPT ![rt.merchant] = Append(@, clone)]
  /\ UNCHANGED <<webhookUrl, announced, ledger>>

(* announceReceiver: an event and nothing else; it looks at no receiver. *)
AnnounceReceiver(rt) ==
  /\ CheckRoute(rt)
  /\ announced' = announced \cup {[receiver |-> Predict(rt), route |-> rt]}
  /\ UNCHANGED <<config, merchantReceivers, webhookUrl, ledger>>

(* WebhookRegistry.setWebhookUrl(merchant, url) called by sender. *)
SetWebhookUrl(sender, merchant, url) ==
  /\ Len(merchantReceivers[merchant]) # 0
  /\ webhookUrl' = [webhookUrl EXCEPT ![sender] = url]
  /\ UNCHANGED <<factory, ledger>>

-----------------------------------------------------------------------------
(* ChainXReceiver *)

(* initialize(): external and unauthenticated, so anyone may call it on any  *)
(* contract.  The clones are initialized in the transaction that creates     *)
(* them; the implementation behind them stays open until somebody calls.     *)
Initialize(c, params) ==
  /\ config[c] = Uninitialized
  /\ params.merchant # Zero
  /\ config' = [config EXCEPT ![c] = params]
  /\ UNCHANGED <<merchantReceivers, announced, webhookUrl, ledger>>

(* A payer transfers tokens to an address, whether or not it has code yet. *)
Deposit(r, amount) ==
  /\ amount > 0
  /\ payments < MaxPayments
  /\ payments' = payments + 1
  /\ balance' = [balance EXCEPT ![r] = @ + amount]
  /\ deposited' = [deposited EXCEPT ![r] = @ + amount]
  /\ UNCHANGED <<factory, webhookUrl, swept, paidNet, paidFee, netDest>>

BugFeeRoundsToNearest(gross) == (gross * FEE_BPS + BPS_DENOM \div 2) \div BPS_DENOM
Fee(gross) == (gross * FEE_BPS) \div BPS_DENOM

FeeToCaller(fee) == (fee * CALLER_SHARE_BPS) \div BPS_DENOM

BugTreasuryScaled(fee) == (fee * (BPS_DENOM - CALLER_SHARE_BPS)) \div BPS_DENOM
FeeToTreasury(fee) == fee - FeeToCaller(fee)

BugMaxFeeRoundsUp(gross) == (gross * 2 + BPS_DENOM - 1) \div BPS_DENOM
MaxFee(gross) == (gross * 2) \div BPS_DENOM

BugDestinationByDomain(c) ==
  IF c.domain # 0
    THEN [kind |-> "burn", domain |-> c.domain, to |-> c.mintRecipient]
    ELSE [kind |-> "transfer", domain |-> 0, to |-> c.merchant]

(* Where the settlement branch of sweep() sends the net amount. *)
Destination(c) ==
  IF c.mintRecipient # Zero
    THEN [kind |-> "burn", domain |-> c.domain, to |-> c.mintRecipient]
    ELSE [kind |-> "transfer", domain |-> 0, to |-> c.merchant]

Settlement == [kind : {"burn", "transfer"}, domain : Domains, to : Merchants \cup Recipients]

(* TokenMessengerV2.depositForBurn accepts a burn only if maxFee < amount. *)
BurnAccepted(amount, maxFee) == maxFee < amount

(* What sweep() requires: an initialized receiver, and for a burn a fee      *)
(* ceiling the token messenger accepts.                                      *)
Sweepable(r) ==
  /\ config[r] \notin {NoCode, Uninitialized}
  /\ Destination(config[r]).kind = "burn"
       => BurnAccepted(balance[r] - Fee(balance[r]), MaxFee(balance[r]))

(* sweep() on a receiver that holds something.  A sweep of an empty receiver *)
(* returns without a change of state, a stuttering step.                     *)
Sweep(r) ==
  LET gross    == balance[r]
      fee      == Fee(gross)
      net      == gross - fee
      shares   == FeeToCaller(fee) + FeeToTreasury(fee)
      dest     == Destination(config[r])
  IN
  /\ Sweepable(r)
  /\ gross > 0
  /\ balance' = [balance EXCEPT ![r] = @ - shares - net]
  /\ swept' = [swept EXCEPT ![r] = @ + gross]
  /\ paidFee' = [paidFee EXCEPT ![r] = @ + shares]
  /\ paidNet' = [paidNet EXCEPT ![r] = @ + net]
  /\ netDest' = [netDest EXCEPT ![r] = @ \cup {dest}]
  /\ UNCHANGED <<factory, webhookUrl, payments, deposited>>

-----------------------------------------------------------------------------
Init ==
  /\ config = [c \in Contracts |-> IF c = Implementation THEN Uninitialized ELSE NoCode]
  /\ merchantReceivers = [m \in Merchants |-> <<>>]
  /\ webhookUrl = [s \in Merchants \cup Senders |-> NoUrl]
  /\ announced = {}
  /\ balance = [r \in Receiver |-> 0]
  /\ payments = 0
  /\ deposited = [r \in Receiver |-> 0]
  /\ swept = [r \in Receiver |-> 0]
  /\ paidNet = [r \in Receiver |-> 0]
  /\ paidFee = [r \in Receiver |-> 0]
  /\ netDest = [r \in Receiver |-> {}]

Next ==
  \/ \E rt \in Route : RegisterMerchant(rt)
  \/ \E rt \in Route : AnnounceReceiver(rt)
  \/ \E s \in Merchants \cup Senders, m \in Merchants, u \in Urls : SetWebhookUrl(s, m, u)
  \/ \E c \in Contracts, params \in Config : Initialize(c, params)
  \/ \E r \in PaidReceivers, a \in Amounts : Deposit(r, a)
  \/ \E r \in Receiver : Sweep(r)

Spec == Init /\ [][Next]_vars

-----------------------------------------------------------------------------
(* What announcing the route promised to whoever pays its receiver. *)
Promised(rt) ==
  IF rt.chain = Zero
    THEN [kind |-> "transfer", domain |-> 0, to |-> rt.merchant]
    ELSE [kind |-> "burn", domain |-> destinationDomain[rt.chain], to |-> rt.recipient]

(* The type invariant; its balances and payouts are never negative. *)
TypeOK ==
  /\ config \in [Contracts -> Config \cup {NoCode, Uninitialized}]
  /\ merchantReceivers \in [Merchants -> Seq(Receiver)]
  /\ webhookUrl \in [Merchants \cup Senders -> Urls \cup {NoUrl}]
  /\ announced \subseteq [receiver : Receiver, route : Route]
  /\ balance \in [Receiver -> Nat]
  /\ payments \in Nat
  /\ deposited \in [Receiver -> Nat]
  /\ swept \in [Receiver -> Nat]
  /\ paidNet \in [Receiver -> Nat]
  /\ paidFee \in [Receiver -> Nat]
  /\ netDest \in [Receiver -> SUBSET Settlement]

(* No custody (README "Money that arrives at any receiver ends up with the  *)
(* merchant on the target chain"): whoever registers, initializes, announces*)
(* or sweeps, and in whatever order, the net amount of a receiver only ever *)
(* goes where each route announced for its address says.                    *)
SettledWhereAnnounced ==
  \A e \in announced : netDest[e.receiver] \subseteq {Promised(e.route)}

(* A sweep empties the receiver: everything it was ever sent and no longer   *)
(* holds went to the route or into the fee, rounding dust included.          *)
Conservation ==
  \A r \in Receiver :
    /\ deposited[r] = balance[r] + swept[r]
    /\ swept[r] = paidNet[r] + paidFee[r]

(* However the deposits of a receiver are cut into sweeps, the fees taken    *)
(* stay within FEE_BPS of the gross amount (README "0.50% of the gross").    *)
FeeBounded ==
  \A r \in Receiver : paidFee[r] * BPS_DENOM <= swept[r] * FEE_BPS

(* A receiver that was announced and paid is never left without a way to its  *)
(* merchant except by the cap: sweep() accepts it, or registerMerchant does,  *)
(* or the merchant's list is full without it.  announceReceiver alone does    *)
(* not check the merchant: the zero merchant's receivers can never be swept.  *)
StuckOnlyByCap ==
  \A e \in announced :
    balance[e.receiver] > 0 /\ e.route.merchant # Zero =>
      \/ Sweepable(e.receiver)
      \/ Registrable(e.route)
      \/ /\ Len(merchantReceivers[e.route.merchant]) = MAX_RECEIVERS_PER_MERCHANT
         /\ config[e.receiver] = NoCode

(* merchantReceiversMap and the deployed clones agree: each clone is listed   *)
(* once, under its own merchant, and no merchant has more than the cap.       *)
RegistryConsistent ==
  \A m \in Merchants :
    /\ Len(merchantReceivers[m]) <= MAX_RECEIVERS_PER_MERCHANT
    /\ \A i, j \in 1..Len(merchantReceivers[m]) :
         merchantReceivers[m][i] = merchantReceivers[m][j] => i = j
    /\ \A r \in Receiver :
         (config[r] # NoCode /\ r[1] = m)
           <=> \E i \in 1..Len(merchantReceivers[m]) : merchantReceivers[m][i] = r

(* "Nothing below can ever change" (ChainXReceiver.sol:42): once a receiver   *)
(* has pinned its destinations no later call, initialize() included, changes  *)
(* them.                                                                      *)
PinnedForever ==
  [][\A c \in Contracts : config[c] \in Config => config'[c] = config[c]]_vars
===============================================================================
