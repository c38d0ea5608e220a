-------------------------- MODULE StealthClaimsProofs --------------------------
(* Proofs about StealthClaims, for every set of claims, accounts and offers,   *)
(* every queue and every number of concurrent rounds.                          *)
EXTENDS StealthClaims, FiniteSetTheorems, TLAPS

Txs == [kind : {"claim", "prep"}, claim : Claims, try : Nat, create : BOOLEAN, fund : 0..1]

(* The type invariant without the bounds that only the submissions set. *)
Typed ==
  /\ env \in Environments /\ offered \in Offers
  /\ queue \in Seq(Claims)
  /\ recent \in [Claims -> {"none", "running", "ok"}]
  /\ step \in [Claims -> {"idle", "check", "prepare", "prepared", "estimate", "send", "confirm"}]
  /\ plan \in [Claims -> [create : BOOLEAN, fund : 0..1]]
  /\ tries \in [Claims -> Nat]
  /\ deployed \subseteq Accounts
  /\ accNonce \in [Accounts -> Nat]
  /\ strk \in [Accounts -> Nat]
  /\ paid \subseteq Claims
  /\ pool \subseteq Txs /\ receipts \subseteq [tx : Txs, ok : BOOLEAN]
  /\ \A t \in pool : t.kind = "claim" => t.fund = 0

(* Recent holds an entry for exactly the rounds under way. *)
RecentKnows == \A c \in Claims : step[c] # "idle" <=> recent[c] = "running"

(* A successful receipt of a claim means that it is paid. *)
ReceiptsTrue == \A r \in receipts : r.ok /\ r.tx.kind = "claim" => r.tx.claim \in paid

(* A transaction that belongs to one round: all but the Starknet and Solana   *)
(* claims, whose hash is the client's.                                        *)
OfRound(t) == t.kind = "prep" \/ offered[t.claim].family = "evm"

(* The round of c has not sent its transaction of that kind yet. *)
Before(c, kind) ==
  step[c] \in IF kind = "prep" THEN {"check", "prepare"}
              ELSE {"check", "prepare", "prepared", "estimate", "send"}

Old(t) == OfRound(t) => /\ t.try <= tries[t.claim]
                        /\ Before(t.claim, t.kind) => t.try < tries[t.claim]

(* No round takes another one's transaction, or its receipt, for its own. *)
RoundsDiffer ==
  /\ \A t \in pool : Old(t)
  /\ \A r \in receipts : Old(r.tx) /\ (OfRound(r.tx) => r.tx \notin pool)

(* The claims of Starknet and Solana are the same transaction in every round. *)
SignedOnce ==
  \A t \in pool : t.kind = "claim" /\ ~OfRound(t) => t.try = 0 /\ t.create = FALSE

(* The round of c waits for t. *)
AwaitedBy(t, c) ==
  \/ t.kind = "prep" /\ step[c] = "prepared" /\ t = PrepTx(c)
  \/ t.kind = "claim" /\ step[c] = "confirm" /\ t = ClaimTx(c)

(* While the process lives and sees its transactions through, the round that  *)
(* sent a transaction waits for it.                                           *)
Awaited ==
  env \cap {"lost", "crash"} = {} => \A t \in pool : OfRound(t) => AwaitedBy(t, t.claim)

Engaged(c) == step[c] # "idle" \/ \E i \in 1..Len(queue) : queue[i] = c

(* Without a burst one claim of an account is dealt with at a time. *)
OneAtATime ==
  "burst" \notin env =>
    \A c, d \in Claims :
      Engaged(c) /\ Engaged(d) /\ offered[c].account = offered[d].account => c = d

(* A top-up is decided on, and on its way, for an account that holds nothing. *)
FundsEmpty ==
  env \cap {"burst", "lost", "crash"} = {} =>
    /\ \A c \in Claims : step[c] = "prepare" /\ plan[c].fund = 1 => strk[offered[c].account] = 0
    /\ \A t \in pool : t.fund = 1 => strk[offered[t.claim].account] = 0

IInv == /\ Typed /\ RecentKnows /\ ReceiptsTrue /\ ConfirmedWasPaid
        /\ RoundsDiffer /\ SignedOnce /\ Awaited
        /\ OneAtATime /\ FundsEmpty /\ FundedOnce

-----------------------------------------------------------------------------
(* The claims offered, and the transactions made for them *)

(* A claim's offer names a chain family and an account. *)
LEMMA OfferType ==
  ASSUME offered \in Offers, NEW c \in Claims
  PROVE  offered[c].family \in Families /\ offered[c].account \in Accounts
BY ConstantsAssumption

(* The shape of the transaction that prepares an account. *)
LEMMA PrepTxType ==
  ASSUME Typed, NEW c \in Claims
  PROVE  /\ PrepTx(c) \in Txs
         /\ PrepTx(c).kind = "prep" /\ PrepTx(c).claim = c /\ PrepTx(c).try = tries[c]
         /\ PrepTx(c).fund = plan[c].fund
BY DEF Typed, PrepTx, Txs

(* The shape of the transaction that claims. *)
LEMMA ClaimTxType ==
  ASSUME Typed, NEW c \in Claims
  PROVE  /\ ClaimTx(c) \in Txs
         /\ ClaimTx(c).kind = "claim" /\ ClaimTx(c).claim = c /\ ClaimTx(c).fund = 0
         /\ offered[c].family = "evm" => ClaimTx(c).try = tries[c]
         /\ offered[c].family # "evm" => ClaimTx(c).try = 0 /\ ClaimTx(c).create = FALSE
<1> DEFINE evm == offered[c].family = "evm"
           create == evm /\ plan[c].create
           try == IF evm THEN tries[c] ELSE 0
<1>1. create \in BOOLEAN /\ (~evm => create = FALSE)
  BY DEF Typed
<1>2. try \in Nat
  BY DEF Typed
<1>3. ClaimTx(c) = [kind |-> "claim", claim |-> c, try |-> try, create |-> create, fund |-> 0]
  BY DEF ClaimTx
<1>4. (evm => try = tries[c]) /\ (~evm => try = 0)
  OBVIOUS
<1> HIDE DEF create, try
<1>5. ClaimTx(c) \in Txs
  BY <1>1, <1>2, <1>3 DEF Txs
<1>6. /\ ClaimTx(c).kind = "claim" /\ ClaimTx(c).claim = c /\ ClaimTx(c).fund = 0
      /\ ClaimTx(c).try = try /\ ClaimTx(c).create = create
  BY <1>3
<1>7. QED  BY <1>1, <1>4, <1>5, <1>6

(* They depend on the claim's own plan and tries only. *)
LEMMA SameTx ==
  ASSUME NEW c, offered' = offered, plan'[c] = plan[c], tries'[c] = tries[c]
  PROVE  PrepTx(c)' = PrepTx(c) /\ ClaimTx(c)' = ClaimTx(c)
BY DEF PrepTx, ClaimTx

-----------------------------------------------------------------------------
(* The invariant holds before the first claim. *)
LEMMA InitInv == Init => IInv
<1> SUFFICES ASSUME Init PROVE IInv
  OBVIOUS
<1>1. Typed
  BY DEF Init, Typed, NoPlan
<1>2. RecentKnows /\ ReceiptsTrue /\ ConfirmedWasPaid /\ RoundsDiffer /\ SignedOnce /\ Awaited
  BY DEF Init, RecentKnows, ReceiptsTrue, ConfirmedWasPaid, RoundsDiffer, SignedOnce, Awaited
<1>3. OneAtATime /\ FundsEmpty /\ FundedOnce
  BY OfferType DEF Init, OneAtATime, FundsEmpty, FundedOnce, Engaged
<1>4. QED  BY <1>1, <1>2, <1>3 DEF IInv

(* A step of the round of c that sends nothing: the round goes on in order,   *)
(* or ends, and not while its transaction is on its way unless it lost sight  *)
(* of it.                                                                     *)
LEMMA RoundStep ==
  ASSUME IInv, NEW c \in Claims,
         UNCHANGED <<queue, pool, receipts, ledger, tries, fixed>>,
         recent' \in [Claims -> {"none", "running", "ok"}],
         step' \in [Claims -> {"idle", "check", "prepare", "prepared", "estimate", "send", "confirm"}],
         plan' \in [Claims -> [create : BOOLEAN, fund : 0..1]],
         \A d \in Claims \ {c} :
           recent'[d] = recent[d] /\ step'[d] = step[d] /\ plan'[d] = plan[d],
         step'[c] # "idle" <=> recent'[c] = "running",
         recent'[c] = "ok" => c \in paid,
         \A k \in {"prep", "claim"} : Before(c, k)' => Before(c, k),
         step'[c] # "idle" => step[c] # "idle",
         step'[c] = "prepare" /\ plan'[c].fund = 1 =>
           \/ strk[offered[c].account] = 0
           \/ step[c] = "prepare" /\ plan[c].fund = 1,
         \/ step'[c] = step[c] /\ plan'[c] = plan[c]
         \/ env \cap {"lost", "crash"} # {}
         \/ \A t \in pool : OfRound(t) => t.claim # c
  PROVE  IInv'
<1> USE DEF IInv, ledger, fixed
<1>1. Typed'
  BY DEF Typed
<1>2. RecentKnows' /\ ReceiptsTrue' /\ ConfirmedWasPaid'
  BY DEF RecentKnows, ReceiptsTrue, ConfirmedWasPaid
<1>3. RoundsDiffer'
  <2>1. ASSUME NEW t \in Txs, Old(t)
        PROVE  Old(t)'
    <3>1. t.kind \in {"prep", "claim"} /\ t.claim \in Claims
      BY DEF Txs
    <3>2. Before(t.claim, t.kind)' => Before(t.claim, t.kind)
      <4>1. CASE t.claim = c
        BY <3>1, <4>1
      <4>2. CASE t.claim # c
        BY <3>1, <4>2 DEF Before
      <4>3. QED  BY <4>1, <4>2
    <3>3. QED  BY <2>1, <3>2 DEF Old, OfRound
  <2>2. \A t \in pool : Old(t)'
    BY <2>1 DEF RoundsDiffer, Typed
  <2>3. \A r \in receipts : Old(r.tx)'
    BY <2>1 DEF RoundsDiffer, Typed
  <2>4. QED  BY <2>2, <2>3 DEF RoundsDiffer, OfRound
<1>4. SignedOnce'
  BY DEF SignedOnce, OfRound
<1>5. Awaited'
  <2> SUFFICES ASSUME env \cap {"lost", "crash"} = {}, NEW t \in pool, OfRound(t)
               PROVE  AwaitedBy(t, t.claim)'
    BY DEF Awaited, OfRound
  <2>1. AwaitedBy(t, t.claim) /\ t.claim \in Claims
    BY DEF Awaited, Typed, Txs
  <2>2. step'[t.claim] = step[t.claim] /\ plan'[t.claim] = plan[t.claim]
    BY <2>1
  <2>3. PrepTx(t.claim)' = PrepTx(t.claim) /\ ClaimTx(t.claim)' = ClaimTx(t.claim)
    BY <2>2, SameTx
  <2>4. QED  BY <2>1, <2>2, <2>3 DEF AwaitedBy
<1>6. OneAtATime'
  <2>1. ASSUME NEW d \in Claims, Engaged(d)'
        PROVE  Engaged(d)
    BY <2>1 DEF Engaged
  <2>2. QED  BY <2>1 DEF OneAtATime
<1>7. FundsEmpty' /\ FundedOnce'
  BY DEF FundsEmpty, FundedOnce
<1>8. QED  BY <1>1, <1>2, <1>3, <1>4, <1>5, <1>6, <1>7

(* The end of a round. *)
LEMMA FinishStep ==
  ASSUME IInv, NEW c \in Claims, NEW ok \in BOOLEAN, Finish(c, ok),
         UNCHANGED <<queue, pool, receipts, ledger, fixed>>,
         ok => c \in paid,
         \/ env \cap {"lost", "crash"} # {}
         \/ \A t \in pool : OfRound(t) => t.claim # c
  PROVE  IInv'
<1>1. /\ recent' = [recent EXCEPT ![c] = IF ok THEN "ok" ELSE "none"]
      /\ step' = [step EXCEPT ![c] = "idle"]
      /\ plan' = [plan EXCEPT ![c] = NoPlan]
      /\ tries' = tries
  BY DEF Finish
<1>t. /\ recent \in [Claims -> {"none", "running", "ok"}]
      /\ step \in [Claims -> {"idle", "check", "prepare", "prepared", "estimate", "send", "confirm"}]
      /\ plan \in [Claims -> [create : BOOLEAN, fund : 0..1]]
      /\ NoPlan \in [create : BOOLEAN, fund : 0..1]
  BY DEF IInv, Typed, NoPlan
<1>2. /\ recent' \in [Claims -> {"none", "running", "ok"}]
      /\ step' \in [Claims -> {"idle", "check", "prepare", "prepared", "estimate", "send", "confirm"}]
      /\ plan' \in [Claims -> [create : BOOLEAN, fund : 0..1]]
  BY <1>1, <1>t
<1>3. /\ \A d \in Claims \ {c} :
           recent'[d] = recent[d] /\ step'[d] = step[d] /\ plan'[d] = plan[d]
      /\ step'[c] = "idle" /\ recent'[c] # "running"
      /\ recent'[c] = "ok" => c \in paid
  BY <1>1, <1>t
<1>4. \A k \in {"prep", "claim"} : ~Before(c, k)'
  BY <1>3 DEF Before
<1>5. QED  BY <1>1, <1>2, <1>3, <1>4, RoundStep

(* The round of c goes on. *)
LEMMA GotoStep ==
  ASSUME IInv, NEW c \in Claims, step[c] # "idle",
         NEW s \in {"prepare", "estimate", "send"}, Goto(c, s),
         NEW p \in [create : BOOLEAN, fund : 0..1], plan' = [plan EXCEPT ![c] = p],
         UNCHANGED <<queue, pool, receipts, ledger, fixed>>,
         s = "prepare" => step[c] = "check",
         s = "estimate" => step[c] = "check",
         s = "send" => step[c] \in {"check", "prepare", "prepared", "estimate"},
         s = "prepare" /\ p.fund = 1 => strk[offered[c].account] = 0,
         \/ env \cap {"lost", "crash"} # {}
         \/ \A t \in pool : OfRound(t) => t.claim # c
  PROVE  IInv'
<1>1. step' = [step EXCEPT ![c] = s] /\ recent' = recent /\ tries' = tries
  BY DEF Goto
<1>t. /\ recent \in [Claims -> {"none", "running", "ok"}]
      /\ step \in [Claims -> {"idle", "check", "prepare", "prepared", "estimate", "send", "confirm"}]
      /\ plan \in [Claims -> [create : BOOLEAN, fund : 0..1]]
      /\ recent[c] = "running"
  BY DEF IInv, Typed, RecentKnows
<1>2. /\ step' \in [Claims -> {"idle", "check", "prepare", "prepared", "estimate", "send", "confirm"}]
      /\ plan' \in [Claims -> [create : BOOLEAN, fund : 0..1]]
      /\ \A d \in Claims \ {c} : step'[d] = step[d] /\ plan'[d] = plan[d]
      /\ step'[c] = s /\ plan'[c] = p
  BY <1>1, <1>t
<1>4. \A k \in {"prep", "claim"} : Before(c, k)' => Before(c, k)
  BY <1>2 DEF Before
<1>5. QED  BY <1>1, <1>t, <1>2, <1>4, RoundStep

(* While a round has not sent its transaction, none of it is on its way. *)
LEMMA NoneOnTheWay ==
  ASSUME IInv, NEW c \in Claims, step[c] \in {"idle", "check", "prepare", "estimate", "send"}
  PROVE  \/ env \cap {"lost", "crash"} # {}
         \/ \A t \in pool : OfRound(t) => t.claim # c
BY DEF IInv, Awaited, AwaitedBy

(* Nor once its receipt is there. *)
LEMMA NoneAfterReceipt ==
  ASSUME IInv, NEW c \in Claims, NEW r \in receipts,
         \/ step[c] = "prepared" /\ r.tx = PrepTx(c)
         \/ step[c] = "confirm" /\ r.tx = ClaimTx(c)
  PROVE  \/ env \cap {"lost", "crash"} # {}
         \/ \A t \in pool : OfRound(t) => t.claim # c
<1> SUFFICES ASSUME env \cap {"lost", "crash"} = {}, NEW t \in pool, OfRound(t), t.claim = c
             PROVE  FALSE
  OBVIOUS
<1>1. AwaitedBy(t, c)
  BY DEF IInv, Awaited
<1>2. t = r.tx
  BY <1>1 DEF AwaitedBy
<1>3. QED  BY <1>2 DEF IInv, RoundsDiffer

-----------------------------------------------------------------------------
(* Reading the account's state keeps the invariant. *)
LEMMA CheckStep ==
  ASSUME IInv, NEW c \in Claims, Check(c)
  PROVE  IInv'
<1> DEFINE todo == [create |-> offered[c].account \notin deployed, fund |-> Shortfall(c)]
<1>1. step[c] = "check" /\ UNCHANGED <<uses, queue, chain, fixed>>
  BY DEF Check
<1>n. \/ env \cap {"lost", "crash"} # {}
      \/ \A t \in pool : OfRound(t) => t.claim # c
  BY <1>1, NoneOnTheWay
<1>2. CASE Finish(c, FALSE)
  BY <1>1, <1>2, <1>n, FinishStep DEF chain
<1>3. CASE /\ plan' = [plan EXCEPT ![c] = todo]
           /\ Goto(c, IF offered[c].family = "evm" THEN "estimate"
                      ELSE IF todo # NoPlan THEN "prepare" ELSE "send")
  <2>1. Shortfall(c) \in 0..1 /\ (Shortfall(c) = 1 => strk[offered[c].account] = 0)
    BY DEF Shortfall
  <2>2. (offered[c].account \notin deployed) \in BOOLEAN
    OBVIOUS
  <2>3. todo \in [create : BOOLEAN, fund : 0..1] /\ todo.fund = Shortfall(c)
    BY <2>1, <2>2
  <2> DEFINE s == IF offered[c].family = "evm" THEN "estimate"
                  ELSE IF todo # NoPlan THEN "prepare" ELSE "send"
  <2>4. s \in {"prepare", "estimate", "send"}
    OBVIOUS
  <2>5. Goto(c, s)
    BY <1>3
  <2>6. plan' = [plan EXCEPT ![c] = todo]
    BY <1>3
  <2> HIDE DEF todo, s
  <2>7. QED  BY <1>1, <1>n, <2>1, <2>3, <2>4, <2>5, <2>6, GotoStep DEF chain
<1>4. QED  BY <1>2, <1>3 DEF Check

(* A transaction of the round of c is sent. *)
LEMMA SentStep ==
  ASSUME IInv, NEW c \in Claims, NEW t \in Txs, t.claim = c,
         pool' = pool \cup {t}, UNCHANGED <<queue, receipts, ledger, fixed, plan>>,
         \/ step[c] = "prepare" /\ Goto(c, "prepared") /\ t = PrepTx(c)
         \/ step[c] = "send" /\ Goto(c, "confirm") /\ t = ClaimTx(c)
  PROVE  IInv'
<1> USE DEF IInv, ledger, fixed
<1>1. recent' = recent /\ tries' = tries
  BY DEF Goto
<1>2. /\ \A d \in Claims \ {c} : step'[d] = step[d]
      /\ step' \in [Claims -> {"idle", "check", "prepare", "prepared", "estimate", "send", "confirm"}]
      /\ \/ step[c] = "prepare" /\ step'[c] = "prepared"
         \/ step[c] = "send" /\ step'[c] = "confirm"
  BY DEF Typed, Goto
<1>3. /\ t.kind \in {"prep", "claim"}
      /\ t.kind = "prep" => step[c] = "prepare" /\ step'[c] = "prepared" /\ t.try = tries[c]
                            /\ t.fund = plan[c].fund /\ t = PrepTx(c)
      /\ t.kind = "claim" => step[c] = "send" /\ step'[c] = "confirm" /\ t.fund = 0
                            /\ t = ClaimTx(c)
                            /\ (OfRound(t) => t.try = tries[c])
                            /\ (~OfRound(t) => t.try = 0 /\ t.create = FALSE)
  <2>1. CASE step[c] = "prepare" /\ Goto(c, "prepared") /\ t = PrepTx(c)
    <3>1. /\ t.kind = "prep" /\ t.try = tries[c] /\ t.fund = plan[c].fund
      BY <2>1, PrepTxType
    <3>2. QED  BY <1>2, <2>1, <3>1
  <2>2. CASE step[c] = "send" /\ Goto(c, "confirm") /\ t = ClaimTx(c)
    <3>1. /\ t.kind = "claim" /\ t.fund = 0
          /\ offered[c].family = "evm" => t.try = tries[c]
          /\ offered[c].family # "evm" => t.try = 0 /\ t.create = FALSE
      <4>1. Typed /\ t = ClaimTx(c)
        BY <2>2
      <4>2. /\ ClaimTx(c).kind = "claim" /\ ClaimTx(c).fund = 0
            /\ offered[c].family = "evm" => ClaimTx(c).try = tries[c]
            /\ offered[c].family # "evm" => ClaimTx(c).try = 0 /\ ClaimTx(c).create = FALSE
        BY <4>1, ClaimTxType
      <4>3. QED  BY <4>1, <4>2
    <3>2. OfRound(t) <=> offered[c].family = "evm"
      BY <3>1 DEF OfRound
    <3>3. QED  BY <1>2, <2>2, <3>1, <3>2
  <2>3. QED  BY <2>1, <2>2
<1>4. Typed'
  BY <1>1, <1>2, <1>3 DEF Typed
<1>5. RecentKnows' /\ ReceiptsTrue' /\ ConfirmedWasPaid'
  BY <1>1, <1>2 DEF RecentKnows, ReceiptsTrue, ConfirmedWasPaid
<1>6. RoundsDiffer'
  <2>1. ASSUME NEW u \in Txs, Old(u)
        PROVE  Old(u)' /\ (OfRound(u) => u # t)
    <3>1. u.kind \in {"prep", "claim"} /\ u.claim \in Claims /\ u.try \in Nat /\ tries[c] \in Nat
      BY DEF Txs, Typed
    <3>2. Before(u.claim, u.kind)' => Before(u.claim, u.kind)
      BY <1>2, <3>1 DEF Before
    <3>3. Old(u)'
      BY <2>1, <3>2, <1>1 DEF Old, OfRound
    <3>4. ASSUME OfRound(u), u = t
          PROVE  FALSE
      <4>1. t.try = tries[c]
        BY <1>3, <3>4
      <4>2. Before(c, t.kind)
        BY <1>3 DEF Before
      <4>3. QED  BY <2>1, <3>1, <3>4, <4>1, <4>2 DEF Old
    <3>5. QED  BY <3>3, <3>4
  <2>2. Old(t)'
    <3>1. ~Before(c, t.kind)'
      BY <1>3 DEF Before
    <3>2. tries[c] \in Nat
      BY DEF Typed
    <3>3. QED  BY <3>1, <3>2, <1>1, <1>3 DEF Old, OfRound
  <2>3. \A u \in pool' : Old(u)'
    BY <2>1, <2>2 DEF RoundsDiffer, Typed
  <2>4. \A r \in receipts : Old(r.tx)' /\ (OfRound(r.tx) => r.tx # t)
    BY <2>1 DEF RoundsDiffer, Typed
  <2>5. QED  BY <2>3, <2>4 DEF RoundsDiffer, OfRound
<1>7. SignedOnce'
  BY <1>3 DEF SignedOnce, OfRound
<1>8. Awaited'
  <2> SUFFICES ASSUME env \cap {"lost", "crash"} = {}, NEW u \in pool', OfRound(u)
               PROVE  AwaitedBy(u, u.claim)'
    BY DEF Awaited, OfRound
  <2>1. u.claim \in Claims
    BY DEF Typed, Txs
  <2>2. PrepTx(u.claim)' = PrepTx(u.claim) /\ ClaimTx(u.claim)' = ClaimTx(u.claim)
    BY <1>1, SameTx
  <2>3. CASE u = t
    BY <2>2, <2>3, <1>3 DEF AwaitedBy
  <2>4. CASE u # t
    <3>1. u \in pool /\ AwaitedBy(u, u.claim)
      BY <2>4 DEF Awaited
    <3>2. u.claim # c
      BY <1>2, <3>1 DEF AwaitedBy
    <3>3. QED  BY <1>2, <2>1, <2>2, <3>1, <3>2 DEF AwaitedBy
  <2>5. QED  BY <2>3, <2>4
<1>9. OneAtATime'
  <2>1. ASSUME NEW d \in Claims, Engaged(d)'
        PROVE  Engaged(d)
    BY <2>1, <1>2 DEF Engaged
  <2>2. QED  BY <2>1 DEF OneAtATime
<1>10. FundsEmpty' /\ FundedOnce'
  BY <1>2, <1>3 DEF FundsEmpty, FundedOnce
<1>11. QED  BY <1>4, <1>5, <1>6, <1>7, <1>8, <1>9, <1>10

(* Sending the preparing transaction keeps the invariant. *)
LEMMA PrepareStep ==
  ASSUME IInv, NEW c \in Claims, Prepare(c)
  PROVE  IInv'
<1> USE DEF ledger
<1>1. step[c] = "prepare" /\ UNCHANGED <<uses, queue, receipts, ledger, expired, fixed>>
  BY DEF Prepare
<1>t. plan \in [Claims -> [create : BOOLEAN, fund : 0..1]]
  BY DEF IInv, Typed
<1>n. \/ env \cap {"lost", "crash"} # {}
      \/ \A t \in pool : OfRound(t) => t.claim # c
  BY <1>1, NoneOnTheWay
<1>2. CASE pool' = pool \cup {PrepTx(c)} /\ Goto(c, "prepared") /\ UNCHANGED plan
  <2>1. PrepTx(c) \in Txs /\ PrepTx(c).claim = c
    BY PrepTxType DEF IInv
  <2>2. QED  BY <1>1, <1>2, <2>1, SentStep
<1>3. CASE Goto(c, "send") /\ UNCHANGED plan /\ UNCHANGED pool
  <2>1. plan' = [plan EXCEPT ![c] = plan[c]] /\ plan[c] \in [create : BOOLEAN, fund : 0..1]
    BY <1>3, <1>t
  <2>2. QED  BY <1>1, <1>3, <1>n, <2>1, GotoStep
<1>4. CASE Finish(c, FALSE) /\ UNCHANGED pool
  BY <1>1, <1>4, <1>n, FinishStep
<1>5. QED  BY <1>2, <1>3, <1>4 DEF Prepare

(* Seeing the account prepared keeps the invariant. *)
LEMMA PreparedStep ==
  ASSUME IInv, NEW c \in Claims, Prepared(c)
  PROVE  IInv'
<1> USE DEF chain
<1>1. step[c] = "prepared" /\ UNCHANGED <<uses, queue, chain, fixed>>
  BY DEF Prepared
<1>2. PICK r \in receipts :
        /\ r.tx = PrepTx(c)
        /\ \/ Goto(c, "send") /\ UNCHANGED plan
           \/ Finish(c, FALSE)
  BY DEF Prepared
<1>n. \/ env \cap {"lost", "crash"} # {}
      \/ \A t \in pool : OfRound(t) => t.claim # c
  BY <1>1, <1>2, NoneAfterReceipt
<1>3. CASE Goto(c, "send") /\ UNCHANGED plan
  <2>1. plan' = [plan EXCEPT ![c] = plan[c]] /\ plan[c] \in [create : BOOLEAN, fund : 0..1]
    BY <1>3 DEF IInv, Typed
  <2>2. QED  BY <1>1, <1>3, <1>n, <2>1, GotoStep
<1>4. CASE Finish(c, FALSE)
  BY <1>1, <1>4, <1>n, FinishStep
<1>5. QED  BY <1>2, <1>3, <1>4

(* Estimating the claim keeps the invariant. *)
LEMMA EstimateStep ==
  ASSUME IInv, NEW c \in Claims, Estimate(c)
  PROVE  IInv'
<1>1. step[c] = "estimate" /\ UNCHANGED <<uses, queue, chain, fixed>>
  BY DEF Estimate
<1>n. \/ env \cap {"lost", "crash"} # {}
      \/ \A t \in pool : OfRound(t) => t.claim # c
  BY <1>1, NoneOnTheWay
<1>2. CASE Finish(c, FALSE)
  BY <1>1, <1>2, <1>n, FinishStep DEF chain
<1>3. CASE Goto(c, "send") /\ UNCHANGED plan
  <2>1. plan[c] \in [create : BOOLEAN, fund : 0..1] /\ plan' = [plan EXCEPT ![c] = plan[c]]
    BY <1>3 DEF IInv, Typed
  <2>2. QED  BY <1>1, <1>3, <1>n, <2>1, GotoStep DEF chain
<1>4. QED  BY <1>2, <1>3 DEF Estimate

(* Sending the claim keeps the invariant. *)
LEMMA SendStep ==
  ASSUME IInv, NEW c \in Claims, Send(c)
  PROVE  IInv'
<1>1. step[c] = "send" /\ UNCHANGED <<uses, queue, receipts, ledger, expired, fixed>>
  BY DEF Send
<1>n. \/ env \cap {"lost", "crash"} # {}
      \/ \A t \in pool : OfRound(t) => t.claim # c
  BY <1>1, NoneOnTheWay
<1>2. CASE pool' = pool \cup {ClaimTx(c)} /\ Goto(c, "confirm") /\ UNCHANGED plan
  <2>1. ClaimTx(c) \in Txs /\ ClaimTx(c).claim = c
    BY ClaimTxType DEF IInv
  <2>2. QED  BY <1>1, <1>2, <2>1, SentStep
<1>3. CASE Finish(c, FALSE) /\ UNCHANGED pool
  BY <1>1, <1>3, <1>n, FinishStep
<1>4. QED  BY <1>2, <1>3 DEF Send

(* Seeing the claim's receipt keeps the invariant. *)
LEMMA ConfirmStep ==
  ASSUME IInv, NEW c \in Claims, Confirm(c)
  PROVE  IInv'
<1>1. step[c] = "confirm" /\ UNCHANGED <<uses, queue, chain, fixed>>
  BY DEF Confirm
<1>2. PICK r \in receipts : r.tx = ClaimTx(c) /\ Finish(c, r.ok)
  BY DEF Confirm
<1>n. \/ env \cap {"lost", "crash"} # {}
      \/ \A t \in pool : OfRound(t) => t.claim # c
  BY <1>1, <1>2, NoneAfterReceipt
<1>3. r.ok \in BOOLEAN /\ (r.ok => c \in paid)
  <2>1. ClaimTx(c).kind = "claim" /\ ClaimTx(c).claim = c
    BY ClaimTxType DEF IInv
  <2>2. r.ok \in BOOLEAN
    BY DEF IInv, Typed
  <2>3. QED  BY <1>2, <2>1, <2>2 DEF IInv, ReceiptsTrue
<1>4. QED  BY <1>1, <1>2, <1>3, <1>n, FinishStep DEF chain

(* A round that fails keeps the invariant. *)
LEMMA AbortStep ==
  ASSUME IInv, NEW c \in Claims, Abort(c)
  PROVE  IInv'
<1>1. step[c] # "idle" /\ Finish(c, FALSE) /\ UNCHANGED <<uses, queue, chain, fixed>>
  BY DEF Abort
<1>n. \/ env \cap {"lost", "crash"} # {}
      \/ \A t \in pool : OfRound(t) => t.claim # c
  <2>1. CASE step[c] \in {"prepared", "confirm"}
    BY <2>1 DEF Abort, Waiting
  <2>2. CASE step[c] \in {"idle", "check", "prepare", "estimate", "send"}
    BY <2>2, NoneOnTheWay
  <2>3. QED  BY <2>1, <2>2 DEF IInv, Typed
<1>2. QED  BY <1>1, <1>n, FinishStep DEF chain

(* Dropping an old result from the recent ones keeps the invariant. *)
LEMMA ForgetStep ==
  ASSUME IInv, NEW c \in Claims, Forget(c)
  PROVE  IInv'
<1>1. /\ recent[c] = "ok" /\ recent' = [recent EXCEPT ![c] = "none"]
      /\ UNCHANGED <<uses, queue, step, plan, tries, lock, late, chain, fixed>>
  BY DEF Forget
<1>2. /\ recent' \in [Claims -> {"none", "running", "ok"}]
      /\ recent'[c] = "none" /\ step[c] = "idle"
      /\ \A d \in Claims \ {c} : recent'[d] = recent[d]
  BY <1>1 DEF IInv, Typed, RecentKnows
<1>3. \A k \in {"prep", "claim"} : Before(c, k)' => Before(c, k)
  BY <1>1 DEF Before
<1>4. /\ step \in [Claims -> {"idle", "check", "prepare", "prepared", "estimate", "send", "confirm"}]
      /\ plan \in [Claims -> [create : BOOLEAN, fund : 0..1]]
  BY DEF IInv, Typed
<1>5. QED  BY <1>1, <1>2, <1>3, <1>4, RoundStep DEF chain

-----------------------------------------------------------------------------
(* Accepting or refusing a request keeps the invariant. *)
LEMMA SubmitStep ==
  ASSUME IInv, NEW c \in Claims, NEW limited \in BOOLEAN, Submit(c, limited)
  PROVE  IInv'
<1> USE DEF IInv, round, chain, ledger, fixed
<1>1. /\ UNCHANGED <<round, chain, fixed>> /\ MaySubmit(c)
      /\ queue' = queue \/ queue' = Append(queue, c)
  BY DEF Submit
<1>2. /\ queue \in Seq(Claims) /\ queue' \in Seq(Claims)
      /\ \A d \in Claims \ {c} :
           (\E i \in 1..Len(queue') : queue'[i] = d) => \E i \in 1..Len(queue) : queue[i] = d
  <2>1. queue \in Seq(Claims) /\ Len(queue) \in Nat
    BY DEF Typed
  <2>2. CASE queue' = Append(queue, c)
    <3>1. /\ queue' \in Seq(Claims) /\ Len(queue') = Len(queue) + 1
          /\ queue'[Len(queue) + 1] = c
          /\ \A i \in 1..Len(queue) : queue'[i] = queue[i]
      BY <2>1, <2>2
    <3>2. \A i \in 1..Len(queue') : i \in 1..Len(queue) \/ i = Len(queue) + 1
      BY <2>1, <3>1
    <3>3. QED  BY <2>1, <3>1, <3>2
  <2>3. QED  BY <1>1, <2>1, <2>2
<1>3. Typed' /\ RecentKnows' /\ ReceiptsTrue' /\ ConfirmedWasPaid' /\ SignedOnce'
  BY <1>1, <1>2 DEF Typed, RecentKnows, ReceiptsTrue, ConfirmedWasPaid, SignedOnce, OfRound
<1>4. RoundsDiffer'
  BY <1>1 DEF RoundsDiffer, Old, OfRound, Before
<1>5. Awaited'
  BY <1>1 DEF Awaited, OfRound, AwaitedBy, PrepTx, ClaimTx
<1>6. OneAtATime'
  <2> SUFFICES ASSUME "burst" \notin env, NEW d \in Claims, NEW e \in Claims,
                      Engaged(d)', Engaged(e)', offered[d].account = offered[e].account
               PROVE  d = e
    BY <1>1 DEF OneAtATime
  <2>1. ASSUME NEW f \in Claims \ {c}, Engaged(f)'
        PROVE  Engaged(f)
    BY <2>1, <1>1, <1>2 DEF Engaged
  <2>2. ASSUME NEW f \in Claims \ {c}, Engaged(f), offered[f].account = offered[c].account
        PROVE  FALSE
    BY <2>2, <1>1 DEF MaySubmit, Engaged
  <2>3. QED  BY <2>1, <2>2 DEF OneAtATime
<1>7. FundsEmpty' /\ FundedOnce'
  BY <1>1 DEF FundsEmpty, FundedOnce
<1>8. QED  BY <1>3, <1>4, <1>5, <1>6, <1>7

(* Taking the next claim of the queue keeps the invariant. *)
LEMMA DequeueStep ==
  ASSUME IInv, Dequeue
  PROVE  IInv'
<1> USE DEF IInv, round, chain, ledger, fixed
<1> DEFINE c == Head(queue)
<1>1. /\ queue \in Seq(Claims) /\ queue # <<>> /\ queue' = Tail(queue)
      /\ UNCHANGED <<uses, chain, fixed, plan, lock>>
  BY DEF Dequeue, Typed
<1>2. /\ c \in Claims /\ queue' \in Seq(Claims)
      /\ \E i \in 1..Len(queue) : queue[i] = c
      /\ \A d \in Claims :
           (\E i \in 1..Len(queue') : queue'[i] = d) => \E i \in 1..Len(queue) : queue[i] = d
  <2>1. Len(queue) \in Nat \ {0} /\ c = queue[1] /\ c \in Claims
    BY <1>1
  <2>2. queue' \in Seq(Claims) /\ Len(queue') = Len(queue) - 1
        /\ \A i \in 1..Len(queue') : queue'[i] = queue[i + 1]
    BY <1>1
  <2>3. \A i \in 1..Len(queue') : i + 1 \in 1..Len(queue)
    BY <2>1, <2>2
  <2>4. 1 \in 1..Len(queue)
    BY <2>1
  <2>5. QED  BY <2>1, <2>2, <2>3, <2>4
<1> HIDE DEF c
<1>3. /\ \A d \in Claims \ {c} :
           recent'[d] = recent[d] /\ step'[d] = step[d] /\ tries'[d] = tries[d]
      /\ recent' \in [Claims -> {"none", "running", "ok"}]
      /\ step' \in [Claims -> {"idle", "check", "prepare", "prepared", "estimate", "send", "confirm"}]
      /\ tries' \in [Claims -> Nat]
      /\ \/ recent'[c] = recent[c] /\ step'[c] = step[c] /\ tries'[c] = tries[c]
         \/ /\ step[c] = "idle" /\ recent'[c] = "running" /\ step'[c] = "check"
            /\ tries'[c] = tries[c] + 1
  <2>1. CASE recent[c] # "none"
    BY <2>1 DEF Dequeue, c, Typed
  <2>2. CASE recent[c] = "none"
    <3>1. /\ recent' = [recent EXCEPT ![c] = "running"]
          /\ step' = [step EXCEPT ![c] = "check"]
          /\ tries' = [tries EXCEPT ![c] = @ + 1]
      BY <2>2 DEF Dequeue, c
    <3>2. step[c] = "idle"
      BY <1>2, <2>2 DEF RecentKnows
    <3>3. QED  BY <1>2, <3>1, <3>2 DEF Typed
  <2>3. QED  BY <2>1, <2>2
<1>4. Typed'
  BY <1>1, <1>2, <1>3 DEF Typed
<1>5. RecentKnows' /\ ReceiptsTrue' /\ ConfirmedWasPaid' /\ SignedOnce'
  <2>1. RecentKnows'
    BY <1>1, <1>2, <1>3 DEF RecentKnows
  <2>2. ReceiptsTrue'
    BY <1>1, <1>2, <1>3 DEF ReceiptsTrue, OfRound
  <2>3. ConfirmedWasPaid'
    BY <1>1, <1>2, <1>3 DEF ConfirmedWasPaid, OfRound
  <2>4. SignedOnce'
    BY <1>1, <1>2, <1>3 DEF SignedOnce, OfRound
  <2>5. QED  BY <2>1, <2>2, <2>3, <2>4
<1>6. RoundsDiffer'
  <2>1. ASSUME NEW t \in Txs, Old(t)
        PROVE  Old(t)'
    <3>1. t.claim \in Claims /\ t.try \in Nat /\ tries[t.claim] \in Nat
      BY DEF Txs, Typed
    <3>2. CASE step'[t.claim] = step[t.claim] /\ tries'[t.claim] = tries[t.claim]
      BY <2>1, <3>2, <1>1 DEF Old, OfRound, Before
    <3>3. CASE tries'[t.claim] = tries[t.claim] + 1
      BY <2>1, <3>1, <3>3, <1>1 DEF Old, OfRound
    <3>4. QED  BY <3>1, <3>2, <3>3, <1>3
  <2>2. \A t \in pool : Old(t)'
    BY <2>1 DEF RoundsDiffer, Typed
  <2>3. \A r \in receipts : Old(r.tx)'
    BY <2>1 DEF RoundsDiffer, Typed
  <2>4. QED  BY <1>1, <2>2, <2>3 DEF RoundsDiffer, OfRound
<1>7. Awaited'
  <2> SUFFICES ASSUME env \cap {"lost", "crash"} = {}, NEW t \in pool, OfRound(t)
               PROVE  AwaitedBy(t, t.claim)'
    BY <1>1 DEF Awaited, OfRound
  <2>1. AwaitedBy(t, t.claim) /\ t.claim \in Claims
    BY DEF Awaited, Typed, Txs
  <2>2. step'[t.claim] = step[t.claim] /\ tries'[t.claim] = tries[t.claim]
    BY <1>3, <2>1 DEF AwaitedBy
  <2>3. PrepTx(t.claim)' = PrepTx(t.claim) /\ ClaimTx(t.claim)' = ClaimTx(t.claim)
    BY <1>1, <2>2, SameTx
  <2>4. QED  BY <2>1, <2>2, <2>3 DEF AwaitedBy
<1>8. OneAtATime'
  <2>1. ASSUME NEW d \in Claims, Engaged(d)'
        PROVE  Engaged(d)
    BY <2>1, <1>2, <1>3 DEF Engaged
  <2>2. QED  BY <1>1, <2>1 DEF OneAtATime
<1>9. FundsEmpty' /\ FundedOnce'
  <2>1. \A d \in Claims : step'[d] = "prepare" => step[d] = "prepare"
    BY <1>2, <1>3
  <2>2. QED  BY <1>1, <2>1 DEF FundsEmpty, FundedOnce
<1>10. QED  BY <1>4, <1>5, <1>6, <1>7, <1>8, <1>9

(* A restart of the keeper keeps the invariant. *)
LEMMA CrashStep ==
  ASSUME IInv, Crash
  PROVE  IInv'
<1> USE DEF IInv, chain, ledger, fixed
<1>1. /\ "crash" \in env /\ queue' = <<>>
      /\ recent' = [c \in Claims |-> "none"]
      /\ step' = [c \in Claims |-> "idle"]
      /\ plan' = [c \in Claims |-> NoPlan]
      /\ UNCHANGED <<uses, tries, chain, fixed>>
  BY DEF Crash
<1>2. Typed'
  BY <1>1 DEF Typed, NoPlan
<1>3. RecentKnows' /\ ReceiptsTrue' /\ ConfirmedWasPaid' /\ SignedOnce'
  BY <1>1 DEF RecentKnows, ReceiptsTrue, ConfirmedWasPaid, SignedOnce, OfRound
<1>4. RoundsDiffer'
  <2>1. ASSUME NEW t \in Txs, Old(t)
        PROVE  Old(t)'
    <3>1. t.claim \in Claims
      BY DEF Txs
    <3>2. ~Before(t.claim, t.kind)'
      BY <1>1, <3>1 DEF Before
    <3>3. QED  BY <2>1, <3>2, <1>1 DEF Old, OfRound
  <2>2. \A t \in pool : Old(t)'
    BY <2>1 DEF RoundsDiffer, Typed
  <2>3. \A r \in receipts : Old(r.tx)'
    BY <2>1 DEF RoundsDiffer, Typed
  <2>4. QED  BY <1>1, <2>2, <2>3 DEF RoundsDiffer, OfRound
<1>5. Awaited' /\ FundsEmpty' /\ FundedOnce'
  BY <1>1 DEF Awaited, FundsEmpty, FundedOnce
<1>6. OneAtATime'
  BY <1>1 DEF OneAtATime, Engaged
<1>7. QED  BY <1>2, <1>3, <1>4, <1>5, <1>6

-----------------------------------------------------------------------------
(* What the execution of a transaction may change: only a keeper's top-up     *)
(* adds to what an account holds.                                             *)
LEMMA ExecuteEffect ==
  ASSUME IInv, NEW t \in pool, ExecuteTx(t)
  PROVE  /\ \E ok \in BOOLEAN :
              /\ receipts' = receipts \cup {[tx |-> t, ok |-> ok]}
              /\ ok /\ t.kind = "claim" => t.claim \in paid'
         /\ pool' = pool \ {t}
         /\ paid \subseteq paid' /\ paid' \subseteq Claims
         /\ deployed' \subseteq Accounts
         /\ accNonce' \in [Accounts -> Nat]
         /\ strk' \in [Accounts -> Nat]
         /\ \A b \in Accounts :
              \/ strk'[b] <= strk[b]
              \/ t.fund = 1 /\ b = offered[t.claim].account /\ strk'[b] = strk[b] + 1
<1> USE DEF IInv
<1> DEFINE a == offered[t.claim].account
           sn == t.kind = "claim" /\ offered[t.claim].family = "starknet"
<1>1. /\ t \in Txs /\ t.claim \in Claims /\ a \in Accounts /\ t.fund \in {0, 1}
      /\ t.kind = "claim" => t.fund = 0
  <2>1. t \in Txs /\ offered \in Offers /\ (t.kind = "claim" => t.fund = 0)
    BY DEF Typed
  <2>2. t.claim \in Claims /\ t.fund \in {0, 1}
    BY <2>1 DEF Txs
  <2>3. QED  BY <2>1, <2>2, OfferType
<1>2. Executes(t) \in BOOLEAN
  BY DEF Executes
<1>3. PICK ok \in BOOLEAN :
        /\ Settle(t, ok)
        /\ deployed' = IF ok /\ t.create THEN deployed \cup {a} ELSE deployed
        /\ paid' = IF ok /\ t.kind = "claim" THEN paid \cup {t.claim} ELSE paid
  <2>1. {Executes(t)} \cup (IF sn /\ "revert" \in env THEN {FALSE} ELSE {}) \subseteq BOOLEAN
    BY <1>2
  <2>2. QED  BY <2>1 DEF ExecuteTx
<1>4. receipts' = receipts \cup {[tx |-> t, ok |-> ok]} /\ pool' = pool \ {t}
  BY <1>3 DEF Settle
<1>5. /\ ok /\ t.kind = "claim" => t.claim \in paid'
      /\ paid \subseteq paid' /\ paid' \subseteq Claims
  BY <1>1, <1>3 DEF Typed
<1>6. deployed' \subseteq Accounts
  BY <1>1, <1>3 DEF Typed
<1>s. strk \in [Accounts -> Nat] /\ accNonce \in [Accounts -> Nat]
  BY DEF Typed
<1>7. /\ accNonce' \in [Accounts -> Nat] /\ strk' \in [Accounts -> Nat]
      /\ \A b \in Accounts :
           \/ strk'[b] <= strk[b]
           \/ t.fund = 1 /\ b = a /\ strk'[b] = strk[b] + 1
  <2>1. CASE sn /\ Executes(t)
    <3>1. strk[a] >= 1
      BY <2>1 DEF Executes, Validates
    <3>2. accNonce' = [accNonce EXCEPT ![a] = @ + 1] /\ strk' = [strk EXCEPT ![a] = @ - 1]
      BY <2>1 DEF ExecuteTx
    <3>3. QED  BY <1>1, <1>s, <3>1, <3>2
  <2>2. CASE ~(sn /\ Executes(t))
    <3>1. accNonce' = accNonce /\ (strk' = strk \/ strk' = [strk EXCEPT ![a] = @ + t.fund])
      BY <2>2 DEF ExecuteTx
    <3>2. QED  BY <1>1, <1>s, <3>1
  <2>3. QED  BY <2>1, <2>2
<1>8. QED  BY <1>4, <1>5, <1>6, <1>7

(* No second top-up of an account is decided on or on its way beside t. *)
LEMMA OneTopUp ==
  ASSUME IInv, env \cap {"burst", "lost", "crash"} = {}, NEW t \in pool, t.fund = 1
  PROVE  /\ \A c \in Claims :
              offered[c].account = offered[t.claim].account => step[c] # "prepare"
         /\ \A u \in pool \ {t} :
              offered[u.claim].account = offered[t.claim].account => u.fund # 1
<1> USE DEF IInv
<1>1. ASSUME NEW u \in pool, u.fund = 1
      PROVE  u.claim \in Claims /\ step[u.claim] = "prepared" /\ u = PrepTx(u.claim)
  <2>1. u \in Txs /\ u.kind # "claim"
    BY <1>1 DEF Typed
  <2>2. u.claim \in Claims /\ u.kind = "prep"
    BY <2>1 DEF Txs
  <2>3. QED  BY <1>1, <2>2 DEF Awaited, OfRound, AwaitedBy
<1>2. t.claim \in Claims /\ step[t.claim] = "prepared" /\ t = PrepTx(t.claim)
  BY <1>1
<1>3. ASSUME NEW c \in Claims, step[c] # "idle", offered[c].account = offered[t.claim].account
      PROVE  c = t.claim
  BY <1>2, <1>3 DEF OneAtATime, Engaged
<1>4. QED  BY <1>1, <1>2, <1>3

(* The chain executing a transaction keeps the invariant. *)
LEMMA ExecuteStep ==
  ASSUME IInv, NEW t \in pool, ExecuteTx(t)
  PROVE  IInv'
<1> USE DEF IInv, round, fixed
<1>u. UNCHANGED <<uses, queue, round, expired, fixed>>
  BY DEF ExecuteTx
<1>1. PICK ok \in BOOLEAN :
        /\ receipts' = receipts \cup {[tx |-> t, ok |-> ok]}
        /\ ok /\ t.kind = "claim" => t.claim \in paid'
  BY ExecuteEffect
<1>2. /\ pool' = pool \ {t}
      /\ paid \subseteq paid' /\ paid' \subseteq Claims
      /\ deployed' \subseteq Accounts
      /\ accNonce' \in [Accounts -> Nat] /\ strk' \in [Accounts -> Nat]
      /\ \A b \in Accounts :
           \/ strk'[b] <= strk[b]
           \/ t.fund = 1 /\ b = offered[t.claim].account /\ strk'[b] = strk[b] + 1
  BY ExecuteEffect
<1>r. \A r \in receipts' : r \in receipts \/ (r.tx = t /\ r.ok = ok)
  BY <1>1
<1>3. Typed'
  <2>1. [tx |-> t, ok |-> ok] \in [tx : Txs, ok : BOOLEAN]
    BY DEF Typed
  <2>2. receipts' \subseteq [tx : Txs, ok : BOOLEAN]
    BY <1>1, <2>1 DEF Typed
  <2>3. QED  BY <1>u, <1>2, <2>2 DEF Typed
<1>4. RecentKnows' /\ ReceiptsTrue' /\ ConfirmedWasPaid' /\ SignedOnce'
  BY <1>u, <1>1, <1>2, <1>r
  DEF RecentKnows, ReceiptsTrue, ConfirmedWasPaid, SignedOnce, OfRound
<1>5. RoundsDiffer'
  <2>1. \A u : Old(u) => Old(u)'
    BY <1>u DEF Old, OfRound, Before
  <2>2. QED  BY <1>u, <1>2, <1>r, <2>1 DEF RoundsDiffer, OfRound
<1>6. Awaited'
  BY <1>u, <1>2 DEF Awaited, OfRound, AwaitedBy, PrepTx, ClaimTx
<1>7. OneAtATime'
  BY <1>u DEF OneAtATime, Engaged
<1>8. FundsEmpty' /\ FundedOnce'
  <2> SUFFICES ASSUME env \cap {"burst", "lost", "crash"} = {}
               PROVE  /\ \A c \in Claims :
                           step[c] = "prepare" /\ plan[c].fund = 1 => strk'[offered[c].account] = 0
                      /\ \A u \in pool' : u.fund = 1 => strk'[offered[u.claim].account] = 0
                      /\ \A b \in Accounts : strk'[b] <= 1
    BY <1>u DEF FundsEmpty, FundedOnce
  <2>1. /\ \A c \in Claims :
             step[c] = "prepare" /\ plan[c].fund = 1 => strk[offered[c].account] = 0
        /\ \A u \in pool : u.fund = 1 => strk[offered[u.claim].account] = 0
        /\ \A b \in Accounts : strk[b] <= 1 /\ strk[b] \in Nat /\ strk'[b] \in Nat
    BY <1>2 DEF FundsEmpty, FundedOnce, Typed
  <2>2. /\ \A c \in Claims : offered[c].account \in Accounts
        /\ \A u \in pool : offered[u.claim].account \in Accounts
    <3>1. \A u \in pool : u.claim \in Claims
      BY DEF Typed, Txs
    <3>2. QED  BY <3>1, OfferType DEF Typed
  <2>3. CASE t.fund # 1
    <3>1. \A b \in Accounts : strk'[b] <= strk[b]
      BY <1>2, <2>3
    <3>2. QED  BY <1>2, <2>1, <2>2, <3>1
  <2>4. CASE t.fund = 1
    <3>1. strk[offered[t.claim].account] = 0
      BY <2>1, <2>4
    <3>2. \A b \in Accounts : strk'[b] <= strk[b] \/ b = offered[t.claim].account
      BY <1>2
    <3>3. \A b \in Accounts : strk'[b] <= 1
      BY <1>2, <2>1, <3>1
    <3>4. ASSUME NEW c \in Claims, step[c] = "prepare", plan[c].fund = 1
          PROVE  strk'[offered[c].account] = 0
      <4>1. offered[c].account # offered[t.claim].account
        BY <2>4, <3>4, OneTopUp
      <4>2. QED  BY <2>1, <2>2, <3>2, <3>4, <4>1
    <3>5. ASSUME NEW u \in pool', u.fund = 1
          PROVE  strk'[offered[u.claim].account] = 0
      <4>1. u \in pool \ {t}
        BY <1>2
      <4>2. offered[u.claim].account # offered[t.claim].account
        BY <2>4, <3>5, <4>1, OneTopUp
      <4>3. QED  BY <2>1, <2>2, <3>2, <3>5, <4>1, <4>2
    <3>6. QED  BY <3>3, <3>4, <3>5
  <2>5. QED  BY <2>3, <2>4
<1>9. QED  BY <1>3, <1>4, <1>5, <1>6, <1>7, <1>8

-----------------------------------------------------------------------------
(* Every step keeps the invariant: one case per action. *)
LEMMA NextInv == IInv /\ [Next]_vars => IInv'
<1> SUFFICES ASSUME IInv, [Next]_vars
             PROVE  IInv'
  OBVIOUS
<1>1. CASE UNCHANGED vars \/ \E c \in Claims : Expire(c)
  <2>1. UNCHANGED <<uses, queue, round, pool, receipts, ledger, fixed>>
    BY <1>1 DEF vars, chain, Expire
  <2> USE DEF IInv, round, ledger, fixed
  <2>2. Typed' /\ RecentKnows' /\ ReceiptsTrue' /\ ConfirmedWasPaid' /\ SignedOnce'
    BY <2>1 DEF Typed, RecentKnows, ReceiptsTrue, ConfirmedWasPaid, SignedOnce, OfRound
  <2>3. RoundsDiffer'
    BY <2>1 DEF RoundsDiffer, Old, OfRound, Before
  <2>4. Awaited'
    BY <2>1 DEF Awaited, OfRound, AwaitedBy, PrepTx, ClaimTx
  <2>5. OneAtATime' /\ FundsEmpty' /\ FundedOnce'
    BY <2>1 DEF OneAtATime, Engaged, FundsEmpty, FundedOnce
  <2>6. QED  BY <2>2, <2>3, <2>4, <2>5
<1>2. ASSUME NEW c \in Claims, Round(c)
      PROVE  IInv'
  BY <1>2, CheckStep, PrepareStep, PreparedStep, EstimateStep, SendStep, ConfirmStep DEF Round
<1>3. CASE Next
  BY <1>1, <1>2, <1>3, SubmitStep, DequeueStep, AbortStep, ForgetStep, ExecuteStep, CrashStep
  DEF Next
<1>4. QED  BY <1>1, <1>3

(* The inductive invariant of queue, rounds and chains holds in every         *)
(* behaviour.                                                                 *)
THEOREM Invariance == Spec => []IInv
BY InitInv, NextInv, PTL DEF Spec

-----------------------------------------------------------------------------
(* The bounds of the type invariant *)

Pending(c) == {i \in 1..Len(queue) : queue[i] = c}

(* Every round and every place in the queue is paid for by a redemption of a  *)
(* verified token.                                                            *)
Budget == \A c \in Claims : uses[c] + Cardinality(Pending(c)) + tries[c] <= MAX_USES

Bounds ==
  /\ uses \in [Claims -> 0..MAX_USES]
  /\ Len(queue) <= QUEUE
  /\ lock \in Claims \cup {None}
  /\ lock # None => step[lock] # "idle"
  /\ expired \subseteq Claims
  /\ Budget

(* A claim's places in the queue are finitely many. *)
LEMMA PendingFinite ==
  ASSUME queue \in Seq(Claims), NEW c
  PROVE  IsFiniteSet(Pending(c)) /\ Cardinality(Pending(c)) \in Nat
<1>1. IsFiniteSet(1..Len(queue))
  BY FS_Interval
<1>2. Pending(c) \subseteq 1..Len(queue)
  BY DEF Pending
<1>3. IsFiniteSet(Pending(c))
  BY <1>1, <1>2, FS_Subset
<1>4. QED  BY <1>3, FS_CardinalityType

(* A claim that is queued takes one more place. *)
LEMMA PendingAppend ==
  ASSUME queue \in Seq(Claims), NEW c \in Claims, queue' = Append(queue, c)
  PROVE  /\ Cardinality(Pending(c)') = Cardinality(Pending(c)) + 1
         /\ \A d \in Claims \ {c} : Pending(d)' = Pending(d)
<1>1. /\ Len(queue) \in Nat /\ Len(queue') = Len(queue) + 1 /\ queue'[Len(queue) + 1] = c
      /\ \A i \in 1..Len(queue) : queue'[i] = queue[i]
  OBVIOUS
<1>2. Pending(c)' = Pending(c) \cup {Len(queue) + 1} /\ Len(queue) + 1 \notin Pending(c)
  BY <1>1 DEF Pending
<1>3. \A d \in Claims \ {c} : Pending(d)' = Pending(d)
  BY <1>1 DEF Pending
<1>4. IsFiniteSet(Pending(c))
  BY PendingFinite
<1>5. Cardinality(Pending(c) \cup {Len(queue) + 1}) = Cardinality(Pending(c)) + 1
  BY <1>2, <1>4, FS_AddElement
<1>6. QED  BY <1>2, <1>3, <1>5

(* A claim that is taken from the queue gives its place back. *)
LEMMA PendingTail ==
  ASSUME queue \in Seq(Claims), queue # <<>>, queue' = Tail(queue), NEW d \in Claims
  PROVE  /\ Cardinality(Pending(d)') \in Nat
         /\ Cardinality(Pending(d)') <= Cardinality(Pending(d))
         /\ d = Head(queue) => Cardinality(Pending(d)') <= Cardinality(Pending(d)) - 1
<1>1. /\ Len(queue) \in Nat \ {0} /\ Len(queue') = Len(queue) - 1 /\ Head(queue) = queue[1]
      /\ \A i \in 1..Len(queue') : queue'[i] = queue[i + 1]
      /\ queue' \in Seq(Claims)
  OBVIOUS
<1> DEFINE S == Pending(d) \ {1}
           f == [i \in S |-> i - 1]
<1>2. \A i \in S : i - 1 \in Pending(d)'
  BY <1>1 DEF Pending
<1>3. \A j \in Pending(d)' : j \in Int /\ j + 1 \in S
  BY <1>1 DEF Pending
<1>4. f \in [S -> Pending(d)'] /\ \A j \in Pending(d)' : j + 1 \in S /\ f[j + 1] = j
  <2> DEFINE T == Pending(d)'
  <2>1. (\A i \in S : i - 1 \in T) /\ (\A j \in T : j \in Int /\ j + 1 \in S)
    BY <1>2, <1>3
  <2> HIDE DEF S, T
  <2>2. f \in [S -> T]
    BY <2>1
  <2>3. ASSUME NEW j \in T
        PROVE  j + 1 \in S /\ f[j + 1] = j
    <3>1. j \in Int /\ j + 1 \in S
      BY <2>1
    <3>2. QED  BY <3>1
  <2>4. QED  BY <2>2, <2>3 DEF T
<1>5. f \in Surjection(S, Pending(d)')
  BY <1>4 DEF Surjection
<1>6. /\ IsFiniteSet(S)
      /\ Cardinality(S) = IF 1 \in Pending(d) THEN Cardinality(Pending(d)) - 1
                          ELSE Cardinality(Pending(d))
  BY PendingFinite, FS_RemoveElement
<1>7. Cardinality(Pending(d)') <= Cardinality(S) /\ IsFiniteSet(Pending(d)')
  BY <1>5, <1>6, FS_Surjection
<1>8. d = Head(queue) => 1 \in Pending(d)
  BY <1>1 DEF Pending
<1>9. Cardinality(Pending(d)) \in Nat /\ Cardinality(Pending(d)') \in Nat
  BY <1>7, PendingFinite, FS_CardinalityType
<1>10. QED  BY <1>6, <1>7, <1>8, <1>9

(* The steps that neither queue a claim nor begin a round. *)
LEMMA BoundsKept ==
  ASSUME Bounds, UNCHANGED <<uses, queue, tries>>, expired' \subseteq Claims,
         lock' \in Claims \cup {None}, lock' # None => step'[lock'] # "idle"
  PROVE  Bounds'
BY DEF Bounds, Budget, Pending

(* No step takes the queue and the counters beyond their bounds. *)
LEMMA BoundsStep == IInv /\ Bounds /\ [Next]_vars => Bounds'
<1> SUFFICES ASSUME IInv, Bounds, [Next]_vars
             PROVE  Bounds'
  OBVIOUS
<1>t. /\ queue \in Seq(Claims) /\ tries \in [Claims -> Nat] /\ MAX_USES \in Nat
      /\ uses \in [Claims -> 0..MAX_USES] /\ QUEUE \in Nat /\ Len(queue) <= QUEUE
      /\ step \in [Claims -> {"idle", "check", "prepare", "prepared", "estimate", "send", "confirm"}]
  BY ConstantsAssumption DEF IInv, Typed, Bounds
<1>n. \A c \in Claims : Cardinality(Pending(c)) \in Nat
  BY <1>t, PendingFinite
<1>1. ASSUME NEW c \in Claims, NEW limited \in BOOLEAN, Submit(c, limited)
      PROVE  Bounds'
  <2>1. /\ uses[c] > 0 /\ uses' = [uses EXCEPT ![c] = @ - 1]
        /\ UNCHANGED <<round, chain, fixed>>
        /\ queue' = queue \/ (Len(queue) < QUEUE /\ queue' = Append(queue, c))
    BY <1>1 DEF Submit
  <2>2. uses' \in [Claims -> 0..MAX_USES] /\ Len(queue') <= QUEUE
    BY <1>t, <2>1
  <2>3. Budget'
    <3> SUFFICES ASSUME NEW d \in Claims
                 PROVE  uses'[d] + Cardinality(Pending(d)') + tries[d] <= MAX_USES
      BY <2>1 DEF Budget, round
    <3>1. uses[d] + Cardinality(Pending(d)) + tries[d] <= MAX_USES
      BY DEF Bounds, Budget
    <3>2. CASE queue' = queue
      <4>1. Pending(d)' = Pending(d)
        BY <3>2 DEF Pending
      <4>2. QED  BY <1>t, <1>n, <2>1, <3>1, <4>1
    <3>3. CASE queue' = Append(queue, c)
      <4>1. CASE d = c
        <5>1. Cardinality(Pending(c)') = Cardinality(Pending(c)) + 1
          BY <1>t, <3>3, PendingAppend
        <5>2. uses'[c] = uses[c] - 1
          BY <1>t, <2>1
        <5>3. QED  BY <1>t, <1>n, <3>1, <4>1, <5>1, <5>2
      <4>2. CASE d # c
        <5>1. Pending(d)' = Pending(d)
          BY <1>t, <3>3, <4>2, PendingAppend
        <5>2. uses'[d] = uses[d]
          BY <1>t, <2>1, <4>2
        <5>3. QED  BY <3>1, <5>1, <5>2
      <4>3. QED  BY <4>1, <4>2
    <3>4. QED  BY <2>1, <3>2, <3>3
  <2>4. QED  BY <2>1, <2>2, <2>3 DEF Bounds, round, chain
<1>2. CASE Dequeue
  <2> DEFINE c == Head(queue)
  <2>1. /\ queue # <<>> /\ queue' = Tail(queue) /\ c \in Claims
        /\ UNCHANGED <<uses, chain, fixed, lock>>
    BY <1>2, <1>t DEF Dequeue, round
  <2>2. Len(queue') <= QUEUE
    BY <1>t, <2>1
  <2> HIDE DEF c
  <2>3. \/ UNCHANGED <<step, tries>>
        \/ step' = [step EXCEPT ![c] = "check"] /\ tries' = [tries EXCEPT ![c] = @ + 1]
    BY <1>2 DEF Dequeue, round, c
  <2>4. Budget'
    <3> SUFFICES ASSUME NEW d \in Claims
                 PROVE  uses[d] + Cardinality(Pending(d)') + tries'[d] <= MAX_USES
      BY <2>1 DEF Budget
    <3>1. uses[d] + Cardinality(Pending(d)) + tries[d] <= MAX_USES
      BY DEF Bounds, Budget
    <3>2. /\ Cardinality(Pending(d)') \in Nat
          /\ Cardinality(Pending(d)') <= Cardinality(Pending(d))
          /\ d = c => Cardinality(Pending(d)') <= Cardinality(Pending(d)) - 1
      BY <1>t, <2>1, PendingTail DEF c
    <3>3. tries'[d] = tries[d] \/ (d = c /\ tries'[d] = tries[d] + 1)
      BY <1>t, <2>3
    <3>4. uses[d] \in Nat /\ tries[d] \in Nat /\ Cardinality(Pending(d)) \in Nat
      BY <1>t, <1>n
    <3>5. QED  BY <1>t, <3>1, <3>2, <3>3, <3>4
  <2>5. lock # None => step'[lock] # "idle"
    BY <1>t, <2>1, <2>3 DEF Bounds
  <2>6. QED  BY <2>1, <2>2, <2>4, <2>5 DEF Bounds, chain
<1>3. ASSUME NEW c \in Claims, Abort(c) \/ Round(c)
      PROVE  Bounds'
  <2>1. UNCHANGED <<uses, queue, tries, expired>>
    BY <1>3 DEF Abort, Round, Check, Prepare, Prepared, Estimate, Send, Confirm, Finish, Goto, chain
  <2>2. \/ lock' = None
        \/ lock' = lock /\ lock # c
        \/ lock' = lock /\ step'[c] # "idle"
        \/ lock' = c /\ step'[c] # "idle"
    <3>1. ASSUME NEW ok, Finish(c, ok)
          PROVE  lock' = None \/ (lock' = lock /\ lock # c)
      BY <3>1 DEF Finish
    <3>2. ASSUME NEW s, s # "idle", Goto(c, s)
          PROVE  step'[c] # "idle"
      BY <1>t, <3>2 DEF Goto
    <3>3. CASE Abort(c) \/ Confirm(c)
      BY <3>1, <3>3 DEF Abort, Confirm
    <3>4. CASE Check(c)
      <4>1. CASE Finish(c, FALSE)
        BY <3>1, <4>1
      <4>2. CASE /\ Goto(c, "prepare") \/ Goto(c, "estimate") \/ Goto(c, "send")
                 /\ UNCHANGED lock
        BY <3>2, <4>2
      <4>3. QED  BY <3>4, <4>1, <4>2 DEF Check
    <3>5. CASE Prepare(c)
      BY <3>1, <3>2, <3>5 DEF Prepare
    <3>6. CASE Prepared(c)
      BY <3>1, <3>2, <3>6 DEF Prepared
    <3>7. CASE Send(c)
      BY <3>1, <3>2, <3>7 DEF Send
    <3>8. CASE Estimate(c)
      BY <3>1, <3>2, <3>8 DEF Estimate
    <3>9. QED  BY <1>3, <3>3, <3>4, <3>5, <3>6, <3>7, <3>8 DEF Round
  <2>3. \A d \in Claims \ {c} : step'[d] = step[d]
    BY <1>t, <1>3 DEF Abort, Round, Check, Prepare, Prepared, Estimate, Send, Confirm, Finish, Goto
  <2>4. lock' \in Claims \cup {None} /\ (lock' # None => step'[lock'] # "idle")
    BY <2>2, <2>3 DEF Bounds
  <2>5. QED  BY <2>1, <2>4, BoundsKept DEF Bounds
<1>4. ASSUME NEW c \in Claims, Forget(c)
      PROVE  Bounds'
  BY <1>4, BoundsKept DEF Forget, chain, Bounds
<1>5. ASSUME NEW t \in pool, ExecuteTx(t)
      PROVE  Bounds'
  BY <1>5, BoundsKept DEF ExecuteTx, round, Bounds
<1>6. ASSUME NEW c \in Claims, Expire(c)
      PROVE  Bounds'
  BY <1>6, BoundsKept DEF Expire, round, Bounds
<1>7. CASE Crash
  <2>1. /\ queue' = <<>> /\ lock' = None
        /\ UNCHANGED <<uses, tries, expired>>
    BY <1>7 DEF Crash, chain
  <2>2. Len(queue') = 0 /\ \A d \in Claims : Pending(d)' = {}
    BY <2>1 DEF Pending
  <2>3. Budget'
    <3> SUFFICES ASSUME NEW d \in Claims
                 PROVE  uses[d] + Cardinality(Pending(d)') + tries[d] <= MAX_USES
      BY <2>1 DEF Budget
    <3>1. uses[d] + Cardinality(Pending(d)) + tries[d] <= MAX_USES
      BY DEF Bounds, Budget
    <3>2. Cardinality(Pending(d)') = 0
      BY <2>2, FS_EmptySet
    <3>3. uses[d] \in Nat /\ tries[d] \in Nat /\ Cardinality(Pending(d)) \in Nat
      BY <1>t, <1>n
    <3>4. QED  BY <1>t, <3>1, <3>2, <3>3
  <2>4. QED  BY <1>t, <2>1, <2>2, <2>3 DEF Bounds
<1>8. CASE UNCHANGED vars
  BY <1>8, BoundsKept DEF vars, round, chain, Bounds
<1>9. QED  BY <1>1, <1>2, <1>3, <1>4, <1>5, <1>6, <1>7, <1>8 DEF Next

-----------------------------------------------------------------------------
(* An EVM round that got past its reads began unpaid, and, if no transaction  *)
(* was ever lost sight of, the claim is still unpaid.                         *)
Fresh ==
  /\ late \subseteq paid
  /\ \A c \in Claims :
       offered[c].family = "evm" =>
         /\ step[c] \notin {"prepare", "prepared"}
         /\ step[c] \in {"estimate", "send"} =>
              c \notin late /\ (env \cap {"lost", "crash"} = {} => c \notin paid)

(* A step of the round of c: what is paid and what came late do not change,   *)
(* and an EVM round gets past its reads only if the claim is unpaid.          *)
LEMMA FreshRound ==
  ASSUME IInv, Fresh, NEW c \in Claims, Abort(c) \/ Round(c)
  PROVE  Fresh'
<1> USE DEF IInv
<1>t. step \in [Claims -> {"idle", "check", "prepare", "prepared", "estimate", "send", "confirm"}]
  BY DEF Typed
<1>1. late' = late /\ UNCHANGED fixed
  BY DEF Abort, Round, Check, Prepare, Prepared, Estimate, Send, Confirm, Finish, Goto
<1>2. paid' = paid
  BY DEF Abort, Round, Check, Prepare, Prepared, Estimate, Send, Confirm, chain, ledger
<1>3. \A d \in Claims \ {c} : step'[d] = step[d]
  BY <1>t DEF Abort, Round, Check, Prepare, Prepared, Estimate, Send, Confirm, Finish, Goto
<1>4. ASSUME offered[c].family = "evm"
      PROVE  /\ step'[c] \notin {"prepare", "prepared"}
             /\ step'[c] \in {"estimate", "send"} =>
                  (step[c] = "check" /\ c \notin paid) \/ step[c] = "estimate"
  <2>1. ASSUME NEW ok, Finish(c, ok)
        PROVE  step'[c] = "idle"
    BY <1>t, <2>1 DEF Finish
  <2>2. ASSUME NEW s, Goto(c, s)
        PROVE  step'[c] = s
    BY <1>t, <2>2 DEF Goto
  <2>3. CASE Abort(c) \/ Confirm(c)
    BY <2>1, <2>3 DEF Abort, Confirm
  <2>4. CASE Check(c)
    <3>1. CASE Finish(c, FALSE)
      BY <2>1, <3>1
    <3>2. CASE Current(c) /\ Goto(c, "estimate")
      BY <2>2, <2>4, <3>2, <1>4 DEF Check, Current
    <3>3. QED  BY <2>4, <3>1, <3>2, <1>4 DEF Check
  <2>5. CASE Prepare(c) \/ Prepared(c)
    BY <2>5, <1>4 DEF Fresh, Prepare, Prepared
  <2>6. CASE Estimate(c)
    BY <2>1, <2>2, <2>6 DEF Estimate
  <2>7. CASE Send(c)
    BY <2>1, <2>2, <2>7 DEF Send
  <2>8. QED  BY <2>3, <2>4, <2>5, <2>6, <2>7 DEF Round
<1>5. QED  BY <1>1, <1>2, <1>3, <1>4 DEF Fresh, fixed

(* An EVM claim is paid by its own round, which waits for it, unless a        *)
(* transaction was lost sight of.                                             *)
LEMMA FreshExecute ==
  ASSUME IInv, Fresh, NEW t \in pool, ExecuteTx(t)
  PROVE  Fresh'
<1>1. UNCHANGED <<round, fixed>> /\ paid \subseteq paid'
  BY DEF ExecuteTx
<1>2. ASSUME NEW c \in Claims, offered[c].family = "evm", step[c] \in {"estimate", "send"},
             env \cap {"lost", "crash"} = {}, c \in paid'
      PROVE  c \in paid
  <2> SUFFICES ASSUME c = t.claim, t.kind = "claim" PROVE FALSE
    BY <1>2 DEF ExecuteTx
  <2>1. AwaitedBy(t, t.claim)
    BY <1>2 DEF IInv, Awaited, OfRound
  <2>2. QED  BY <2>1, <1>2 DEF AwaitedBy
<1>3. QED  BY <1>1, <1>2 DEF Fresh, round, fixed

(* Every step keeps it. *)
LEMMA FreshStep == IInv /\ Fresh /\ [Next]_vars => Fresh'
<1> SUFFICES ASSUME IInv, Fresh, [Next]_vars
             PROVE  Fresh'
  OBVIOUS
<1>1. ASSUME NEW c \in Claims, NEW limited \in BOOLEAN, Submit(c, limited)
      PROVE  Fresh'
  BY <1>1 DEF Submit, Fresh, round, chain, ledger, fixed
<1>2. CASE Dequeue
  <2>1. CASE UNCHANGED round
    BY <1>2, <2>1 DEF Dequeue, Fresh, round, chain, ledger, fixed
  <2>2. CASE /\ step' = [step EXCEPT ![Head(queue)] = "check"]
             /\ late' = late \cup ({Head(queue)} \cap paid)
    <3>1. \A d \in Claims : (step'[d] = step[d] /\ d # Head(queue)) \/ step'[d] = "check"
      BY <2>2 DEF IInv, Typed
    <3>2. paid' = paid /\ offered' = offered /\ env' = env
      BY <1>2 DEF Dequeue, chain, ledger, fixed
    <3>3. QED  BY <2>2, <3>1, <3>2 DEF Fresh
  <2>3. QED  BY <1>2, <2>1, <2>2 DEF Dequeue
<1>3. ASSUME NEW c \in Claims, Abort(c) \/ Round(c)
      PROVE  Fresh'
  BY <1>3, FreshRound
<1>4. ASSUME NEW c \in Claims, Forget(c) \/ Expire(c)
      PROVE  Fresh'
  BY <1>4 DEF Forget, Expire, Fresh, round, chain, ledger, fixed
<1>5. ASSUME NEW t \in pool, ExecuteTx(t)
      PROVE  Fresh'
  BY <1>5, FreshExecute
<1>6. CASE Crash
  BY <1>6 DEF Crash, Fresh, chain, ledger, fixed
<1>7. CASE UNCHANGED vars
  BY <1>7 DEF vars, Fresh, round, chain, ledger, fixed
<1>8. QED  BY <1>1, <1>2, <1>3, <1>4, <1>5, <1>6, <1>7 DEF Next

(* It holds from the start. *)
LEMMA FreshAlways == Spec => []Fresh
<1>1. Init => Fresh
  BY DEF Init, Fresh
<1>2. QED  BY <1>1, FreshStep, Invariance, PTL DEF Spec

(* The variables keep their types; the queue keeps its capacity, no claim has *)
(* more rounds than verified tokens, and only a round under way holds the     *)
(* lock.                                                                      *)
THEOREM TypeCorrect == Spec => []TypeOK
<1>1. Init => Bounds
  <2> SUFFICES ASSUME Init PROVE Bounds
    OBVIOUS
  <2>1. Len(queue) = 0 /\ \A c \in Claims : Pending(c) = {}
    BY DEF Init, Pending
  <2>2. \A c \in Claims : Cardinality(Pending(c)) = 0
    BY <2>1, FS_EmptySet
  <2>3. Budget
    BY <2>2, ConstantsAssumption DEF Init, Budget
  <2>4. QED  BY <2>1, <2>3, ConstantsAssumption DEF Init, Bounds
<1>2. IInv /\ Bounds /\ Fresh => TypeOK
  <2> SUFFICES ASSUME IInv, Bounds, Fresh PROVE TypeOK
    OBVIOUS
  <2>1. ASSUME NEW c \in Claims
        PROVE  tries[c] \in 0..MAX_USES
    <3>1. uses[c] \in Nat /\ tries[c] \in Nat /\ MAX_USES \in Nat
          /\ uses[c] + Cardinality(Pending(c)) + tries[c] <= MAX_USES
      BY ConstantsAssumption DEF IInv, Typed, Bounds, Budget
    <3>2. Cardinality(Pending(c)) \in Nat
      BY PendingFinite DEF IInv, Typed
    <3>3. QED  BY <3>1, <3>2
  <2>2. QED  BY <2>1 DEF IInv, Typed, Bounds, Fresh, TypeOK
<1>3. QED  BY <1>1, <1>2, BoundsStep, Invariance, FreshAlways, PTL DEF Spec

-----------------------------------------------------------------------------
(* Recent::finish(true) is called only for a claim whose funds moved, also    *)
(* when rounds are cut off, repeated after a restart, or meet the receipt of  *)
(* an earlier round.                                                          *)
THEOREM ConfirmedMeansPaid == Spec => []ConfirmedWasPaid
BY Invariance, PTL DEF IInv

(* Two transactions of one claim are never on their way together, and no      *)
(* account is given more than one fee, while the process sees its             *)
(* transactions through (and, for the fee, nobody claims twice at once).      *)
THEOREM KeeperPaysOnce == Spec => []SpentOnce
<1>1. ASSUME IInv
      PROVE  SpentOnce
  <2> USE <1>1 DEF IInv
  <2>1. ASSUME env \cap {"lost", "crash"} = {}, NEW c \in Claims
        PROVE  Cardinality(ClaimTxs(c)) <= 1
    <3>1. ASSUME NEW t \in ClaimTxs(c), NEW u \in ClaimTxs(c)
          PROVE  t = u
      <4>1. /\ t \in pool /\ t.kind = "claim" /\ t.claim = c /\ t \in Txs
            /\ u \in pool /\ u.kind = "claim" /\ u.claim = c /\ u \in Txs
            /\ t.fund = 0 /\ u.fund = 0
        BY DEF ClaimTxs, Typed
      <4>2. OfRound(t) <=> OfRound(u)
        BY <4>1 DEF OfRound
      <4>3. CASE OfRound(t)
        BY <2>1, <4>1, <4>2, <4>3 DEF Awaited, AwaitedBy
      <4>4. CASE ~OfRound(t)
        <5>1. t.try = u.try /\ t.create = u.create
          BY <4>1, <4>2, <4>4 DEF SignedOnce
        <5>2. QED  BY <4>1, <5>1 DEF Txs
      <4>5. QED  BY <4>3, <4>4
    <3>2. CASE ClaimTxs(c) = {}
      <4>1. Cardinality(ClaimTxs(c)) = 0
        BY <3>2, FS_EmptySet
      <4>2. QED  BY <4>1
    <3>3. CASE ClaimTxs(c) # {}
      <4>1. PICK t \in ClaimTxs(c) : TRUE
        BY <3>3
      <4>2. ClaimTxs(c) = {t}
        BY <3>1, <4>1
      <4>3. Cardinality(ClaimTxs(c)) = 1
        BY <4>2, FS_Singleton
      <4>4. QED  BY <4>3
    <3>4. QED  BY <3>2, <3>3
  <2>2. QED  BY <2>1 DEF SpentOnce, OneTxPerClaim
<1>2. QED  BY <1>1, Invariance, PTL

(* A claim that is paid is refused before it is broadcast: no step of the     *)
(* keeper sends a transaction for it, but for an EVM claim that was unpaid    *)
(* when its round began and that an earlier round, lost sight of, paid since. *)
THEOREM PaidNotSentAgain == Spec => ReplaysRefused
<1> DEFINE Refused(c) ==
      \/ ClaimTxs(c)' \subseteq ClaimTxs(c)
      \/ c \notin paid
      \/ offered[c].family = "evm" /\ c \notin late /\ env \cap {"lost", "crash"} # {}
<1>1. ASSUME IInv, Fresh, [Next]_vars, NEW c \in Claims
      PROVE  Refused(c)
  <2> SUFFICES ASSUME c \in paid, NEW t \in ClaimTxs(c)', t \notin pool
               PROVE  offered[c].family = "evm" /\ c \notin late /\ env \cap {"lost", "crash"} # {}
    BY DEF ClaimTxs
  <2>1. t \in pool' /\ t.kind = "claim" /\ t.claim = c /\ pool' # pool
    BY DEF ClaimTxs
  <2>2. PICK d \in Claims : Prepare(d) \/ Send(d)
    BY <1>1, <2>1
    DEF Next, Round, Submit, Dequeue, Check, Prepared, Estimate, Confirm, Abort, Forget,
        ExecuteTx, Settle, Expire, Crash, chain, vars
  <2>3. CASE Prepare(d)
    <3>1. t = PrepTx(d)
      BY <2>1, <2>3 DEF Prepare
    <3>2. QED  BY <1>1, <2>1, <3>1, PrepTxType DEF IInv
  <2>4. CASE Send(d)
    <3>1. /\ t = ClaimTx(d) /\ step[d] = "send"
          /\ offered[d].family = "evm" \/ Executes(ClaimTx(d))
      BY <2>1, <2>4 DEF Send, Preflight
    <3>2. d = c
      BY <1>1, <2>1, <3>1, ClaimTxType DEF IInv
    <3>3. ~Executes(ClaimTx(c))
      BY <2>1, <3>1, <3>2 DEF Executes, Validates
    <3>4. QED  BY <1>1, <3>1, <3>2, <3>3 DEF Fresh
  <2>5. QED  BY <2>2, <2>3, <2>4
<1>2. ASSUME IInv, Fresh, [Next]_vars
      PROVE  [\A c \in Claims : Refused(c)]_vars
  BY <1>1, <1>2
<1>3. QED  BY <1>2, Invariance, FreshAlways, PTL DEF Spec, ReplaysRefused
===============================================================================
