------------------------------ MODULE Checkout ------------------------------
(***************************************************************************)
(* The checkout page: the card of pay.js, the gasless signers and the      *)
(* settlement watch of gasless.js.  A page runs one script at a time; the  *)
(* payer may redraw the card while a payment waits for the wallet, the API *)
(* or the network.                                                         *)
(*                                                                         *)
(* Wallets, the backend's queue and keeper, and the chains are outside the *)
(* page.  Solana's slots and block heights are one number here, and the    *)
(* RPC answers from one view of the chain.                                 *)
(***************************************************************************)
EXTENDS Integers, Sequences, SequencesExt, FiniteSets

CONSTANTS
    Pages,
    Routes,         \* route |-> kind of its chain
    Typed,          \* what payers type as amounts: [whole, frac]
    Decimals,       \* USDC_DECIMALS
    Balance,        \* the payer's USDC on Solana
    Life,           \* blocks a blockhash lives
    Rewind,         \* slots the watch starts before the finalized head
    MaxPolls,       \* SETTLE_MAX_POLLS
    MaxTip, MaxPays,    \* bounds on the chain's length and on payments begun
    Environments,   \* [routes, supports, loses]: the link's receivers, the Starknet
                    \* account's versions, whether answers get lost
    None

ASSUME CheckoutAssumption ==
    /\ Decimals \in Nat /\ Balance \in Nat /\ Life \in Nat /\ Rewind \in Nat
    /\ MaxPolls \in Nat \ {0} /\ MaxTip \in Nat /\ MaxPays \in Nat /\ None \notin Int
    /\ None \notin {"failed", "refused", "queued", "confirmed", "expired", "unknown"}
    /\ \A e \in Environments :
          e.routes \subseteq DOMAIN Routes /\ e.supports \subseteq {"1", "2"} /\ e.loses \in BOOLEAN

VARIABLES
    env,
    tip, final,     \* newest and newest finalized block of Solana
    landed,         \* payments whose transfer is on Solana: [pay, slot]
    card,           \* per page: [route, gasless, enabled], what is drawn
    inFlight,       \* per page: the flag of renderCard
    pays,           \* the click handlers begun, in order
    queue           \* requests the backend accepted: [pay, chain, receiver, amount]

world == <<env, tip, final, landed>>
vars == <<env, tip, final, landed, card, inFlight, pays, queue>>

Max0(x) == IF x < 0 THEN 0 ELSE x
SetPay(i, h) == pays' = [pays EXCEPT ![i] = h]

Init ==
    /\ env \in Environments
    /\ tip = 0 /\ final = 0 /\ landed = {}
    /\ card = [p \in Pages |-> [route |-> None, gasless |-> FALSE, enabled |-> FALSE]]
    /\ inFlight = [p \in Pages |-> FALSE]
    /\ pays = <<>>
    /\ queue = {}

-----------------------------------------------------------------------------
(* The network                                                             *)

Mine ==
    /\ tip < MaxTip
    /\ tip' = tip + 1
    /\ UNCHANGED <<env, final, landed, card, inFlight, pays, queue>>

Finalize ==
    /\ final < tip
    /\ final' = final + 1
    /\ UNCHANGED <<env, tip, landed, card, inFlight, pays, queue>>

Spent == LET amounts == [i \in DOMAIN pays |-> IF \E t \in landed : t.pay = i THEN pays[i].amount ELSE 0]
         IN FoldLeft(LAMBDA a, b : a + b, 0, amounts)

\* The keeper relays a payment while its blockhash lives and the payer can pay;
\* it may also be late or never come.
Land(q) ==
    /\ Routes[q.receiver] = "solana" /\ tip < MaxTip
    /\ tip + 1 <= pays[q.pay].lastValid
    /\ \A t \in landed : t.pay # q.pay
    /\ Spent + q.amount <= Balance
    /\ tip' = tip + 1
    /\ landed' = landed \cup {[pay |-> q.pay, slot |-> tip + 1]}
    /\ UNCHANGED <<env, final, card, inFlight, pays, queue>>

-----------------------------------------------------------------------------
(* The card                                                                *)

BugDraw(p, c) ==
    /\ card' = [card EXCEPT ![p] = [c EXCEPT !.enabled = c.gasless]]
    /\ pays' = [i \in DOMAIN pays |-> IF pays[i].page = p THEN [pays[i] EXCEPT !.shown = FALSE] ELSE pays[i]]
    /\ inFlight' = [inFlight EXCEPT ![p] = FALSE]

\* draw: a new card whose Pay button works; a running handler keeps the old,
\* now detached, one.
Draw(p, c) ==
    /\ card' = [card EXCEPT ![p] = [c EXCEPT !.enabled = c.gasless]]
    /\ pays' = [i \in DOMAIN pays |-> IF pays[i].page = p THEN [pays[i] EXCEPT !.shown = FALSE] ELSE pays[i]]
    /\ UNCHANGED inFlight

SelectRoute(p, r) ==
    /\ Draw(p, [card[p] EXCEPT !.route = r])
    /\ UNCHANGED <<world, queue>>

ToggleGasless(p) ==
    /\ card[p].route # None
    /\ Draw(p, [card[p] EXCEPT !.gasless = ~@])
    /\ UNCHANGED <<world, queue>>

\* parseDecimalToRawUnits: whole and fraction digits to raw units; None for zero
\* or too many digits.
ParseDecimalToRawUnits(t, d) ==
    IF Len(t.frac) > d THEN None
    ELSE LET raw == FoldLeft(LAMBDA a, x : 10 * a + x, t.whole, t.frac) * 10^(d - Len(t.frac))
         IN IF raw > 0 THEN raw ELSE None

\* The Pay button.
Click(p, t) ==
    /\ card[p].enabled /\ ~inFlight[p] /\ Len(pays) < MaxPays
    /\ ParseDecimalToRawUnits(t, Decimals) # None
    /\ inFlight' = [inFlight EXCEPT ![p] = TRUE]
    /\ card' = [card EXCEPT ![p].enabled = FALSE]
    /\ pays' = Append(pays, [page |-> p, route |-> card[p].route, amount |-> ParseDecimalToRawUnits(t, Decimals),
                             pc |-> "prepare", lastValid |-> 0, cursor |-> 0, polls |-> 0,
                             height |-> 0, shown |-> TRUE, told |-> None])
    /\ UNCHANGED <<world, queue>>

\* The handler ends: what it tells the payer, whether it hands its button back.
End(i, told, again) ==
    /\ SetPay(i, [pays[i] EXCEPT !.pc = "done", !.told = told, !.shown = FALSE,
                            !.cursor = 0, !.polls = 0, !.height = 0])
    /\ inFlight' = [inFlight EXCEPT ![pays[i].page] = FALSE]
    /\ card' = [card EXCEPT ![pays[i].page].enabled = @ \/ (again /\ pays[i].shown)]

\* A wallet refuses, a lookup fails, the API answers with an error.
PayFails(i) ==
    /\ pays[i].pc \in {"prepare", "sign", "submit"}
    /\ End(i, "failed", TRUE)
    /\ UNCHANGED <<world, queue>>

-----------------------------------------------------------------------------
(* Signing                                                                 *)

\* detectSnip9Version from the answers of supports_interface, "error" where the
\* RPC did not answer.
DetectSnip9Version(v2, v1) ==
    CASE v2 = "yes" -> "2"
      [] v2 # "yes" /\ v1 = "yes" -> "1"
      [] v2 = "error" /\ v1 = "error" -> "2"
      [] OTHER -> None

SupportsInterface(v) == {IF v \in env.supports THEN "yes" ELSE "no", "error"}

\* signStarknetTransfer up to the wallet's prompt.  The version stays in the typed
\* data: neither the payload nor the backend has a place for it.
PrepareStarknet(i) ==
    /\ pays[i].pc = "prepare" /\ Routes[pays[i].route] = "starknet"
    /\ \E v2 \in SupportsInterface("2"), v1 \in SupportsInterface("1") :
          DetectSnip9Version(v2, v1) # None
    /\ SetPay(i, [pays[i] EXCEPT !.pc = "sign"])
    /\ UNCHANGED <<world, card, inFlight, queue>>

\* signEvmTransfer up to the prompt: the wallet is on the card's chain.
PrepareEvm(i) ==
    /\ pays[i].pc = "prepare" /\ Routes[pays[i].route] = "evm"
    /\ SetPay(i, [pays[i] EXCEPT !.pc = "sign"])
    /\ UNCHANGED <<world, card, inFlight, queue>>

\* signSolanaTransfer up to the prompt: enough USDC, a recent blockhash, and
\* where the watch will start; without an answer for the head it starts at 0.
PrepareSolana(i) ==
    /\ pays[i].pc = "prepare" /\ Routes[pays[i].route] = "solana"
    /\ pays[i].amount <= Balance - Spent
    /\ \E head \in {final} \cup (IF env.loses THEN {0} ELSE {}) :
          SetPay(i, [pays[i] EXCEPT !.pc = "sign", !.lastValid = tip + Life, !.cursor = Max0(head - Rewind)])
    /\ UNCHANGED <<world, card, inFlight, queue>>

Sign(i) ==
    /\ pays[i].pc = "sign"
    /\ SetPay(i, [pays[i] EXCEPT !.pc = "submit"])
    /\ UNCHANGED <<world, card, inFlight, queue>>

\* The request: the route, chain and amount of the card that was clicked.
Request(i) ==
    [pay |-> i, receiver |-> pays[i].route, kind |-> Routes[pays[i].route], amount |-> pays[i].amount]

\* What /pay can read of the payloads the page makes: a Starknet call is [to,
\* selector, calldata] here, but [contractAddress, entrypoint, calldata] there.
Parses(i) == Routes[pays[i].route] # "starknet"

\* "malformed signature payload": nothing is queued.
Refused(i) ==
    /\ pays[i].pc = "submit" /\ ~Parses(i)
    /\ End(i, "refused", TRUE)
    /\ UNCHANGED <<world, queue>>

\* submitPayment is queued; Solana's outcome is awaited, the others are not.
Submit(i) ==
    /\ pays[i].pc = "submit" /\ Parses(i)
    /\ queue' = queue \cup {Request(i)}
    /\ IF Routes[pays[i].route] = "solana"
       THEN SetPay(i, [pays[i] EXCEPT !.pc = "wait"]) /\ UNCHANGED <<card, inFlight>>
       ELSE End(i, "queued", FALSE)
    /\ UNCHANGED world

\* It is queued but the answer is lost or late: the page reports a failure.
SubmitLost(i) ==
    /\ pays[i].pc = "submit" /\ Parses(i) /\ env.loses
    /\ queue' = queue \cup {Request(i)}
    /\ End(i, "failed", TRUE)
    /\ UNCHANGED world

-----------------------------------------------------------------------------
(* awaitSolanaSettlement                                                   *)

BugReadHeight(i) ==
    /\ pays[i].pc = "wait" /\ pays[i].polls < MaxPolls
    /\ SetPay(i, [pays[i] EXCEPT !.pc = "scan", !.polls = @ + 1, !.height = tip])
    /\ UNCHANGED <<world, card, inFlight, queue>>

\* Poll: the finalized height first.
ReadHeight(i) ==
    /\ pays[i].pc = "wait" /\ pays[i].polls < MaxPolls
    /\ SetPay(i, [pays[i] EXCEPT !.pc = "scan", !.polls = @ + 1, !.height = final])
    /\ UNCHANGED <<world, card, inFlight, queue>>

\* Transfers of this amount by this payer, from the cursor to the finalized head.
Matches(i) ==
    {t \in landed : /\ t.slot \in pays[i].cursor..final
                    /\ pays[t.pay].amount = pays[i].amount /\ pays[t.pay].route = pays[i].route}

\* The height read before the scan says whether the blockhash can still land.
Expired(i) == pays[i].height > pays[i].lastValid

Scan(i) ==
    /\ pays[i].pc = "scan"
    /\ CASE Matches(i) # {} -> End(i, "confirmed", FALSE)
         [] Matches(i) = {} /\ Expired(i) -> End(i, "expired", TRUE)
         [] OTHER -> /\ SetPay(i, [pays[i] EXCEPT !.pc = "wait", !.cursor = final + 1])
                     /\ UNCHANGED <<card, inFlight>>
    /\ UNCHANGED <<world, queue>>

BugPollFails(i) ==
    /\ pays[i].pc = "scan" /\ env.loses
    /\ SetPay(i, [pays[i] EXCEPT !.pc = "wait", !.polls = @ - 1])
    /\ UNCHANGED <<world, card, inFlight, queue>>

\* An RPC failure ends the poll, not the watch.
PollFails(i) ==
    /\ pays[i].pc = "scan" /\ env.loses
    /\ SetPay(i, [pays[i] EXCEPT !.pc = "wait"])
    /\ UNCHANGED <<world, card, inFlight, queue>>

GiveUp(i) ==
    /\ pays[i].pc = "wait" /\ pays[i].polls = MaxPolls
    /\ End(i, "unknown", FALSE)
    /\ UNCHANGED <<world, queue>>

\* The page's own steps once the wallet has signed.
RelayStep(i) ==
    Submit(i) \/ SubmitLost(i) \/ Refused(i) \/ ReadHeight(i) \/ Scan(i) \/ PollFails(i) \/ GiveUp(i)

Next ==
    \/ Mine \/ Finalize
    \/ \E q \in queue : Land(q)
    \/ \E p \in Pages : \/ \E r \in env.routes : SelectRoute(p, r)
                        \/ ToggleGasless(p)
                        \/ \E t \in Typed : Click(p, t)
    \/ \E i \in DOMAIN pays : \/ PayFails(i) \/ PrepareStarknet(i) \/ PrepareEvm(i) \/ PrepareSolana(i)
                              \/ Sign(i) \/ RelayStep(i)

\* API calls time out and polls follow a timer; a wallet may wait forever.
Fairness == \A i \in 1..MaxPays : WF_vars(i \in DOMAIN pays /\ RelayStep(i))

Spec == Init /\ [][Next]_vars /\ Fairness

-----------------------------------------------------------------------------
(* Properties                                                              *)

TypeOK ==
    /\ tip \in 0..MaxTip /\ final \in 0..tip
    /\ inFlight \in [Pages -> BOOLEAN]
    /\ card \in [Pages -> [route : DOMAIN Routes \cup {None}, gasless : BOOLEAN, enabled : BOOLEAN]]
    /\ \A i \in DOMAIN pays :
          /\ pays[i].amount \in Nat \ {0}
          /\ pays[i].pc \in {"prepare", "sign", "submit", "wait", "scan", "done"}
          /\ pays[i].polls \in 0..MaxPolls
          /\ pays[i].told \in {None, "failed", "refused", "queued", "confirmed", "expired", "unknown"}
    /\ \A t \in landed : t.slot \in 1..tip

\* A page has one payment at a time with the wallet or the network, however often
\* the payer redraws the card and gets a Pay button that works (pay.js:294).
OneInFlight ==
    \A p \in Pages : Cardinality({i \in DOMAIN pays : pays[i].page = p /\ pays[i].pc # "done"}) <= 1

\* "Nothing was sent. Please try again" is true for good (gasless.js:367 "nothing
\* moved, safe to retry"): a payment reported as expired is not on the chain and,
\* since this holds in every later state, never lands.  It depends on the order of
\* the height and the scan (gasless.js:375) and on the keeper being late.
ExpiredMeansUnpaid ==
    \A i \in DOMAIN pays : pays[i].told = "expired" => \A t \in landed : t.pay # i

\* Once the wallet has signed, the payer is told an outcome, RPC trouble or not.
OutcomeTold ==
    \A i \in 1..MaxPays :
        (i \in DOMAIN pays /\ pays[i].pc \in {"submit", "wait", "scan"}) ~>
            (i \in DOMAIN pays /\ pays[i].told # None)

\* gasless.js:366 "confirmed : the transfer is finalized on-chain": this payment's
\* transfer, that is, which another one of the same amount can stand in for.
ConfirmedMeansPaid ==
    \A i \in DOMAIN pays :
        pays[i].told = "confirmed" => \E t \in landed : t.pay = i /\ t.slot <= final
=============================================================================
