---------------------------- MODULE StealthClaims ----------------------------
(***************************************************************************)
(* Claims of stealth accounts: POST /stealth/claim (stealth_routes.rs),    *)
(* the round each queued claim goes through (stealth_workers.rs) and the   *)
(* 2-of-2 accounts on the three families of chains (StealthAccount.sol,    *)
(* StealthFactory.sol, stealth_account.cairo, the SPL multisig).  Up to    *)
(* MAX_CONCURRENT_ROUNDS rounds run at once; each reads the chain, has the *)
(* account created if need be, sends the claim and waits for it, and may   *)
(* be cut off by ROUND_TIMEOUT while its transaction is on its way.        *)
(*                                                                         *)
(* A claim is a signed authorization: its family, the account it spends    *)
(* from and, on Starknet, the account nonce it is signed for.  Fees are    *)
(* counted in units of the largest fee a claim may ask for.                *)
(*                                                                         *)
(* env is what happens in a behaviour: "error" (a request fails), "lost"   *)
(* (the answer to a transaction, or the wait for it, runs out while it is  *)
(* on its way), "crash" (the process restarts), "expire" (an authorization *)
(* or a blockhash expires), "revert" (the calls of a Starknet claim        *)
(* revert) and "burst" (claims of one account are submitted together).     *)
(***************************************************************************)
EXTENDS Integers, Sequences, FiniteSets

CONSTANTS
  Claims,         \* the claims that may be submitted
  Accounts,       \* the stealth accounts
  Offers,         \* what the claims may be: a set of functions from Claims
  Environments,   \* what may happen in a behaviour: a set of sets
  MAX_CONCURRENT_ROUNDS,
  QUEUE,          \* capacity of the claim queue
  MAX_USES        \* bound: redemptions of verified tokens, and so submissions, per claim

Families == {"evm", "starknet", "solana"}

ASSUME ConstantsAssumption ==
  /\ \A o \in Offers :
       /\ DOMAIN o = Claims
       /\ \A c \in Claims :
            o[c].family \in Families /\ o[c].account \in Accounts /\ o[c].nonce \in Nat
  /\ MAX_CONCURRENT_ROUNDS \in Nat \ {0}
  /\ QUEUE \in Nat \ {0}
  /\ MAX_USES \in Nat

VARIABLES
  uses,       \* claim -> redemptions of verified tokens left
  queue,      \* the claim queue
  recent,     \* Recent.map: "none", "running" (false) or "ok" (true)
  step,       \* where the round of a claim is
  plan,       \* what the round read: whether to create, how much to fund
  tries,      \* claim -> rounds begun
  lock,       \* the claim whose round holds rt.nonce_lock, or None
  pool,       \* transactions on their way
  receipts,   \* executed transactions and whether they succeeded
  deployed,   \* the accounts that exist
  accNonce,   \* Starknet account -> its nonce
  strk,       \* Starknet account -> its fee token
  paid,       \* the claims whose funds were moved
  expired,    \* the claims that can no longer be executed
  offered,    \* claim -> its family, account and (Starknet) signed nonce
  env,
  late        \* history: claims that were paid when a round of theirs began

round  == <<recent, step, plan, tries, lock, late>>
ledger == <<deployed, accNonce, strk, paid>>
chain  == <<pool, receipts, ledger, expired>>
fixed  == <<offered, env>>
vars   == <<uses, queue, round, chain, fixed>>

None == "none"
NoPlan == [create |-> FALSE, fund |-> 0]

Active == {c \in Claims : step[c] # "idle"}

(* A claim is one transaction on Starknet and Solana, whose hash the client   *)
(* signs; on EVM every round makes one of its own.                            *)
ClaimTx(c) ==
  [kind |-> "claim", claim |-> c, try |-> IF offered[c].family = "evm" THEN tries[c] ELSE 0,
   create |-> offered[c].family = "evm" /\ plan[c].create, fund |-> 0]

(* The keeper's own transaction before the claim: account creation, top-up. *)
PrepTx(c) ==
  [kind |-> "prep", claim |-> c, try |-> tries[c],
   create |-> plan[c].create, fund |-> plan[c].fund]

ClaimTxs(c) == {t \in pool : t.kind = "claim" /\ t.claim = c}

-----------------------------------------------------------------------------
(* The chains *)

(* createAccount returns an account that exists; the UDC and                  *)
(* create_account_with_seed refuse to make one again.                         *)
Creates(t) ==
  t.create => offered[t.claim].family = "evm" \/ offered[t.claim].account \notin deployed

(* The account exists and takes the claim's two signatures: once, in time and *)
(* on Starknet for its nonce and with the fee in hand.                        *)
Validates(t) ==
  LET c == t.claim
      a == offered[c].account
  IN
  /\ c \notin paid \cup expired
  /\ a \in deployed \/ t.create
  /\ offered[c].family = "starknet" => accNonce[a] = offered[c].nonce /\ strk[a] >= 1

(* Whether a transaction would succeed now. *)
Executes(t) == Creates(t) /\ (t.kind = "claim" => Validates(t))

Settle(t, ok) ==
  /\ pool' = pool \ {t}
  /\ receipts' = receipts \cup {[tx |-> t, ok |-> ok]}

(* A transaction succeeds, or reverts without effect but for the fee and the  *)
(* nonce of a Starknet account.                                               *)
ExecuteTx(t) ==
  LET a  == offered[t.claim].account
      sn == t.kind = "claim" /\ offered[t.claim].family = "starknet"
  IN
  /\ \E ok \in {Executes(t)} \cup (IF sn /\ "revert" \in env THEN {FALSE} ELSE {}) :
       /\ Settle(t, ok)
       /\ deployed' = IF ok /\ t.create THEN deployed \cup {a} ELSE deployed
       /\ paid' = IF ok /\ t.kind = "claim" THEN paid \cup {t.claim} ELSE paid
  /\ IF sn /\ Executes(t)
       THEN /\ accNonce' = [accNonce EXCEPT ![a] = @ + 1]
            /\ strk' = [strk EXCEPT ![a] = @ - 1]
       ELSE /\ UNCHANGED accNonce
            /\ strk' = IF Executes(t) THEN [strk EXCEPT ![a] = @ + t.fund] ELSE strk
  /\ UNCHANGED <<uses, queue, round, expired, fixed>>

(* validBefore passes, or the blockhash of the message is too old. *)
Expire(c) ==
  /\ "expire" \in env
  /\ offered[c].family # "starknet"
  /\ c \notin expired
  /\ expired' = expired \cup {c}
  /\ UNCHANGED <<uses, queue, round, pool, receipts, ledger, fixed>>

-----------------------------------------------------------------------------
(* execute_stealth_claim *)

(* precheck, in the route and in the worker, may say: allowlists, caps and     *)
(* signatures are those of the claims offered, and an EVM authorization is    *)
(* refused MIN_AUTH_TTL_SECS before it expires.                               *)
Precheck(c) ==
  IF offered[c].family # "evm" THEN {TRUE}
  ELSE {ok \in BOOLEAN : /\ ok => c \notin expired
                         /\ ~ok => "expire" \in env}

(* The client submits a claim again while the earlier one is under way; one   *)
(* claim of an account after the other unless they come in a burst.           *)
MaySubmit(c) ==
  "burst" \notin env =>
    \A d \in Claims \ {c} :
      offered[d].account = offered[c].account =>
        step[d] = "idle" /\ \A i \in 1..Len(queue) : queue[i] # d

(* consume_verified, precheck, the rate limiter and try_send: a redemption is *)
(* gone whether or not the claim is queued.                                   *)
Submit(c, limited) ==
  /\ MaySubmit(c)
  /\ uses[c] > 0
  /\ uses' = [uses EXCEPT ![c] = @ - 1]
  /\ \E ok \in Precheck(c) :
       queue' = IF ok /\ ~limited /\ Len(queue) < QUEUE THEN Append(queue, c) ELSE queue
  /\ UNCHANGED <<round, chain, fixed>>

-----------------------------------------------------------------------------
(* start_stealth_workers and run_round *)

BugDequeue ==
  /\ queue # <<>>
  /\ Cardinality(Active) < MAX_CONCURRENT_ROUNDS
  /\ queue' = Tail(queue)
  /\ LET c == Head(queue) IN
       /\ recent' = [recent EXCEPT ![c] = "running"]
       /\ step' = [step EXCEPT ![c] = "check"]
       /\ tries' = [tries EXCEPT ![c] = @ + 1]
       /\ late' = late \cup ({c} \cap paid)
  /\ UNCHANGED <<uses, plan, lock, chain, fixed>>

(* A permit is free: the round begins, unless Recent knows the claim. *)
Dequeue ==
  /\ queue # <<>>
  /\ Cardinality(Active) < MAX_CONCURRENT_ROUNDS
  /\ queue' = Tail(queue)
  /\ LET c == Head(queue) IN
     IF recent[c] # "none" THEN UNCHANGED round
     ELSE /\ recent' = [recent EXCEPT ![c] = "running"]
          /\ step' = [step EXCEPT ![c] = "check"]
          /\ tries' = [tries EXCEPT ![c] = @ + 1]
          /\ late' = late \cup ({c} \cap paid)
          /\ UNCHANGED <<plan, lock>>
  /\ UNCHANGED <<uses, chain, fixed>>

BugFinish(c, ok) ==
  /\ recent' = IF ok THEN [recent EXCEPT ![c] = "ok"] ELSE recent
  /\ step' = [step EXCEPT ![c] = "idle"]
  /\ plan' = [plan EXCEPT ![c] = NoPlan]
  /\ lock' = IF lock = c THEN None ELSE lock
  /\ UNCHANGED <<tries, late>>

(* Recent::finish; the permit, the lock guard and all else the round holds    *)
(* are dropped with it.                                                       *)
Finish(c, ok) ==
  /\ recent' = [recent EXCEPT ![c] = IF ok THEN "ok" ELSE "none"]
  /\ step' = [step EXCEPT ![c] = "idle"]
  /\ plan' = [plan EXCEPT ![c] = NoPlan]
  /\ lock' = IF lock = c THEN None ELSE lock
  /\ UNCHANGED <<tries, late>>

Goto(c, s) == step' = [step EXCEPT ![c] = s] /\ UNCHANGED <<recent, tries, late>>

Waiting(c) == step[c] \in {"prepared", "confirm"}

(* A request fails, the polls for a receipt end, or ROUND_TIMEOUT drops the   *)
(* round wherever it is.                                                      *)
Abort(c) ==
  /\ step[c] # "idle"
  /\ (IF Waiting(c) THEN "lost" ELSE "error") \in env
  /\ Finish(c, FALSE)
  /\ UNCHANGED <<uses, queue, chain, fixed>>

(* DEDUPE_TTL, which is longer than any round. *)
Forget(c) ==
  /\ recent[c] = "ok"
  /\ recent' = [recent EXCEPT ![c] = "none"]
  /\ UNCHANGED <<uses, queue, step, plan, tries, lock, late, chain, fixed>>

Crash ==
  /\ "crash" \in env
  /\ queue' = <<>>
  /\ recent' = [c \in Claims |-> "none"]
  /\ step' = [c \in Claims |-> "idle"]
  /\ plan' = [c \in Claims |-> NoPlan]
  /\ lock' = None
  /\ UNCHANGED <<uses, tries, late, chain, fixed>>

-----------------------------------------------------------------------------
(* relay_evm, relay_starknet and relay_solana *)

BugShortfall(c) == IF offered[c].family = "starknet" THEN 1 ELSE 0

(* max_fee.saturating_sub(balance) *)
Shortfall(c) ==
  IF offered[c].family = "starknet" /\ strk[offered[c].account] = 0 THEN 1 ELSE 0

(* Whether the round goes on: the authorization is unused, the signed nonce   *)
(* is the account's (0 if it does not exist).                                 *)
Current(c) ==
  CASE offered[c].family = "evm"      -> c \notin paid
    [] offered[c].family = "starknet" -> accNonce[offered[c].account] = offered[c].nonce
    [] offered[c].family = "solana"   -> TRUE

(* The reads of the round, at once: the chain repeats every check of theirs.  *)
(* EVM creates the account within the claim, which is estimated first; the    *)
(* others need a transaction of their own, if anything is to be prepared.     *)
Check(c) ==
  LET todo == [create |-> offered[c].account \notin deployed, fund |-> Shortfall(c)] IN
  /\ step[c] = "check"
  /\ \E ok \in Precheck(c) :
       IF ok /\ Current(c)
       THEN /\ plan' = [plan EXCEPT ![c] = todo]
            /\ Goto(c, IF offered[c].family = "evm" THEN "estimate"
                    ELSE IF todo # NoPlan THEN "prepare" ELSE "send")
            /\ UNCHANGED lock
       ELSE Finish(c, FALSE)
  /\ UNCHANGED <<uses, queue, chain, fixed>>

BugPrepare(c) ==
  /\ step[c] = "prepare"
  /\ offered[c].family = "starknet" => lock = None
  /\ IF Executes(PrepTx(c))
       THEN /\ pool' = pool \cup {PrepTx(c)}
            /\ lock' = IF offered[c].family = "starknet" THEN c ELSE lock
            /\ Goto(c, "prepared")
            /\ UNCHANGED plan
       ELSE /\ Finish(c, FALSE)
            /\ UNCHANGED pool
  /\ UNCHANGED <<uses, queue, receipts, ledger, expired, fixed>>

(* Under nonce_lock on Starknet: the fee estimate or the simulation runs the  *)
(* transaction first.                                                         *)
Prepare(c) ==
  /\ step[c] = "prepare"
  /\ offered[c].family = "starknet" => lock = None
  /\ IF Executes(PrepTx(c))
       THEN /\ pool' = pool \cup {PrepTx(c)}
            /\ lock' = IF offered[c].family = "starknet" THEN c ELSE lock
            /\ Goto(c, "prepared")
            /\ UNCHANGED plan
       ELSE /\ IF offered[c].family = "solana"  \* lost a race: the multisig exists
                 THEN Goto(c, "send") /\ UNCHANGED <<plan, lock>>
                 ELSE Finish(c, FALSE)
            /\ UNCHANGED pool
  /\ UNCHANGED <<uses, queue, receipts, ledger, expired, fixed>>

(* wait_starknet_tx, or send_and_confirm and a second look at the multisig. *)
Prepared(c) ==
  /\ step[c] = "prepared"
  /\ \E r \in receipts :
       /\ r.tx = PrepTx(c)
       /\ IF r.ok \/ (offered[c].family = "solana" /\ offered[c].account \in deployed)
            THEN /\ Goto(c, "send")
                 /\ lock' = IF lock = c THEN None ELSE lock
                 /\ UNCHANGED plan
            ELSE Finish(c, FALSE)
  /\ UNCHANGED <<uses, queue, chain, fixed>>

(* The preflight of the claim.  The Starknet gateway also takes one           *)
(* transaction for a nonce only.                                              *)
Preflight(c) ==
  /\ Executes(ClaimTx(c))
  /\ offered[c].family = "starknet" =>
       ~\E t \in pool : t.kind = "claim" /\ offered[t.claim].account = offered[c].account

(* estimate_gas: a claim that would revert is refused. *)
Estimate(c) ==
  /\ step[c] = "estimate"
  /\ IF Preflight(c) THEN Goto(c, "send") /\ UNCHANGED <<plan, lock>> ELSE Finish(c, FALSE)
  /\ UNCHANGED <<uses, queue, chain, fixed>>

BugSend(c) ==
  /\ step[c] = "send"
  /\ pool' = pool \cup {ClaimTx(c)}
  /\ Goto(c, "confirm") /\ UNCHANGED <<plan, lock>>
  /\ UNCHANGED <<uses, queue, receipts, ledger, expired, fixed>>

(* The claim is relayed, or refused by the sequencer or the Solana node before*)
(* anything is spent.  An EVM node takes what was estimated with the gas it   *)
(* was given, and does not run it again.  A send that fails although it       *)
(* arrived is an Abort of the next step.                                      *)
Send(c) ==
  /\ step[c] = "send"
  /\ \/ /\ offered[c].family = "evm" \/ Preflight(c)
        /\ pool' = pool \cup {ClaimTx(c)}
        /\ Goto(c, "confirm") /\ UNCHANGED <<plan, lock>>
     \/ /\ offered[c].family # "evm" /\ ~Preflight(c)
        /\ Finish(c, FALSE)
        /\ UNCHANGED pool
  /\ UNCHANGED <<uses, queue, receipts, ledger, expired, fixed>>

BugConfirm(c) ==
  /\ step[c] = "confirm"
  /\ \E r \in receipts : r.tx = ClaimTx(c)
  /\ Finish(c, TRUE)
  /\ UNCHANGED <<uses, queue, chain, fixed>>

(* confirm_claim, wait_starknet_tx: the receipt's status decides. *)
Confirm(c) ==
  /\ step[c] = "confirm"
  /\ \E r \in receipts : r.tx = ClaimTx(c) /\ Finish(c, r.ok)
  /\ UNCHANGED <<uses, queue, chain, fixed>>

-----------------------------------------------------------------------------
Init ==
  /\ env \in Environments
  /\ offered \in Offers
  /\ uses = [c \in Claims |-> MAX_USES]
  /\ queue = <<>>
  /\ recent = [c \in Claims |-> "none"]
  /\ step = [c \in Claims |-> "idle"]
  /\ plan = [c \in Claims |-> NoPlan]
  /\ tries = [c \in Claims |-> 0]
  /\ lock = None
  /\ pool = {} /\ receipts = {}
  /\ deployed = {}
  /\ accNonce = [a \in Accounts |-> 0]
  /\ strk = [a \in Accounts |-> 0]
  /\ paid = {} /\ expired = {}
  /\ late = {}

Round(c) ==
  \/ Check(c)
  \/ Prepare(c)
  \/ Prepared(c)
  \/ Estimate(c)
  \/ Send(c)
  \/ Confirm(c)

Next ==
  \/ \E c \in Claims, limited \in BOOLEAN : Submit(c, limited)
  \/ Dequeue
  \/ \E c \in Claims : Round(c)
  \/ \E c \in Claims : Abort(c)
  \/ \E c \in Claims : Forget(c)
  \/ \E t \in pool : ExecuteTx(t)
  \/ \E c \in Claims : Expire(c)
  \/ Crash

Spec == Init /\ [][Next]_vars

(* The runtime goes on as long as the worker, a round or a chain can. *)
Fairness == WF_vars(Dequeue \/ (\E c \in Claims : Round(c)) \/ (\E t \in pool : ExecuteTx(t)))

FairSpec == Spec /\ Fairness

-----------------------------------------------------------------------------
(* The type invariant; only a round under way holds the lock. *)
TypeOK ==
  /\ env \in Environments /\ offered \in Offers
  /\ uses \in [Claims -> 0..MAX_USES]
  /\ Len(queue) <= QUEUE
  /\ recent \in [Claims -> {"none", "running", "ok"}]
  /\ step \in [Claims -> {"idle", "check", "prepare", "prepared", "estimate", "send", "confirm"}]
  /\ plan \in [Claims -> [create : BOOLEAN, fund : 0..1]]
  /\ tries \in [Claims -> 0..MAX_USES]
  /\ lock \in Claims \cup {None}
  /\ lock # None => step[lock] # "idle"
  /\ deployed \subseteq Accounts
  /\ accNonce \in [Accounts -> Nat]
  /\ strk \in [Accounts -> Nat]
  /\ late \subseteq paid /\ paid \subseteq Claims
  /\ expired \subseteq Claims

(* "A replayed claim fails at preflight" (stealth_workers.rs:635): whatever   *)
(* was submitted twice, timed out, crashed or forgotten by the dedupe, the    *)
(* keeper sends nothing for a claim that is paid already, but for an EVM      *)
(* claim that an earlier round, cut off while its transaction was on its way, *)
(* pays between the reads of this round and its broadcast.                    *)
ReplaysRefused ==
  [][\A c \in Claims :
       \/ ClaimTxs(c)' \subseteq ClaimTxs(c)
       \/ c \notin paid
       \/ offered[c].family = "evm" /\ c \notin late /\ env \cap {"lost", "crash"} # {}]_vars

(* "The in-memory dedupe is only a first line of defense"                     *)
(* (stealth_workers.rs:632): as long as the process lives and sees its        *)
(* transactions through, a claim submitted twice is never on its way twice,   *)
(* however its other requests fail and are retried.                           *)
OneTxPerClaim ==
  env \cap {"lost", "crash"} = {} => \A c \in Claims : Cardinality(ClaimTxs(c)) <= 1

(* A round that is reported as confirmed, and is not repeated for it, moved   *)
(* the funds.                                                                 *)
ConfirmedWasPaid == \A c \in Claims : recent[c] = "ok" => c \in paid

(* "The account pays its own fee in STRK and holds none: fund the shortfall"  *)
(* (stealth_workers.rs:1578): through failed rounds and retries an account is *)
(* never given more than the largest fee of one claim, as long as nobody      *)
(* claims from it twice at once and no round ends with its top-up on its way. *)
FundedOnce ==
  env \cap {"burst", "lost", "crash"} = {} => \A a \in Accounts : strk[a] <= 1

(* The keeper pays once for a claim, in gas and in top-ups, although it       *)
(* decides on what it read before the lock (stealth_workers.rs:632, 1578).    *)
SpentOnce == OneTxPerClaim /\ FundedOnce

(* A claim that was queued is paid if nothing fails, also if another claim    *)
(* of the account creates it at the same time.  On Starknet, claims that come *)
(* in a burst, or are signed for one nonce, exclude one another.              *)
QueuedIsPaid ==
  \A c \in Claims :
    /\ env \subseteq {"burst"}
    /\ offered[c].family = "starknet" =>
         /\ env = {}
         /\ offered[c].nonce = accNonce[offered[c].account]
         /\ \A d \in Claims \ {c} : offered[d] # offered[c]
    /\ \E i \in 1..Len(queue) : queue[i] = c
    ~> c \in paid

(* "failed rounds may be retried" (stealth_workers.rs:610): every round ends, *)
(* gives its permit back and leaves no entry that would refuse a retry.       *)
RoundsEnd == \A c \in Claims : recent[c] = "running" ~> recent[c] # "running"
===============================================================================
