----------------------------- MODULE StealthPage -----------------------------
(***************************************************************************)
(* The private-lane page: balances, the claim and its background watch     *)
(* (stealth.js), and the claim builders (stealth.claim.js).  Two tabs may  *)
(* show the same lanes; on one page a refresh, a claim and the watches of  *)
(* earlier claims interleave at their awaits.  Verifying, exporting and    *)
(* importing lanes are in LaneCreation, the backend's rounds in            *)
(* StealthClaims: here an accepted claim may pay at any later time.        *)
(*                                                                         *)
(* A transaction is its contents, so its hash is the record itself.        *)
(***************************************************************************)
EXTENDS Integers, FiniteSets

CONSTANTS
    Pages, Passkeys,
    Destinations,       \* addresses to claim to; Own is the lane's own account
    Own,
    HasTokenAccount,    \* destinations with a USDC token account on Solana
    POLLS,              \* polls of pollClaimBalance
    MaxClaims, MaxScans,    \* bounds: claims begun, refreshes of a page at once
    Scenes,         \* [lanes, funds, pages, dests, root, rotates, fails]: the lanes kept and the
                    \* bound on each one's deposits, the tabs open, what is typed, this browser's
                    \* root passkey, whether the cosigner changes, whether calls fail
    Nothing

Cosigners == {1, 2}

StealthPageOK ==
    /\ Nothing \notin Nat
    /\ POLLS \in Nat \ {0} /\ MaxClaims \in Nat /\ MaxScans \in Nat
    /\ Own \in Destinations /\ HasTokenAccount \subseteq Destinations
    /\ \A e \in Scenes :
          /\ e.funds \in Nat /\ e.root \in Passkeys \cup {Nothing} /\ {e.rotates, e.fails} \subseteq BOOLEAN
          /\ e.dests \subseteq Destinations /\ e.pages \subseteq Pages
          /\ \A l, m \in e.lanes : l.id = m.id => l = m    \* lanes are stored by id

ASSUME StealthPageAssumption == StealthPageOK

VARIABLES
    scene,      \* the scene of this behaviour
    cosigner,   \* the one the API publishes
    bal, came,  \* per lane: USDC of its account, deposits so far
    nonce,      \* per lane: nonce of its Starknet account
    queue,      \* claims the backend accepted: [chain, hash, derived, token]
    paid,       \* transactions that moved their funds
    rows,       \* per page: lane |-> balance shown, Nothing for "-"; Nothing before the first refresh
    scans,      \* per page: refreshes under way
    selected,   \* per page: [lane, balance], or Nothing
    claim,      \* per page: the claim under way
    polls,      \* per page: watches of queued claims
    told,       \* per page: the last word about a claim: [lane, what]
    begun       \* claims begun

chainVars == <<cosigner, bal, came, nonce, paid>>
pageVars == <<rows, scans, selected, told>>
pageState == <<scene, chainVars, queue, pageVars, claim, polls, begun>>

Lanes == scene.lanes

\* derive: the account follows from the lane, its PRF secret and the cosigner, the
\* client key from the first two.
Client(l, secret) == <<l.id, secret>>
Account(l, secret, cos) == <<Client(l, secret), cos>>
TargetRecipient(l) == Account(l, l.by, l.cosigner)

\* No claim: busy is false, secret and signer hold nothing.
Idle == [busy |-> FALSE, pc |-> "idle", lane |-> Nothing, balance |-> 0, dest |-> Own, config |-> Nothing,
         secret |-> Nothing, signer |-> Nothing, tx |-> Nothing, binding |-> Nothing]

SetClaim(p, c) == claim' = [claim EXCEPT ![p] = c]

PageInit ==
    /\ scene \in Scenes
    /\ cosigner = 1
    /\ bal = [l \in Lanes |-> 0] /\ came = [l \in Lanes |-> 0] /\ nonce = [l \in Lanes |-> 0]
    /\ queue = {} /\ paid = {}
    /\ rows = [p \in Pages |-> Nothing]
    /\ scans = [p \in Pages |-> {}]
    /\ selected = [p \in Pages |-> Nothing]
    /\ claim = [p \in Pages |-> Idle]
    /\ polls = [p \in Pages |-> {}]
    /\ told = [p \in Pages |-> Nothing]
    /\ begun = 0

-----------------------------------------------------------------------------
(* The chains and the API                                                  *)

Deposit(l) ==
    /\ came[l] < scene.funds
    /\ bal' = [bal EXCEPT ![l] = @ + 1] /\ came' = [came EXCEPT ![l] = @ + 1]
    /\ UNCHANGED <<scene, cosigner, nonce, paid, queue, pageVars, claim, polls, begun>>

RotateCosigner ==
    /\ scene.rotates /\ cosigner = 1
    /\ cosigner' = 2
    /\ UNCHANGED <<scene, bal, came, nonce, paid, queue, pageVars, claim, polls, begun>>

\* A transaction executes once, from an account that holds the amount; on Starknet
\* at the account's nonce.
Pay(l, tx) ==
    /\ tx \notin paid /\ tx.from = TargetRecipient(l) /\ tx.amount <= bal[l]
    /\ tx.kind = "starknet" => tx.nonce = nonce[l]
    /\ bal' = [bal EXCEPT ![l] = @ - tx.amount]
    /\ nonce' = [nonce EXCEPT ![l] = IF tx.kind = "starknet" THEN @ + 1 ELSE @]
    /\ paid' = paid \cup {tx}
    /\ UNCHANGED <<scene, cosigner, came, queue, pageVars, claim, polls, begun>>

-----------------------------------------------------------------------------
(* Balances                                                                *)

\* refresh: every lane's balance is asked for at once.
RefreshStart(p) ==
    /\ Cardinality(scans[p]) < MaxScans
    /\ scans' = [scans EXCEPT ![p] = @ \cup {[left |-> Lanes, got |-> [l \in Lanes |-> Nothing]]}]
    /\ UNCHANGED <<scene, chainVars, queue, rows, selected, told, claim, polls, begun>>

RefreshRead(p, s, l) ==
    /\ l \in s.left
    /\ \E b \in {bal[l]} \cup (IF scene.fails THEN {Nothing} ELSE {}) :
          scans' = [scans EXCEPT ![p] = (@ \ {s}) \cup {[left |-> s.left \ {l}, got |-> [s.got EXCEPT ![l] = b]]}]
    /\ UNCHANGED <<scene, chainVars, queue, rows, selected, told, claim, polls, begun>>

\* All rows are replaced, by balances that may be older than a watch's.
RefreshEnd(p, s) ==
    /\ s.left = {}
    /\ rows' = [rows EXCEPT ![p] = s.got]
    /\ scans' = [scans EXCEPT ![p] = @ \ {s}]
    /\ UNCHANGED <<scene, chainVars, queue, selected, told, claim, polls, begun>>

\* A click on a row; the balance selected is the one shown.
Select(p, l) ==
    /\ rows[p] # Nothing
    /\ selected' = [selected EXCEPT ![p] = [lane |-> l, balance |-> rows[p][l]]]
    /\ UNCHANGED <<scene, chainVars, queue, rows, scans, told, claim, polls, begun>>

-----------------------------------------------------------------------------
(* The claim                                                               *)

\* The button: what is selected and typed now is what the claim is about.
ClaimStart(p, dest) ==
    /\ ~claim[p].busy /\ begun < MaxClaims
    /\ selected[p] # Nothing /\ selected[p].balance \notin {Nothing, 0}
    /\ SetClaim(p, [Idle EXCEPT !.busy = TRUE, !.pc = "resolve", !.lane = selected[p].lane,
                                !.balance = selected[p].balance, !.dest = dest])
    /\ begun' = begun + 1
    /\ UNCHANGED <<scene, chainVars, queue, pageVars, polls>>

BugFinallyBusy(p) == SetClaim(p, [Idle EXCEPT !.busy = claim[p].pc = "derive"])
BugFinallyWipe(p) == SetClaim(p, [Idle EXCEPT !.secret = claim[p].secret])

\* finally: the secret is wiped, the signer dropped, the button handed back.
Finally(p) == SetClaim(p, Idle)

\* catch, then finally.
ClaimFails(p) ==
    /\ claim[p].pc # "idle"
    /\ told' = [told EXCEPT ![p] = [lane |-> claim[p].lane, what |-> "failed"]]
    /\ Finally(p)
    /\ UNCHANGED <<scene, chainVars, queue, rows, scans, selected, polls, begun>>

\* resolveStealthConfig: a snapshot must equal what the API publishes now.
ResolveClaimConfig(p) ==
    /\ claim[p].pc = "resolve"
    /\ claim[p].lane.snapshot => claim[p].lane.cosigner = cosigner
    /\ SetClaim(p, [claim[p] EXCEPT !.pc = "unlock", !.config = cosigner])
    /\ UNCHANGED <<scene, chainVars, queue, pageVars, polls, begun>>

\* evaluatePrf: the lane's passkey, else the root, else any the user picks.
PasskeysFor(l) ==
    IF l.prf # Nothing THEN {l.prf} ELSE IF scene.root # Nothing THEN {scene.root} ELSE Passkeys

EvaluateLanePrf(p) ==
    /\ claim[p].pc = "unlock"
    /\ \E c \in PasskeysFor(claim[p].lane) :
          SetClaim(p, [claim[p] EXCEPT !.pc = "derive", !.secret = c])
    /\ UNCHANGED <<scene, chainVars, queue, pageVars, polls, begun>>

BugDeriveSigner(p) ==
    /\ claim[p].pc = "derive"
    /\ \E a \in {Account(claim[p].lane, claim[p].secret, claim[p].config)} :
          SetClaim(p, [claim[p] EXCEPT !.pc = "build", !.signer = a])
    /\ UNCHANGED <<scene, chainVars, queue, pageVars, polls, begun>>

\* deriveStealthSigner, and the check that it is the lane's account.
DeriveSigner(p) ==
    /\ claim[p].pc = "derive"
    /\ \E a \in {Account(claim[p].lane, claim[p].secret, claim[p].config)} :
          /\ a = TargetRecipient(claim[p].lane)
          /\ SetClaim(p, [claim[p] EXCEPT !.pc = "build", !.signer = a])
    /\ UNCHANGED <<scene, chainVars, queue, pageVars, polls, begun>>

PaidFrom(l) == {t \in paid : t.from = TargetRecipient(l)}

BugStarknetAccountNonce(l) == Cardinality({q \in queue : q.hash.from = TargetRecipient(l)})

\* starknetAccountNonce: "latest", and zero for an account not deployed yet.
StarknetAccountNonce(l) == nonce[l]

\* What tells two transactions apart: EVM's random nonce, Solana's blockhash (taken
\* to be a new one each time), Starknet's account nonce.
TxNonce(c) == IF c.lane.kind = "starknet" THEN StarknetAccountNonce(c.lane) ELSE begun

BugTx(p) ==
    LET c == claim[p] IN
    [kind |-> c.lane.kind, from |-> c.signer, to |-> c.dest, amount |-> selected[p].balance, nonce |-> TxNonce(c),
     seen |-> Cardinality(PaidFrom(c.lane))]

\* The transaction a builder makes; "seen" only records which payments from the
\* account came before.
Tx(p) ==
    LET c == claim[p] IN
    [kind |-> c.lane.kind, from |-> c.signer, to |-> c.dest, amount |-> c.balance, nonce |-> TxNonce(c),
     seen |-> Cardinality(PaidFrom(c.lane))]

\* buildEvmClaim, buildStarknetClaim, buildSolanaClaim.
Build(p) ==
    /\ claim[p].pc = "build"
    /\ claim[p].dest # Own
    /\ claim[p].lane.kind = "solana" => claim[p].dest \in HasTokenAccount /\ came[claim[p].lane] > 0
    /\ SetClaim(p, [claim[p] EXCEPT !.pc = "approve", !.tx = Tx(p)])
    /\ UNCHANGED <<scene, chainVars, queue, pageVars, polls, begun>>

\* derivedAddress of a built claim: on Solana it is the client key.
DerivedAddress(c) == IF c.lane.kind = "solana" THEN c.signer[1] ELSE c.signer

BugBinding(c) == <<c.lane.kind, TargetRecipient(c.lane), c.tx>>

\* What the token of the second prompt is bound to.
Binding(c) == <<c.lane.kind, DerivedAddress(c), c.tx>>

GetVerifiedToken(p) ==
    /\ claim[p].pc = "approve"
    /\ SetClaim(p, [claim[p] EXCEPT !.pc = "submit", !.binding = Binding(claim[p])])
    /\ UNCHANGED <<scene, chainVars, queue, pageVars, polls, begun>>

Request(p) ==
    LET c == claim[p] IN
    [chain |-> c.lane.kind, hash |-> c.tx, derived |-> DerivedAddress(c), token |-> c.binding,
     asked |-> [lane |-> c.lane, balance |-> c.balance, dest |-> c.dest]]

\* submitStealthClaim is accepted; the watch starts in the background.
SubmitClaim(p) ==
    /\ claim[p].pc = "submit"
    /\ queue' = queue \cup {Request(p)}
    /\ told' = [told EXCEPT ![p] = [lane |-> claim[p].lane, what |-> "queued"]]
    /\ polls' = [polls EXCEPT ![p] = @ \cup {[lane |-> claim[p].lane, previous |-> claim[p].balance,
                                              left |-> POLLS, ref |-> claim[p].tx]}]
    /\ Finally(p)
    /\ UNCHANGED <<scene, chainVars, rows, scans, selected, begun>>

\* It is accepted, but the answer is lost or late: the page reports a failure.
SubmitClaimLost(p) ==
    /\ claim[p].pc = "submit" /\ scene.fails
    /\ queue' = queue \cup {Request(p)}
    /\ told' = [told EXCEPT ![p] = [lane |-> claim[p].lane, what |-> "failed"]]
    /\ Finally(p)
    /\ UNCHANGED <<scene, chainVars, rows, scans, selected, polls, begun>>

-----------------------------------------------------------------------------
(* pollClaimBalance                                                        *)

Watched(p, w) == selected[p] # Nothing /\ selected[p].lane = w.lane

SayIfSelected(p, w, what) ==
    told' = [told EXCEPT ![p] = IF Watched(p, w) THEN [lane |-> w.lane, what |-> what] ELSE @]

BugFell(w) == bal[w.lane] <= w.previous

Fell(w) == bal[w.lane] < w.previous

\* One balance read: the row and a selection of the lane follow it.
Poll(p, w) ==
    /\ w.left > 0
    /\ rows' = [rows EXCEPT ![p][w.lane] = bal[w.lane]]
    /\ selected' = [selected EXCEPT ![p] = IF Watched(p, w) THEN [lane |-> w.lane, balance |-> bal[w.lane]] ELSE @]
    /\ IF Fell(w)
       THEN polls' = [polls EXCEPT ![p] = @ \ {w}] /\ SayIfSelected(p, w, "processed")
       ELSE polls' = [polls EXCEPT ![p] = (@ \ {w}) \cup {[w EXCEPT !.left = @ - 1]}] /\ UNCHANGED told
    /\ UNCHANGED <<scene, chainVars, queue, scans, claim, begun>>

\* A failed read counts as a poll.
PollFails(p, w) ==
    /\ w.left > 0 /\ scene.fails
    /\ polls' = [polls EXCEPT ![p] = (@ \ {w}) \cup {[w EXCEPT !.left = @ - 1]}]
    /\ UNCHANGED <<scene, chainVars, queue, pageVars, claim, begun>>

PollsOver(p, w) ==
    /\ w.left = 0
    /\ polls' = [polls EXCEPT ![p] = @ \ {w}]
    /\ SayIfSelected(p, w, "unchanged")
    /\ UNCHANGED <<scene, chainVars, queue, rows, scans, selected, claim, begun>>

ClaimStep(p) ==
    \/ ClaimFails(p) \/ ResolveClaimConfig(p) \/ EvaluateLanePrf(p) \/ DeriveSigner(p) \/ Build(p)
    \/ GetVerifiedToken(p) \/ SubmitClaim(p) \/ SubmitClaimLost(p)

PollStep(p) == \E w \in polls[p] : Poll(p, w) \/ PollFails(p, w) \/ PollsOver(p, w)

PageNext ==
    \/ RotateCosigner
    \/ \E l \in Lanes : Deposit(l) \/ \E q \in queue : Pay(l, q.hash)
    \/ \E p \in scene.pages :
          \/ RefreshStart(p)
          \/ \E s \in scans[p] : RefreshEnd(p, s) \/ \E l \in s.left : RefreshRead(p, s, l)
          \/ \E l \in Lanes : Select(p, l)
          \/ \E dest \in scene.dests : ClaimStart(p, dest)
          \/ ClaimStep(p) \/ PollStep(p)

\* Calls and passkey prompts have timeouts, and polls follow a timer.
PageFairness == \A p \in Pages : WF_pageState(ClaimStep(p)) /\ WF_pageState(PollStep(p))

PageSpec == PageInit /\ [][PageNext]_pageState /\ PageFairness

-----------------------------------------------------------------------------
(* Properties                                                              *)

PageTypes ==
    /\ cosigner \in Cosigners
    /\ \A l \in Lanes : bal[l] \in 0..came[l] /\ nonce[l] \in 0..MaxClaims
    /\ \A p \in Pages :
          /\ rows[p] # Nothing => \A l \in Lanes : rows[p][l] \in 0..scene.funds \cup {Nothing}
          /\ claim[p].pc \in {"idle", "resolve", "unlock", "derive", "build", "approve", "submit"}
          /\ claim[p].balance \in 0..scene.funds
          /\ \A w \in polls[p] : w.left \in 0..POLLS /\ w.previous \in 1..scene.funds
          /\ told[p] # Nothing => told[p].what \in {"queued", "processed", "unchanged", "failed"}

\* The claim that reaches the backend moves what was asked for when the button was
\* clicked, to the destination typed then (stealth.js:133-134), though the selection
\* and the balances changed under the two passkey prompts.
ClaimAsAsked ==
    \A q \in queue :
        q.hash.to = q.asked.dest /\ q.hash.amount = q.asked.balance /\ q.hash.kind = q.asked.lane.kind

\* A claim only ever spends from the account its lane was created with, whichever
\* passkey answers and whichever cosigner the API publishes by then; of a lane
\* without a snapshot the address alone tells (stealth.js:161, lane.js:80-84).
OwnAccountOnly ==
    \A q \in queue : q.hash.from = TargetRecipient(q.asked.lane)

\* The token sent along is bound to the very claim it goes with (stealth.js:165
\* "Order matters"): the backend's binding is rebuilt from the request.
TokenBoundToClaim ==
    \A q \in queue : q.token = <<q.chain, q.derived, q.hash>>

\* No lane secret and no signer outlives the claim that needed it, however the claim
\* ended (stealth.js:193-198).
SecretWiped ==
    \A p \in Pages : ~claim[p].busy => claim[p].secret = Nothing /\ claim[p].signer = Nothing

\* A claim is faithful to the click it came from: amount, destination, account and
\* token are those of one lane and one moment, though two prompts, a rotation and
\* another tab come in between, and its secrets are gone when it ends.
ClaimFaithful == ClaimAsAsked /\ OwnAccountOnly /\ TokenBoundToClaim /\ SecretWiped

\* Claiming a Starknet lane again because the first try seemed lost, in this tab or
\* another, pays once: two claims made on the same state of the account never both
\* move funds (stealth.claim.js:125).
RetryPaysOnce ==
    \A t, u \in paid :
        t.kind = "starknet" /\ t # u /\ t.from = u.from => t.seen # u.seen

\* "Claim ... processed" is only said of a lane whose account has paid out a claim,
\* though deposits, refreshes and other claims move the balances meanwhile
\* (stealth.js:104).
ProcessedMeansSpent ==
    \A p \in Pages :
        told[p] # Nothing /\ told[p].what = "processed" => PaidFrom(told[p].lane) # {}

\* A claim ends and so does its watch: the button comes back and the page stops
\* polling, whatever fails.
ClaimEnds ==
    \A p \in Pages : (claim[p].busy \/ polls[p] # {}) ~> (~claim[p].busy /\ polls[p] = {})
==============================================================================
