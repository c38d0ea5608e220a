# A TLA+ verification of Beanie

Beanie gives a merchant an address per route ("receiver") on EVM chains, Starknet and Solana. Payers send USDC to
it; a keeper finds the deposits in the chains' logs, deploys the receiver if it does not exist yet and sweeps it to
the destination the address commits to. A second part of the product relays claims from 2-of-2 stealth accounts. The
merchant's and the payer's pages are plain JavaScript: they compute the addresses themselves, keep lanes and deposits
in `localStorage`, and talk to wallets, passkeys, two RPC sources and the API.
This directory holds TLA+ models of those parts, the TLC runs that check them and the TLAPS proofs about them.
Paths below are relative to the repository root.

## 1. Inventory

| Component | State it keeps | Operations | Interacts with | What makes it correct |
|---|---|---|---|---|
| EVM receiver contracts (`evm_beanie/src/ReceiverFactory.sol`, `ChainXReceiver.sol`, `WebhookRegistry.sol`) | deployed clones and their pinned configuration, `merchantReceiversMap`, `webhookUrl`, balances | `announceReceiver`, `registerMerchant`, `initialize`, `sweep`, `setWebhookUrl` | called by anyone; the keeper calls through Multicall3 | the net amount of a receiver goes only where its address says; nothing is lost; fee within 0.50 %; nothing but a full list of receivers keeps a balance from being swept |
| EVM registry rebuild and log cache (`beanie_keeper/src/evm_indexer.rs`, `log_cache.rs`) | `chunks` and `checkpoints` trees, the rebuild's locals | `rebuild_registry_state`, `get/put_chunk`, `get/set_checkpoint`, `flush` | Subsquid Portal, catch-up, live scan | a cached chunk is what the chain holds; a snapshot is complete up to `scanned_to` |
| EVM indexer and live loop (`evm_indexer.rs`, `evm_ws.rs`, `beanie_api/src/transfer_workers/evm.rs`) | two checkpoints on disk, `merchant_map`, the tip channel, the cursor of the subscription | catch-up, tip subscription, registry scan, deposit scan, 5-minute reconciliation | Portal, sweep | every receiver behind the registry checkpoint is known; every deposit to an announced receiver is acted on, again only if a stop lost its checkpoint |
| EVM sweep (`transfer_workers/evm.rs`, `evm_keeper.rs`) | the `deployed` cache | `act_on_evm_deposits`, `sweep_evm_receivers`, `send_evm_multicall` | chain, webhook queue, everybody else who registers and sweeps | every deposit is forwarded; a cached receiver exists; merchants are told what happened |
| Starknet indexer and live loop (`starknet_indexer.rs`, `starknet_ws.rs`, `transfer_workers/starknet.rs`) | two checkpoints on disk, `merchant_map`, poller, debounce | catch-up, `discover_merchants`, `fetch_deposits_since_block`, reconciliation | full node | as on EVM |
| Starknet sweep and gasless payments (`transfer_workers/starknet.rs`, `starknet_keeper.rs`, `payment_workers.rs`, `payment_routes.rs`) | `deployed`, `next_nonce`, the payment queue | `act_on_starknet_deposits`, `run_payment_worker` (Starknet branch) | one keeper account, shared by both workers with the announce and stealth workers | no gap in the account's nonces; what is accepted and reported happens; deposits settle |
| Stealth claims (`stealth_routes.rs`, `stealth_workers.rs`, `auth.rs`) | claim queue, `Recent`, permits, `nonce_lock` | `execute_stealth_claim`, `run_round`, `relay_evm/starknet/solana` | passkey tokens, three families of chains | a claim is paid at most once, replays are refused before they cost anything, rounds end |
| Stealth accounts (`StealthAccount.sol`, `StealthFactory.sol`, `stealth_account.cairo`, SPL multisig) | existence, nonce, fee token | `createAccount`, `isValidSignature`, `__validate__`, `__execute__` | claims | created once, claim accepted once |
| Starknet receiver contracts (`starknet_beanie/src`) | as the EVM contracts | `announce`, `register_merchant`, `initialize`, `sweep` | keeper | as the EVM contracts |
| Solana program (`solana_beanie/programs`) | factory, merchant and receiver PDAs, delegation | `initialize_factory`, `announce_merchant`, `register_merchant`, `sweep` | keeper | as the EVM contracts |
| Solana indexer, worker, keeper (`solana_*.rs`, `transfer_workers/solana.rs`) | checkpoints, maps | polling, registration, batched and bridged sweeps | Solana RPC | as on EVM |
| Gasless payments on EVM and Solana (`payment_workers.rs`) | payment queue | transfer, register, sweep | shared keeper client | a payment is made at most once and swept |
| Webhook delivery (`webhook.rs`, `webhook_workers.rs`) | one job queue | sign, post, retry 5 times | merchants | a job is delivered or given up within its retries |
| Passkeys and rate limiter (`auth.rs`) | ceremonies, verified tokens, three windows | begin/finish, `consume_verified`, `check` | routes | single use, binding to one claim |
| Creation and announcement (`create_routes.rs`, `create_workers.rs`) | announce queue | predict, announce | factories | the announced route is the predicted one |
| Deposit watcher (`beanie_api/public/scripts/watcher.js`, `store.js`, `onchain.js`) | history, cursors, the lock of the tabs, back-off per chain | `pollNow`, `scanReceiver`, `scanDeposits`, `recordScan` | RPC, several tabs | no transfer skipped, none counted twice, every one counted in the end |
| Lanes, passkeys and backups (`beanie.js`, `lane.js`, `passkey.js`, `store.js`) | lanes, PRF root, auth credential, archive, backup files | `createLane`, `verifyLane`, `importBackup`, passkey ceremonies | API, authenticator, factories | a shared link pays to addresses the backend announces, and a private one can be recovered |
| Address derivation (`chains.js`, `identity.js`, `stealth.core.js`; `create_routes.rs`, `create_workers.rs`) | none | `merchantIdentity`, `cctpRoute`, `derive` | factories | frontend and backend derive the same receivers |
| Checkout page (`pay.js`, `gasless.js`, `api.js`, `ui.js`) | the card, `inFlight`, the settlement watch | select, sign, submit, watch | wallets, API, Solana | one payment at a time; what the payer is told is true |
| Private-lane page (`stealth.js`, `stealth.claim.js`) | rows, selection, the running claim, watches | `refresh`, `claim`, `pollClaimBalance` | passkeys, API, chains | a claim moves what was asked from the lane's account, once, and leaves no secret |
| RPC proxy, configuration, start-up, presentation | none of their own | | | |

The hard behaviours, listed at their lines in `PROJECT.json` under `hazards`, are of six kinds:

* two checkpoints that survive a restart while the maps they vouch for do not, and that are committed before what
  they count is handed over;
* indexers that lag, fail in the middle of a range, reorganize or forget a tip;
* transactions that are dropped, executed with their receipt lost, or overtaken by somebody else who calls the same
  permissionless contract;
* several workers, or several rounds, that share an account, a nonce or a queue;
* rounded arithmetic and caps in contracts that nobody can repair after deployment;
* pages whose handlers interleave at every `await`, in several tabs over one storage that may refuse a write, with
  prompts and requests that are cancelled, time out or lose their answer.

## 2. Modules

| Module | Models | Checked by | Proved in |
|---|---|---|---|
| `EvmReceivers` | the three EVM contracts | `MCEvmReceivers` | `EvmProofs` |
| `RegistryRebuild` | registry rebuild over the log cache, with the chain | itself | `RegistryRebuildProofs` |
| `EvmIndexer` | EVM catch-up, subscription and live loop | `MCEvmIndexer` | `EvmIndexerProofs` |
| `EvmSweep` | EVM sweep pass, batch, receipt, webhook jobs | `MCEvmSweep` | `EvmProofs` |
| `StarknetIndexer` | Starknet catch-up, poller, live loop | `MCStarknetIndexer` | `StarknetProofs` |
| `StarknetSweep` | Starknet sweep pass and the payment worker's Starknet branch | `MCStarknetSweep` | `StarknetProofs` |
| `StealthClaims` | claim route, dedupe, rounds and the chains | `MCStealthClaims` | `StealthClaimsProofs` |
| `DepositLedger` | abstract: what the deposit list promises | as `ImplementsLedger` | implemented: `DepositWatcherProofs` |
| `DepositWatcher` | the deposit watcher of all tabs; implements `DepositLedger` | `MCDepositWatcher` | `DepositWatcherProofs` |
| `LaneAddresses` | who derives which address, frontend and backend | through `LaneCreation` | through `PageProofs` |
| `LaneCreation` | passkeys, lane creation, verification, backups | `MCLaneCreation` | `PageProofs` |
| `Checkout` | card, signers, settlement watch | `MCCheckout` | `CheckoutProofs` |
| `StealthPage` | balances, claim, builders, watch of a claim | `MCStealthPage` | `PageProofs` |

An `MC...` module only defines values for constants. `PROJECT.json` maps every definition to the lines it stands for.

### The environment of a behaviour

Nine of the modules have a variable `env`, chosen in `Init` from the constant `Environments` and never changed
(`faults` and `FaultSets` in `StarknetSweep`, `scene` and `Scenes` in `StealthPage`): the set of faults that may
happen in that behaviour (`"crash"`, `"lag"`, `"drop"`, ...; each module's header explains its own). A fault action
has `"x" \in env` as a conjunct. One run therefore checks a property under all faults, and those that only hold
without some fault say so in their antecedent, for example `NoDepositSkipped == Calm => ...`. Every antecedent is met
by an environment of the run: that is what the mutants show, which are found under it. Where an antecedent excludes a
fault, the code does break the property under that fault: the property does not catch it, and section 5 says how. In
the four modules of the pages an
element of `Environments` also picks what the run looks at in that behaviour (which chains, forms, lanes or tabs),
which keeps the product of all of them out of one state space.

### `EvmReceivers`

An address is the route it commits to: `Predict` maps a route to `<<merchant, chain name or Zero, recipient>>`, because
`_salt` hashes exactly these and CREATE2 makes the address a function of the salt. `config` is the storage of each
clone and of the implementation behind them (`NoCode`, `Uninitialized` or the pinned fields), `merchantReceivers` is
`merchantReceiversMap`. The actions are the external functions; `Deposit` is an ERC-20 transfer. `Sweep` has the whole
of `sweep()`: fee, the caller's share, the treasury's, and a transfer or a CCTP burn with its fee ceiling.
`Registrable` is what `registerMerchant` checks and `Sweepable` what `sweep` does: an announced receiver with money
satisfies one of them, or its merchant's list of receivers is full (`StuckOnlyByCap`), which
anybody can bring about (section 5). `deposited`, `swept`, `paidNet`, `paidFee` and `netDest` are history the properties
speak of. Token amounts are naturals (uint256 does not overflow: the largest product is a balance times 10 000).

### `RegistryRebuild`

The chain is a function from blocks to events with a head, and reorgs of at most `ReorgDepth` blocks. `chunks` and
`checkpoint` are the sled trees. A rebuild reads chunk after chunk (`ReadChunk` from the cache, `MissChunk`,
`FetchBatch`, `FetchStop`, `StoreChunk` from Portal), ends in `Finish`, `NoProgress` or `FetchFail`; `LiveScan` is
`discover_registry_activity` advancing the same checkpoint. `Crash` loses the process and any subset of the writes
that were not flushed. The assumption `ReorgDepth <= REORG_SAFETY_BLOCKS` is the constant's stated purpose
(`evm_indexer.rs:80-84`).

### `EvmIndexer` and `StarknetIndexer`

Both have the chain's blocks (each with at most one event of interest), the two checkpoints, the map with three
values per receiver (`absent`, `bare` for a `ReceiverRegistered` row without a route, `routed`), the tip channel and
the phase the worker is in. One action is one request and what is done with its answer, so that the chain, the
subscription and a crash interleave between any two requests. `EvmIndexer` takes the catch-up's registry rebuild as
one step with the contract proved of `RegistryRebuild` (complete up to `scanned_to`); `StarknetIndexer` has no cached
chunks, commits its checkpoint after each chunk and does not retry its catch-up, as in the code. `acted` counts how
often the deposit of a block was acted on.

`set_checkpoint` only inserts; the one explicit `flush()` is at the end of a catch-up (`evm_indexer.rs:1197`), the live
path has none. `EvmIndexer` therefore keeps what is surely on disk (`regSaved`, `depSaved`) beside the two checkpoints,
and `Crash(reg, dep)` restarts each, independently, from any value since the last flush. `forgotten` counts for each
block how often a stop lost the deposits checkpoint behind it: such a block is scanned and acted on again, and
`ActedOnce` allows once more for each such loss, and not otherwise.

### `EvmSweep` and `StarknetSweep`

A balance is the set of transfers it is made of, so that it can be said which deposit a sweep forwarded. The actions
follow `sweep_evm_receivers` and `act_on_starknet_deposits`: balance filter, existence check with an arbitrary set of
unanswered receivers, the calls, the send, the receipt. On EVM the batch is atomic (`allow_failure = false`). On
Starknet nobody waits for a receipt: transactions are in `pool` until the sequencer executes them in the order of
their nonces, the transfer worker numbers with `next_nonce`, the others ask the node, and existence is asked of the
L1-accepted state `l1`, a subset of `code`. The account has been used before (`FirstNonce` > 0), so that the 0 an
unanswered `get_nonce` becomes is a wrong nonce (`NonceUnanswered`). The announce and stealth workers are `SendOther`:
invokes that only take a nonce. An invoke is atomic and contains the payer's outside execution, which a payer may make
revert until it is executed (`Void`): signature used, money spent, time over. The webhook map of the transfer worker is
the empty map of `starknet.rs:76`, so nobody is ever told of a Starknet transfer; `told` is about payments.

In the run of `EvmSweep` a merchant may have fewer receivers than are paid (`ReceiverCap`), and `Overfull(m)` says
that a merchant's unregistered paid receivers are more than fit on its list.

### `StealthClaims`

Two claims of one account on each family. `Submit` is the route (a passkey redemption is used up whether or not the
claim is queued), `Dequeue` takes a permit and consults `Recent`, `Check` .. `Confirm` are the steps of a round between
requests, `Abort` is a failed request, an exhausted poll or `ROUND_TIMEOUT`, `Forget` is `DEDUPE_TTL`. On EVM every
round sends a transaction of its own and creates the account inside it; on Starknet and Solana the claim is the one
transaction the client signed, preceded by a transaction of the keeper under `nonce_lock` (Starknet) or tolerant of a
lost race (Solana). `Estimate` and `Send` are two requests, as in `relay_evm`: the Starknet gateway and the Solana node
check the claim again when it is sent, an EVM node does not. `late` is history: claims that were paid already when a
round of theirs began, for which there is no exception in `ReplaysRefused`. Amounts other than the fee top-up,
signatures and message layouts are abstracted: a claim is well-formed, and what may go wrong with it is expiry, its
nonce, a revert, or having been paid.

### `DepositLedger` and `DepositWatcher`

A page runs one piece of script at a time, so in all four page modules a step is what happens between two `await`s.
`worker[t][c]` is the `scanChain` of a tab and chain: it opens a receiver (`OpenReceiver`, `FirstCursor`), reads the
head (`ReadHead`) and records a window (`ScanWindow`, whose `RecordScan` and `Store` are `store.recordScan` with its
two writes). A chain's transfers are a list with their blocks, and what a scan finds is the set of their places in it,
which is their order too; the id of an entry has the ordinal `recordScan` counts within the scan, while `EntryTable`
counts over all transfers of the receiver. That the two agree, because a transaction lies in one block, is the lemma
`WindowIndependent`. A failure, a refused write or too many signatures end the chain's pass and make it back off.
`lock` is the Web Lock; without it (`"nolocks"`) the tabs scan side by side. `DepositLedger` says what this is for:
what has been reported of a receiver has no hole, never shrinks and is on the chain. The refinement maps its
`reported` to the entries ever added and its `start` to the block watching began at. The head and the logs of one
window are taken from a source that knows both; a node behind the one that gave the head would break `NothingSkipped`
and is not modelled.

The signatures of a Solana account (`Signatures`) are those of the transfers and of all other transactions that touch
it (`OtherTxs`: sweeps, failed ones), as `getSignaturesForAddress` lists them all and the limit on pages counts them
all. A receiver that is too far behind fails at every poll, and because `scanChain` stops at the first failure
(`watcher.js:61-63`) the receivers after it on its chain are never reached: `HeldUp`. The run has two Solana receivers
for this, and one chain of each family.

`recordScan` reads the history, merges and writes it in one piece of synchronous script. That no other tab's write
comes in between without Web Locks (`store.js:122`) is an assumption about `localStorage`, whose storage mutex browsers
implement in different ways.

### `LaneAddresses` and `LaneCreation`

Addresses are free terms: `<<"receiver", kind, leg, merchant, route>>`, `<<"keccak20", ...>>`. `LaneAddresses` has the
frontend's derivation beside the backend's (`WorkerMerchant`, `AnnouncedReceivers`), so that `SharedRegistered` fails
if they disagree on any pair of chains. How the backend writes a felt (`{:#064x}` in `create_routes.rs:86`) is decided by
`starknet-types-core`, which is not in the repository, and `chains.js:19-28` asks to confirm what the page believes. The
page's belief is `BACKEND_FELT_FORMAT`, the backend's format is a part of the environment (`env.format`), and nothing
relates them. `SharedRegistered` demands that every receiver of a link is one the backend announces; if the two differ
it excepts the EVM receivers of Starknet payouts (`HashedFelt`), which nobody registers then. The run of `LaneCreation`
has environments of both kinds. `LaneCreation` is `createLane` with its passkey ceremonies step by step:
`create[t].pc` names the call awaited. `Registered` is a whole registration with `archive` and `adopt`; `AuthStart`
has the 409 path; `Announce` may lose its answer; `Finish` discovers the Solana receiver, saves, downloads the backup
and opens the link. `Import`, `VerifyStart` .. `VerifyReceivers` are the backup's way in. The two RPC sources answer
rightly, not at all, or, one of them, wrongly. `shared` and `saved` are history: links given out, files downloaded.

### `Checkout`

`pays` holds the click handlers begun, each with its own `route` and `amount`, because the closure keeps those of the
card that was clicked while `Draw` replaces the card. `Prepare...` and `Sign` are the three signers up to and from the
wallet's prompt, `Submit`, `SubmitLost` and `Refused` the request and its answers, `ReadHeight`, `Scan`, `PollFails`,
`GiveUp` the settlement watch. The keeper may land a transfer while its blockhash lives (`Land`) or never. `Parses` is
what `serde` makes of a payload: the backend cannot read the calls of the page's Starknet payloads and refuses them, so
what `execute_from_outside_v2` would do with a signature for SNIP-9 v1 is not modelled. Solana's slots and heights are
one number, and the height, the head and the signatures come from one view of the chain; `rpc()` may in fact fall back
to the other node for any single call (`onchain.js:105-113`), so `ExpiredMeansUnpaid` assumes that the two agree on
what is finalized. The casing of chain names in requests is assumed to be what the API reads (section 5).

### `StealthPage`

`scans`, `claim` and `polls` are the refreshes, the claim and the watches of a page, all at their own `await`.
A transaction is its contents, so a hash is the record and a binding can be compared. `Account` depends on the lane,
the passkey that answers and the cosigner published when the claim is made. `Pay` is the backend and the chain: a
transaction executes at most once and, on Starknet, at the account's nonce.

## 3. Runs

All bounds are small because the questions are about orders of steps, not sizes; each was raised until every action
and every fault occurred in combination.

| Run | Bounds | What it shows |
|---|---|---|
| `EvmReceivers` | 1 merchant, 3 valid routes and one invalid name, cap 2, 2 payments of 1, 199 or 5000 | `SettledWhereAnnounced`, `Conservation`, `FeeBounded`, `StuckOnlyByCap`, `RegistryConsistent` for any order of calls by anyone. 199 is the largest balance with fee 0, 5000 one with an exact fee; the cap is below the number of routes so that it bites |
| `RegistryRebuild` | 5 blocks, chunks of 2, margin 1, 1 reorg | `CacheFaithful`, `SnapshotComplete` with crashes at any point and partial answers; two full chunks and a partial one |
| `EvmIndexer` | 3 blocks, 2 receivers, tip channel of 1; a checkpoint is lost at most once per block | 380,000 states; under all faults `ActedOnce`, `CatchUpCoverage`, with the faults in pairs that meet (crashes and lag together would be 1.5 million states more; the theorems cover them); without the faults their comments name `NothingMissed` (`MapComplete` for receivers, `NoDepositSkipped` for deposits), and `DepositsActedOn` with undecodable tips. Three blocks are announcement, deposit and a block between or after |
| `EvmSweep` | 3 receivers of 2 merchants, cap 1, 3 transfers | 138,000 states; `DeployedIsDeployed`, `NotifiedWereSettled`, and `EveryDepositSettles`, unless some merchant is over the cap, although balance checks fail and sends are dropped. One merchant has two receivers and so may be |
| `StarknetIndexer` | 3 blocks, chunks of 2 | `ActedOnce` under all faults; `NothingMissed` (`MapComplete`, `NoDepositSkipped`) and `DepositsActedOn` without |
| `StarknetSweep` | 2 receivers, 3 transfers, 2 payments, 1 task of the other workers, an account used once before | 607,000 states; `NoNonceGap` under all faults and all workers; `AcceptedIsMade` (`DeployedOrPending`, `ToldWereMade`) while nobody else registers; `EveryDepositSettles` while the worker is alone, with and without the balance filter. Six combinations of faults (the theorems cover all) |
| `StealthClaims` | 2 claims, 2 submissions each, 2 permits, queue of 2 | 264,000 states; `ReplaysRefused` (but for the EVM race), `ConfirmedWasPaid`, `RoundsEnd` under all faults; `SpentOnce`: `OneTxPerClaim` through failing requests, `FundedOnce` without bursts; `QueuedIsPaid` if nothing fails. Duplicates in the queue make the permits bind |
| `DepositWatcher` | 2 tabs, 3 chains with 2 blocks, 5 receivers, windows of 2, history of 3, 1 fault | 104,000 states; two EVM and two Solana receivers and one on Starknet, a transaction with two equal transfers, a receiver without a start block, a Solana receiver that can fall too far behind, because of a transaction that is no deposit, before another; the history is small enough to forget. `CountedExactlyOnce` (`NothingSkipped`, `CountedOnce`), `ImplementsLedger`, `DepositsCounted` |
| `LaneCreation` | 2 tabs, 4 chains, 3 passkeys and a synced one, 2 creations, 2 backup files, 6 environments | 128,000 states; one good file, one with a receiver of another payout and a repeated id. `SharedRegistered` in two formats of felts, `NothingOrphaned` (`SharedRecoverable`, `CredentialsArchived`), `RootPinned`, `CreateEnds` |
| `Checkout` | 1 page, a receiver per family, 2 payments, 4 blocks, blockhash life 1, 2 polls | 260,000 states; `OneInFlight`, `ExpiredMeansUnpaid`, `OutcomeTold`. The chain is longer than a blockhash lives and the balance covers two payments |
| `Checkout_confirmed` | same | violation of `ConfirmedMeansPaid`: another transfer of the same amount is taken for this payment's |
| `StealthPage` | 2 claims, up to 2 lanes and 2 tabs, 2 deposits, 2 polls, 1 rotation | `ClaimFaithful` (`ClaimAsAsked`, `OwnAccountOnly`, `TokenBoundToClaim`, `SecretWiped`), `RetryPaysOnce`, `ProcessedMeansSpent`, `ClaimEnds`; lanes with and without the passkey and the cosigner on record |

Names in parentheses are the conjuncts of the invariant before them; where one of them speaks of a hazard of its own
it has a mutant of its own in `PROJECT.json`. `TypeOK` of each module (`SweepTypes` in the
two sweeps, `PageTypes` in `StealthPage`) documents the ranges of its variables; those of all modules but `Checkout`,
`LaneCreation` and `StealthPage` are theorems, and so are the action properties `PinnedForever` and
`CheckpointForward`, which therefore no run repeats.

Deadlock is checked except where the bounds let the system stop: `EvmReceivers` (payments), `StarknetSweep` (without a
balance pass the system is quiet once every deposit is seen), `StealthClaims` (submissions), and the runs of the pages
(blocks, payments, claims and faults are bounded; a user need not do anything). No run uses symmetry.

### Fairness

* `EvmIndexer`: the worker task keeps running (`WF(Worker)`), the subscription keeps pushing, and `tokio::select!`,
  which picks a ready branch at random, does not starve the tip channel or the reconciliation tick (`SF`).
* `EvmSweep`: the tick comes again and again, and requests that may fail succeed infinitely often if tried infinitely
  often (`SF` on the successful answers). A send that can only be refused ends its pass.
* `StarknetIndexer`: as `EvmIndexer`; the poller needs none because the forced scan of the tick covers it.
* `StarknetSweep`: weak fairness on the steps of the transfer and payment workers and on the sequencer. Nothing is
  repeated, so strong fairness would not help.
* `StealthClaims`: one weak fairness condition for "the worker, a round or a chain goes on". The number of rounds is
  finite, so this is enough and it assumes no order.
* `DepositWatcher`: some visible page ticks (`setInterval`), a call it makes ends in an answer, an error or its
  timeout, and a back-off is over at some time (`MAX_BACKOFF_MS`). It need not be the same tab each time.
* `LaneCreation`: a creation takes a step; failing is one, since every request and prompt has a timeout and the
  discovery a deadline.
* `Checkout`: only once the wallet has signed (requests time out, the watch follows a timer). A wallet may wait for
  ever and so may the page.
* `StealthPage`: a claim takes a step (its prompts have timeouts) and a watch follows its timer.

No fairness is put on payers, clients, other callers, users, wallets, the keeper's landing, faults or crashes.

## 4. Proofs

`tlapm` checks the eight proof modules to the last leaf. Their assumptions are the named `ASSUME`s of the models,
which TLC evaluates on the runs. Three of them extend two models each: `EvmProofs` the contracts and the sweep,
`StarknetProofs` the sweep and the indexer, `PageProofs` the two pages of the merchant. Two models extended by one
module share no names and no state, which is why `EvmSweep` and `StarknetSweep` have a `SweepInit`, `SweepNext` and
`SweepSpec` and `StealthPage` a `PageInit`, `PageNext` and `PageSpec`; no step of a proof relates the two. Of what is
listed in `PROJECT.json`, the theorems with a `property` are what TLC also checks on a small instance. In each module
`IInv` is the inductive invariant (`SnInv` for `StarknetIndexer`, `LcInv` for `LaneCreation`, `SpInv` for
`StealthPage`, `LedgerInv` and `RouteInv` for the contracts): `...InitInv` and `...NextInv` prove it, the latter from
one lemma per action; steps of the same shape share a lemma that says what such a step may change (`HandlerStep`,
`MoveStep`, `QuietStep`, ...).

`EvmProofs`, about `EvmReceivers`, for every set of merchants, names, recipients and amounts and every cap:

* `TypeCorrect`; `OnlyTheCapBlocks` (`StuckOnlyByCap`): from `BurnArithmetic`, the fact that the rounded CCTP ceiling of
  a positive balance is below its net amount, and from `RegistryConsistent` and `RouteInv`: a clone that exists is
  initialized with the route it was announced for, and one that does not exist can be registered unless the list is full.
* `NothingLost` and `FeesBounded` from the inductive `LedgerInv == TypeOK /\ Conservation /\ FeeBounded`, resting on
  `FeeArithmetic`: the fee is at most 50 basis points and its shares add up to it, for every balance.
* `NoCustody` (`SettledWhereAnnounced`). The property speaks of what was paid out and of what was announced; it is
  not inductive because the next sweep is decided by `config`. `RouteInv` adds that an initialized clone is pinned to
  the configuration its address commits to (`PinnedRoute`) and that an announcement is for the predicted address
  (`AnnouncedRoute`).
* `DestinationsPinned` (`[][...]_vars`: an initialized receiver is never reconfigured); `RegistryCorrect`: the list of
  a merchant is exactly its deployed clones.

About `EvmSweep`, for every set of receivers and deposits and every cap: `SweepTypeCorrect`, `CacheTruthful`
(`DeployedIsDeployed`), `WebhookAfterSweep` (`NotifiedWereSettled`). The status of a receipt is not looked at, so the
invariant has to say that a batch that passed gas estimation executes if nobody races it (`InflightExecutes`), and
that the batch of a pass covers every deposit the pass reports (`PassCovers`).

`RegistryRebuildProofs`, for every chunk size, safety margin, reorg depth within the margin and chain length:
`RebuildTypes`, `CacheIsFaithful`, `SnapshotIsComplete`, `CheckpointMovesForward`. The inductive
`IInv == TypeOK /\ CacheFaithful /\ CacheSettled /\ FoundSoFar /\ PartSoFar` is needed because `CacheFaithful` alone
does not survive a reorg: cached chunks must also lie behind the margin (`CacheSettled`), and the rows collected so
far must be contiguous and agree with the chain where no reorg of the rebuild's head reaches.

`EvmIndexerProofs`, for every chain length, set of receivers and tip channel: `TypeCorrect`, `AtMostOnce`
(`ActedOnce`), `Complete` (`NothingMissed`) and the action property `CatchUpCovers`. `ActedOnce` needs that a block
acted on more often than it was forgotten, or pending, is behind the deposits checkpoint (`BehindCheckpoint`), that no
checkpoint on disk is ahead of its value in memory and that a scan's positions are ordered (`Positions`). The half of
`NothingMissed` about receivers speaks only of the waiting worker; inductive is what the rows collected by a scan under
way add to the map (`MapCovers`), and the half about deposits needs that the registry is never behind the deposits
while nothing goes wrong (`RegistryFirst`). `Remember...`, `DepositReturned` and `AnswersBound` are the lemmas about
the operators.

`StarknetProofs`, about `StarknetSweep`, for any number of receivers, transfers, payments and tasks and any first nonce:
`SweepTypeCorrect`, `NoStall` (`NoNonceGap`), `AcceptanceKept` (`AcceptedIsMade`), `NoRevert`. `NoNonceGap` follows from
`Numbered`: the pool's transactions carry exactly the nonces from the account's to `Top`, each once, and the cached nonce
is at most `Top`. `AcceptedIsMade` needs `PoolSound` (what the keeper itself puts into an invoke on its way does not
revert, and no two register one receiver) and `OnePaymentEach`, and `PoolSound` in turn `TopIsCurrent`: a cached nonce
the node would accept means that the worker remembers every registration on its way. `NoRevert` says what is left: an
accepted invoke reverts only by the payer's own call.

About `StarknetIndexer`, for every chain length, set of receivers, tip channel and chunk size: `TypeCorrect`,
`AtMostOnce` (`ActedOnce`) and `Complete` (`NothingMissed`). The chunks move the checkpoint before their rows are
merged, and the catch-up collects rows of its own before there is a map: inductive is what the map and the rows of the
scan under way know together (`SnMapCovers`), with `SnChunkKnows` for a chunk on top of any map.

`StealthClaimsProofs`, for any number of claims, accounts, permits and submissions: `TypeCorrect`,
`ConfirmedMeansPaid`, `KeeperPaysOnce` (`SpentOnce`) and the action property `PaidNotSentAgain` (`ReplaysRefused`),
whose exception has to be earned (`Fresh`): a round that is about to send for a paid EVM claim began before the payment,
and the transaction that paid was that of an earlier round, which only a lost answer or a restart cuts off while it is on
its way.
The invariant relates `Recent` to the rounds under way (`RecentKnows`), receipts to the chain (`ReceiptsTrue`), and
bounds what rounds have sent and signed (`RoundsDiffer`, `SignedOnce`, `Awaited`, `OneAtATime`, `FundsEmpty`). Type
correctness includes the capacity of the queue and the number of rounds; the second is a budget that each submission
spends once, `Budget`, proved by counting.

`DepositWatcherProofs`, for any number of tabs, chains, receivers, transfers and blocks, any window and any length of
the history:

* `Refinement`: `Spec => ImplementsLedger`. `Mine` is the ledger's `Grow`, `FirstCursor` its `Watch`, `ScanWindow` its
  `Report`, or a stutter if storage refused the history; every other step stutters.
* `ExactlyOnce` (`CountedExactlyOnce`) and `TypeCorrect`. `NothingSkipped` speaks of the stored cursor, but another
  tab may store its own, older or newer, at any time: inductive is that nothing uncounted lies behind the cursor of
  any worker either (`WorkersSound`), that a receiver watched "from now" starts at a block its chain has reached
  (`Starts`; a second tab may move the start forward), and that what was counted is in the history or has fallen out
  of it (`Remembered`).
* the lemmas on what a scan adds: `WindowIndependent`, `AddedIs`, `EntriesSplit`, `Merged`, `Cut`.

`CheckoutProofs`, for any number of pages, payments and blocks, any blockhash life, rewind and number of polls:
`OnePayment` (`OneInFlight`), `SafeToRetry` (`ExpiredMeansUnpaid`). That an
expired payment never lands needs that the watch has not passed its own transfer (`WatchBehind`), that a transfer
lands while its blockhash lives (`Relayed`) and that the blockhash of an expired payment is dead (`ExpiredForGood`).

`PageProofs`, about `LaneCreation`, for any chains, forms, tabs, number of passkeys and of lanes:

* `LinksRegistered` (`SharedRegistered`), `LinksRecoverable` (`NothingOrphaned`) and the action property
  `RootNeverReplaced` (`RootPinned`).
* A link is opened by `Finish` or from a stored lane, long after the receivers were predicted and the account derived.
  Inductive is what each stage of a creation has established (`LcCreate`: `LcBuilt` for the account, `LcReady` for the
  receivers, `LcPending` while the token's passkey prompt may still bring the secret), that a stored lane is fit to be
  shared unless it waits for verification, in which case it is one of a file (`LcStored`), and that a verification
  goes on with the record that is still stored (`LcVerify`). `LcKept` says that a private lane in the storage is also
  in a file of the user, which is what survives clearing the storage.
* The lemmas on the operators: `LcConfirmed` (of two sources at most one is wrong, so what both say is the address),
  `LcMerchant` (on every leg the page and the backend see the same merchant, if they write felts alike, the address is no
  felt, or the leg does not hash it), `LcReceivers` (what
  the page predicts or discovers is among what the backend announces), `LcMerge` (an import keeps what is stored and
  adds only lanes of the file).
* Assumed of a backup file: it was exported by the merchant, so its lanes have ids no new lane gets, were announced, and
  name no passkey if they are public. Its receivers, passkeys and configurations are whatever the file says.

About `StealthPage`, for any number of tabs, lanes, deposits, claims, polls and scans:

* `ClaimsFaithful` (`ClaimFaithful`), `RetriesPayOnce` (`RetryPaysOnce`), `ProcessedWasSpent` (`ProcessedMeansSpent`).
* `SpClaimOK` says what each step of a claim has established and holds for the requests in the queue too
  (`SpRequestOK`). `RetryPaysOnce` needs `SpPaid`: the nonce of a Starknet account is the number of payments from it,
  and they carry different nonces below it; it is proved with the theorems on cardinalities. `ProcessedMeansSpent`
  compares two balances read at different times: inductive is that a balance any row, refresh, selection, claim or
  watch remembers is still covered, unless the account has paid out (`SpSeen`).
* Assumed: lanes are stored by their ids (`store.js` keeps an object), so an account belongs to one lane.

Only model-checked, because the prover cannot do it:

* all liveness (`DepositsActedOn`, `EveryDepositSettles`, `RoundsEnd`, `QueuedIsPaid`, `DepositsCounted`,
  `OutcomeTold`, `CreateEnds`, `ClaimEnds`): fairness and `ENABLED`;
* what folds compute: `TypeOK` of `Checkout` says that a payment's amount is a positive number, which
  `ParseDecimalToRawUnits` obtains with a fold over the digits (induction over data). The invariant of
  `CheckoutProofs` says instead that the amount is one of those the payer's inputs parse to.

The type invariants of `LaneCreation` and `StealthPage` are not theorems: their proofs need of each record only the
fields a property depends on, and say those in `LcInv` and `SpInv`.

The proofs of `LaneCreation` exposed two places of the model TLC could not: `merchantIdentity` and `Registered` used
`CASE` with arms that overlap, of which TLC takes the first while TLA+ leaves the choice open; the arms are disjoint
now. `Import` folded over the file; it is stated as the function the fold computes.

## 5. Where code and documentation disagree

The run `Checkout_confirmed` finds a promise of the code's comments violated; `PROJECT.json` quotes the line.
"confirmed" means that this payment's transfer is finalized (`gasless.js:366`). The watch takes any transfer of the same
amount by the same payer since shortly before the signing. A submit whose answer is lost is reported as failed, its
transfer lands, the payer pays again and is told "confirmed" although the second transfer never lands.

Beside `Checkout_confirmed` stands a choice of the page no run is about: after a submit that timed out the Pay button
works again though the payment is queued, so a payer who follows "Please try again" may be charged twice.

Not decided by this repository, or not modelled: `chains.js:17` sends chain names in lower case while the `Chain` of
`models.rs:39` is deserialized from upper case, which the comment of `chains.js:12-16` tells to fix by flipping the
constant (the models take it as flipped); whether `{:#064x}` gives the 64 digits the page believes
(`chains.js:19-28`; `SharedRegistered` says what depends on it); and no webhook is ever sent for a transfer on
Starknet or Solana, whose workers pass an empty webhook map (`transfer_workers/starknet.rs:76`, `solana.rs:4-10` says so),
though `README.md:242` promises one for every deposit.

Found with counterexamples, and kept here in prose, without a run. Each is the exception that a property above makes,
where one is named:

* "Money that arrives at any receiver ends up with the merchant" (`README.md:60`). The factory announces receivers
  without looking at the cap (`announceReceiver`) and refuses to register them beyond it (`ReceiverFactory.sol:102`);
  anyone may fill the list of a merchant. Money at an address without code stays there (`StuckOnlyByCap`).
* "a failed sweep is retried and not lost" (`README.md:333`). The batch of a reconciliation is atomic
  (`transfer_workers/evm.rs:660`), so one receiver that cannot be registered stops the deposits of all merchants, at
  every tick (`Overfull` in `EveryDepositSettles`).
* The same promise on Starknet, where the reconciliation scans for new deposits but re-checks no balance. When another
  worker took the nonce the invoke is refused (`transfer_workers/starknet.rs:403`) and its deposits lie behind the
  checkpoint (`EveryDepositSettles` excludes the other users of the account).
* The webhook comes "after the deposit is swept" (`README.md:126`). It is queued when the invoke is accepted
  (`payment_workers.rs:529`), and the payer's call in it may still revert (`voided` in `AcceptedIsMade`).
* "A replayed claim fails at preflight" (`stealth_workers.rs:634-635`). On EVM the preflight and the broadcast are two
  requests (`:1274`, `:1281`), and the claim may be paid in between by a round that was dropped (the exception of
  `ReplaysRefused`).
* "Payload shapes follow the backend docs exactly" (`gasless.js:3-4`). The calls of a Starknet payload are
  `{to, selector, calldata}` on the page and `{contractAddress, entrypoint, calldata}` in `CallDto`
  (`models.rs:92-97`): 400, malformed signature payload (`Refused`). Nor does the payload name the SNIP-9 version the
  page detected and signed for, while `payment_workers.rs:478` always calls `execute_from_outside_v2`.
* Portal answers with a head behind the saved checkpoint after a restart. The rebuild stops there
  (`evm_indexer.rs:911`), the live scan resumes at the checkpoint, and receivers announced in between stay unknown
  until the next restart.
* The live path never flushes its checkpoints, so after a stop it acts again on deposits it has acted on
  (`evm_indexer.rs:1197` is the only flush; `ActedOnce` counts those stops). Swept receivers hold nothing, so as a rule
  nothing is sent; if one of them has been paid again, or the batch holds any other money, the old deposits are reported
  a second time, with the new transaction.
* The Starknet registry checkpoint survives a restart, the receivers read before it do not
  (`starknet_indexer.rs:468`).
* `register_merchant` is part of every Starknet payment, so the second payment to a receiver fails
  (`payment_workers.rs:391`).
* A Starknet deposit whose sweep failed for any other reason is not looked at again either
  (`transfer_workers/starknet.rs:403`).
* If `get_nonce` is not answered the transfer worker takes 0 for its nonce (`transfer_workers/starknet.rs:378-389`),
  and the invoke of that pass, and its deposits, are lost.

Seen while modelling and excluded by the antecedent of a property, which therefore does not catch it: a fatal Portal
error in the middle of a live scan drops rows the checkpoint counts (`MapComplete` of `EvmIndexer`); a registry scan
that lags behind the tip lets the deposit scan pass a new receiver's deposit (`NoDepositSkipped`), and a stop between
checkpoint and action loses it for the log-driven path (the EVM balance pass still forwards it); `send_evm_multicall`
does not look at the receipt's status, so a batch overtaken by another registrant marks receivers as deployed
(`DeployedIsDeployed`); a receiver whose existence check failed, or that somebody else swept, is reported with the
others of its batch (`NotifiedWereSettled`); a Starknet catch-up that fails is not retried and its chunks are behind
the checkpoint (`MapComplete` of `StarknetIndexer`); somebody else who registers a receiver first makes an accepted
invoke revert (`AcceptedIsMade`); claims of one account in a burst fund it more than once (`FundedOnce`). Not stated as
a property: `WebhookRegistry.setWebhookUrl` writes `webhookUrl[msg.sender]`, which for calls through Multicall3 is not
the merchant.

Of the pages: a Solana receiver more signature pages behind than one scan may read stays there, and the receivers
scanned after it on its chain are never reached (`watcher.js:61-63`; `DepositsCounted` says so); if the history is
written and the cursor refused, the entry is there but no listener is told of it; a passkey whose registration answer
is lost is not archived; a verification that is under way while the storage is cleared and another record of the same
id imported clears that record's flag (the model closes the pages with the storage); of two claims of a lane in flight
"processed" may be said of the one that was not paid (`ProcessedMeansSpent` speaks of the lane); a refresh may
overwrite a newer balance, so that a claim asks for a stale amount, which the chain refuses or leaves a remainder of; a
second EVM claim may pay as well if a deposit came in between.

## 6. Not modelled, and the plan

Left out for good: the RPC proxy, configuration and start-up wiring (no state of their own), byte-level encodings and
cryptography (signatures are valid or the claim is not well-formed), gas prices, and of the pages the presentation
(theming, QR codes, the embed script, the history list and its badge, the chain filter, parsing of the link) and the
bundled `starknet.js`. The server side of the passkey ceremonies is a call that may fail.

Next, in this order:

1. `SolanaReceivers`: the Anchor program (announce, register, delegated sweep, CCTP), with the promises of
   `EvmReceivers` as its properties, and an abstract `Receivers` specification that both implement (route pinned,
   settled once, nothing lost) stated with `INSTANCE ... WITH`.
2. `SolanaWorker`: indexer, registration and sweep passes of the Solana worker.
3. `Payments`: the EVM and Solana branches of the payment worker, with the shared nonce manager, and announcement.
4. `WebhookDelivery` and `Auth`: the job queue with its retries; ceremonies, tokens and rate windows.
5. The Starknet receiver contracts as a second implementation of the abstract specification.
