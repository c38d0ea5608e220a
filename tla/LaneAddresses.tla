--------------------------- MODULE LaneAddresses ---------------------------
(***************************************************************************)
(* Where the money of a lane goes: the address algebra of the frontend     *)
(* (identity.js, the predicates of chains.js, stealth.core.js) and, beside *)
(* it, the backend's own (create_workers.rs), which must agree with it.    *)
(*                                                                         *)
(* Hashes, key derivations and CREATE2 are free constructors: an address   *)
(* is a tuple whose head says how it was made and whose second component   *)
(* is the kind of chain it is native to.                                   *)
(***************************************************************************)
EXTENDS Naturals, Sequences

CONSTANTS
    Chain,       \* CHAINS: name |-> [kind, factory, program, stealth]
    BACKEND_FELT_FORMAT,    \* how the page takes the backend to write a felt
    NoAddress

Kinds == {"evm", "starknet", "solana"}

ASSUME ChainAssumption ==
    \A c \in DOMAIN Chain :
        Chain[c] \in [kind : Kinds, factory : BOOLEAN, program : BOOLEAN, stealth : BOOLEAN]

Kind(c) == Chain[c].kind
KindOf(a) == a[2]

canPredict(c) == Kind(c) \in {"evm", "starknet"} /\ Chain[c].factory
laneChains == {c \in DOMAIN Chain : canPredict(c)}
canDiscover(c) == Kind(c) = "solana" /\ Chain[c].program
canSettle(c) == canPredict(c) \/ canDiscover(c)
stealthReady(c) == IF Kind(c) = "solana" THEN Chain[c].program ELSE Chain[c].stealth

\* What a person types or a backup file holds: [kind, n].  An address of another
\* chain has no canonical form.
canonicalAddress(c, typed) ==
    IF typed.kind = Kind(c) THEN <<"wallet", typed.kind, typed.n>> ELSE NoAddress

\* The string the page takes the backend to hash; a felt never has 64 digits, so
\* padding shows.
backendFeltString(a) == IF KindOf(a) = "starknet" THEN <<BACKEND_FELT_FORMAT, "string", a>> ELSE a

\* The merchant a leg's factory sees for the lane's identity.
merchantIdentity(leg, a) ==
    IF KindOf(a) = Kind(leg) THEN a
    ELSE CASE Kind(leg) = "evm" -> <<"keccak20", "evm", backendFeltString(a)>>
           [] Kind(leg) = "starknet" -> <<IF KindOf(a) = "evm" THEN "felt" ELSE "keccak20", "starknet", a>>
           [] Kind(leg) = "solana" -> <<"sha256", "solana", backendFeltString(a)>>

BugCctpRoute(leg, target, recipient) == <<target, recipient>>

\* No route on the settlement leg, else the settlement chain and the payout.
cctpRoute(leg, target, recipient) == IF leg = target THEN <<>> ELSE <<target, recipient>>

\* What the factory's predict function (or, on Solana, an announced receiver)
\* is for that merchant and route.
FactoryReceiver(leg, merchant, route) == <<"receiver", Kind(leg), leg, merchant, route>>

\* The merchant a leg is announced for: on the settlement leg the payout itself.
LegReceiver(leg, target, recipient, identity) ==
    FactoryReceiver(leg,
                    IF leg = target THEN recipient ELSE merchantIdentity(leg, identity),
                    cctpRoute(leg, target, recipient))

\* The stealth account of a lane: passkey secret (credential and lane salt),
\* chain and cosigner all go into it.
StealthAccount(credential, laneId, c, cosigner) ==
    <<"stealth", Kind(c), credential, laneId, c, cosigner>>

-----------------------------------------------------------------------------
(* The backend: announce_receiver fans out to every chain and the worker    *)
(* parses the address natively or derives one.                              *)

\* The string sent on, a felt in the format that "{:#064x}" gives, and which worker
\* arm parses it without a fallback.
Sanitized(format, a) == IF KindOf(a) = "starknet" THEN <<format, "string", a>> ELSE a
ParsesOn(leg, a) == KindOf(a) = Kind(leg) \/ (Kind(leg) = "starknet" /\ KindOf(a) = "evm")

WorkerMerchant(format, leg, a) ==
    IF ParsesOn(leg, a)
    THEN IF KindOf(a) = Kind(leg) THEN a ELSE <<"felt", "starknet", a>>
    ELSE <<IF Kind(leg) = "solana" THEN "sha256" ELSE "keccak20", Kind(leg), Sanitized(format, a)>>

\* The receivers the backend announces for one /create request.
AnnouncedReceivers(format, target, recipient, address) ==
    {FactoryReceiver(leg, WorkerMerchant(format, leg, IF leg = target THEN recipient ELSE address),
                     IF leg = target THEN <<>> ELSE <<target, recipient>>) : leg \in DOMAIN Chain}
=============================================================================
