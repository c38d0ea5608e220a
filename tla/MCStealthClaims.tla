--------------------------- MODULE MCStealthClaims ---------------------------
(* StealthClaims with two claims of one account, on each family of chains;   *)
(* the Starknet ones are signed for the same nonce, or for one after the     *)
(* other.                                                                    *)
EXTENDS StealthClaims, TLC

CONSTANTS c1, c2, acc

MCClaim(f, n) == [family |-> f, account |-> acc, nonce |-> n]

MCOffers ==
  {c1 :> MCClaim("evm", 0) @@ c2 :> MCClaim("evm", 0),
   c1 :> MCClaim("starknet", 0) @@ c2 :> MCClaim("starknet", 0),
   c1 :> MCClaim("starknet", 0) @@ c2 :> MCClaim("starknet", 1),
   c1 :> MCClaim("solana", 0) @@ c2 :> MCClaim("solana", 0)}

MCEnvironments ==
  {{"error", "lost", "crash", "expire", "revert", "burst"},
   {"error", "expire", "revert", "burst"}, {"error", "expire", "revert"}, {"burst"}, {}}
===============================================================================
