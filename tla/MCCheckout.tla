----------------------------- MODULE MCCheckout -----------------------------
(* A small instance of Checkout: a link with a receiver on each kind of chain *)
(* and a payer who types a good amount, zero, and too many digits.            *)
EXTENDS Checkout

MCRoutes == [r \in {"base", "stark", "sol"} |->
    CASE r = "base" -> "evm" [] r = "stark" -> "starknet" [] r = "sol" -> "solana"]
Amount(w, f) == [whole |-> w, frac |-> f]
MCTyped == {Amount(1, <<5>>), Amount(0, <<0, 0>>), Amount(1, <<0, 0, 1>>)}
E(routes, supports, loses) == [routes |-> routes, supports |-> supports, loses |-> loses]
MCEnvironments ==
    {E({"sol"}, {}, TRUE), E({"sol", "base"}, {}, FALSE), E({"base", "stark"}, {"1"}, TRUE), E({"stark"}, {"1", "2"}, FALSE)}
=============================================================================
