------------------------------ MODULE MCEvmSweep ------------------------------
(* EvmSweep with two receivers of one merchant, one of another and a         *)
(* transfer to each, and factories that have room for one more receiver of   *)
(* a merchant.                                                               *)
EXTENDS EvmSweep, TLC

CONSTANTS m, n, r1, r2, r3, d1, d2, d3

MCMerchantOf == r1 :> m @@ r2 :> m @@ r3 :> n
MCDepositTo  == d1 :> r1 @@ d2 :> r2 @@ d3 :> r3

MCEnvironments ==
  {{"balance", "getcode", "drop", "race"}, {"balance", "getcode", "drop"}, {"balance", "drop"}}
===============================================================================
