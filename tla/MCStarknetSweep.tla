--------------------------- MODULE MCStarknetSweep ---------------------------
(* StarknetSweep with two receivers, three transfers, two payments and one    *)
(* task of another worker.                                                    *)
EXTENDS StarknetSweep, TLC

CONSTANTS r1, r2, d1, d2, d3, g1, g2

MCDepositTo == d1 :> r1 @@ d2 :> r1 @@ d3 :> r2
MCPaymentTo == g1 :> r1 @@ g2 :> r1
MCDepositAndPaymentTo == MCDepositTo @@ MCPaymentTo

(* The faults meet in these combinations: anyone registers receivers, payers   *)
(* and the other users of the account come in between, the worker's checks and *)
(* sends fail.                                                                 *)
MCFaultSets ==
  {{"gasless", "others", "slow"},
   {"gasless", "payer", "tasks", "slow"},
   {"gasless", "send", "nonce", "slow"}, {"tasks", "send", "nonce", "slow"},
   {"gasless", "balance", "classhash", "nonce", "slow", "crash"}, {"balance"}}
===============================================================================
