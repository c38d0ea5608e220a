-------------------------- MODULE MCDepositWatcher --------------------------
(* A small instance of DepositWatcher: two tabs; an EVM chain with two        *)
(* receivers, a payment of which arrives twice in one transaction; a Solana  *)
(* chain with two, the first of which may fall too far behind because of a   *)
(* transaction that is no deposit; and Starknet with one, polled beside it.  *)
EXTENDS DepositWatcher

CONSTANTS t1, t2

T(r, x, b) == [to |-> r, tx |-> x, amount |-> 1, block |-> b]

MCChains == {"evm", "sol", "starknet"}
MCJobs == [c \in MCChains |-> CASE c = "evm" -> <<"e1", "e2">>
                                [] c = "sol" -> <<"s1", "s2">>
                                [] c = "starknet" -> <<"n1">>]
MCTransfers == [c \in MCChains |->
    CASE c = "evm" -> <<T("e1", 1, 1), T("e1", 1, 1), T("e2", 2, 2)>>
      [] c = "sol" -> <<T("s1", 3, 1), T("s2", 4, 2)>>
      [] c = "starknet" -> <<T("n1", 6, 2)>>]
MCReceivers == {"e1", "e2", "s1", "s2", "n1"}
MCStartBlock == [r \in MCReceivers |-> IF r = "e2" THEN Unknown ELSE IF r = "n1" THEN 1 ELSE 0]
MCOtherTxs == [r \in MCReceivers |-> IF r = "s1" THEN {[tx |-> 5, block |-> 2]} ELSE {}]
Env(f, cs) == [faults |-> f, chains |-> cs]
MCEnvironments ==
    {Env({"nolocks"}, {"evm"}), Env({"close"}, {"evm"}), Env({"refuse"}, {"evm"}),
     Env({"refuse"}, {"sol"}), Env({"close", "refuse"}, {"sol", "starknet"})}
=============================================================================
