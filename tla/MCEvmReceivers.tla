---------------------------- MODULE MCEvmReceivers ----------------------------
(* EvmReceivers with one merchant, one CCTP chain (Ethereum, whose domain is *)
(* 0 like that of an unset name), two mint recipients and one name the       *)
(* constructor never registered: three valid routes, of which the cap admits *)
(* two.  Payers pay a direct and a bridged receiver.                         *)
EXTENDS EvmReceivers, TLC

CONSTANTS m, eth, bogus, p, q

MCDomain == eth :> 0
MCPaid   == {<<m, Zero, Zero>>, <<m, eth, p>>}
===============================================================================
