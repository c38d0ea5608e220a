----------------------------- MODULE MCEvmIndexer -----------------------------
(* EvmIndexer with two receivers: one that is announced and registered, so   *)
(* that the worker knows somebody, and one that is announced and paid.  A    *)
(* deposit to a receiver nobody announced is a block without interest.       *)
EXTENDS EvmIndexer

CONSTANTS r1, r2

MCEvents ==
  {[kind |-> "announce", receiver |-> r1],
   [kind |-> "register", receiver |-> r1],
   [kind |-> "announce", receiver |-> r2],
   [kind |-> "deposit", receiver |-> r2]}

(* Every fault at once, and what MapComplete and NoDepositSkipped are        *)
(* promised under.                                                           *)
MCFaults ==
  {{"crash", "fatal"}, {"lag", "fatal"}, {"crash", "skip"}, {"lag"}, {"skip"}}
===============================================================================
