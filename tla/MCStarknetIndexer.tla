-------------------------- MODULE MCStarknetIndexer --------------------------
(* StarknetIndexer with two receivers: one that is announced and registered, *)
(* so that the worker knows somebody, and one that is announced and paid.    *)
EXTENDS StarknetIndexer

CONSTANTS r1, r2

MCEvents ==
  {None,
   [kind |-> "announce", receiver |-> r1],
   [kind |-> "register", receiver |-> r1],
   [kind |-> "announce", receiver |-> r2],
   [kind |-> "deposit", receiver |-> r2]}

MCEnvironments == {{"crash", "startup", "fatal"}, {}}
===============================================================================
