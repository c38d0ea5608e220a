--------------------------- MODULE DepositLedger ---------------------------
(***************************************************************************)
(* What the deposit list of a merchant's browser promises, whatever tabs,  *)
(* locks, retries and storage failures are behind it: the transfers        *)
(* reported of a receiver come from its chain, without a hole after the    *)
(* block where watching started, and are never taken back.  DepositWatcher *)
(* implements it.                                                          *)
(***************************************************************************)
EXTENDS Integers

CONSTANTS Chains, Receivers,
          ChainOf(_),       \* the chain of a receiver
          Entries(_, _, _), \* the transfers into a receiver in a range of blocks
          StartBlock,       \* where a receiver is watched from, or Unknown
          Unknown

VARIABLES head,      \* height of each chain
          start,     \* block each receiver is watched from
          reported   \* the transfers the merchant has been shown

vars == <<head, start, reported>>

Init == /\ head = [c \in Chains |-> 0]
        /\ start = StartBlock
        /\ reported = {}

\* A chain grows.
Grow(c) == /\ head' = [head EXCEPT ![c] = @ + 1]
           /\ UNCHANGED <<start, reported>>

\* A receiver whose creation block is unknown is watched "from now".
Watch(r, b) == /\ StartBlock[r] = Unknown
               /\ b \in 0..head[ChainOf(r)]
               /\ start' = [start EXCEPT ![r] = b]
               /\ UNCHANGED <<head, reported>>

\* The blocks a..b of a receiver are reported; everything from its start up to
\* a must have been reported before.
Report(r, a, b) == /\ start[r] # Unknown
                   /\ b <= head[ChainOf(r)]
                   /\ Entries(r, start[r], a - 1) \subseteq reported
                   /\ UNCHANGED <<head, start>>
                   /\ reported' = reported \cup Entries(r, a, b)

Next == \/ \E c \in Chains : Grow(c)
        \/ \E r \in Receivers :
              \E a, b \in 0..head[ChainOf(r)] : Watch(r, b) \/ Report(r, a, b)

Spec == Init /\ [][Next]_vars
=============================================================================
