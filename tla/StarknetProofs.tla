--------------------------- MODULE StarknetProofs ---------------------------
(* Proofs about the Starknet workers: what is done with deposits              *)
(* (StarknetSweep), for every set of receivers, transfers and payments, and,  *)
(* in the second part, how they are found (StarknetIndexer), for every chain  *)
(* length, channel capacity, chunk size and set of receivers; both for every  *)
(* set of faults.  The two share no names and no state.                       *)
EXTENDS StarknetIndexer, StarknetSweep, FiniteSetTheorems, TLAPS

(* The first nonce behind the transactions on their way. *)
Top == nonce + Cardinality(pool)

(* The transactions on their way have the nonces from the account's nonce to  *)
(* Top - 1, each one once, and the cached nonce is not ahead of them.         *)
Numbered ==
  /\ IsFiniteSet(pool)
  /\ \A t, u \in pool : t.nonce = u.nonce => t = u
  /\ \A t \in pool : nonce <= t.nonce /\ t.nonce < Top
  /\ \A n \in nonce..(Top - 1) : \E t \in pool : t.nonce = n
  /\ next_nonce # NoNonce => next_nonce <= Top

(* A transaction on its way carries at most one payment. *)
OnePaymentEach == \A t \in pool : t.pays = {} \/ \E d \in Gasless : t.pays = {d}

(* No transaction on its way reverts, but for the payer's own call in it:     *)
(* nothing else, on chain or on its way, registers its receivers.             *)
OnlyPayersRevert ==
  "others" \notin faults => \A t \in pool : Executes(t) \/ t.pays \cap voided # {}

PoolSound ==
  "others" \notin faults =>
    /\ \A t \in pool : Sound(t)
    /\ \A t, u \in pool : t # u => t.registers \cap u.registers = {}

(* A cached nonce that the node would accept was set by the last invoke: the  *)
(* worker remembers the receivers of every transaction on its way.            *)
TopIsCurrent ==
  next_nonce = Top => \A t \in pool : t.registers \subseteq deployed

(* The worker registers only what it does not know to be deployed, and no     *)
(* calls are left over from an earlier pass.                                  *)
CallsFresh ==
  /\ stage = "send" => calls.registers \cap deployed = {}
  /\ stage # "send" => calls = NoCalls

IInv == /\ SweepTypes
        /\ Numbered /\ OnePaymentEach
        /\ CallsFresh /\ TopIsCurrent
        /\ PoolSound /\ AcceptedIsMade

-----------------------------------------------------------------------------
(* Top is a number, and it is the account's nonce only if nothing is on its   *)
(* way.                                                                       *)
LEMMA TopIsNat ==
  ASSUME SweepTypes, Numbered
  PROVE  /\ Cardinality(pool) \in Nat /\ nonce \in Nat /\ Top \in Nat
         /\ Top = nonce <=> pool = {}
BY FS_CardinalityType, FS_EmptySet DEF SweepTypes, Numbered, Top

(* The node accepts no nonce but Top, of those up to Top. *)
LEMMA AcceptedAtTop ==
  ASSUME SweepTypes, Numbered, NEW t, Accepts(t), t.nonce \in Nat, t.nonce <= Top
  PROVE  t.nonce = Top /\ t \notin pool
<1>1. Top \in Nat /\ nonce \in Nat
  BY TopIsNat
<1>2. ASSUME t.nonce < Top
      PROVE  FALSE
  <2>1. t.nonce \in nonce..(Top - 1)
    BY <1>1, <1>2 DEF Accepts
  <2>2. QED  BY <2>1 DEF Numbered, Accepts
<1>3. t.nonce = Top
  BY <1>1, <1>2
<1>4. QED  BY <1>1, <1>3 DEF Numbered

(* A transaction accepted at Top moves Top on by one. *)
LEMMA AddToPool ==
  ASSUME SweepTypes, Numbered, NEW t, t.nonce = Top, t \notin pool,
         pool' = pool \cup {t}, nonce' = nonce,
         next_nonce' # NoNonce => next_nonce' \in Nat /\ next_nonce' <= Top + 1
  PROVE  Numbered' /\ Top' = Top + 1
<1>1. Top \in Nat /\ nonce \in Nat /\ Cardinality(pool) \in Nat
  BY TopIsNat
<1>2. IsFiniteSet(pool') /\ Cardinality(pool') = Cardinality(pool) + 1
  BY FS_AddElement DEF Numbered
<1>3. Top' = Top + 1
  BY <1>1, <1>2 DEF Top
<1>t. \A u \in pool : u.nonce \in Nat /\ nonce <= u.nonce /\ u.nonce < Top
  BY DEF Numbered, SweepTypes
<1>4. \A u, v \in pool' : u.nonce = v.nonce => u = v
  BY <1>1, <1>t DEF Numbered
<1>5. \A u \in pool' : nonce' <= u.nonce /\ u.nonce < Top'
  BY <1>1, <1>3, <1>t DEF Top
<1>6. ASSUME NEW n \in nonce'..(Top' - 1)
      PROVE  \E u \in pool' : u.nonce = n
  <2>1. n = Top \/ n \in nonce..(Top - 1)
    BY <1>1, <1>3
  <2>2. QED  BY <2>1 DEF Numbered
<1>7. next_nonce' # NoNonce => next_nonce' <= Top'
  BY <1>3
<1>8. QED  BY <1>2, <1>3, <1>4, <1>5, <1>6, <1>7 DEF Numbered

(* Executing the first one leaves Top where it is. *)
LEMMA TakeFromPool ==
  ASSUME SweepTypes, Numbered, NEW t \in pool, t.nonce = nonce,
         pool' = pool \ {t}, nonce' = nonce + 1, next_nonce' = next_nonce
  PROVE  Numbered' /\ Top' = Top
<1>1. Top \in Nat /\ nonce \in Nat /\ Cardinality(pool) \in Nat
  BY TopIsNat
<1>2. IsFiniteSet(pool') /\ Cardinality(pool') = Cardinality(pool) - 1
  BY FS_RemoveElement DEF Numbered
<1>3. Top' = Top
  BY <1>1, <1>2 DEF Top
<1>t. \A u \in pool : u.nonce \in Nat /\ nonce <= u.nonce /\ u.nonce < Top
  BY DEF Numbered, SweepTypes
<1>4. \A u \in pool' : nonce' <= u.nonce /\ u.nonce < Top'
  BY <1>1, <1>3, <1>t DEF Numbered
<1>5. ASSUME NEW n \in nonce'..(Top' - 1)
      PROVE  \E u \in pool' : u.nonce = n
  <2>1. n \in nonce..(Top - 1) /\ n # nonce
    BY <1>1, <1>3
  <2>2. QED  BY <2>1 DEF Numbered
<1>6. (\A u, v \in pool' : u.nonce = v.nonce => u = v)
      /\ (next_nonce' # NoNonce => next_nonce' <= Top')
  BY <1>3 DEF Numbered
<1>7. QED  BY <1>2, <1>3, <1>4, <1>5, <1>6 DEF Numbered

(* With the pool and the account untouched, only the cached nonce matters. *)
LEMMA PoolAlone ==
  ASSUME Numbered, pool' = pool, nonce' = nonce,
         next_nonce' = next_nonce \/ (next_nonce' # NoNonce => next_nonce' <= Top)
  PROVE  Numbered' /\ Top' = Top
BY DEF Numbered, Top

-----------------------------------------------------------------------------
(* The invariant holds before the first transaction. *)
LEMMA InitInv == SweepInit => IInv
<1> SUFFICES ASSUME SweepInit PROVE IInv
  OBVIOUS
<1>1. SweepTypes
  BY SweepConstants DEF SweepInit, SweepTypes, NoCalls
<1>2. CallsFresh /\ TopIsCurrent /\ PoolSound /\ AcceptedIsMade /\ OnePaymentEach
  BY DEF SweepInit, CallsFresh, TopIsCurrent, PoolSound, AcceptedIsMade,
         DeployedOrPending, ToldWereMade, OnePaymentEach, NoCalls
<1>3. Numbered
  <2>1. IsFiniteSet(pool) /\ Top = FirstNonce
    BY FS_EmptySet, SweepConstants DEF SweepInit, Top
  <2>2. QED  BY <2>1, SweepConstants DEF SweepInit, Numbered
<1>4. QED  BY <1>1, <1>2, <1>3 DEF IInv

(* The steps that leave the account and what is on its way alone. *)
LEMMA QuietStep ==
  ASSUME IInv, UNCHANGED <<nonce, pool, faults>>, SweepTypes',
         made \subseteq made',
         code' = code \/ (code \subseteq code' /\ "others" \in faults),
         told' = told, voided \subseteq voided',
         next_nonce' = next_nonce \/ next_nonce' = NoNonce
           \/ (next_nonce' \in Nat /\ next_nonce' <= nonce),
         CallsFresh',
         next_nonce' = next_nonce /\ next_nonce # NoNonce => deployed \subseteq deployed',
         "others" \notin faults => deployed' \subseteq deployed \cup code
  PROVE  IInv'
<1>1. Numbered' /\ Top' = Top
  <2>1. Top \in Nat /\ nonce \in Nat /\ nonce <= Top
    BY TopIsNat DEF IInv, Top
  <2>2. QED  BY <2>1, PoolAlone DEF IInv, SweepTypes
<1>2. TopIsCurrent'
  <2> SUFFICES ASSUME next_nonce' = Top
               PROVE  \A t \in pool : t.registers \subseteq deployed'
    BY <1>1 DEF TopIsCurrent
  <2>1. Top \in Nat /\ nonce \in Nat /\ nonce <= Top /\ (Top = nonce <=> pool = {})
    BY TopIsNat DEF IInv, Top
  <2>2. CASE next_nonce' = next_nonce
    BY <2>1, <2>2, SweepConstants DEF IInv, TopIsCurrent
  <2>3. CASE next_nonce' = NoNonce
    BY <2>1, <2>3, SweepConstants
  <2>4. CASE next_nonce' \in Nat /\ next_nonce' <= nonce
    BY <2>1, <2>4
  <2>5. QED  BY <2>2, <2>3, <2>4
<1>3. PoolSound'
  BY DEF IInv, PoolSound, Sound
<1>4. AcceptedIsMade' /\ OnePaymentEach'
  BY DEF IInv, AcceptedIsMade, DeployedOrPending, ToldWereMade, OnItsWay, OnePaymentEach
<1>5. QED  BY <1>1, <1>2, <1>3, <1>4 DEF IInv

(* The sequencer executing a transaction keeps the invariant. *)
LEMMA ExecuteTxStep ==
  ASSUME IInv, NEW t \in pool, ExecuteTx(t)
  PROVE  IInv'
<1> USE DEF IInv, ExecuteTx, worker, queues
<1>t. t.registers \subseteq MappedReceivers /\ t.pays \subseteq Deposits /\ nonce \in Nat
  BY DEF SweepTypes, Deposits
<1>1. SweepTypes'
  <2>1. made' \subseteq Deposits /\ settled' \subseteq made' /\ made \subseteq made'
    BY <1>t DEF SweepTypes
  <2>2. code' \subseteq MappedReceivers /\ code \subseteq code'
    BY <1>t DEF SweepTypes
  <2>3. QED  BY <1>t, <2>1, <2>2 DEF SweepTypes
<1>2. Numbered' /\ Top' = Top
  BY TakeFromPool
<1>3. CallsFresh' /\ TopIsCurrent'
  BY <1>2 DEF CallsFresh, TopIsCurrent
<1>4. PoolSound'
  <2> SUFFICES ASSUME "others" \notin faults, NEW u \in pool'
               PROVE  Sound(u)'
    BY DEF PoolSound
  <2>1. Sound(t) /\ Sound(u) /\ t.registers \cap u.registers = {}
    BY DEF PoolSound
  <2>2. code' = code \cup t.registers \/ code' = code
    OBVIOUS
  <2>3. QED  BY <2>1, <2>2 DEF Sound
<1>5. AcceptedIsMade'
  <2> SUFFICES ASSUME "others" \notin faults
               PROVE  DeployedOrPending' /\ ToldWereMade'
    BY DEF AcceptedIsMade, DeployedOrPending, ToldWereMade
  <2>1. Sound(t) /\ code \subseteq code' /\ made \subseteq made'
    BY DEF PoolSound
  <2>2. ASSUME NEW r \in deployed, r \notin code
        PROVE  r \in code' \/ \E u \in pool' : r \in u.registers /\ u.pays = {}
    <3>1. PICK u \in pool : r \in u.registers /\ u.pays = {}
      BY <2>2 DEF AcceptedIsMade, DeployedOrPending
    <3>2. CASE u = t
      BY <3>1, <3>2, <2>1 DEF Executes
    <3>3. QED  BY <3>1, <3>2
  <2>3. ASSUME NEW d \in told, d \notin made, d \notin voided
        PROVE  d \in made' \/ OnItsWay(d)'
    <3>1. PICK u \in pool : d \in u.pays
      BY <2>3 DEF AcceptedIsMade, ToldWereMade, OnItsWay
    <3>2. CASE u = t
      <4>1. t.pays = {d}
        BY <3>1, <3>2 DEF OnePaymentEach
      <4>2. QED  BY <4>1, <2>1, <2>3 DEF Executes
    <3>3. QED  BY <3>1, <3>2 DEF OnItsWay
  <2>4. QED  BY <2>1, <2>2, <2>3 DEF DeployedOrPending, ToldWereMade
<1>6. OnePaymentEach'
  BY DEF OnePaymentEach
<1>7. QED  BY <1>1, <1>2, <1>3, <1>4, <1>5, <1>6

(* The nonce of an invoke is never behind Top. *)
LEMMA InvokeNonceBound ==
  ASSUME IInv
  PROVE  InvokeNonce \in Nat /\ InvokeNonce <= Top
<1>1. Top \in Nat /\ nonce \in Nat /\ nonce <= Top
  BY TopIsNat DEF IInv, Top
<1>2. QED  BY <1>1 DEF IInv, InvokeNonce, Numbered, SweepTypes

(* An accepted invoke of the transfer worker is at Top, and what it registers *)
(* no other transaction on its way registers.                                 *)
LEMMA InvokeAccepted ==
  ASSUME IInv, stage = "send", Accepts(Invoke)
  PROVE  /\ InvokeNonce = Top /\ Invoke \notin pool
         /\ \A t \in pool : t.registers \subseteq deployed
         /\ \A t \in pool : t.registers \cap Invoke.registers = {}
<1>1. Invoke.nonce = InvokeNonce /\ Invoke.registers = calls.registers
  BY DEF Invoke
<1>2. InvokeNonce = Top /\ Invoke \notin pool
  BY <1>1, InvokeNonceBound, AcceptedAtTop DEF IInv
<1>3. \A t \in pool : t.registers \subseteq deployed
  <2>1. CASE next_nonce = NoNonce
    <3>1. nonce = Top
      BY <1>2, <2>1 DEF InvokeNonce
    <3>2. pool = {}
      BY <3>1, TopIsNat DEF IInv
    <3>3. QED  BY <3>2
  <2>2. CASE next_nonce # NoNonce
    BY <1>2, <2>2 DEF InvokeNonce, IInv, TopIsCurrent
  <2>3. QED  BY <2>1, <2>2
<1>4. QED  BY <1>1, <1>2, <1>3 DEF IInv, CallsFresh

(* The invoke is accepted, whether the worker learns of it (Send) or not      *)
(* (SendFails).                                                               *)
LEMMA InvokeStep ==
  ASSUME IInv, stage = "send", Accepts(Invoke), pool' = pool \cup {Invoke}, EndPass,
         told' = told,
         UNCHANGED <<made, settled, code, l1, nonce, voided, seen, queues, faults>>,
         \/ next_nonce' = InvokeNonce + 1 /\ deployed' = deployed \cup calls.registers
         \/ next_nonce' = NoNonce /\ deployed' = deployed
  PROVE  IInv'
<1> USE DEF queues, EndPass
<1>i. /\ Invoke.nonce = InvokeNonce /\ Invoke.registers = calls.registers
      /\ Invoke.sweeps = calls.sweeps /\ Invoke.pays = {}
  BY DEF Invoke
<1>a. /\ InvokeNonce = Top /\ Invoke \notin pool
      /\ \A t \in pool : t.registers \subseteq deployed
      /\ \A t \in pool : t.registers \cap calls.registers = {}
  BY <1>i, InvokeAccepted
<1>n. Top \in Nat
  BY TopIsNat DEF IInv
<1>1. SweepTypes'
  <2>1. calls.registers \subseteq MappedReceivers /\ calls.sweeps \subseteq MappedReceivers
    BY DEF IInv, SweepTypes
  <2>2. Invoke \in [nonce : Nat, registers : SUBSET MappedReceivers,
                    sweeps : SUBSET MappedReceivers, pays : SUBSET Gasless]
    BY <2>1, <1>a, <1>n DEF Invoke
  <2>3. next_nonce' \in Nat \cup {NoNonce}
    BY <1>a, <1>n
  <2>4. deployed' \subseteq MappedReceivers
    BY <2>1 DEF IInv, SweepTypes
  <2>5. told' \subseteq Gasless
    BY DEF IInv, SweepTypes
  <2>6. QED  BY <2>2, <2>3, <2>4, <2>5 DEF IInv, SweepTypes, NoCalls
<1>2. Numbered' /\ Top' = Top + 1
  BY <1>i, <1>a, <1>n, AddToPool DEF IInv
<1>3. CallsFresh'
  BY DEF CallsFresh
<1>4. TopIsCurrent'
  BY <1>2, <1>n, <1>i, <1>a, SweepConstants DEF TopIsCurrent
<1>5. PoolSound'
  <2>1. Sound(Invoke)
    BY DEF Accepts, Executes
  <2>2. QED  BY <2>1, <1>i, <1>a DEF IInv, PoolSound, Sound
<1>6. AcceptedIsMade' /\ OnePaymentEach'
  <2>1. batch \subseteq made
    BY DEF IInv, SweepTypes
  <2>2. DeployedOrPending'
    BY <1>i DEF IInv, AcceptedIsMade, DeployedOrPending
  <2>3. ToldWereMade'
    BY <2>1 DEF IInv, AcceptedIsMade, ToldWereMade, OnItsWay
  <2>4. OnePaymentEach'
    BY <1>i DEF IInv, OnePaymentEach
  <2>5. QED  BY <2>2, <2>3, <2>4 DEF AcceptedIsMade
<1>7. QED  BY <1>1, <1>2, <1>3, <1>4, <1>5, <1>6 DEF IInv

(* Whoever asks the node for the nonce gets the account's, so the transaction *)
(* is accepted only if nothing is on its way.                                 *)
LEMMA AskedNonceStep ==
  ASSUME IInv, NEW p, Accepts(p), p.nonce = nonce,
         p \in [nonce : Nat, registers : SUBSET MappedReceivers,
                sweeps : SUBSET MappedReceivers, pays : SUBSET Gasless],
         p.pays = {} \/ \E d \in Gasless : p.pays = {d},
         pool' = pool \cup {p}, told' = told \/ told' = told \cup p.pays,
         queued' \subseteq queued, tasks' \subseteq tasks,
         UNCHANGED <<made, settled, code, l1, nonce, voided, worker, faults>>
  PROVE  IInv'
<1> USE DEF worker
<1>n. Top \in Nat /\ nonce \in Nat /\ nonce <= Top /\ (Top = nonce <=> pool = {})
  BY TopIsNat DEF IInv, Top
<1>a. nonce = Top /\ pool = {} /\ p \notin pool
  BY <1>n, AcceptedAtTop DEF IInv
<1>m. next_nonce # NoNonce => next_nonce \in Nat /\ next_nonce <= Top
  BY DEF IInv, Numbered, SweepTypes
<1>1. SweepTypes'
  BY DEF IInv, SweepTypes
<1>2. Numbered' /\ Top' = Top + 1
  <2>1. next_nonce # NoNonce => next_nonce <= Top + 1
    BY <1>m, <1>n
  <2>2. QED  BY <1>a, <1>m, <2>1, AddToPool DEF IInv
<1>3. CallsFresh'
  BY DEF IInv, CallsFresh
<1>4. TopIsCurrent'
  BY <1>2, <1>m, <1>n, SweepConstants DEF TopIsCurrent
<1>5. PoolSound'
  BY <1>a DEF PoolSound, Accepts, Executes, Sound
<1>6. DeployedOrPending' /\ OnePaymentEach'
  BY <1>a DEF IInv, AcceptedIsMade, DeployedOrPending, OnePaymentEach
<1>7. ToldWereMade'
  BY <1>a DEF IInv, AcceptedIsMade, ToldWereMade, OnItsWay
<1>8. QED  BY <1>1, <1>2, <1>3, <1>4, <1>5, <1>6, <1>7 DEF IInv, AcceptedIsMade

-----------------------------------------------------------------------------
(* Every step keeps the invariant: one case per action. *)
LEMMA NextInv == IInv /\ [SweepNext]_sweepVars => IInv'
<1> SUFFICES ASSUME IInv, [SweepNext]_sweepVars
             PROVE  IInv'
  OBVIOUS
<1> USE DEF chainState, worker, queues
<1>c. CallsFresh /\ SweepTypes
  BY DEF IInv
<1>1. ASSUME NEW d \in Transfers, Pay(d)
      PROVE  IInv'
  <2>1. SweepTypes'
    BY <1>1, <1>c DEF Pay, SweepTypes, Deposits
  <2>2. QED  BY <1>1, <2>1, <1>c, QuietStep DEF Pay, CallsFresh
<1>2. ASSUME NEW r \in MappedReceivers, OthersRegister(r)
      PROVE  IInv'
  <2>1. SweepTypes'
    BY <1>2, <1>c DEF OthersRegister, SweepTypes
  <2>2. QED  BY <1>2, <2>1, <1>c, QuietStep DEF OthersRegister, CallsFresh
<1>3. ASSUME NEW t \in pool, ExecuteTx(t)
      PROVE  IInv'
  BY <1>3, ExecuteTxStep
<1>4. ASSUME NEW r \in MappedReceivers, L1Accept(r)
      PROVE  IInv'
  <2>1. SweepTypes'
    BY <1>4, <1>c DEF L1Accept, SweepTypes
  <2>2. QED  BY <1>4, <2>1, <1>c, QuietStep DEF L1Accept, CallsFresh
<1>5. ASSUME NEW returned \in SUBSET ((made \cap Transfers) \ seen), ActOnDeposits(returned)
      PROVE  IInv'
  <2>t. calls.registers = {} /\ calls.sweeps = {}
    BY <1>5, <1>c DEF ActOnDeposits, CallsFresh, NoCalls
  <2>1. SweepTypes'
    BY <1>5, <1>c, <2>t, SweepConstants DEF ActOnDeposits, SweepTypes, Deposits
  <2>2. QED  BY <1>5, <2>1, <1>c, QuietStep DEF ActOnDeposits, CallsFresh
<1>6. CASE FilterZero
  <2>1. SweepTypes'
    <3>1. calls.registers = {} /\ calls.sweeps = {}
      BY <1>6, <1>c DEF FilterZero, CallsFresh, NoCalls
    <3>2. QED  BY <1>6, <1>c, <3>1 DEF FilterZero, SweepTypes
  <2>2. QED  BY <1>6, <2>1, <1>c, QuietStep DEF FilterZero, CallsFresh
<1>7. CASE FilterFails
  <2>1. SweepTypes'
    BY <1>7, <1>c DEF FilterFails, SweepTypes
  <2>2. QED  BY <1>7, <2>1, <1>c, QuietStep DEF FilterFails, CallsFresh
<1>8. ASSUME NEW unanswered \in SUBSET Unknown, BuildCalls(unanswered)
      PROVE  IInv'
  <2> DEFINE known     == deployed \cup ((Unknown \ unanswered) \cap l1)
             registers == ((Unknown \ unanswered) \ l1) \cap Routed
  <2>1. /\ deployed' = known
        /\ calls'.registers = registers
        /\ calls'.sweeps = (unique \cap known) \cup registers
        /\ stage' = "send"
        /\ UNCHANGED <<chainState, next_nonce, seen, batch, unique, queues, told, faults>>
    BY <1>8 DEF BuildCalls
  <2>2. known \subseteq MappedReceivers /\ known \subseteq deployed \cup code
        /\ registers \subseteq unique /\ registers \cap known = {}
    BY <1>c DEF SweepTypes, Unknown
  <2>3. SweepTypes'
    BY <2>1, <2>2, <1>c DEF SweepTypes
  <2>4. QED  BY <2>1, <2>2, <2>3, QuietStep DEF CallsFresh
<1>9. CASE NonceUnanswered
  <2>1. SweepTypes'
    BY <1>9, <1>c DEF NonceUnanswered, SweepTypes
  <2>2. next_nonce' \in Nat /\ next_nonce' <= nonce
    BY <1>9, <1>c DEF NonceUnanswered, SweepTypes
  <2>3. next_nonce' # next_nonce
    BY <1>9, SweepConstants DEF NonceUnanswered
  <2>4. QED  BY <1>9, <2>1, <2>2, <2>3, <1>c, QuietStep DEF NonceUnanswered, CallsFresh
<1>10. CASE NothingToSend
  <2>1. SweepTypes'
    BY <1>10, <1>c, InvokeNonceBound DEF NothingToSend, SweepTypes, EndPass, NoCalls
  <2>2. next_nonce' = next_nonce \/ (next_nonce' \in Nat /\ next_nonce' <= nonce)
    BY <1>10, <1>c DEF NothingToSend, InvokeNonce, SweepTypes
  <2>3. QED  BY <1>10, <2>1, <2>2, QuietStep DEF NothingToSend, CallsFresh, EndPass
<1>11. CASE Send
  BY <1>11, InvokeStep DEF Send
<1>12. CASE SendFails
  <2>1. CASE Accepts(Invoke) /\ pool' = pool \cup {Invoke}
    BY <1>12, <2>1, InvokeStep DEF SendFails
  <2>2. CASE UNCHANGED pool
    <3>1. SweepTypes'
      BY <1>12, <2>2, <1>c DEF SendFails, SweepTypes, EndPass, NoCalls
    <3>2. QED  BY <1>12, <2>2, <3>1, QuietStep DEF SendFails, CallsFresh, EndPass
  <2>3. QED  BY <1>12, <2>1, <2>2 DEF SendFails
<1>13. ASSUME NEW d \in Gasless, Submit(d)
       PROVE  IInv'
  <2>1. SweepTypes'
    BY <1>13, <1>c DEF Submit, SweepTypes
  <2>2. QED  BY <1>13, <2>1, <1>c, QuietStep DEF Submit, CallsFresh
<1>14. ASSUME NEW d \in Gasless, SendPayment(d)
       PROVE  IInv'
  <2>1. CASE PaymentAccepted(d) /\ pool' = pool \cup {PaymentInvoke(d)}
             /\ (told' = told \/ told' = told \cup {d})
    <3> DEFINE p == PaymentInvoke(d)
    <3>1. depositTo[d] \in MappedReceivers /\ nonce \in Nat
      BY <1>c, SweepConstants DEF SweepTypes, Deposits
    <3>2. p.nonce = nonce /\ p.pays = {d}
          /\ p \in [nonce : Nat, registers : SUBSET MappedReceivers,
                    sweeps : SUBSET MappedReceivers, pays : SUBSET Gasless]
      BY <3>1 DEF PaymentInvoke
    <3>3. /\ Accepts(p) /\ pool' = pool \cup {p}
          /\ told' = told \/ told' = told \cup p.pays
          /\ queued' \subseteq queued /\ tasks' \subseteq tasks
          /\ UNCHANGED <<made, settled, code, l1, nonce, voided, worker, faults>>
      BY <1>14, <2>1, <3>2 DEF SendPayment, PaymentAccepted
    <3> HIDE DEF p
    <3>4. QED  BY <3>2, <3>3, AskedNonceStep
  <2>2. CASE UNCHANGED <<pool, told>>
    <3>1. SweepTypes'
      BY <1>14, <2>2, <1>c DEF SendPayment, SweepTypes
    <3>2. QED  BY <1>14, <2>2, <3>1, <1>c, QuietStep DEF SendPayment, CallsFresh
  <2>3. QED  BY <1>14, <2>1, <2>2 DEF SendPayment
<1>15. ASSUME NEW d \in Gasless, Void(d)
       PROVE  IInv'
  <2>1. SweepTypes'
    BY <1>15, <1>c DEF Void, SweepTypes
  <2>2. QED  BY <1>15, <2>1, <1>c, QuietStep DEF Void, CallsFresh
<1>16. ASSUME NEW k \in OtherTasks, SendOther(k)
       PROVE  IInv'
  <2>1. CASE Accepts(OtherInvoke) /\ pool' = pool \cup {OtherInvoke}
    <3>1. nonce \in Nat
      BY <1>c DEF SweepTypes
    <3>2. OtherInvoke.nonce = nonce /\ OtherInvoke.pays = {}
          /\ OtherInvoke \in [nonce : Nat, registers : SUBSET MappedReceivers,
                              sweeps : SUBSET MappedReceivers, pays : SUBSET Gasless]
      BY <3>1 DEF OtherInvoke
    <3>3. QED  BY <1>16, <2>1, <3>2, AskedNonceStep DEF SendOther
  <2>2. CASE UNCHANGED pool
    <3>1. SweepTypes'
      BY <1>16, <2>2, <1>c DEF SendOther, SweepTypes
    <3>2. QED  BY <1>16, <2>2, <3>1, <1>c, QuietStep DEF SendOther, CallsFresh
  <2>3. QED  BY <1>16, <2>1, <2>2 DEF SendOther
<1>17. CASE KeeperCrash
  <2>1. SweepTypes'
    BY <1>17, <1>c DEF KeeperCrash, SweepTypes, EndPass, NoCalls
  <2>2. QED
    BY <1>17, <2>1, QuietStep DEF KeeperCrash, CallsFresh, EndPass
<1>18. CASE UNCHANGED sweepVars
  <2>1. SweepTypes'
    BY <1>18, <1>c DEF sweepVars, SweepTypes
  <2>2. QED  BY <1>18, <2>1, <1>c, QuietStep DEF sweepVars, CallsFresh
<1>19. QED
  BY <1>1, <1>2, <1>3, <1>4, <1>5, <1>6, <1>7, <1>8, <1>9, <1>10, <1>11, <1>12,
     <1>13, <1>14, <1>15, <1>16, <1>17, <1>18
  DEF SweepNext

(* The inductive invariant of both workers holds in every behaviour. *)
THEOREM SweepInvariance == SweepSpec => []IInv
BY InitInv, NextInv, PTL DEF SweepSpec

(* The variables keep their types, what is swept was paid and what has        *)
(* reached L1 exists.                                                         *)
THEOREM SweepTypeCorrect == SweepSpec => []SweepTypes
BY SweepInvariance, PTL DEF IInv

(* Whatever the workers do with the keeper's one account, whichever       *)
(* invokes fail and wherever the process restarts, no transaction waits for a *)
(* nonce nobody uses, and the cached nonce never runs ahead.                  *)
THEOREM NoStall == SweepSpec => []NoNonceGap
<1>1. IInv => NoNonceGap
  <2> SUFFICES ASSUME IInv PROVE NoNonceGap
    OBVIOUS
  <2>1. Top \in Nat /\ nonce \in Nat
    BY TopIsNat DEF IInv
  <2>2. ASSUME NEW t \in pool, NEW n \in nonce..(t.nonce - 1)
        PROVE  \E u \in pool : u.nonce = n
    <3>1. t.nonce \in Nat /\ t.nonce < Top
      BY DEF IInv, SweepTypes, Numbered
    <3>2. n \in nonce..(Top - 1)
      BY <2>1, <3>1
    <3>3. QED  BY <3>2 DEF IInv, Numbered
  <2>3. QED  BY <2>2 DEF IInv, Numbered, NoNonceGap, Top
<1>2. QED  BY <1>1, SweepInvariance, PTL

(* What is remembered and reported when an invoke is accepted comes true,     *)
(* unless somebody else registers one of its receivers first or, of a         *)
(* payment, the payer's call reverts: of the invokes accepted no other one    *)
(* registers the same receiver.                                               *)
THEOREM AcceptanceKept == SweepSpec => []AcceptedIsMade
BY SweepInvariance, PTL DEF IInv

(* The fee estimate of execute_v3 is overtaken in two ways only: somebody     *)
(* else registers a receiver of the invoke, or the payer undoes the payment.  *)
(* Between themselves the workers never make an accepted invoke revert.       *)
THEOREM NoRevert == SweepSpec => []OnlyPayersRevert
<1>1. IInv => OnlyPayersRevert
  BY DEF IInv, PoolSound, OnlyPayersRevert, Executes
<1>2. QED  BY <1>1, SweepInvariance, PTL

-----------------------------------------------------------------------------
(* The indexer. *)
(* The tips and the rows under way; only a pass of the catch-up has startup. *)
SnPositions ==
  /\ tips \in Seq(Nat) /\ \A i \in 1..Len(tips) : tips[i] <= head
  /\ startup => phase \in {"registry", "deposits"}

(* A deposit is behind its checkpoint before anyone acts on it, and is held   *)
(* by one scan only.                                                          *)
SnBehindCheckpoint ==
  /\ phase \notin {"deposits", "act"} => pending = {}
  /\ \A n \in Blocks : n \in pending \/ acted[n] > 0 => n <= depCp
  /\ \A n \in Blocks : acted[n] <= 1 /\ (n \in pending => acted[n] = 0)

(* m holds the receivers of blocks 1..b and the routes they announce. *)
SnKnows(m, b) ==
  \A n \in 1..b, r \in Receivers :
    /\ Is(n, "announce", r) => m[r] = "routed"
    /\ Is(n, "register", r) => m[r] # "absent"

(* Whoever holds the rows of the blocks behind the registry checkpoint: the   *)
(* catch-up its own, the live loop the map and the rows of the scan it is in. *)
SnMapCovers ==
  env = {} =>
    /\ phase = "boot" => regCp = 0
    /\ startup => SnKnows(found, regCp)
    /\ phase = "registry" => SnKnows(Merge(map, found), regCp)
    /\ ~startup /\ phase \in {"deposits", "act", "live"} => SnKnows(map, regCp)

(* A deposit scan follows a registry scan that went as far. *)
SnRegistryFirst == env = {} /\ phase = "deposits" => tip <= regCp

SnInv == /\ ConstantsOK /\ TypeOK /\ SnPositions
         /\ SnBehindCheckpoint
         /\ SnMapCovers
         /\ SnRegistryFirst /\ NoDepositSkipped

-----------------------------------------------------------------------------
SnRow == {"absent", "bare", "routed"}

(* Merging only adds: what either map holds, the merged one holds. *)
LEMMA SnMergeKnows ==
  ASSUME NEW m \in [Receivers -> SnRow], NEW f \in [Receivers -> SnRow], NEW b,
         SnKnows(m, b) \/ SnKnows(f, b)
  PROVE  SnKnows(Merge(m, f), b)
<1>1. \A r \in Receivers : Merge(m, f)[r] = IF f[r] = "routed" \/ m[r] = "absent" THEN f[r] ELSE m[r]
  BY DEF Merge
<1>2. CASE SnKnows(m, b)
  BY <1>1, <1>2 DEF SnKnows, SnRow
<1>3. CASE SnKnows(f, b)
  BY <1>1, <1>3 DEF SnKnows, SnRow
<1>4. QED  BY <1>2, <1>3

(* Merging keeps a map a map. *)
LEMMA SnMergeType ==
  ASSUME NEW m \in [Receivers -> SnRow], NEW f \in [Receivers -> SnRow]
  PROVE  Merge(m, f) \in [Receivers -> SnRow]
BY DEF Merge

(* The rows of a range are a map, and hold what the range announces. *)
LEMMA SnRowsOfRange ==
  ASSUME NEW a, NEW b
  PROVE  /\ Rows(a, b) \in [Receivers -> SnRow]
         /\ \A n \in a..b, r \in Receivers :
              /\ Is(n, "announce", r) => Rows(a, b)[r] = "routed"
              /\ Is(n, "register", r) => Rows(a, b)[r] # "absent"
<1>1. \A r \in Receivers : Rows(a, b)[r] =
        IF \E n \in a..b : Is(n, "announce", r) THEN "routed"
        ELSE IF \E n \in a..b : Is(n, "register", r) THEN "bare" ELSE "absent"
  BY DEF Rows
<1>2. Rows(a, b) \in [Receivers -> SnRow]
  BY DEF Rows, SnRow
<1>3. QED  BY <1>1, <1>2

(* A scan that adds the rows of the blocks after b covers those too, on top   *)
(* of any map.                                                                *)
LEMMA SnChunkKnows ==
  ASSUME NEW m \in [Receivers -> SnRow], NEW f \in [Receivers -> SnRow],
         NEW b \in Nat, NEW c \in Nat, SnKnows(Merge(m, f), b)
  PROVE  SnKnows(Merge(m, Merge(f, Rows(b + 1, c))), c)
<1> DEFINE R == Rows(b + 1, c)
<1>1. /\ R \in [Receivers -> SnRow]
      /\ \A n \in (b + 1)..c, r \in Receivers :
              /\ Is(n, "announce", r) => R[r] = "routed"
              /\ Is(n, "register", r) => R[r] # "absent"
  BY SnRowsOfRange
<1> HIDE DEF R
<1>2. \A r \in Receivers : Merge(f, R)[r] = IF R[r] = "routed" \/ f[r] = "absent" THEN R[r] ELSE f[r]
  BY DEF Merge
<1>3. \A r \in Receivers : Merge(m, f)[r] = IF f[r] = "routed" \/ m[r] = "absent" THEN f[r] ELSE m[r]
  BY DEF Merge
<1> DEFINE F == Merge(f, R)
<1>4. \A r \in Receivers : Merge(m, F)[r] = IF F[r] = "routed" \/ m[r] = "absent" THEN F[r] ELSE m[r]
  BY DEF Merge
<1>5. \A r \in Receivers : m[r] \in SnRow /\ f[r] \in SnRow /\ R[r] \in SnRow
  BY <1>1
<1>6. \A r \in Receivers :
        /\ Merge(m, f)[r] = "routed" \/ R[r] = "routed" => Merge(m, F)[r] = "routed"
        /\ Merge(m, f)[r] # "absent" \/ R[r] # "absent" => Merge(m, F)[r] # "absent"
  <2> SUFFICES ASSUME NEW r \in Receivers
               PROVE  /\ Merge(m, f)[r] = "routed" \/ R[r] = "routed" => Merge(m, F)[r] = "routed"
                      /\ Merge(m, f)[r] # "absent" \/ R[r] # "absent" => Merge(m, F)[r] # "absent"
    OBVIOUS
  <2> HIDE DEF F
  <2>1. F[r] = IF R[r] = "routed" \/ f[r] = "absent" THEN R[r] ELSE f[r]
    BY <1>2 DEF F
  <2>2. QED  BY <1>3, <1>4, <1>5, <2>1 DEF SnRow
<1> HIDE DEF F
<1>7. ASSUME NEW n \in 1..c, NEW r \in Receivers
      PROVE  /\ Is(n, "announce", r) => Merge(m, F)[r] = "routed"
             /\ Is(n, "register", r) => Merge(m, F)[r] # "absent"
  <2>1. n \in 1..b \/ n \in (b + 1)..c
    OBVIOUS
  <2>2. CASE n \in 1..b
    BY <1>6, <2>2 DEF SnKnows
  <2>3. CASE n \in (b + 1)..c
    BY <1>1, <1>6, <2>3
  <2>4. QED  BY <2>1, <2>2, <2>3
<1>8. SnKnows(Merge(m, F), c)
  BY <1>7 DEF SnKnows
<1>9. QED  BY <1>8 DEF F, R

(* So does the scan of the catch-up, on its own. *)
LEMMA SnOwnChunkKnows ==
  ASSUME NEW f \in [Receivers -> SnRow], NEW b \in Nat, NEW c \in Nat, SnKnows(f, b)
  PROVE  SnKnows(Merge(f, Rows(b + 1, c)), c)
<1> DEFINE R == Rows(b + 1, c)
<1>1. /\ R \in [Receivers -> SnRow]
      /\ \A n \in (b + 1)..c, r \in Receivers :
              /\ Is(n, "announce", r) => R[r] = "routed"
              /\ Is(n, "register", r) => R[r] # "absent"
  BY SnRowsOfRange
<1> HIDE DEF R
<1>2. \A r \in Receivers : Merge(f, R)[r] = IF R[r] = "routed" \/ f[r] = "absent" THEN R[r] ELSE f[r]
  BY DEF Merge
<1>3. ASSUME NEW n \in 1..c, NEW r \in Receivers
      PROVE  /\ Is(n, "announce", r) => Merge(f, R)[r] = "routed"
             /\ Is(n, "register", r) => Merge(f, R)[r] # "absent"
  <2>1. n \in 1..b \/ n \in (b + 1)..c
    OBVIOUS
  <2>2. CASE n \in 1..b
    BY <1>2, <2>2 DEF SnKnows
  <2>3. CASE n \in (b + 1)..c
    BY <1>1, <1>2, <2>3
  <2>4. QED  BY <2>1, <2>2, <2>3
<1>4. QED  BY <1>3 DEF R, SnKnows

(* A chunk lies behind its checkpoint and ends at or before the tip. *)
LEMMA SnChunkBounds ==
  ASSUME ConstantsOK, TypeOK, NEW cp \in Nat, cp < tip
  PROVE  /\ ChunkEnd(cp) \in Nat /\ tip \in Nat /\ head \in Nat
         /\ cp < ChunkEnd(cp) /\ ChunkEnd(cp) <= tip /\ tip <= head
         /\ ChunkEnd(cp) \in 0..head
<1>1. tip \in Nat /\ head \in Nat /\ tip <= head /\ MAX_BLOCK_RANGE \in Nat /\ MAX_BLOCK_RANGE > 0
  BY DEF ConstantsOK, TypeOK
<1>2. ChunkEnd(cp) = IF cp + MAX_BLOCK_RANGE <= tip THEN cp + MAX_BLOCK_RANGE ELSE tip
  BY DEF ChunkEnd
<1>3. QED  BY <1>1, <1>2

-----------------------------------------------------------------------------
(* The invariant holds when the process first starts. *)
LEMMA SnInitInv == ConstantsOK /\ Init => SnInv
<1> SUFFICES ASSUME ConstantsOK, Init PROVE SnInv
  OBVIOUS
<1>1. TypeOK
  <2>1. MaxBlock \in Nat /\ TIP_CHANNEL \in Nat
    BY DEF ConstantsOK
  <2>2. /\ head = 0 /\ regCp = 0 /\ depCp = 0 /\ lastSent = 0 /\ tip = 0 /\ Len(tips) = 0
        /\ scanned \in BOOLEAN /\ startup \in BOOLEAN /\ phase = "boot" /\ pending = {}
        /\ env \in Environments
    BY DEF Init
  <2>3. /\ logs \in [Blocks -> Events \cup {None}] /\ acted \in [Blocks -> Nat]
        /\ map \in [Receivers -> {"absent", "bare", "routed"}]
        /\ found \in [Receivers -> {"absent", "bare", "routed"}]
    BY DEF Init, NobodyKnown
  <2>4. QED  BY <2>1, <2>2, <2>3 DEF TypeOK
<1>2. SnPositions /\ SnBehindCheckpoint
  BY DEF Init, SnPositions, SnBehindCheckpoint
<1>3. SnMapCovers /\ SnRegistryFirst /\ NoDepositSkipped
  BY DEF Init, SnMapCovers, SnRegistryFirst, NoDepositSkipped
<1>4. QED  BY <1>1, <1>2, <1>3 DEF SnInv

(* A new block changes nothing behind the head. *)
LEMMA SnNewBlockStep ==
  ASSUME SnInv, NEW e \in Events, NewBlock(e)
  PROVE  SnInv'
<1> USE DEF SnInv, NewBlock, poller
<1>h. /\ head \in Nat /\ head' = head + 1 /\ head' \in 0..MaxBlock /\ MaxBlock \in Nat
      /\ regCp \in 0..head /\ depCp \in 0..head
  BY DEF ConstantsOK, TypeOK
<1>k. \A n \in 1..head : logs'[n] = logs[n]
  BY <1>h DEF TypeOK, Blocks
<1>i. \A n \in 1..head, r \in Receivers, kind \in {"announce", "register", "deposit"} :
        Is(n, kind, r)' <=> Is(n, kind, r)
  BY <1>k DEF Is
<1>1. TypeOK'
  <2>1. logs' \in [Blocks -> Events \cup {None}]
    BY DEF TypeOK
  <2>2. QED  BY <2>1, <1>h DEF TypeOK
<1>2. SnPositions'
  <2>1. \A i \in 1..Len(tips) : tips[i] \in Nat /\ tips[i] <= head
    BY DEF SnPositions
  <2>2. \A i \in 1..Len(tips) : tips[i] <= head'
    BY <1>h, <2>1
  <2>3. QED  BY <2>2 DEF SnPositions
<1>3. SnBehindCheckpoint'
  BY DEF SnBehindCheckpoint
<1>4. SnMapCovers'
  <2>1. ASSUME NEW m, SnKnows(m, regCp)
        PROVE  \A n \in 1..regCp, r \in Receivers :
                 /\ Is(n, "announce", r)' => m[r] = "routed"
                 /\ Is(n, "register", r)' => m[r] # "absent"
    BY <2>1, <1>h, <1>i DEF SnKnows
  <2>2. UNCHANGED <<env, phase, startup, map, found, regCp>>
    OBVIOUS
  <2>3. Merge(map, found)' = Merge(map, found)
    BY <2>2 DEF Merge
  <2>4. SnMapCovers
    OBVIOUS
  <2> HIDE DEF SnInv, NewBlock
  <2>5. QED  BY <2>1, <2>2, <2>3, <2>4 DEF SnMapCovers, SnKnows
<1>5. SnRegistryFirst'
  BY DEF SnRegistryFirst
<1>6. NoDepositSkipped'
  <2> SUFFICES ASSUME env = {}, NEW n \in 1..depCp, NEW r \in Receivers,
                      Is(n, "deposit", r)', AnnouncedBy(n, r)'
               PROVE  acted[n] > 0 \/ n \in pending
    BY DEF NoDepositSkipped
  <2>1. n \in 1..head
    BY <1>h
  <2>2. Is(n, "deposit", r)
    BY <2>1, <1>i
  <2>3. PICK k \in 1..n : Is(k, "announce", r)'
    BY DEF AnnouncedBy
  <2>4. k \in 1..head /\ Is(k, "announce", r)
    BY <2>1, <2>3, <1>h, <1>i
  <2>5. AnnouncedBy(n, r)
    BY <2>4 DEF AnnouncedBy
  <2>6. QED  BY <2>2, <2>5 DEF NoDepositSkipped
<1>7. ConstantsOK'
  BY DEF ConstantsOK
<1>8. QED  BY <1>1, <1>2, <1>3, <1>4, <1>5, <1>6, <1>7

-----------------------------------------------------------------------------
(* A step of the worker leaves the chain alone, so that each part of the      *)
(* invariant follows from what the step says of the worker's own state.       *)
LEMMA SnWorkerStep ==
  ASSUME SnInv, UNCHANGED <<chain, env>>,
         regCp' \in 0..head, depCp' \in 0..head, tip' \in 0..head, lastSent' \in 0..head,
         map' \in [Receivers -> SnRow], found' \in [Receivers -> SnRow],
         scanned' \in BOOLEAN, startup' \in BOOLEAN,
         phase' \in {"boot", "registry", "deposits", "act", "live"},
         Len(tips') <= TIP_CHANNEL, acted' \in [Blocks -> Nat], pending' \subseteq Blocks,
         tips' \in Seq(Nat), \A i \in 1..Len(tips') : tips'[i] <= head,
         startup' => phase' \in {"registry", "deposits"},
         SnBehindCheckpoint',
         env = {} =>
           /\ phase' = "boot" => regCp' = 0
           /\ startup' => SnKnows(found', regCp')
           /\ phase' = "registry" => SnKnows(Merge(map', found'), regCp')
           /\ ~startup' /\ phase' \in {"deposits", "act", "live"} => SnKnows(map', regCp')
           /\ phase' = "deposits" => tip' <= regCp'
           /\ \A n \in 1..depCp', r \in Receivers :
                Is(n, "deposit", r) /\ AnnouncedBy(n, r) => acted'[n] > 0 \/ n \in pending'
  PROVE  SnInv'
<1> USE DEF chain
<1>0. logs' = logs /\ head' = head /\ env' = env
  OBVIOUS
<1>1. TypeOK'
  BY <1>0 DEF SnInv, TypeOK, SnRow
<1>2. SnPositions'
  BY <1>0 DEF SnPositions
<1>3. ASSUME NEW m, NEW b PROVE SnKnows(m, b) =>
          \A n \in 1..b, r \in Receivers :
            /\ Is(n, "announce", r)' => m[r] = "routed"
            /\ Is(n, "register", r)' => m[r] # "absent"
  BY <1>0 DEF SnKnows, Is
<1>4. SnMapCovers'
  BY <1>0, <1>3 DEF SnMapCovers, SnKnows, Merge
<1>5. SnRegistryFirst'
  BY <1>0 DEF SnRegistryFirst
<1>6. NoDepositSkipped'
  BY <1>0 DEF NoDepositSkipped, AnnouncedBy, Is
<1>7. ConstantsOK'
  BY DEF SnInv, ConstantsOK
<1>8. QED  BY <1>1, <1>2, <1>4, <1>5, <1>6, <1>7 DEF SnInv

(* What the steps below start from. *)
LEMMA SnFacts ==
  ASSUME SnInv
  PROVE  /\ head \in Nat /\ regCp \in 0..head /\ depCp \in 0..head /\ tip \in 0..head
         /\ lastSent \in 0..head
         /\ map \in [Receivers -> SnRow] /\ found \in [Receivers -> SnRow]
         /\ NobodyKnown \in [Receivers -> SnRow]
         /\ scanned \in BOOLEAN /\ startup \in BOOLEAN
         /\ phase \in {"boot", "registry", "deposits", "act", "live"}
         /\ Len(tips) <= TIP_CHANNEL /\ acted \in [Blocks -> Nat] /\ pending \subseteq Blocks
         /\ tips \in Seq(Nat) /\ \A i \in 1..Len(tips) : tips[i] <= head
         /\ startup => phase \in {"registry", "deposits"}
         /\ env = {} =>
              /\ phase = "boot" => regCp = 0
              /\ startup => SnKnows(found, regCp)
              /\ phase = "registry" => SnKnows(Merge(map, found), regCp)
              /\ ~startup /\ phase \in {"deposits", "act", "live"} => SnKnows(map, regCp)
              /\ phase = "deposits" => tip <= regCp
              /\ \A n \in 1..depCp, r \in Receivers :
                   Is(n, "deposit", r) /\ AnnouncedBy(n, r) => acted[n] > 0 \/ n \in pending
<1>1. /\ head \in Nat /\ regCp \in 0..head /\ depCp \in 0..head /\ tip \in 0..head
      /\ lastSent \in 0..head
      /\ map \in [Receivers -> SnRow] /\ found \in [Receivers -> SnRow]
      /\ scanned \in BOOLEAN /\ startup \in BOOLEAN
      /\ phase \in {"boot", "registry", "deposits", "act", "live"}
      /\ Len(tips) <= TIP_CHANNEL /\ acted \in [Blocks -> Nat] /\ pending \subseteq Blocks
  BY DEF SnInv, ConstantsOK, TypeOK, SnRow
<1>2. NobodyKnown \in [Receivers -> SnRow]
  BY DEF NobodyKnown, SnRow
<1>3. /\ tips \in Seq(Nat) /\ \A i \in 1..Len(tips) : tips[i] <= head
      /\ startup => phase \in {"registry", "deposits"}
  BY DEF SnInv, SnPositions
<1>4. QED  BY <1>1, <1>2, <1>3 DEF SnInv, SnMapCovers, SnRegistryFirst, NoDepositSkipped

(* The poller's own step and the debounce see only the tip channel. *)
LEMMA SnTipStep ==
  ASSUME SnInv, Poll \/ DropTip
  PROVE  SnInv'
<1>u. UNCHANGED <<chain, regCp, depCp, map, scanned, phase, startup, tip, found, pending, acted, env>>
  BY DEF Poll, DropTip
<1>t. /\ tips' \in Seq(Nat) /\ Len(tips') <= TIP_CHANNEL /\ lastSent' \in 0..head
      /\ \A i \in 1..Len(tips') : tips'[i] <= head
  <2>1. CASE Poll
    <3>1. /\ tips \in Seq(Nat) /\ Len(tips) < TIP_CHANNEL /\ TIP_CHANNEL \in Nat /\ head \in Nat
          /\ tips' = Append(tips, head) /\ lastSent' = head
          /\ \A i \in 1..Len(tips) : tips[i] <= head
      BY <2>1, SnFacts DEF Poll, SnInv, ConstantsOK
    <3>2. tips' \in Seq(Nat) /\ Len(tips') = Len(tips) + 1 /\ tips'[Len(tips) + 1] = head
          /\ \A i \in 1..Len(tips) : tips'[i] = tips[i]
      BY <3>1
    <3>3. QED  BY <3>1, <3>2
  <2>2. CASE DropTip
    <3>1. /\ tips \in Seq(Nat) /\ tips # <<>> /\ tips' = Tail(tips) /\ lastSent' = lastSent
          /\ Len(tips) <= TIP_CHANNEL /\ TIP_CHANNEL \in Nat
          /\ \A i \in 1..Len(tips) : tips[i] <= head
      BY <2>2, SnFacts DEF DropTip, SnInv, ConstantsOK
    <3>2. tips' \in Seq(Nat) /\ Len(tips') = Len(tips) - 1 /\ Len(tips) \in Nat
          /\ \A i \in 1..Len(tips') : tips'[i] = tips[i + 1]
      BY <3>1
    <3>3. QED  BY <3>1, <3>2, SnFacts
  <2>3. QED  BY <2>1, <2>2
<1>1. SnBehindCheckpoint'
  BY <1>u DEF SnInv, SnBehindCheckpoint
<1>2. QED  BY <1>u, <1>t, <1>1, SnFacts, SnWorkerStep

(* A pass starts: the catch-up, a tip or the reconciliation tick. *)
LEMMA SnStartStep ==
  ASSUME SnInv, CatchUp \/ TakeTip \/ Reconcile
  PROVE  SnInv'
<1>u. /\ UNCHANGED <<chain, regCp, depCp, map, lastSent, found, pending, acted, env>>
      /\ phase' = "registry"
      /\ phase \in {"boot", "live"}
  BY DEF CatchUp, TakeTip, Reconcile, poller
<1>t. /\ tips' \in Seq(Nat) /\ Len(tips') <= TIP_CHANNEL /\ tip' \in 0..head
      /\ \A i \in 1..Len(tips') : tips'[i] <= head
  <2>1. CASE TakeTip
    <3>1. /\ tips \in Seq(Nat) /\ tips # <<>> /\ tips' = Tail(tips) /\ tip' = Head(tips)
          /\ Len(tips) <= TIP_CHANNEL /\ TIP_CHANNEL \in Nat /\ head \in Nat
          /\ \A i \in 1..Len(tips) : tips[i] <= head
      BY <2>1, SnFacts DEF TakeTip, SnInv, ConstantsOK
    <3>2. tips' \in Seq(Nat) /\ Len(tips') = Len(tips) - 1 /\ Len(tips) \in Nat
          /\ Len(tips) >= 1 /\ tip' = tips[1] /\ tip' \in Nat
          /\ \A i \in 1..Len(tips') : tips'[i] = tips[i + 1]
      BY <3>1
    <3>3. QED  BY <3>1, <3>2
  <2>2. CASE CatchUp \/ Reconcile
    BY <2>2, SnFacts DEF CatchUp, Reconcile, poller
  <2>3. QED  BY <2>1, <2>2
<1>s. scanned' \in BOOLEAN /\ startup' \in BOOLEAN /\ (startup' => phase = "boot")
  <2>1. CASE CatchUp
    BY <2>1, SnFacts DEF CatchUp
  <2>2. CASE TakeTip \/ Reconcile
    <3>1. phase = "live" /\ startup' = startup /\ scanned' = TRUE
      BY <2>2 DEF TakeTip, Reconcile
    <3>2. QED  BY <3>1, SnFacts
  <2>3. QED  BY <2>1, <2>2
<1>m. env = {} => SnKnows(Merge(map, found), regCp)
  <2>1. env = {} /\ phase = "live" => SnKnows(map, regCp)
    BY SnFacts
  <2>2. env = {} /\ phase = "boot" => SnKnows(map, regCp)
    <3>1. env = {} /\ phase = "boot" => regCp = 0
      BY SnFacts
    <3>2. QED  BY <3>1 DEF SnKnows
  <2>3. QED  BY <1>u, <2>1, <2>2, SnMergeKnows, SnFacts
<1>c. env = {} /\ startup' => SnKnows(found, regCp)
  <2>1. env = {} /\ startup' => regCp = 0
    BY <1>s, SnFacts
  <2>2. QED  BY <2>1 DEF SnKnows
<1>1. SnBehindCheckpoint'
  BY <1>u DEF SnInv, SnBehindCheckpoint
<1>2. QED  BY <1>u, <1>t, <1>s, <1>m, <1>c, <1>1, SnFacts, SnWorkerStep

(* A catch-up without a head is over at once. *)
LEMMA SnNoHeadStep ==
  ASSUME SnInv, NoHead
  PROVE  SnInv'
<1>u. /\ UNCHANGED <<chain, regCp, depCp, map, poller, scanned, startup, tip, found, pending, acted, env>>
      /\ phase = "boot" /\ phase' = "live" /\ env # {}
  BY DEF NoHead
<1>1. SnBehindCheckpoint'
  BY <1>u DEF SnInv, SnBehindCheckpoint
<1>2. QED  BY <1>u, <1>1, SnFacts, SnWorkerStep DEF poller

(* A chunk of the registry scan. *)
LEMMA SnRegistryChunkStep ==
  ASSUME SnInv, RegistryChunk
  PROVE  SnInv'
<1> DEFINE to == ChunkEnd(regCp)
<1>u. /\ UNCHANGED <<chain, depCp, map, poller, scanned, phase, startup, tip, pending, acted, env>>
      /\ phase = "registry" /\ regCp < tip
      /\ found' = Merge(found, Rows(regCp + 1, to)) /\ regCp' = to
  BY DEF RegistryChunk
<1>b. to \in 0..head /\ to \in Nat /\ regCp \in Nat
  BY <1>u, SnChunkBounds, SnFacts DEF SnInv
<1> HIDE DEF to
<1>f. found' \in [Receivers -> SnRow]
  BY <1>u, SnRowsOfRange, SnMergeType, SnFacts
<1>m. env = {} => SnKnows(Merge(map, found'), to)
  BY <1>u, <1>b, SnChunkKnows, SnFacts
<1>c. env = {} /\ startup => SnKnows(found', to)
  BY <1>u, <1>b, SnOwnChunkKnows, SnFacts
<1>1. SnBehindCheckpoint'
  BY <1>u DEF SnInv, SnBehindCheckpoint
<1>2. QED  BY <1>u, <1>b, <1>f, <1>m, <1>c, <1>1, SnFacts, SnWorkerStep DEF poller

(* The rows are handed over to the map, or kept by the catch-up. *)
LEMMA SnRegistryDoneStep ==
  ASSUME SnInv, RegistryDone
  PROVE  SnInv'
<1>u. /\ UNCHANGED <<chain, regCp, depCp, poller, scanned, startup, tip, pending, acted, env>>
      /\ phase = "registry" /\ regCp >= tip
  BY DEF RegistryDone
<1>p. /\ phase' \in {"deposits", "live"}
      /\ \/ startup /\ phase' = "deposits" /\ UNCHANGED <<map, found>>
         \/ ~startup /\ map' = Merge(map, found) /\ found' = NobodyKnown
  BY DEF RegistryDone
<1>t. map' \in [Receivers -> SnRow] /\ found' \in [Receivers -> SnRow]
  BY <1>p, SnMergeType, SnFacts
<1>r. tip <= regCp
  BY <1>u, SnFacts
<1>m. env = {} => /\ startup => SnKnows(found', regCp)
                  /\ ~startup => SnKnows(map', regCp)
  BY <1>u, <1>p, SnFacts
<1>1. SnBehindCheckpoint'
  BY <1>u, <1>p DEF SnInv, SnBehindCheckpoint
<1>2. startup' => phase' \in {"registry", "deposits"}
  BY <1>u, <1>p
<1>3. QED  BY <1>u, <1>p, <1>t, <1>r, <1>m, <1>1, <1>2, SnFacts, SnWorkerStep DEF poller

(* A failed scan drops what it held; it takes an environment that fails one. *)
LEMMA SnFailStep ==
  ASSUME SnInv, RegistryFail \/ DepositsFail
  PROVE  SnInv'
<1>u. /\ UNCHANGED <<chain, regCp, depCp, map, poller, scanned, tip, acted, env>>
      /\ phase' \in {"deposits", "live"} /\ found' = NobodyKnown /\ startup' = FALSE /\ env # {}
      /\ pending' \in {pending, {}}
      /\ \/ phase = "registry" /\ pending' = pending
         \/ phase' = "live" /\ pending' = {}
  BY DEF RegistryFail, DepositsFail
<1>1. SnBehindCheckpoint'
  <2>1. phase = "registry" => pending = {}
    BY DEF SnInv, SnBehindCheckpoint
  <2>2. pending' = {}
    BY <1>u, <2>1
  <2>3. QED  BY <1>u, <2>2 DEF SnInv, SnBehindCheckpoint
<1>2. pending' \subseteq Blocks
  BY <1>u, SnFacts
<1>3. QED  BY <1>u, <1>1, <1>2, SnFacts, SnWorkerStep DEF poller

(* A deposit to a receiver announced by then is returned by a scan whose      *)
(* filter covers the range.                                                   *)
LEMMA SnDepositReturned ==
  ASSUME NEW m, NEW a \in Nat, NEW b \in Nat, NEW k \in Nat, b <= k, SnKnows(m, k),
         NEW n \in a..b, NEW r \in Receivers, Is(n, "deposit", r), AnnouncedBy(n, r)
  PROVE  n \in DepositsIn(a, b, Known(m))
<1>1. PICK i \in 1..n : Is(i, "announce", r)
  BY DEF AnnouncedBy
<1>2. i \in 1..k
  OBVIOUS
<1>3. r \in Known(m)
  BY <1>1, <1>2 DEF SnKnows, Known
<1>4. QED  BY <1>3 DEF DepositsIn

(* A chunk of the deposit scan: its blocks are new to everybody, and its      *)
(* filter holds every receiver they pay.                                      *)
LEMMA SnDepositChunkStep ==
  ASSUME SnInv, DepositChunk
  PROVE  SnInv'
<1> DEFINE to == ChunkEnd(depCp)
           new == DepositsIn(depCp + 1, to, Filter)
<1>u. /\ UNCHANGED <<chain, regCp, map, poller, scanned, phase, startup, tip, found, acted, env>>
      /\ phase = "deposits" /\ depCp < tip
      /\ pending' = pending \cup new /\ depCp' = to
  BY DEF DepositChunk
<1>b. to \in 0..head /\ to \in Nat /\ depCp \in Nat /\ depCp < to /\ to <= tip
      /\ tip \in Nat /\ regCp \in Nat
  BY <1>u, SnChunkBounds, SnFacts DEF SnInv
<1>n. \A n \in new : n \in (depCp + 1)..to
  BY DEF DepositsIn
<1>k. env = {} => /\ SnKnows(IF startup THEN found ELSE map, regCp)
                  /\ to <= regCp
  BY <1>u, <1>b, SnFacts
<1>r. ASSUME env = {}, NEW n \in (depCp + 1)..to, NEW r \in Receivers,
             Is(n, "deposit", r), AnnouncedBy(n, r)
      PROVE  n \in new
  <2> DEFINE m == IF startup THEN found ELSE map
  <2>1. Known(m) = Filter
    BY DEF Filter
  <2>2. SnKnows(m, regCp) /\ to <= regCp
    BY <1>k, <1>r
  <2> HIDE DEF m, to
  <2>3. depCp + 1 \in Nat
    BY <1>b
  <2>4. n \in DepositsIn(depCp + 1, to, Known(m))
    BY <1>b, <1>r, <2>2, <2>3, SnDepositReturned
  <2>5. QED  BY <2>1, <2>4
<1> HIDE DEF to, new
<1>s. new \subseteq Blocks
  <2>1. head <= MaxBlock /\ MaxBlock \in Nat /\ head \in Nat
    BY DEF SnInv, TypeOK, ConstantsOK
  <2>2. QED  BY <1>b, <1>n, <2>1 DEF Blocks
<1>t. pending' \subseteq Blocks
  BY <1>u, <1>s, SnFacts
<1>1. SnBehindCheckpoint'
  <2>1. \A n \in Blocks : n \in pending \/ acted[n] > 0 => n <= depCp
    BY DEF SnInv, SnBehindCheckpoint
  <2>2. \A n \in Blocks : acted[n] <= 1 /\ (n \in pending => acted[n] = 0)
    BY DEF SnInv, SnBehindCheckpoint
  <2>3. \A n \in Blocks : n \in Nat /\ acted[n] \in Nat
    BY SnFacts DEF Blocks
  <2>4. ASSUME NEW n \in Blocks, n \in pending \/ n \in new \/ acted[n] > 0
        PROVE  n <= to
    BY <1>b, <1>n, <2>1, <2>3, <2>4
  <2>5. ASSUME NEW n \in Blocks, n \in new
        PROVE  acted[n] = 0
    <3>1. n > depCp
      BY <1>b, <1>n, <2>5
    <3>2. QED  BY <1>b, <2>1, <2>3, <3>1
  <2>6. QED  BY <1>u, <2>2, <2>4, <2>5 DEF SnBehindCheckpoint
<1>2. ASSUME env = {}, NEW n \in 1..to, NEW r \in Receivers, Is(n, "deposit", r), AnnouncedBy(n, r)
      PROVE  acted[n] > 0 \/ n \in pending'
  <2>1. CASE n \in 1..depCp
    BY <1>2, <1>u, <2>1, SnFacts
  <2>2. CASE n \in (depCp + 1)..to
    BY <1>2, <1>r, <1>u, <2>2
  <2>3. QED  BY <1>b, <2>1, <2>2
<1>3. QED  BY <1>u, <1>b, <1>t, <1>1, <1>2, SnFacts, SnWorkerStep DEF poller

(* The scan's rows, if it was the catch-up's, go to the map. *)
LEMMA SnDepositsDoneStep ==
  ASSUME SnInv, DepositsDone
  PROVE  SnInv'
<1>u. /\ UNCHANGED <<chain, regCp, depCp, poller, scanned, tip, pending, acted, env>>
      /\ phase = "deposits" /\ phase' = "act" /\ map' = Merge(map, found)
      /\ found' = NobodyKnown /\ startup' = FALSE
  BY DEF DepositsDone
<1>t. map' \in [Receivers -> SnRow]
  BY <1>u, SnMergeType, SnFacts
<1>m. env = {} => SnKnows(map', regCp)
  BY <1>u, SnMergeKnows, SnFacts
<1>1. SnBehindCheckpoint'
  BY <1>u DEF SnInv, SnBehindCheckpoint
<1>2. QED  BY <1>u, <1>t, <1>m, <1>1, SnFacts, SnWorkerStep DEF poller

(* Each deposit the scan holds is acted on for the first time. *)
LEMMA SnActStep ==
  ASSUME SnInv, Act
  PROVE  SnInv'
<1>u. /\ UNCHANGED <<chain, regCp, depCp, map, poller, scanned, startup, tip, found, env>>
      /\ phase = "act" /\ phase' = "live" /\ pending' = {}
      /\ acted' = [n \in Blocks |-> IF n \in pending THEN acted[n] + 1 ELSE acted[n]]
  BY DEF Act
<1>a. \A n \in Blocks : acted[n] \in Nat
      /\ acted'[n] = IF n \in pending THEN acted[n] + 1 ELSE acted[n]
  BY <1>u, SnFacts
<1>t. acted' \in [Blocks -> Nat]
  BY <1>u, <1>a
<1>1. SnBehindCheckpoint'
  BY <1>u, <1>a DEF SnInv, SnBehindCheckpoint
<1>2. ASSUME env = {}, NEW n \in 1..depCp, NEW r \in Receivers, Is(n, "deposit", r), AnnouncedBy(n, r)
      PROVE  acted'[n] > 0
  <2>1. acted[n] > 0 \/ n \in pending
    BY <1>2, SnFacts
  <2>2. n \in Blocks
    <3>1. depCp \in 0..head /\ head \in 0..MaxBlock /\ MaxBlock \in Nat
      BY DEF SnInv, TypeOK, ConstantsOK
    <3>2. QED  BY <3>1 DEF Blocks
  <2>3. QED  BY <1>a, <2>1, <2>2
<1>3. QED  BY <1>u, <1>t, <1>1, <1>2, SnFacts, SnWorkerStep DEF poller

(* A restart forgets everything but the checkpoints. *)
LEMMA SnCrashStep ==
  ASSUME SnInv, Crash
  PROVE  SnInv'
<1>u. /\ UNCHANGED <<chain, regCp, depCp, acted, env>>
      /\ phase' = "boot" /\ map' = NobodyKnown /\ found' = NobodyKnown /\ lastSent' = 0
      /\ tips' = <<>> /\ scanned' = FALSE /\ startup' = FALSE /\ tip' = 0 /\ pending' = {}
      /\ env # {}
  BY DEF Crash
<1>t. /\ tips' \in Seq(Nat) /\ Len(tips') = 0 /\ tip' \in 0..head /\ lastSent' \in 0..head
      /\ Len(tips') <= TIP_CHANNEL
  BY <1>u, SnFacts DEF SnInv, ConstantsOK
<1>1. SnBehindCheckpoint'
  BY <1>u DEF SnInv, SnBehindCheckpoint
<1>2. \A i \in 1..Len(tips') : tips'[i] <= head
  BY <1>t
<1>3. scanned' \in BOOLEAN /\ startup' \in BOOLEAN /\ ~startup'
  BY <1>u
<1>4. map' \in [Receivers -> SnRow] /\ found' \in [Receivers -> SnRow]
  BY <1>u, SnFacts
<1>5. QED  BY <1>u, <1>t, <1>1, <1>2, <1>3, <1>4, SnFacts, SnWorkerStep

-----------------------------------------------------------------------------
(* Every step keeps the invariant: one case per action. *)
LEMMA SnNextInv == SnInv /\ [Next]_vars => SnInv'
<1> SUFFICES ASSUME SnInv, [Next]_vars PROVE SnInv'
  OBVIOUS
<1>1. CASE Next
  BY <1>1, SnNewBlockStep, SnTipStep, SnStartStep, SnNoHeadStep, SnRegistryChunkStep,
     SnRegistryDoneStep, SnFailStep, SnDepositChunkStep, SnDepositsDoneStep, SnActStep, SnCrashStep
  DEF Next, Worker
<1>2. CASE UNCHANGED vars
  <2>1. UNCHANGED <<chain, regCp, depCp, map, poller, scanned, phase, startup, tip, found,
                    pending, acted, env>>
    BY <1>2 DEF vars
  <2>2. SnBehindCheckpoint'
    BY <2>1 DEF SnInv, SnBehindCheckpoint
  <2>3. QED  BY <2>1, <2>2, SnFacts, SnWorkerStep DEF poller
<1>3. QED  BY <1>1, <1>2

(* The inductive invariant of the Starknet worker. *)
THEOREM IndexerInvariance == Spec => []SnInv
BY ConstantsAssumption, SnInitInv, SnNextInv, PTL DEF Spec

(* The variables of the Starknet worker keep their types; a checkpoint stays  *)
(* within the chain and the tip channel within its capacity.                  *)
THEOREM TypeCorrect == Spec => []TypeOK
BY IndexerInvariance, PTL DEF SnInv

(* A deposit on Starknet is acted on at most once (ActedOnce): scan_deposits  *)
(* saves its checkpoint before the worker acts on the chunk, so no chunk,     *)
(* tick, failed scan or restart returns it again.                             *)
THEOREM AtMostOnce == Spec => []ActedOnce
<1>1. SnInv => ActedOnce
  <2>1. SnInv => \A n \in Blocks : acted[n] \in Nat
    BY DEF SnInv, TypeOK
  <2>2. QED  BY <2>1 DEF SnInv, SnBehindCheckpoint, ActedOnce
<1>2. QED  BY <1>1, IndexerInvariance, PTL

(* In a process that keeps running and whose requests succeed, the two        *)
(* checkpoints pass over no receiver and no deposit (NothingMissed), for any  *)
(* chunk size and however the debounced tips come.                            *)
THEOREM Complete == Spec => []NothingMissed
<1>1. SnInv => NothingMissed
  <2> SUFFICES ASSUME SnInv PROVE NothingMissed
    OBVIOUS
  <2>1. NoDepositSkipped
    BY DEF SnInv
  <2>2. MapComplete
    BY SnFacts DEF MapComplete, AllKnown, SnKnows
  <2>3. QED  BY <2>1, <2>2 DEF NothingMissed
<1>2. QED  BY <1>1, IndexerInvariance, PTL
=============================================================================
