----------------------------- MODULE EvmProofs -----------------------------
(* Proofs about the EVM receivers: their contracts (EvmReceivers), for every  *)
(* set of merchants, chains, recipients and amounts, and, in the second part, *)
(* the worker that sweeps them (EvmSweep), for every set of receivers,        *)
(* merchants and deposits and every set of faults.  The two share no names    *)
(* and no state.                                                              *)
EXTENDS EvmReceivers, EvmSweep, TLAPS

-----------------------------------------------------------------------------
(* Arithmetic of one sweep *)

(* The fee and both of its shares are naturals, the fee is at most 50 basis  *)
(* points of the gross amount, and the shares add up to it.                  *)
LEMMA FeeArithmetic ==
  ASSUME NEW g \in Nat
  PROVE  /\ Fee(g) \in Nat
         /\ Fee(g) <= g
         /\ Fee(g) * BPS_DENOM <= g * FEE_BPS
         /\ FeeToCaller(Fee(g)) + FeeToTreasury(Fee(g)) = Fee(g)
<1>1. Fee(g) \in Nat /\ Fee(g) <= g /\ Fee(g) * BPS_DENOM <= g * FEE_BPS
  BY DEF Fee, FEE_BPS, BPS_DENOM
<1>2. FeeToCaller(Fee(g)) \in Nat
  BY <1>1 DEF FeeToCaller, CALLER_SHARE_BPS, BPS_DENOM
<1>3. QED  BY <1>1, <1>2 DEF FeeToTreasury

(* The fee ceiling of the CCTP burn stays below the net amount of any        *)
(* non-empty balance.                                                        *)
LEMMA BurnArithmetic ==
  ASSUME NEW g \in Nat, g > 0
  PROVE  BurnAccepted(g - Fee(g), MaxFee(g))
BY DEF BurnAccepted, Fee, MaxFee, FEE_BPS, BPS_DENOM

-----------------------------------------------------------------------------
(* Type correctness *)

(* The domain a chain's name resolves to is a domain. *)
LEMMA DomainsAreNat == \A name \in Names : DomainOf(name) \in Domains
BY DEF Domains

(* Domain 0 is one of the domains. *)
LEMMA ZeroDomain == 0 \in Domains
BY NamesAssumption DEF Domains, Names, DomainOf

(* What a clone is initialized with is a configuration. *)
LEMMA InitializedWithType == \A rt \in Route : InitializedWith(rt) \in Config
BY DomainsAreNat DEF InitializedWith, Config, Route

(* The predicted address of a route is that of a receiver. *)
LEMMA PredictType == \A rt \in Route : Predict(rt) \in Receiver /\ Predict(rt) \in Contracts
BY DEF Predict, Route, Receiver, Contracts

(* The contracts start within their types. *)
LEMMA TypeInit == Init => TypeOK
BY DEF Init, TypeOK

(* No call takes the contracts out of their types. *)
LEMMA TypeStep == TypeOK /\ [Next]_vars => TypeOK'
<1> SUFFICES ASSUME TypeOK, [Next]_vars PROVE TypeOK'
  OBVIOUS
<1> USE DEF TypeOK
<1>1. ASSUME NEW rt \in Route, RegisterMerchant(rt) PROVE TypeOK'
  <2>1. config' \in [Contracts -> Config \cup {NoCode, Uninitialized}]
    BY <1>1, InitializedWithType, PredictType DEF RegisterMerchant
  <2>2. merchantReceivers' \in [Merchants -> Seq(Receiver)]
    <3>1. rt.merchant \in Merchants
      BY DEF Route
    <3>2. Append(merchantReceivers[rt.merchant], Predict(rt)) \in Seq(Receiver)
      BY <3>1, PredictType
    <3>3. QED  BY <1>1, <3>1, <3>2 DEF RegisterMerchant
  <2>3. QED  BY <1>1, <2>1, <2>2 DEF RegisterMerchant, ledger
<1>2. ASSUME NEW rt \in Route, AnnounceReceiver(rt) PROVE TypeOK'
  BY <1>2, PredictType DEF AnnounceReceiver, ledger
<1>3. ASSUME NEW s \in Merchants \cup Senders, NEW m \in Merchants, NEW u \in Urls,
             SetWebhookUrl(s, m, u)
      PROVE  TypeOK'
  BY <1>3 DEF SetWebhookUrl, factory, ledger
<1>4. ASSUME NEW c \in Contracts, NEW params \in Config, Initialize(c, params) PROVE TypeOK'
  BY <1>4 DEF Initialize, ledger
<1>5. ASSUME NEW r \in PaidReceivers, NEW a \in Amounts, Deposit(r, a) PROVE TypeOK'
  <2>1. a \in Nat /\ r \in Receiver
    BY BoundsAssumption
  <2>2. balance' \in [Receiver -> Nat] /\ deposited' \in [Receiver -> Nat]
    BY <1>5, <2>1 DEF Deposit
  <2>3. QED  BY <1>5, <2>2 DEF Deposit, factory
<1>6. ASSUME NEW r \in Receiver, Sweep(r) PROVE TypeOK'
  <2> DEFINE g == balance[r]
  <2> DEFINE shares == FeeToCaller(Fee(g)) + FeeToTreasury(Fee(g))
  <2>1. g \in Nat
    OBVIOUS
  <2>a. Fee(g) \in Nat /\ Fee(g) <= g /\ shares = Fee(g)
    BY <2>1, FeeArithmetic
  <2> HIDE DEF shares
  <2>2. shares \in Nat /\ g - Fee(g) \in Nat /\ g - shares - (g - Fee(g)) = 0
    BY <2>1, <2>a
  <2>3. balance' \in [Receiver -> Nat]
    BY <1>6, <2>2 DEF Sweep, shares
  <2>4. swept' \in [Receiver -> Nat]
    BY <1>6 DEF Sweep
  <2>5. paidNet' \in [Receiver -> Nat]
    BY <1>6, <2>2 DEF Sweep
  <2>6. paidFee' \in [Receiver -> Nat]
    BY <1>6, <2>2 DEF Sweep, shares
  <2>7. netDest' \in [Receiver -> SUBSET Settlement]
    <3>1. config[r] \in Config
      BY <1>6 DEF Sweep, Sweepable, Contracts
    <3>2. Destination(config[r]) \in Settlement
      BY <3>1, ZeroDomain DEF Destination, Settlement, Config
    <3>3. QED  BY <1>6, <3>2 DEF Sweep
  <2>8. QED  BY <1>6, <2>3, <2>4, <2>5, <2>6, <2>7 DEF Sweep, factory
<1>7. CASE UNCHANGED vars
  BY <1>7 DEF vars, factory, ledger
<1>8. QED  BY <1>1, <1>2, <1>3, <1>4, <1>5, <1>6, <1>7 DEF Next

(* Every state the contracts reach is well typed: in particular no sweep     *)
(* pays out more than the receiver holds.                                    *)
THEOREM TypeCorrect == Spec => []TypeOK
BY TypeInit, TypeStep, PTL DEF Spec

-----------------------------------------------------------------------------
(* The ledger: where every token is *)

LedgerInv == TypeOK /\ Conservation /\ FeeBounded

(* No call breaks the ledger's invariant. *)
LEMMA LedgerStep == LedgerInv /\ [Next]_vars => LedgerInv'
<1> SUFFICES ASSUME LedgerInv, [Next]_vars PROVE LedgerInv'
  OBVIOUS
<1> USE DEF LedgerInv
<1>1. TypeOK'
  BY TypeStep
<1>3. ASSUME NEW q \in PaidReceivers, NEW a \in Amounts, Deposit(q, a)
      PROVE  Conservation' /\ FeeBounded'
  <2>1. a \in Nat /\ q \in Receiver
    BY BoundsAssumption
  <2>2. ASSUME NEW r \in Receiver
        PROVE  deposited'[r] = balance'[r] + swept'[r]
    BY <1>3, <2>1 DEF Deposit, Conservation, TypeOK
  <2>3. QED  BY <1>3, <2>2 DEF Deposit, Conservation, FeeBounded
<1>4. ASSUME NEW q \in Receiver, Sweep(q)
      PROVE  Conservation' /\ FeeBounded'
  <2> DEFINE g == balance[q]
  <2> DEFINE f == Fee(g)
  <2> DEFINE shares == FeeToCaller(f) + FeeToTreasury(f)
  <2>1. g \in Nat
    BY DEF TypeOK
  <2>2. f \in Nat /\ f <= g /\ f * 10000 <= g * 50 /\ shares = f
    BY <2>1, FeeArithmetic DEF BPS_DENOM, FEE_BPS
  <2>3. /\ balance' = [balance EXCEPT ![q] = @ - shares - (g - f)]
        /\ swept' = [swept EXCEPT ![q] = @ + g]
        /\ paidFee' = [paidFee EXCEPT ![q] = @ + shares]
        /\ paidNet' = [paidNet EXCEPT ![q] = @ + (g - f)]
        /\ deposited' = deposited
    BY <1>4 DEF Sweep
  <2> HIDE DEF f, shares
  <2>4. ASSUME NEW r \in Receiver
        PROVE  /\ deposited'[r] = balance'[r] + swept'[r]
               /\ swept'[r] = paidNet'[r] + paidFee'[r]
               /\ paidFee'[r] * 10000 <= swept'[r] * 50
    <3>1. CASE r = q
      <4>1. /\ balance[q] \in Nat /\ swept[q] \in Nat /\ paidFee[q] \in Nat
            /\ paidNet[q] \in Nat /\ deposited[q] \in Nat
        BY DEF TypeOK
      <4>2. /\ deposited[q] = balance[q] + swept[q]
            /\ swept[q] = paidNet[q] + paidFee[q]
            /\ paidFee[q] * 10000 <= swept[q] * 50
        BY DEF Conservation, FeeBounded, BPS_DENOM, FEE_BPS
      <4>3. /\ balance'[q] = balance[q] - shares - (g - f)
            /\ swept'[q] = swept[q] + g
            /\ paidFee'[q] = paidFee[q] + shares
            /\ paidNet'[q] = paidNet[q] + (g - f)
            /\ deposited'[q] = deposited[q]
        BY <2>3 DEF TypeOK
      <4>4. QED  BY <2>1, <2>2, <3>1, <4>1, <4>2, <4>3
    <3>2. CASE r # q
      BY <2>3, <3>2 DEF Conservation, FeeBounded, TypeOK, BPS_DENOM, FEE_BPS
    <3>3. QED  BY <3>1, <3>2
  <2>5. QED  BY <2>4 DEF Conservation, FeeBounded, BPS_DENOM, FEE_BPS
<1>5. UNCHANGED <<balance, deposited, swept, paidNet, paidFee>>
        => Conservation' /\ FeeBounded'
  BY DEF Conservation, FeeBounded
<1>6. QED
  BY <1>1, <1>3, <1>4, <1>5
  DEF Next, vars, ledger, RegisterMerchant, AnnounceReceiver, SetWebhookUrl, Initialize

(* The ledger's invariant holds before the first deposit. *)
LEMMA LedgerInit == Init => LedgerInv
BY TypeInit DEF Init, LedgerInv, Conservation, FeeBounded, FEE_BPS, BPS_DENOM

(* The inductive invariant of the ledger: conservation and the fee bound. *)
THEOREM LedgerCorrect == Spec => []LedgerInv
BY LedgerInit, LedgerStep, PTL DEF Spec

(* Nothing a payer sent is lost or stays behind after a sweep, whatever the  *)
(* interleaving of registrations, payments and sweeps.                       *)
THEOREM NothingLost == Spec => []Conservation
BY LedgerCorrect, PTL DEF LedgerInv

(* The fees a receiver ever paid are within 50 basis points of its gross. *)
THEOREM FeesBounded == Spec => []FeeBounded
BY LedgerCorrect, PTL DEF LedgerInv

-----------------------------------------------------------------------------
(* The route a receiver's address commits to *)

RouteOf(r) == [merchant |-> r[1], chain |-> r[2], recipient |-> r[3]]

(* A receiver with code pinned exactly the route its address commits to, and *)
(* its net amounts went there.                                               *)
PinnedRoute ==
  \A r \in Receiver :
    \/ config[r] = NoCode /\ netDest[r] = {}
    \/ /\ config[r] = InitializedWith(RouteOf(r))
       /\ netDest[r] \subseteq {Destination(InitializedWith(RouteOf(r)))}

(* An announcement names the address of a route that passed _checkRoute. *)
AnnouncedRoute ==
  \A e \in announced : e.receiver = Predict(e.route) /\ CheckRoute(e.route)

RouteInv == TypeOK /\ PinnedRoute /\ AnnouncedRoute

(* A predicted address determines its route. *)
LEMMA PredictRouteOf == \A rt \in Route : RouteOf(Predict(rt)) = rt
BY DEF Route, RouteOf, Predict

(* The routes' invariant holds before the first registration. *)
LEMMA RouteInit == Init => RouteInv
BY TypeInit, NamesAssumption DEF Init, RouteInv, PinnedRoute, AnnouncedRoute, Contracts

(* No call changes where a receiver settles. *)
LEMMA PinnedStep == RouteInv /\ [Next]_vars => PinnedRoute'
<1> SUFFICES ASSUME RouteInv, [Next]_vars PROVE PinnedRoute'
  OBVIOUS
<1> USE DEF RouteInv
<1>1. ASSUME NEW rt \in Route, RegisterMerchant(rt) PROVE PinnedRoute'
  <2>1. Predict(rt) \in Receiver /\ RouteOf(Predict(rt)) = rt
    BY PredictType, PredictRouteOf
  <2>2. netDest' = netDest
    BY <1>1 DEF RegisterMerchant, ledger
  <2>3. config[Predict(rt)] = NoCode
        /\ config' = [config EXCEPT ![Predict(rt)] = InitializedWith(rt)]
    BY <1>1 DEF RegisterMerchant, Registrable
  <2>4. NoCode \notin Config /\ InitializedWith(rt) \in Config
    BY NamesAssumption, InitializedWithType
  <2>5. ASSUME NEW r \in Receiver
        PROVE  \/ config'[r] = NoCode /\ netDest'[r] = {}
               \/ /\ config'[r] = InitializedWith(RouteOf(r))
                  /\ netDest'[r] \subseteq {Destination(InitializedWith(RouteOf(r)))}
    <3>1. r \in Contracts
      BY DEF Contracts
    <3>2. InitializedWith(RouteOf(r)) # NoCode
      <4>1. RouteOf(r) \in Route
        BY DEF RouteOf, Route, Receiver
      <4>2. QED  BY <4>1, InitializedWithType, NamesAssumption
    <3>3. CASE r = Predict(rt)
      <4>1. netDest[r] = {}
        BY <2>3, <3>2, <3>3 DEF PinnedRoute
      <4>2. config'[r] = InitializedWith(RouteOf(r))
        BY <2>1, <2>3, <3>1, <3>3 DEF TypeOK
      <4>3. QED  BY <2>2, <4>1, <4>2
    <3>4. CASE r # Predict(rt)
      BY <2>2, <2>3, <3>1, <3>4 DEF PinnedRoute, TypeOK
    <3>5. QED  BY <3>3, <3>4
  <2>6. QED  BY <2>5 DEF PinnedRoute
<1>2. ASSUME NEW c \in Contracts, NEW params \in Config, Initialize(c, params)
      PROVE  PinnedRoute'
  <2>1. netDest' = netDest
    BY <1>2 DEF Initialize, ledger
  <2>2. ASSUME NEW r \in Receiver PROVE config'[r] = config[r]
    <3>1. RouteOf(r) \in Route
      BY DEF RouteOf, Route, Receiver
    <3>2. config[r] # Uninitialized
      BY <3>1, InitializedWithType, NamesAssumption DEF PinnedRoute
    <3>3. c # r
      BY <1>2, <3>2 DEF Initialize
    <3>4. r \in Contracts
      BY DEF Contracts
    <3>5. QED  BY <1>2, <3>3, <3>4 DEF Initialize, TypeOK
  <2>3. QED  BY <2>1, <2>2 DEF PinnedRoute
<1>3. ASSUME NEW q \in Receiver, Sweep(q) PROVE PinnedRoute'
  <2>1. config' = config
    BY <1>3 DEF Sweep, factory
  <2>2. netDest' = [netDest EXCEPT ![q] = @ \cup {Destination(config[q])}]
        /\ config[q] # NoCode
    BY <1>3 DEF Sweep, Sweepable
  <2>3. config[q] = InitializedWith(RouteOf(q))
    BY <2>2 DEF PinnedRoute
  <2>4. ASSUME NEW r \in Receiver
        PROVE  \/ config'[r] = NoCode /\ netDest'[r] = {}
               \/ /\ config'[r] = InitializedWith(RouteOf(r))
                  /\ netDest'[r] \subseteq {Destination(InitializedWith(RouteOf(r)))}
    BY <2>1, <2>2, <2>3 DEF PinnedRoute, TypeOK
  <2>5. QED  BY <2>4 DEF PinnedRoute
<1>4. UNCHANGED <<config, netDest>> => PinnedRoute'
  BY DEF PinnedRoute
<1>5. QED
  BY <1>1, <1>2, <1>3, <1>4
  DEF Next, vars, factory, ledger, AnnounceReceiver, SetWebhookUrl, Deposit

(* No call announces a route that _checkRoute refuses. *)
LEMMA AnnouncedStep == RouteInv /\ [Next]_vars => AnnouncedRoute'
<1> SUFFICES ASSUME RouteInv, [Next]_vars PROVE AnnouncedRoute'
  OBVIOUS
<1>1. ASSUME NEW rt \in Route, AnnounceReceiver(rt) PROVE AnnouncedRoute'
  BY <1>1 DEF AnnounceReceiver, AnnouncedRoute, RouteInv, CheckRoute, Predict
<1>2. announced' = announced => AnnouncedRoute'
  BY DEF AnnouncedRoute, RouteInv, CheckRoute, Predict
<1>3. QED
  BY <1>1, <1>2
  DEF Next, vars, factory, RegisterMerchant, SetWebhookUrl, Initialize, Deposit, Sweep

(* No call breaks the routes' invariant. *)
LEMMA RouteStep == RouteInv /\ [Next]_vars => RouteInv'
BY TypeStep, PinnedStep, AnnouncedStep DEF RouteInv

(* The inductive invariant of the routes: receivers pinned, announced ones checked. *)
THEOREM RoutesCorrect == Spec => []RouteInv
BY RouteInit, RouteStep, PTL DEF Spec

(* A route that passed _checkRoute settles where announcing it promised. *)
LEMMA PromiseKept ==
  \A rt \in Route : CheckRoute(rt) => Destination(InitializedWith(rt)) = Promised(rt)
BY DEF CheckRoute, Destination, InitializedWith, Promised, DomainOf

(* No custody: whoever calls what, and in whatever order, the net amount of  *)
(* an announced receiver goes to the announced destination and nowhere else. *)
THEOREM NoCustody == Spec => []SettledWhereAnnounced
<1>1. RouteInv => SettledWhereAnnounced
  <2> SUFFICES ASSUME RouteInv, NEW e \in announced
               PROVE  netDest[e.receiver] \subseteq {Promised(e.route)}
    BY DEF SettledWhereAnnounced
  <2>1. e.route \in Route /\ e.receiver \in Receiver
    BY DEF RouteInv, TypeOK
  <2>2. e.receiver = Predict(e.route) /\ CheckRoute(e.route)
    BY DEF RouteInv, AnnouncedRoute
  <2>3. RouteOf(e.receiver) = e.route
    BY <2>1, <2>2, PredictRouteOf
  <2>4. netDest[e.receiver] \subseteq {Destination(InitializedWith(e.route))}
    BY <2>1, <2>3 DEF RouteInv, PinnedRoute
  <2>5. QED  BY <2>1, <2>2, <2>4, PromiseKept
<1>2. QED  BY <1>1, RoutesCorrect, PTL

(* What a contract pinned is never written again. *)
THEOREM DestinationsPinned == Spec => PinnedForever
<1>1. TypeOK /\ [Next]_vars
        => [\A c \in Contracts : config[c] \in Config => config'[c] = config[c]]_vars
  <2> SUFFICES ASSUME TypeOK, Next, NEW c \in Contracts, config[c] \in Config
               PROVE  config'[c] = config[c]
    OBVIOUS
  <2>1. ASSUME NEW rt \in Route, RegisterMerchant(rt) PROVE config'[c] = config[c]
    BY <2>1, NamesAssumption DEF RegisterMerchant, Registrable, TypeOK
  <2>2. ASSUME NEW d \in Contracts, NEW params \in Config, Initialize(d, params)
        PROVE  config'[c] = config[c]
    BY <2>2, NamesAssumption DEF Initialize, TypeOK
  <2>3. QED
    BY <2>1, <2>2 DEF Next, factory, AnnounceReceiver, SetWebhookUrl, Deposit, Sweep
<1>2. QED  BY <1>1, TypeCorrect, PTL DEF Spec, PinnedForever

-----------------------------------------------------------------------------
(* merchantReceiversMap and the clones *)

(* No call breaks the consistency of the factory's registry. *)
LEMMA RegistryStep ==
  TypeOK /\ RegistryConsistent /\ [Next]_vars => RegistryConsistent'
<1> SUFFICES ASSUME TypeOK, RegistryConsistent, [Next]_vars PROVE RegistryConsistent'
  OBVIOUS
<1>1. ASSUME NEW rt \in Route, RegisterMerchant(rt) PROVE RegistryConsistent'
  <2> DEFINE clone == Predict(rt)
  <2> DEFINE old == merchantReceivers[rt.merchant]
  <2>1. rt.merchant \in Merchants /\ clone \in Receiver /\ clone \in Contracts
        /\ clone[1] = rt.merchant
    BY PredictType DEF Route, Predict
  <2>2. /\ Len(old) < MAX_RECEIVERS_PER_MERCHANT
        /\ config[clone] = NoCode
        /\ config' = [config EXCEPT ![clone] = InitializedWith(rt)]
        /\ merchantReceivers' = [merchantReceivers EXCEPT ![rt.merchant] = Append(old, clone)]
    BY <1>1 DEF RegisterMerchant, Registrable
  <2>3. config'[clone] # NoCode
        /\ \A r \in Receiver : r # clone => config'[r] = config[r]
    BY <2>1, <2>2, InitializedWithType, NamesAssumption DEF TypeOK, Contracts
  <2>4. old \in Seq(Receiver)
    BY <2>1 DEF TypeOK
  <2>5. \A i \in 1..Len(old) : old[i] # clone
    BY <2>1, <2>2 DEF RegistryConsistent
  <2>6. ASSUME NEW m \in Merchants, m # rt.merchant
        PROVE  merchantReceivers'[m] = merchantReceivers[m]
               /\ \A r \in Receiver : r[1] = m => config'[r] = config[r]
    BY <2>1, <2>2, <2>3, <2>6 DEF TypeOK
  <2>7. merchantReceivers'[rt.merchant] = Append(old, clone)
    BY <2>1, <2>2 DEF TypeOK
  <2> DEFINE new == Append(old, clone)
  <2>8. /\ Len(new) = Len(old) + 1
        /\ \A i \in 1..Len(old) : new[i] = old[i]
        /\ new[Len(old) + 1] = clone
        /\ Len(old) \in Nat
    BY <2>1, <2>4
  <2>9. Len(new) <= MAX_RECEIVERS_PER_MERCHANT
    BY <2>2, <2>8, BoundsAssumption
  <2>10. \A i, j \in 1..Len(new) : new[i] = new[j] => i = j
    <3>1. \A i, j \in 1..Len(old) : old[i] = old[j] => i = j
      BY <2>1 DEF RegistryConsistent
    <3> HIDE DEF old, new, clone
    <3>2. \A i \in 1..Len(new) : i \in 1..Len(old) \/ i = Len(old) + 1
      BY <2>8
    <3>3. QED  BY <2>5, <2>8, <3>1, <3>2
  <2>11. ASSUME NEW r \in Receiver
         PROVE  (config'[r] # NoCode /\ r[1] = rt.merchant)
                  <=> \E i \in 1..Len(new) : new[i] = r
    <3>1. CASE r = clone
      BY <2>1, <2>3, <2>8, <3>1
    <3>2. CASE r # clone
      <4>1. (\E i \in 1..Len(new) : new[i] = r) <=> (\E i \in 1..Len(old) : old[i] = r)
        BY <2>8, <3>2
      <4>2. QED  BY <2>1, <2>3, <3>2, <4>1 DEF RegistryConsistent
    <3>3. QED  BY <3>1, <3>2
  <2> HIDE DEF new
  <2>12. merchantReceivers'[rt.merchant] = new
    BY <2>7 DEF new
  <2>13. ASSUME NEW m \in Merchants
         PROVE  /\ Len(merchantReceivers'[m]) <= MAX_RECEIVERS_PER_MERCHANT
                /\ \A i, j \in 1..Len(merchantReceivers'[m]) :
                     merchantReceivers'[m][i] = merchantReceivers'[m][j] => i = j
                /\ \A r \in Receiver :
                     (config'[r] # NoCode /\ r[1] = m)
                       <=> \E i \in 1..Len(merchantReceivers'[m]) : merchantReceivers'[m][i] = r
    <3>1. CASE m = rt.merchant
      BY <2>9, <2>10, <2>11, <2>12, <3>1
    <3>2. CASE m # rt.merchant
      BY <2>6, <3>2 DEF RegistryConsistent
    <3>3. QED  BY <3>1, <3>2
  <2>14. QED  BY <2>13 DEF RegistryConsistent
<1>2. ASSUME NEW c \in Contracts, NEW params \in Config, Initialize(c, params)
      PROVE  RegistryConsistent'
  <2>1. merchantReceivers' = merchantReceivers
    BY <1>2 DEF Initialize
  <2>2. \A r \in Receiver : config'[r] # NoCode <=> config[r] # NoCode
    BY <1>2, NamesAssumption DEF Initialize, TypeOK, Contracts
  <2>3. QED  BY <2>1, <2>2 DEF RegistryConsistent
<1>3. UNCHANGED <<config, merchantReceivers>> => RegistryConsistent'
  BY DEF RegistryConsistent
<1>4. QED
  BY <1>1, <1>2, <1>3
  DEF Next, vars, factory, AnnounceReceiver, SetWebhookUrl, Deposit, Sweep

(* The empty registry is consistent. *)
LEMMA RegistryInit == Init => RegistryConsistent
<1> SUFFICES ASSUME Init, NEW m \in Merchants
             PROVE  /\ Len(merchantReceivers[m]) <= MAX_RECEIVERS_PER_MERCHANT
                    /\ \A i, j \in 1..Len(merchantReceivers[m]) :
                         merchantReceivers[m][i] = merchantReceivers[m][j] => i = j
                    /\ \A r \in Receiver :
                         (config[r] # NoCode /\ r[1] = m)
                           <=> \E i \in 1..Len(merchantReceivers[m]) : merchantReceivers[m][i] = r
  BY DEF RegistryConsistent
<1>1. merchantReceivers[m] = << >> /\ Len(<< >>) = 0
  BY DEF Init
<1>2. \A r \in Receiver : config[r] = NoCode
  BY NamesAssumption DEF Init, Contracts
<1>3. QED  BY <1>1, <1>2, BoundsAssumption

(* The factory's list of a merchant is exactly its deployed clones, each     *)
(* once, and stays within the cap.                                           *)
THEOREM RegistryCorrect == Spec => []RegistryConsistent
BY TypeCorrect, RegistryInit, RegistryStep, PTL DEF Spec

(* A paid receiver that was announced is swept, or registered first, or its   *)
(* merchant's list is full.  A clone is never left uninitialized and its      *)
(* route was checked when it was announced (RouteInv), the list is within the *)
(* cap (RegistryConsistent), and the fee ceiling of a burn is below its       *)
(* amount (BurnArithmetic).                                                   *)
THEOREM OnlyTheCapBlocks == Spec => []StuckOnlyByCap
<1>1. RouteInv /\ RegistryConsistent => StuckOnlyByCap
  <2> SUFFICES ASSUME RouteInv, RegistryConsistent, NEW e \in announced,
                      balance[e.receiver] > 0, e.route.merchant # Zero,
                      ~Sweepable(e.receiver), ~Registrable(e.route)
               PROVE  /\ Len(merchantReceivers[e.route.merchant]) = MAX_RECEIVERS_PER_MERCHANT
                      /\ config[e.receiver] = NoCode
    BY DEF StuckOnlyByCap
  <2>1. e.route \in Route /\ e.receiver \in Receiver /\ balance[e.receiver] \in Nat
    BY DEF RouteInv, TypeOK
  <2>2. e.receiver = Predict(e.route) /\ CheckRoute(e.route)
    BY DEF RouteInv, AnnouncedRoute
  <2>3. config[e.receiver] = NoCode
    <3>1. RouteOf(e.receiver) \in Route
      BY <2>1 DEF RouteOf, Route, Receiver
    <3>2. InitializedWith(RouteOf(e.receiver)) \notin {NoCode, Uninitialized}
      BY <3>1, InitializedWithType, NamesAssumption
    <3>3. BurnAccepted(balance[e.receiver] - Fee(balance[e.receiver]),
                       MaxFee(balance[e.receiver]))
      BY <2>1, BurnArithmetic
    <3>4. config[e.receiver] \in {NoCode, Uninitialized}
      BY <3>3 DEF Sweepable
    <3>5. QED  BY <2>1, <3>2, <3>4 DEF RouteInv, PinnedRoute
  <2>4. e.route.merchant \in Merchants
    BY <2>1 DEF Route
  <2>5. ~(Len(merchantReceivers[e.route.merchant]) < MAX_RECEIVERS_PER_MERCHANT)
    BY <2>2, <2>3 DEF Registrable
  <2>6. Len(merchantReceivers[e.route.merchant]) \in Nat
    BY <2>4 DEF RouteInv, TypeOK
  <2>7. Len(merchantReceivers[e.route.merchant]) <= MAX_RECEIVERS_PER_MERCHANT
    BY <2>4 DEF RegistryConsistent
  <2>8. QED  BY <2>3, <2>5, <2>6, <2>7, BoundsAssumption
<1>2. QED  BY <1>1, RoutesCorrect, RegistryCorrect, PTL

-----------------------------------------------------------------------------
(* The sweep. *)

(* Whoever has no announced route was deployed from the start. *)
CodeKept == InitiallyDeployed \subseteq code

(* An unanswered existence check is remembered in one pass only. *)
FreshPass ==
  /\ phase \in {"idle", "filter", "exists"} => indeterminate = {}
  /\ phase = "idle" => batch = {}

(* Without a race, a batch that gas estimation accepted still executes when   *)
(* it is included.                                                            *)
InflightExecutes == "race" \notin env /\ phase = "inflight" => Executes

(* The deposits of the pass are forwarded already or their receivers are      *)
(* still in it, and every one of those will be swept.                         *)
PassCovers ==
  env \cap {"getcode", "race"} = {} =>
    /\ phase \in {"filter", "exists", "send", "inflight"} =>
         \A d \in batch : d \in settled \/ depositTo[d] \in unique
    /\ phase \in {"send", "inflight"} =>
         indeterminate = {} /\ unique \subseteq deployed \cup Routed
    /\ phase = "notify" => batch \subseteq settled

IInv == /\ SweepTypes /\ CodeKept /\ FreshPass
        /\ DeployedIsDeployed /\ InflightExecutes
        /\ PassCovers /\ NotifiedWereSettled

-----------------------------------------------------------------------------
(* The invariant holds before the first cycle. *)
LEMMA InitInv == SweepInit => IInv
BY SweepConstants
DEF SweepInit, IInv, SweepTypes, CodeKept, FreshPass, DeployedIsDeployed, InflightExecutes,
    PassCovers, NotifiedWereSettled

(* The steps of payers and of others while no batch is on its way leave       *)
(* the pass alone, and only add to the chain.                                 *)
LEMMA OthersStep ==
  ASSUME IInv, UNCHANGED <<deployed, seen, pass, notified, env>>,
         made \subseteq made', made' \subseteq Deposits,
         settled \subseteq settled', settled' \subseteq made',
         code \subseteq code', code' \subseteq Receivers,
         code' = code \/ OthersMayAct
  PROVE  IInv'
<1> USE DEF IInv, pass
<1>1. SweepTypes'
  BY DEF SweepTypes
<1>2. CodeKept' /\ FreshPass' /\ DeployedIsDeployed'
  BY DEF CodeKept, FreshPass, DeployedIsDeployed
<1>3. InflightExecutes'
  <2> SUFFICES ASSUME "race" \notin env, phase = "inflight"
               PROVE  Executes'
    BY DEF InflightExecutes
  <2>1. Executes /\ code' = code
    BY DEF InflightExecutes, OthersMayAct
  <2>2. QED  BY <2>1 DEF Executes, Registers, Sweeps, Count
<1>4. PassCovers' /\ NotifiedWereSettled'
  BY DEF PassCovers, NotifiedWereSettled, SweepTypes
<1>5. QED  BY <1>1, <1>2, <1>3, <1>4

(* A pass that ends without a webhook; what the chain did meanwhile. *)
LEMMA GiveUpStep ==
  ASSUME IInv, GiveUp, UNCHANGED <<made, deployed, seen, env>>,
         settled \subseteq settled', settled' \subseteq made,
         code \subseteq code', code' \subseteq Receivers,
         notified \subseteq notified', notified' \subseteq notified \cup batch,
         notified' # notified => phase = "notify"
  PROVE  IInv'
<1> USE DEF IInv, GiveUp
<1>1. SweepTypes'
  BY DEF SweepTypes
<1>2. CodeKept' /\ FreshPass' /\ DeployedIsDeployed' /\ InflightExecutes'
  BY DEF CodeKept, FreshPass, DeployedIsDeployed, InflightExecutes
<1>3. PassCovers' /\ NotifiedWereSettled'
  BY DEF PassCovers, NotifiedWereSettled
<1>4. QED  BY <1>1, <1>2, <1>3

(* The execution of a batch only adds to the chain, and what it registers is  *)
(* then deployed.                                                             *)
LEMMA ExecuteGrows ==
  ASSUME IInv, Execute
  PROVE  /\ settled \subseteq settled' /\ settled' \subseteq made /\ made' = made
         /\ code \subseteq code' /\ code' \subseteq Receivers
BY SweepConstants
DEF IInv, SweepTypes, Execute, Swept, Registers, Sweeps, chain

(* A confirmed batch keeps the invariant. *)
LEMMA ConfirmStep ==
  ASSUME IInv, Confirm
  PROVE  IInv'
<1> USE DEF IInv
<1>g. /\ settled \subseteq settled' /\ settled' \subseteq made /\ made' = made
      /\ code \subseteq code' /\ code' \subseteq Receivers
  BY ExecuteGrows DEF Confirm
<1>1. SweepTypes'
  BY <1>g DEF Confirm, SweepTypes, Registers, Sweeps
<1>2. CodeKept' /\ FreshPass' /\ InflightExecutes'
  BY <1>g DEF Confirm, CodeKept, FreshPass, InflightExecutes
<1>3. DeployedIsDeployed'
  <2> SUFFICES ASSUME "race" \notin env
               PROVE  deployed' \subseteq code'
    BY DEF DeployedIsDeployed, Confirm
  <2>1. Executes
    BY DEF InflightExecutes, Confirm
  <2>2. code' = code \cup Registers
    BY <2>1 DEF Confirm, Execute
  <2>3. deployed \subseteq code
    BY DEF DeployedIsDeployed
  <2>4. QED  BY <2>2, <2>3 DEF Confirm
<1>4. PassCovers'
  <2> SUFFICES ASSUME env \cap {"getcode", "race"} = {}
               PROVE  batch \subseteq settled'
    BY DEF PassCovers, Confirm
  <2>1. Executes
    BY DEF InflightExecutes, Confirm
  <2>2. settled' = settled \cup Swept
    BY <2>1 DEF Confirm, Execute
  <2>3. /\ \A d \in batch : d \in settled \/ depositTo[d] \in unique
        /\ indeterminate = {} /\ unique \subseteq deployed \cup Routed
        /\ deployed \subseteq code
    BY DEF PassCovers, Confirm, DeployedIsDeployed
  <2>4. unique \subseteq Sweeps \cap (code \cup Registers)
    BY <2>3 DEF Sweeps, Registers
  <2>5. batch \subseteq made
    BY DEF SweepTypes
  <2>6. QED  BY <2>2, <2>3, <2>4, <2>5 DEF Swept
<1>5. NotifiedWereSettled'
  BY <1>g DEF Confirm, NotifiedWereSettled
<1>6. QED  BY <1>1, <1>2, <1>3, <1>4, <1>5

(* The existence checks; without failing ones every receiver of the pass is   *)
(* then known to be deployed, or has a route.                                 *)
LEMMA CheckStep ==
  ASSUME IInv, NEW unanswered \in SUBSET Unknown, CheckDeployed(unanswered)
  PROVE  IInv'
<1> USE DEF IInv, CheckDeployed, chain
<1>1. SweepTypes'
  BY DEF SweepTypes, Unknown
<1>2. CodeKept' /\ FreshPass' /\ DeployedIsDeployed' /\ InflightExecutes'
  BY DEF CodeKept, FreshPass, DeployedIsDeployed, InflightExecutes
<1>3. PassCovers'
  <2> SUFFICES ASSUME env \cap {"getcode", "race"} = {}
               PROVE  /\ \A d \in batch : d \in settled \/ depositTo[d] \in unique
                      /\ unanswered = {} /\ unique \subseteq deployed' \cup Routed
    BY DEF PassCovers
  <2>1. unanswered = {} /\ \A d \in batch : d \in settled \/ depositTo[d] \in unique
    BY DEF PassCovers
  <2>2. ASSUME NEW r \in unique, r \notin Routed
        PROVE  r \in deployed'
    <3>1. r \in code
      BY <2>2, SweepConstants DEF SweepTypes, CodeKept
    <3>2. QED  BY <2>1, <2>2, <3>1 DEF Unknown
  <2>3. QED  BY <2>1, <2>2
<1>4. NotifiedWereSettled'
  BY DEF NotifiedWereSettled
<1>5. QED  BY <1>1, <1>2, <1>3, <1>4

(* Every step keeps the invariant: one case per action. *)
LEMMA NextInv == IInv /\ [SweepNext]_sweepVars => IInv'
<1> SUFFICES ASSUME IInv, [SweepNext]_sweepVars
             PROVE  IInv'
  OBVIOUS
<1> USE DEF chain, pass
<1>1. ASSUME NEW d \in Deposits, Pay(d)
      PROVE  IInv'
  BY <1>1, OthersStep DEF Pay, IInv, SweepTypes
<1>2. ASSUME NEW r \in Receivers, OthersRegister(r)
      PROVE  IInv'
  BY <1>2, OthersStep DEF OthersRegister, IInv, SweepTypes
<1>3. ASSUME NEW r \in Receivers, OthersSweep(r)
      PROVE  IInv'
  BY <1>3, OthersStep DEF OthersSweep, Held, IInv, SweepTypes
<1>4. ASSUME NEW found \in SUBSET (made \ seen), ActOnDeposits(found)
      PROVE  IInv'
  <2>1. SweepTypes'
    <3>1. seen \cup found \subseteq made /\ {depositTo[d] : d \in found} \subseteq Receivers /\ indeterminate = {}
      BY <1>4, SweepConstants DEF ActOnDeposits, IInv, SweepTypes, FreshPass
    <3>2. QED  BY <1>4, <3>1 DEF ActOnDeposits, IInv, SweepTypes
  <2>2. QED
    BY <1>4, <2>1
    DEF ActOnDeposits, IInv, CodeKept, FreshPass, DeployedIsDeployed,
        InflightExecutes, PassCovers, NotifiedWereSettled
<1>5. CASE Reconcile
  BY <1>5
  DEF Reconcile, IInv, SweepTypes, CodeKept, FreshPass, DeployedIsDeployed,
      InflightExecutes, PassCovers, NotifiedWereSettled
<1>6. CASE FilterZero
  <2>1. CASE GiveUp
    BY <1>6, <2>1, GiveUpStep DEF FilterZero, IInv, SweepTypes
  <2>2. CASE unique' = {r \in unique : Held(r) # {}} /\ phase' = "exists"
             /\ UNCHANGED <<batch, indeterminate>>
    <3>1. SweepTypes'
      BY <1>6, <2>2 DEF FilterZero, IInv, SweepTypes, FreshPass
    <3>2. ASSUME NEW d \in batch, d \notin settled
          PROVE  d \in Held(depositTo[d])
      BY <3>2 DEF IInv, SweepTypes, Held
    <3>3. PassCovers'
      BY <1>6, <2>2, <3>2 DEF FilterZero, IInv, PassCovers
    <3>4. QED
      BY <1>6, <2>2, <3>1, <3>3
      DEF FilterZero, IInv, CodeKept, FreshPass, DeployedIsDeployed,
          InflightExecutes, NotifiedWereSettled
  <2>3. QED  BY <1>6, <2>1, <2>2 DEF FilterZero
<1>7. CASE FilterFails
  BY <1>7
  DEF FilterFails, IInv, SweepTypes, CodeKept, FreshPass, DeployedIsDeployed,
      InflightExecutes, PassCovers, NotifiedWereSettled
<1>8. ASSUME NEW unanswered \in SUBSET Unknown, CheckDeployed(unanswered)
      PROVE  IInv'
  BY <1>8, CheckStep
<1>9. CASE Send
  <2>1. SweepTypes' /\ CodeKept' /\ FreshPass' /\ DeployedIsDeployed'
    BY <1>9 DEF Send, IInv, SweepTypes, CodeKept, FreshPass, DeployedIsDeployed
  <2>2. InflightExecutes'
    BY <1>9 DEF Send, InflightExecutes, Executes, Registers, Sweeps, Count
  <2>3. PassCovers' /\ NotifiedWereSettled'
    BY <1>9 DEF Send, IInv, PassCovers, NotifiedWereSettled
  <2>4. QED  BY <2>1, <2>2, <2>3 DEF IInv
<1>10. CASE NotSent
  BY <1>10, GiveUpStep DEF NotSent, IInv, SweepTypes
<1>11. CASE Confirm
  BY <1>11, ConfirmStep
<1>12. CASE NoReceipt
  <2>1. /\ settled \subseteq settled' /\ settled' \subseteq made /\ made' = made
        /\ code \subseteq code' /\ code' \subseteq Receivers
    BY <1>12, ExecuteGrows DEF NoReceipt, IInv, SweepTypes
  <2>2. QED  BY <1>12, <2>1, GiveUpStep DEF NoReceipt
<1>13. CASE Notify
  BY <1>13, GiveUpStep DEF Notify, IInv, SweepTypes
<1>14. CASE UNCHANGED sweepVars
  BY <1>14, OthersStep DEF sweepVars, IInv, SweepTypes
<1>15. QED
  BY <1>1, <1>2, <1>3, <1>4, <1>5, <1>6, <1>7, <1>8, <1>9, <1>10, <1>11, <1>12,
     <1>13, <1>14
  DEF SweepNext

(* The inductive invariant of the worker holds in every behaviour. *)
THEOREM Invariance == SweepSpec => []IInv
BY InitInv, NextInv, PTL DEF SweepSpec

(* The variables keep their types, what a sweep settles was paid and what is  *)
(* reported was found by a deposit scan.                                      *)
THEOREM SweepTypeCorrect == SweepSpec => []SweepTypes
BY Invariance, PTL DEF IInv

(* EvmState.deployed names deployed receivers only, although the status of a  *)
(* receipt is never looked at: unless others act on a batch that is on its    *)
(* way, the batch that gas estimation accepted executes.                      *)
THEOREM CacheTruthful == SweepSpec => []DeployedIsDeployed
BY Invariance, PTL DEF IInv

(* No webhook job is queued for a deposit that was not forwarded, if the      *)
(* existence checks answer and nobody races a batch that is on its way.       *)
THEOREM WebhookAfterSweep == SweepSpec => []NotifiedWereSettled
BY Invariance, PTL DEF IInv
=============================================================================
