----------------------------- MODULE PageProofs -----------------------------
(* Proofs about the two pages of a merchant's browser that use secrets: the   *)
(* creation of lanes (LaneCreation) and, in the second part, the page that    *)
(* claims from private lanes (StealthPage).  The two share no names and no    *)
(* state.                                                                     *)
EXTENDS LaneCreation, StealthPage, FiniteSetTheorems, WellFoundedInduction, TLAPS

(* One lane, whatever its flag says. *)
LcSame(l, m) ==
  /\ l.id = m.id /\ l.privacy = m.privacy /\ l.target = m.target /\ l.recipient = m.recipient
  /\ l.cred = m.cred /\ l.config = m.config /\ l.receivers = m.receivers

(* The record names the passkey its account follows from. *)
LcDerived(l) ==
  \E c \in IF l.cred # None THEN {l.cred} ELSE AllCreds :
    c \in prf /\ StealthAccount(c, l.id, l.target, l.config) = l.recipient

(* What a link needs. *)
LcShareable(l) ==
  /\ <<l.target, l.recipient>> \in announced
  /\ l.receivers \subseteq Showable(l.target, l.recipient)
  /\ IF l.privacy THEN LcDerived(l) ELSE l.cred = None

LcKept(l) == l.privacy => \E r \in saved : LcSame(l, r)
LcFiled(l) == \E m \in FiledLanes : LcSame(l, m)

(* A creation whose payout account is there, and one whose receivers are.     *)
LcBuilt(w) ==
  /\ KindOf(w.recipient) = Kind(w.form.target)
  /\ w.form.privacy => w.cred \in prf /\ w.recipient = StealthAccount(w.cred, w.id, w.form.target, Cosigner)
LcReady(w) == w.receivers \subseteq Showable(w.form.target, w.recipient)

(* Before the token: a private lane has its secret from its own passkey, or   *)
(* will ask for it; a public one is ready.                                    *)
LcPending(w) ==
  IF w.form.privacy THEN w.salt \/ (w.secret = w.cred /\ w.cred \in prf)
  ELSE LcBuilt(w) /\ LcReady(w)

LcCreateFields == {"pc", "form", "id", "cred", "auth", "salt", "eval", "attempt", "why", "secret",
                   "recipient", "receivers"}

(* A creation under way: a public lane has no passkey and asks for no secret. *)
LcRunning(w) ==
  /\ w.form \in Forms /\ w.id \in 1..MaxLanes
  /\ ~w.form.privacy => w.cred = None /\ ~w.salt

LcCreate(w) ==
  /\ w = [f \in LcCreateFields |-> w[f]]
  /\ w.pc # "idle" => LcRunning(w)
  /\ w.pc \in {"config", "prf"} => w.form.privacy
  /\ w.pc = "register" => w.why \in {"root", "auth", "fresh"} /\ (w.why = "root" => w.form.privacy)
  /\ w.pc \in {"start", "assert"} \/ (w.pc = "register" /\ w.why # "root") => LcPending(w)
  /\ w.pc = "derive" => w.form.privacy /\ w.secret = w.cred /\ w.cred \in prf
  /\ w.pc \in {"predict", "announce", "discover"} => LcBuilt(w)
  /\ w.pc \in {"announce", "discover"} => LcReady(w)
  /\ w.pc = "discover" => <<w.form.target, w.recipient>> \in announced

(* A lane stored: one of a file until it is verified.                         *)
LcStored(id, l) ==
  /\ l = [f \in LaneFields |-> l[f]] /\ l.id = id
  /\ IF l.needsVerify THEN LcFiled(l) ELSE LcShareable(l)
  /\ LcKept(l)

(* A verification goes on with the record that is still stored.               *)
LcVerify(v) ==
  /\ v = [f \in {"pc", "lane"} |-> v[f]]
  /\ v.pc # "idle" =>
       /\ LcFiled(v.lane) /\ v.lane.id \in DOMAIN lanes /\ LcSame(lanes[v.lane.id], v.lane)
       /\ v.pc = "predict" /\ v.lane.privacy => LcDerived(v.lane)

LcWorld ==
  /\ env \in Environments /\ ids \in Nat
  /\ registered \in Nat /\ prf \subseteq AllCreds
  /\ "refuse" \notin env.faults =>
       /\ {root, auth} \ {None} \subseteq archive
       /\ "clear" \notin env.faults => prf \subseteq archive \cup Synced
  /\ Elsewhere \subseteq announced /\ FiledLanes \subseteq saved

LcInv ==
  /\ LcWorld
  /\ create = [t \in Tabs |-> create[t]] /\ verify = [t \in Tabs |-> verify[t]]
  /\ \A t \in Tabs : LcCreate(create[t]) /\ LcVerify(verify[t])
  /\ lanes = [i \in DOMAIN lanes |-> lanes[i]]
  /\ \A i \in DOMAIN lanes : LcStored(i, lanes[i])
  /\ \A l \in shared : LcShareable(l) /\ LcKept(l)

-----------------------------------------------------------------------------
(* A nonempty set of naturals has its minimum: they are well-founded. *)
LEMMA LcMinIn == ASSUME NEW S, S \subseteq Nat, S # {} PROVE Min(S) \in S
<1> DEFINE R == {ss \in Nat \X Nat : ss[1] < ss[2]}
<1>1. IsWellFoundedOn(R, Nat)
  <2>1. OpToRel(<, Nat) = R
    BY Zenon DEF OpToRel
  <2>2. QED  BY <2>1, NatLessThanWellFounded, Zenon
<1>2. PICK x \in S : \A y \in S : ~(<<y, x>> \in R)
  <2> HIDE DEF R
  <2>1. QED  BY <1>1, WFMin, Zenon
<1>3. ASSUME NEW y \in S PROVE x <= y
  <2>1. ~(y < x)
    BY <1>2
  <2>2. QED  BY <2>1
<1>4. QED  BY <1>3 DEF Min

(* What both RPC sources confirm is the address that was asked for: at most   *)
(* one of them is wrong.                                                      *)
LEMMA LcConfirmed ==
  ASSUME NEW a, NEW p \in Moods("proxy"), NEW d \in Moods("direct")
  PROVE  Confirmed(Answer(p, a), Answer(d, a)) \in {a, NoAddress}
<1>1. p \in {"right", "failed", "wrong"} /\ d \in {"right", "failed", "wrong"}
  BY DEF Moods
<1>2. p # "wrong" \/ d # "wrong"
  BY DEF Moods
<1>3. Answer("right", a) = a /\ Answer("failed", a) = NoAddress
  BY DEF Answer
<1>4. QED  BY <1>1, <1>2, <1>3 DEF Confirmed

(* predictReceiver, for all the addresses wanted. *)
LEMMA LcPredicted == ASSUME NEW wanted, NEW rs \in Predicted(wanted) PROVE rs \subseteq wanted
<1>1. PICK p \in Moods("proxy"), d \in Moods("direct") :
        rs = {Confirmed(Answer(p, a), Answer(d, a)) : a \in wanted}
  BY DEF Predicted
<1>2. NoAddress \notin rs
  BY DEF Predicted
<1>3. \A a \in wanted : Confirmed(Answer(p, a), Answer(d, a)) \in {a, NoAddress}
  BY LcConfirmed
<1>4. QED  BY <1>1, <1>2, <1>3

(* The account derived is the one the passkey, the id and the cosigner give.  *)
LEMMA LcDerivedAccounts ==
  ASSUME NEW k, NEW id, NEW c, NEW cos, NEW a \in DerivedAccounts(k, id, c, cos)
  PROVE  a = StealthAccount(k, id, c, cos)
<1>1. CASE a \in UNION Predicted({StealthAccount(k, id, c, cos)})
  <2>1. PICK rs \in Predicted({StealthAccount(k, id, c, cos)}) : a \in rs
    BY <1>1
  <2>2. rs \subseteq {StealthAccount(k, id, c, cos)}
    BY LcPredicted
  <2>3. QED  BY <2>1, <2>2
<1>2. QED  BY <1>1 DEF DerivedAccounts

(* The page and the backend see the same merchant on a leg (identity.js,      *)
(* create_workers.rs), unless they hash a felt and write it differently.      *)
LEMMA LcMerchant ==
  ASSUME NEW leg \in DOMAIN Chain, NEW a,
         \/ env.format = BACKEND_FELT_FORMAT
         \/ KindOf(a) # "starknet"
         \/ Kind(leg) = "starknet"
  PROVE  merchantIdentity(leg, a) = WorkerMerchant(env.format, leg, a)
<1>1. Kind(leg) \in {"evm", "starknet", "solana"}
  BY ChainAssumption DEF Kind, Kinds
<1>2. CASE KindOf(a) = Kind(leg)
  BY <1>2 DEF merchantIdentity, WorkerMerchant, ParsesOn
<1>3. CASE KindOf(a) # Kind(leg) /\ Kind(leg) = "evm"
  <2>1. backendFeltString(a) = Sanitized(env.format, a)
    BY <1>3 DEF backendFeltString, Sanitized
  <2>2. QED  BY <1>3, <2>1 DEF merchantIdentity, WorkerMerchant, ParsesOn
<1>4. CASE KindOf(a) # Kind(leg) /\ Kind(leg) = "starknet"
  BY <1>4 DEF merchantIdentity, WorkerMerchant, ParsesOn, Sanitized
<1>5. CASE KindOf(a) # Kind(leg) /\ Kind(leg) = "solana"
  <2>1. backendFeltString(a) = Sanitized(env.format, a)
    BY <1>5 DEF backendFeltString, Sanitized
  <2>2. QED  BY <1>5, <2>1 DEF merchantIdentity, WorkerMerchant, ParsesOn
<1>6. QED  BY <1>1, <1>2, <1>3, <1>4, <1>5

(* So a receiver the page computes is among those the backend announces.      *)
LEMMA LcAnnounced ==
  ASSUME NEW leg \in DOMAIN Chain, NEW target, NEW a, KindOf(a) = Kind(target),
         \/ env.format = BACKEND_FELT_FORMAT
         \/ KindOf(a) # "starknet"
         \/ Kind(leg) = "starknet"
         \/ leg = target
  PROVE  LegReceiver(leg, target, a, a) \in AnnouncedReceivers(env.format, target, a, a)
<1> DEFINE merchant == IF leg = target THEN a ELSE merchantIdentity(leg, a)
           route == IF leg = target THEN <<>> ELSE <<target, a>>
<1>1. WorkerMerchant(env.format, leg, a) = merchant
  <2>1. CASE leg = target
    BY <2>1 DEF WorkerMerchant, ParsesOn
  <2>2. CASE leg # target
    BY <2>2, LcMerchant
  <2>3. QED  BY <2>1, <2>2
<1>2. LegReceiver(leg, target, a, a) = FactoryReceiver(leg, merchant, route)
  BY DEF LegReceiver, cctpRoute
<1>3. FactoryReceiver(leg, WorkerMerchant(env.format, leg, a), route) \in AnnouncedReceivers(env.format, target, a, a)
  BY DEF AnnouncedReceivers
<1>4. QED  BY <1>1, <1>2, <1>3

(* A receiver that pays to another leg names its payout: if somebody had it   *)
(* announced, it was for this payout.                                         *)
LEMMA LcDiscovered ==
  ASSUME NEW leg \in DOMAIN Chain, NEW target, NEW a, leg # target,
         LegReceiver(leg, target, a, a) \in OnChain
  PROVE  LegReceiver(leg, target, a, a) \in AnnouncedReceivers(env.format, target, a, a)
<1> DEFINE r == LegReceiver(leg, target, a, a)
<1>1. PICK x \in announced : r \in AnnouncedReceivers(env.format, x[1], x[2], x[2])
  BY DEF OnChain
<1>2. PICK m \in DOMAIN Chain :
        r = FactoryReceiver(m, WorkerMerchant(env.format, m, IF m = x[1] THEN x[2] ELSE x[2]),
                            IF m = x[1] THEN <<>> ELSE <<x[1], x[2]>>)
  BY <1>1 DEF AnnouncedReceivers
<1>3. r[5] = <<target, a>>
  BY DEF LegReceiver, FactoryReceiver, cctpRoute
<1>4. r[5] = IF m = x[1] THEN <<>> ELSE <<x[1], x[2]>>
  BY <1>2 DEF FactoryReceiver
<1>5. <<>> # <<target, a>>
  OBVIOUS
<1>6. <<x[1], x[2]>> = <<target, a>>
  BY <1>3, <1>4, <1>5
<1>7. x[1] = target /\ x[2] = a
  BY <1>6
<1>8. QED  BY <1>1, <1>7

(* The predicted receivers and the discovered ones may be shown. *)
LEMMA LcReceivers ==
  ASSUME NEW target, NEW a, KindOf(a) = Kind(target)
  PROVE  /\ \A rs \in PredictedReceivers(target, a) : rs \subseteq Showable(target, a)
         /\ AnnouncedFor(target, a) \subseteq Showable(target, a)
<1>1. ASSUME NEW leg \in laneChains PROVE LegReceiver(leg, target, a, a) \in Showable(target, a)
  <2>1. leg \in DOMAIN Chain /\ Kind(leg) \in {"evm", "starknet"}
    BY DEF laneChains, canPredict
  <2>2. CASE \/ env.format = BACKEND_FELT_FORMAT
             \/ KindOf(a) # "starknet"
             \/ Kind(leg) = "starknet"
    BY <2>1, <2>2, LcAnnounced DEF Showable
  <2>3. CASE env.format # BACKEND_FELT_FORMAT /\ KindOf(a) = "starknet" /\ Kind(leg) = "evm"
    BY <2>3 DEF Showable, HashedFelt
  <2>4. QED  BY <2>1, <2>2, <2>3
<1>2. ASSUME NEW r \in AnnouncedFor(target, a) PROVE r \in Showable(target, a)
  <2>1. PICK leg \in DOMAIN Chain : r = LegReceiver(leg, target, a, a)
    BY DEF AnnouncedFor, SolanaLegs
  <2>2. r \in OnChain
    BY DEF AnnouncedFor
  <2>3. r \in AnnouncedReceivers(env.format, target, a, a)
    BY <2>1, <2>2, LcAnnounced, LcDiscovered
  <2>4. QED  BY <2>3 DEF Showable
<1>3. Receivers(target, a) \subseteq Showable(target, a)
  BY <1>1 DEF Receivers
<1>4. \A rs \in PredictedReceivers(target, a) : rs \subseteq Receivers(target, a)
  BY LcPredicted DEF PredictedReceivers
<1>5. QED  BY <1>2, <1>3, <1>4

-----------------------------------------------------------------------------
(* What passkeys, announcements and files only add to keeps what was said of  *)
(* the lanes.                                                                 *)
LcGrows ==
  /\ env' = env /\ prf \subseteq prf' /\ AllCreds \subseteq AllCreds'
  /\ announced \subseteq announced' /\ saved \subseteq saved'

(* What a link may show stays what it is. *)
LEMMA LcShowable ==
  ASSUME LcGrows
  PROVE  /\ \A target, a : Showable(target, a)' = Showable(target, a)
         /\ \A w : LcReady(w)' = LcReady(w)
<1>1. \A target, a : Showable(target, a)' = Showable(target, a)
  BY DEF LcGrows, Showable
<1>2. QED  BY <1>1 DEF LcReady

(* A lane keeps what makes it shareable and recoverable. *)
LEMMA LcLaneGrows ==
  ASSUME LcGrows
  PROVE  /\ \A l : LcDerived(l) => LcDerived(l)'
         /\ \A l : LcShareable(l) => LcShareable(l)'
         /\ \A l : LcKept(l) => LcKept(l)'
         /\ \A l : LcFiled(l) => LcFiled(l)'
<1>1. \A l : LcDerived(l) => LcDerived(l)'
  BY DEF LcDerived, LcGrows
<1>2. \A l : LcShareable(l) => LcShareable(l)'
  BY <1>1, LcShowable DEF LcShareable, LcGrows
<1>3. \A l : LcKept(l) => LcKept(l)'
  BY DEF LcKept, LcGrows
<1>4. QED  BY <1>1, <1>2, <1>3 DEF LcFiled

(* A creation keeps what it has established. *)
LEMMA LcCreateGrows == ASSUME LcGrows, NEW w, LcCreate(w) PROVE LcCreate(w)'
<1>1. LcBuilt(w) => LcBuilt(w)'
  BY DEF LcBuilt, LcGrows
<1>2. LcPending(w) => LcPending(w)'
  BY <1>1, LcShowable DEF LcPending, LcGrows
<1>3. QED  BY <1>1, <1>2, LcShowable DEF LcCreate, LcRunning, LcGrows

(* A creation that is not running. *)
LEMMA LcIdle == LcCreate(IdleCreate) /\ IdleCreate.pc = "idle"
BY DEF LcCreate, LcCreateFields, IdleCreate

(* The invariant holds before the first lane. *)
LEMMA LcInitInv == Init => LcInv
<1> SUFFICES ASSUME Init PROVE LcInv
  OBVIOUS
<1>1. LcWorld
  <2>1. env \in Environments /\ ids = 0 /\ registered = 0 /\ prf = Synced /\ root = None /\ auth = None
        /\ announced = Elsewhere /\ saved = FiledLanes
    BY DEF Init
  <2>2. QED  BY <2>1 DEF LcWorld, AllCreds
<1>2. create = [t \in Tabs |-> IdleCreate] /\ verify = [t \in Tabs |-> IdleVerify]
  BY DEF Init
<1>3. \A t \in Tabs : LcCreate(create[t]) /\ LcVerify(verify[t])
  BY <1>2, LcIdle DEF LcVerify, IdleVerify
<1>4. DOMAIN lanes = {} /\ lanes = [i \in DOMAIN lanes |-> lanes[i]] /\ shared = {}
  BY DEF Init
<1>5. QED  BY <1>1, <1>2, <1>3, <1>4 DEF LcInv

-----------------------------------------------------------------------------
(* A step that leaves passkeys, announcements and files alone. *)
LEMMA LcQuiet ==
  ASSUME LcInv, UNCHANGED <<env, passkeys, announced, saved>>, ids' \in Nat
  PROVE  LcGrows /\ LcWorld'
<1>1. UNCHANGED <<env, root, auth, archive, known, registered, prf, announced, saved>>
  BY DEF passkeys
<1>2. AllCreds' = AllCreds
  BY <1>1 DEF AllCreds
<1>3. QED  BY <1>1, <1>2 DEF LcInv, LcWorld, LcGrows

(* A step of a creation, seen from the lanes. *)
LEMMA LcCreateStep ==
  ASSUME LcInv, LcGrows, LcWorld', UNCHANGED <<lanes, verify, shared>>, NEW t \in Tabs,
         create' = [s \in Tabs |-> create'[s]], \A s \in Tabs \ {t} : create'[s] = create[s],
         LcCreate(create[t])'
  PROVE  LcInv'
<1>1. ASSUME NEW s \in Tabs PROVE LcCreate(create[s])'
  <2>1. CASE s = t
    BY <2>1
  <2>2. CASE s # t
    <3>1. PICK w : w = create[s]
      OBVIOUS
    <3>2. LcCreate(w)'
      BY <3>1, LcCreateGrows DEF LcInv
    <3>3. create'[s] = w
      BY <2>2, <3>1
    <3>4. QED  BY <3>2, <3>3
  <2>3. QED  BY <2>1, <2>2
<1>2. ASSUME NEW s \in Tabs PROVE LcVerify(verify[s])'
  <2>1. PICK v : v = verify[s]
    OBVIOUS
  <2>2. LcVerify(v)
    BY <2>1 DEF LcInv
  <2>3. LcVerify(v)'
    BY <2>2, LcLaneGrows DEF LcVerify
  <2>4. QED  BY <2>1, <2>3
<1>3. ASSUME NEW i \in DOMAIN lanes PROVE LcStored(i, lanes[i])'
  <2>1. PICK l : l = lanes[i]
    OBVIOUS
  <2>2. LcStored(i, l)
    BY <2>1 DEF LcInv
  <2>3. LcStored(i, l)'
    BY <2>2, LcLaneGrows DEF LcStored
  <2>4. QED  BY <2>1, <2>3
<1>4. \A l \in shared : LcShareable(l)' /\ LcKept(l)'
  BY LcLaneGrows DEF LcInv
<1>5. QED  BY <1>1, <1>2, <1>3, <1>4 DEF LcInv

(* Most steps set the tab's own record. *)
LEMMA LcSets ==
  ASSUME LcInv, LcGrows, LcWorld', UNCHANGED <<lanes, verify, shared>>, NEW t \in Tabs, NEW v,
         LcCreate(v), Set(t, v)
  PROVE  LcInv'
<1>1. create' = [create EXCEPT ![t] = v] /\ create = [s \in Tabs |-> create[s]]
  BY DEF Set, LcInv
<1>2. create' = [s \in Tabs |-> create'[s]] /\ create'[t] = v /\ \A s \in Tabs \ {t} : create'[s] = create[s]
  BY <1>1
<1>3. PICK w : w = v
  OBVIOUS
<1>4. LcCreate(w)'
  BY <1>3, LcCreateGrows
<1>5. create'[t] = w
  BY <1>2, <1>3
<1>6. LcCreate(create[t])'
  BY <1>4, <1>5
<1>7. QED  BY <1>2, <1>6, LcCreateStep

(* The creation of a tab, as the invariant has it. *)
LEMMA LcCreateOf == LcInv => \A t \in Tabs : LcCreate(create[t])
BY DEF LcInv

(* ensureAuthCredential starts the ceremony, or registers. *)
LEMMA LcEnsureAuth ==
  ASSUME NEW w, w = [f \in LcCreateFields |-> w[f]], LcRunning(w), LcPending(w), NEW a
  PROVE  LcCreate(EnsureAuth(w, a))
<1>1. CASE a # None
  <2> DEFINE v == [w EXCEPT !.pc = "start", !.auth = a]
  <2>1. EnsureAuth(w, a) = v
    BY <1>1 DEF EnsureAuth
  <2>2. /\ v = [f \in LcCreateFields |-> v[f]]
        /\ v.pc = "start" /\ v.form = w.form /\ v.id = w.id /\ v.cred = w.cred /\ v.salt = w.salt
        /\ v.secret = w.secret /\ v.recipient = w.recipient /\ v.receivers = w.receivers
    BY DEF LcCreateFields
  <2> HIDE DEF v
  <2>3. LcPending(v) /\ LcRunning(v)
    BY <2>2 DEF LcPending, LcBuilt, LcReady, LcRunning
  <2>4. QED  BY <2>1, <2>2, <2>3 DEF LcCreate
<1>2. CASE a = None
  <2> DEFINE v == [w EXCEPT !.pc = "register", !.why = "auth"]
  <2>1. EnsureAuth(w, a) = v
    BY <1>2 DEF EnsureAuth, Register
  <2>2. /\ v = [f \in LcCreateFields |-> v[f]] /\ v.why = "auth"
        /\ v.pc = "register" /\ v.form = w.form /\ v.id = w.id /\ v.cred = w.cred /\ v.salt = w.salt
        /\ v.secret = w.secret /\ v.recipient = w.recipient /\ v.receivers = w.receivers
    BY DEF LcCreateFields
  <2> HIDE DEF v
  <2>3. LcPending(v) /\ LcRunning(v)
    BY <2>2 DEF LcPending, LcBuilt, LcReady, LcRunning
  <2>4. QED  BY <2>1, <2>2, <2>3 DEF LcCreate
<1>3. QED  BY <1>1, <1>2

(* With the root there, a private lane is on its way to its secret. *)
LEMMA LcWithRoot ==
  ASSUME NEW w, w = [f \in LcCreateFields |-> w[f]], LcRunning(w), w.form.privacy, NEW r, NEW a
  PROVE  LcCreate(WithRoot(w, r, a))
<1>1. CASE a = r
  <2> DEFINE v == [w EXCEPT !.cred = r, !.salt = TRUE, !.attempt = 0]
  <2>0. WithRoot(w, r, a) = EnsureAuth(v, a)
    BY <1>1 DEF WithRoot
  <2>1. v = [f \in LcCreateFields |-> v[f]] /\ v.form = w.form /\ v.id = w.id /\ v.salt
    BY DEF LcCreateFields
  <2> HIDE DEF v
  <2>2. LcPending(v) /\ LcRunning(v)
    BY <2>1 DEF LcPending, LcRunning
  <2>3. QED  BY <2>0, <2>1, <2>2, LcEnsureAuth
<1>2. CASE a # r
  <2> DEFINE v == [w EXCEPT !.cred = r, !.pc = "prf"]
  <2>0. WithRoot(w, r, a) = v
    BY <1>2 DEF WithRoot
  <2>1. v = [f \in LcCreateFields |-> v[f]] /\ v.form = w.form /\ v.id = w.id /\ v.pc = "prf"
    BY DEF LcCreateFields
  <2> HIDE DEF v
  <2>2. QED  BY <2>0, <2>1 DEF LcCreate, LcRunning
<1>3. QED  BY <1>1, <1>2

(* A form that passes handleSubmit; a public lane has its payout address. *)
LEMMA LcSubmit ==
  ASSUME LcInv, NEW t \in Tabs, NEW f \in env.forms, Submit(t, f)
  PROVE  LcInv'
<1> DEFINE pc == IF f.privacy THEN "config" ELSE "predict"
           a == IF f.privacy THEN NoAddress ELSE canonicalAddress(f.target, f.typed)
           v == [IdleCreate EXCEPT !.pc = pc, !.form = f, !.id = ids + 1, !.recipient = a]
<1>1. UNCHANGED <<env, passkeys, announced, saved>> /\ UNCHANGED <<lanes, verify, shared>> /\ Set(t, v)
      /\ ids < MaxLanes /\ ids' = ids + 1
      /\ (~f.privacy => canonicalAddress(f.target, f.typed) # NoAddress)
  BY DEF Submit
<1>2. ids \in Nat /\ MaxLanes \in Nat /\ f \in Forms
  BY LaneAssumption DEF LcInv, LcWorld
<1>3. ids' \in Nat /\ ids + 1 \in 1..MaxLanes
  BY <1>1, <1>2
<1>4. LcGrows /\ LcWorld'
  BY <1>1, <1>3, LcQuiet
<1>5. /\ v = [x \in LcCreateFields |-> v[x]] /\ v.pc = pc /\ v.form = f /\ v.id = ids + 1
      /\ v.recipient = a /\ v.cred = None /\ v.salt = FALSE
  BY DEF LcCreateFields, IdleCreate
<1>6. ~f.privacy => KindOf(a) = Kind(f.target)
  BY <1>1 DEF canonicalAddress, KindOf
<1>7. f.privacy \in BOOLEAN
  BY <1>2, LaneAssumption
<1> HIDE DEF v
<1>8. LcRunning(v)
  BY <1>2, <1>3, <1>5 DEF LcRunning
<1>9. CASE f.privacy
  BY <1>1, <1>4, <1>5, <1>8, <1>9, LcSets DEF LcCreate
<1>10. CASE ~f.privacy
  <2>1. LcBuilt(v)
    BY <1>5, <1>6, <1>10 DEF LcBuilt
  <2>2. v.pc = "predict"
    BY <1>5, <1>10
  <2>3. LcCreate(v)
    BY <1>5, <1>8, <2>1, <2>2 DEF LcCreate
  <2>4. QED  BY <1>1, <1>4, <2>3, LcSets
<1>11. QED  BY <1>9, <1>10

(* A step of a creation that changes nothing but its record. *)
LEMMA LcOwnStep ==
  ASSUME LcInv, NEW t \in Tabs, UNCHANGED <<env, passkeys, lanes, ids, verify, announced, saved, shared>>,
         NEW v, LcCreate(v), Set(t, v)
  PROVE  LcInv'
<1>1. ids' \in Nat
  BY DEF LcInv, LcWorld
<1>2. UNCHANGED <<env, passkeys, announced, saved>> /\ UNCHANGED <<lanes, verify, shared>>
  OBVIOUS
<1>3. LcGrows /\ LcWorld'
  BY <1>1, <1>2, LcQuiet
<1>4. QED  BY <1>2, <1>3, LcSets

(* handleSubmit's catch. *)
LEMMA LcCreateFails == ASSUME LcInv, NEW t \in Tabs, CreateFails(t) PROVE LcInv'
BY LcIdle, LcOwnStep DEF CreateFails

(* The root that is stored, or a new passkey to be one. *)
LEMMA LcResolve == ASSUME LcInv, NEW t \in Tabs, ResolveConfig(t) PROVE LcInv'
<1> DEFINE w == create[t]
<1>1. LcCreate(w) /\ w.pc = "config"
  BY LcCreateOf DEF ResolveConfig
<1>2. w = [f \in LcCreateFields |-> w[f]] /\ LcRunning(w) /\ w.form.privacy
  BY <1>1 DEF LcCreate
<1>3. UNCHANGED <<env, passkeys, lanes, ids, verify, announced, saved, shared>>
  BY DEF ResolveConfig
<1>4. CASE root # None
  BY <1>2, <1>3, <1>4, LcWithRoot, LcOwnStep DEF ResolveConfig
<1>5. CASE root = None
  <2> DEFINE v == [w EXCEPT !.pc = "register", !.why = "root"]
  <2>1. Set(t, v)
    BY <1>5 DEF ResolveConfig, Register
  <2>2. v = [f \in LcCreateFields |-> v[f]] /\ v.form = w.form /\ v.id = w.id /\ v.pc = "register"
        /\ v.why = "root" /\ v.cred = w.cred /\ v.salt = w.salt
    BY <1>2 DEF LcCreateFields
  <2>3. LcCreate(v)
    <3> HIDE DEF v
    <3>1. LcRunning(v)
      BY <1>2, <2>2 DEF LcRunning
    <3>2. QED  BY <1>2, <2>2, <3>1 DEF LcCreate
  <2>4. QED  BY <1>3, <2>1, <2>3, LcOwnStep
<1>6. QED  BY <1>4, <1>5

(* A new passkey is archived with being adopted, and only added to those      *)
(* there are.                                                                 *)
LEMMA LcRegistered == ASSUME LcInv, NEW t \in Tabs, Registered(t) PROVE LcInv'
<1> DEFINE w == create[t]
           c == registered + 1
<1>1. PICK hasPrf \in BOOLEAN :
        /\ prf' = IF hasPrf THEN prf \cup {c} ELSE prf
        /\ Adopt(c, hasPrf, w.why # "root" \/ auth = None)
        /\ Set(t, CASE w.why = "root" /\ ~hasPrf -> IdleCreate
                    [] w.why = "root" /\ hasPrf -> WithRoot(w, c, auth')
                    [] w.why = "auth" -> [w EXCEPT !.pc = "start", !.auth = c]
                    [] w.why = "fresh" -> EnsureAuth([w EXCEPT !.attempt = 1], auth'))
  BY DEF Registered
<1>2. /\ UNCHANGED <<env, lanes, ids, verify, announced, saved, shared>>
      /\ w.pc = "register" /\ registered' = c /\ Archive(c)
  BY DEF Registered
<1>3. LcWorld /\ registered \in Nat
  BY DEF LcInv, LcWorld
<1>4. AllCreds \subseteq AllCreds' /\ c \in AllCreds' /\ c \in Nat
  BY <1>2, <1>3 DEF AllCreds
<1>5. prf \subseteq prf' /\ prf' \subseteq prf \cup {c}
  BY <1>1
<1>6. LcGrows
  BY <1>2, <1>4, <1>5 DEF LcGrows
<1>7. "refuse" \notin env.faults =>
        archive' = archive \cup {c} /\ root' \in {root, c} /\ auth' \in {auth, c}
  BY <1>1, <1>2 DEF Archive, Adopt, Write
<1>8. LcWorld'
  <2>1. "refuse" \notin env.faults => {root', auth'} \ {None} \subseteq archive'
    BY <1>3, <1>7 DEF LcWorld
  <2>2. "refuse" \notin env.faults /\ "clear" \notin env.faults => prf' \subseteq archive' \cup Synced
    BY <1>3, <1>5, <1>7 DEF LcWorld
  <2>3. prf' \subseteq AllCreds' /\ registered' \in Nat
    BY <1>2, <1>3, <1>4, <1>5 DEF LcWorld
  <2>4. QED  BY <1>2, <1>3, <2>1, <2>2, <2>3 DEF LcWorld
<1>9. LcCreate(w) /\ w = [f \in LcCreateFields |-> w[f]] /\ LcRunning(w)
      /\ w.why \in {"root", "auth", "fresh"} /\ (w.why = "root" => w.form.privacy)
      /\ (w.why # "root" => LcPending(w))
  BY <1>2, LcCreateOf DEF LcCreate
<1>10. CASE w.why = "root" /\ ~hasPrf
  <2>1. Set(t, IdleCreate)
    BY <1>1, <1>10
  <2>2. QED  BY <1>2, <1>6, <1>8, <2>1, LcIdle, LcSets
<1>11. CASE w.why = "root" /\ hasPrf
  <2>1. PICK a : a = auth'
    OBVIOUS
  <2>2. Set(t, WithRoot(w, c, a))
    BY <1>1, <1>11, <2>1
  <2>3. LcCreate(WithRoot(w, c, a))
    BY <1>9, <1>11, LcWithRoot
  <2>4. QED  BY <1>2, <1>6, <1>8, <2>2, <2>3, LcSets
<1>12. CASE w.why = "auth"
  <2>1. c # None
    BY <1>4, LaneAssumption
  <2>2. Set(t, EnsureAuth(w, c))
    BY <1>1, <1>12, <2>1 DEF EnsureAuth
  <2>3. LcCreate(EnsureAuth(w, c))
    BY <1>9, <1>12, LcEnsureAuth
  <2>4. QED  BY <1>2, <1>6, <1>8, <2>2, <2>3, LcSets
<1>13. CASE w.why = "fresh"
  <2> DEFINE v == [w EXCEPT !.attempt = 1]
  <2>1. PICK a : a = auth'
    OBVIOUS
  <2>2. Set(t, EnsureAuth(v, a))
    BY <1>1, <1>13, <2>1
  <2>3. v = [f \in LcCreateFields |-> v[f]] /\ v.form = w.form /\ v.id = w.id /\ v.cred = w.cred
        /\ v.salt = w.salt /\ v.secret = w.secret /\ v.recipient = w.recipient /\ v.receivers = w.receivers
    BY <1>9 DEF LcCreateFields
  <2> HIDE DEF v
  <2>4. LcRunning(v) /\ LcPending(v)
    BY <1>9, <1>13, <2>3 DEF LcRunning, LcPending, LcBuilt, LcReady
  <2>5. LcCreate(EnsureAuth(v, a))
    BY <2>3, <2>4, LcEnsureAuth
  <2>6. QED  BY <1>2, <1>6, <1>8, <2>2, <2>5, LcSets
<1>14. QED  BY <1>9, <1>10, <1>11, <1>12, <1>13

(* A lost answer leaves a passkey nobody uses. *)
LEMMA LcRegisterLost == ASSUME LcInv, NEW t \in Tabs, RegisterLost(t) PROVE LcInv'
<1>1. /\ UNCHANGED <<env, root, auth, archive, prf, lanes, ids, verify, announced, saved, shared>>
      /\ registered' = registered + 1 /\ Set(t, IdleCreate)
  BY DEF RegisterLost
<1>2. LcWorld /\ registered \in Nat
  BY DEF LcInv, LcWorld
<1>3. AllCreds \subseteq AllCreds' /\ registered' \in Nat
  BY <1>1, <1>2 DEF AllCreds
<1>4. LcGrows /\ LcWorld'
  BY <1>1, <1>2, <1>3 DEF LcGrows, LcWorld
<1>5. QED  BY <1>1, <1>4, LcIdle, LcSets

(* authStart asks for the assertion, for a fresh passkey, or gives up. *)
LEMMA LcAuthStart == ASSUME LcInv, NEW t \in Tabs, AuthStart(t) PROVE LcInv'
<1> DEFINE w == create[t]
           e == w.salt /\ w.auth = root
<1>1. w.pc = "start" /\ UNCHANGED <<env, passkeys, lanes, ids, verify, announced, saved, shared>>
  BY DEF AuthStart
<1>2. w = [f \in LcCreateFields |-> w[f]] /\ LcRunning(w) /\ LcPending(w)
  BY <1>1, LcCreateOf DEF LcCreate
<1>3. CASE w.auth \in known
  <2>1. PICK b : b = e
    OBVIOUS
  <2> DEFINE v == [w EXCEPT !.pc = "assert", !.eval = b]
  <2>2. Set(t, v)
    BY <1>3, <2>1 DEF AuthStart
  <2>3. v = [f \in LcCreateFields |-> v[f]] /\ v.pc = "assert" /\ v.form = w.form /\ v.id = w.id
        /\ v.cred = w.cred /\ v.salt = w.salt /\ v.secret = w.secret /\ v.recipient = w.recipient
        /\ v.receivers = w.receivers
    BY <1>2 DEF LcCreateFields
  <2>4. LcCreate(v)
    <3> HIDE DEF v
    <3>1. LcRunning(v) /\ LcPending(v)
      BY <1>2, <2>3 DEF LcRunning, LcPending, LcBuilt, LcReady
    <3>2. QED  BY <2>3, <3>1 DEF LcCreate
  <2>5. QED  BY <1>1, <2>2, <2>4, LcOwnStep
<1>4. CASE w.auth \notin known /\ w.attempt = 0
  <2> DEFINE v == [w EXCEPT !.pc = "register", !.why = "fresh"]
  <2>1. Set(t, v)
    BY <1>4 DEF AuthStart, Register
  <2>2. v = [f \in LcCreateFields |-> v[f]] /\ v.pc = "register" /\ v.form = w.form /\ v.id = w.id
        /\ v.cred = w.cred /\ v.salt = w.salt /\ v.secret = w.secret /\ v.recipient = w.recipient
        /\ v.receivers = w.receivers /\ v.why = "fresh"
    BY <1>2 DEF LcCreateFields
  <2>3. LcCreate(v)
    <3> HIDE DEF v
    <3>1. LcRunning(v) /\ LcPending(v)
      BY <1>2, <2>2 DEF LcRunning, LcPending, LcBuilt, LcReady
    <3>2. QED  BY <2>2, <3>1 DEF LcCreate
  <2>4. QED  BY <1>1, <2>1, <2>3, LcOwnStep
<1>5. CASE w.auth \notin known /\ w.attempt # 0
  <2>1. Set(t, IdleCreate)
    BY <1>5 DEF AuthStart
  <2>2. QED  BY <1>1, <2>1, LcIdle, LcOwnStep
<1>6. QED  BY <1>3, <1>4, <1>5

(* The secret is the one of the lane's own passkey, or it is asked for again. *)
LEMMA LcAssertion == ASSUME LcInv, NEW t \in Tabs, Assertion(t) PROVE LcInv'
<1> DEFINE w == create[t]
<1>1. w.pc = "assert" /\ UNCHANGED <<env, passkeys, lanes, ids, verify, announced, saved, shared>>
  BY DEF Assertion
<1>2. PICK secret \in IF w.eval /\ w.auth \in prf THEN {w.auth, None} ELSE {None} :
        Set(t, CASE w.salt -> TokenWithPrf([w EXCEPT !.salt = FALSE], secret)
                 [] ~w.salt /\ w.form.privacy -> [w EXCEPT !.pc = "derive"]
                 [] OTHER -> [w EXCEPT !.pc = "announce"])
  BY DEF Assertion
<1>3. w = [f \in LcCreateFields |-> w[f]] /\ LcRunning(w) /\ LcPending(w)
  BY <1>1, LcCreateOf DEF LcCreate
<1>4. secret # None => secret = w.auth /\ w.auth \in prf
  BY <1>2
<1>5. CASE w.salt
  <2> DEFINE u == [w EXCEPT !.salt = FALSE]
  <2>0. w.form \in Forms /\ w.form.privacy
    BY <1>3, <1>5, LaneAssumption DEF LcRunning
  <2>1. u = [f \in LcCreateFields |-> u[f]] /\ u.form = w.form /\ u.id = w.id /\ u.cred = w.cred
        /\ u.auth = w.auth
    BY <1>3 DEF LcCreateFields
  <2>2. Set(t, TokenWithPrf(u, secret))
    BY <1>2, <1>5
  <2> HIDE DEF u
  <2>3. CASE secret # None /\ u.auth = u.cred
    <3> DEFINE v == [u EXCEPT !.pc = "derive", !.secret = secret]
    <3>1. Set(t, v)
      BY <2>2, <2>3 DEF TokenWithPrf
    <3>2. v = [f \in LcCreateFields |-> v[f]] /\ v.pc = "derive" /\ v.form = u.form /\ v.id = u.id
          /\ v.cred = u.cred /\ v.secret = secret
      BY <2>1 DEF LcCreateFields
    <3> HIDE DEF v
    <3>3. v.secret = v.cred /\ v.cred \in prf /\ v.form.privacy /\ LcRunning(v)
      BY <1>3, <1>4, <2>0, <2>1, <2>3, <3>2 DEF LcRunning
    <3>4. LcCreate(v)
      BY <3>2, <3>3 DEF LcCreate
    <3>5. QED  BY <1>1, <3>1, <3>4, LcOwnStep
  <2>4. CASE ~(secret # None /\ u.auth = u.cred)
    <3> DEFINE v == [u EXCEPT !.pc = "prf"]
    <3>1. Set(t, v)
      BY <2>2, <2>4 DEF TokenWithPrf
    <3>2. v = [f \in LcCreateFields |-> v[f]] /\ v.pc = "prf" /\ v.form = u.form /\ v.id = u.id
      BY <2>1 DEF LcCreateFields
    <3> HIDE DEF v
    <3>3. v.form.privacy /\ LcRunning(v)
      BY <1>3, <2>0, <2>1, <3>2 DEF LcRunning
    <3>4. LcCreate(v)
      BY <3>2, <3>3 DEF LcCreate
    <3>5. QED  BY <1>1, <3>1, <3>4, LcOwnStep
  <2>5. QED  BY <2>3, <2>4
<1>6. CASE ~w.salt /\ w.form.privacy
  <2> DEFINE v == [w EXCEPT !.pc = "derive"]
  <2>1. Set(t, v)
    BY <1>2, <1>6
  <2>2. v = [f \in LcCreateFields |-> v[f]] /\ v.pc = "derive" /\ v.form = w.form /\ v.id = w.id
        /\ v.cred = w.cred /\ v.secret = w.secret
    BY <1>3 DEF LcCreateFields
  <2> HIDE DEF v
  <2>3. v.secret = v.cred /\ v.cred \in prf /\ v.form.privacy /\ LcRunning(v)
    BY <1>3, <1>6, <2>2 DEF LcRunning, LcPending
  <2>4. LcCreate(v)
    BY <2>2, <2>3 DEF LcCreate
  <2>5. QED  BY <1>1, <2>1, <2>4, LcOwnStep
<1>7. CASE ~w.salt /\ ~w.form.privacy
  <2> DEFINE v == [w EXCEPT !.pc = "announce"]
  <2>1. Set(t, v)
    BY <1>2, <1>7
  <2>2. v = [f \in LcCreateFields |-> v[f]] /\ v.pc = "announce" /\ v.form = w.form /\ v.id = w.id
        /\ v.cred = w.cred /\ v.salt = w.salt /\ v.recipient = w.recipient /\ v.receivers = w.receivers
    BY <1>3 DEF LcCreateFields
  <2> HIDE DEF v
  <2>3. LcBuilt(v) /\ LcReady(v) /\ LcRunning(v)
    BY <1>3, <1>7, <2>2 DEF LcRunning, LcPending, LcBuilt, LcReady
  <2>4. LcCreate(v)
    BY <2>2, <2>3 DEF LcCreate
  <2>5. QED  BY <1>1, <2>1, <2>4, LcOwnStep
<1>8. QED  BY <1>5, <1>6, <1>7

(* The secret of the root, evaluated against it. *)
LEMMA LcEvaluatePrf == ASSUME LcInv, NEW t \in Tabs, EvaluatePrf(t) PROVE LcInv'
<1> DEFINE w == create[t]
           v == [w EXCEPT !.secret = w.cred, !.attempt = 0]
<1>1. /\ w.pc = "prf" /\ w.cred \in prf /\ Set(t, EnsureAuth(v, auth))
      /\ UNCHANGED <<env, passkeys, lanes, ids, verify, announced, saved, shared>>
  BY DEF EvaluatePrf
<1>2. w = [f \in LcCreateFields |-> w[f]] /\ LcRunning(w) /\ w.form.privacy
  BY <1>1, LcCreateOf DEF LcCreate
<1>3. v = [f \in LcCreateFields |-> v[f]] /\ v.form = w.form /\ v.id = w.id /\ v.cred = w.cred
      /\ v.secret = w.cred
  BY <1>2 DEF LcCreateFields
<1> HIDE DEF v
<1>4. LcRunning(v) /\ LcPending(v)
  BY <1>1, <1>2, <1>3 DEF LcRunning, LcPending
<1>5. LcCreate(EnsureAuth(v, auth))
  BY <1>3, <1>4, LcEnsureAuth
<1>6. QED  BY <1>1, <1>5, LcOwnStep

(* The payout account is that of the lane's passkey. *)
LEMMA LcDerive == ASSUME LcInv, NEW t \in Tabs, Derive(t) PROVE LcInv'
<1> DEFINE w == create[t]
<1>1. w.pc = "derive" /\ UNCHANGED <<env, passkeys, lanes, ids, verify, announced, saved, shared>>
  BY DEF Derive
<1>2. PICK a \in DerivedAccounts(w.secret, w.id, w.form.target, Cosigner) :
        Set(t, [w EXCEPT !.pc = "predict", !.secret = None, !.recipient = a])
  BY DEF Derive
<1> DEFINE v == [w EXCEPT !.pc = "predict", !.secret = None, !.recipient = a]
<1>3. w = [f \in LcCreateFields |-> w[f]] /\ LcRunning(w) /\ w.form.privacy /\ w.secret = w.cred
      /\ w.cred \in prf
  BY <1>1, LcCreateOf DEF LcCreate
<1>4. a = StealthAccount(w.cred, w.id, w.form.target, Cosigner)
  BY <1>2, <1>3, LcDerivedAccounts
<1>5. KindOf(a) = Kind(w.form.target)
  BY <1>4 DEF StealthAccount, KindOf
<1>6. v = [f \in LcCreateFields |-> v[f]] /\ v.pc = "predict" /\ v.form = w.form /\ v.id = w.id
      /\ v.cred = w.cred /\ v.recipient = a
  BY <1>3 DEF LcCreateFields
<1> HIDE DEF v
<1>7. LcRunning(v) /\ LcBuilt(v)
  BY <1>3, <1>4, <1>5, <1>6 DEF LcRunning, LcBuilt
<1>8. LcCreate(v)
  BY <1>6, <1>7 DEF LcCreate
<1>9. QED  BY <1>1, <1>2, <1>8, LcOwnStep DEF v

(* The receivers are those both sources confirm. *)
LEMMA LcPredict == ASSUME LcInv, NEW t \in Tabs, Predict(t) PROVE LcInv'
<1> DEFINE w == create[t]
<1>1. w.pc = "predict" /\ UNCHANGED <<env, passkeys, lanes, ids, verify, announced, saved, shared>>
  BY DEF Predict
<1>2. PICK rs \in PredictedReceivers(w.form.target, w.recipient) :
        LET ready == [w EXCEPT !.receivers = rs]
        IN Set(t, IF w.form.privacy THEN [ready EXCEPT !.pc = "announce"]
                  ELSE EnsureAuth([ready EXCEPT !.attempt = 0], auth))
  BY DEF Predict
<1>3. w = [f \in LcCreateFields |-> w[f]] /\ LcRunning(w) /\ LcBuilt(w)
  BY <1>1, LcCreateOf DEF LcCreate
<1>4. rs \subseteq Showable(w.form.target, w.recipient)
  BY <1>3, LcReceivers DEF LcBuilt
<1>5. CASE w.form.privacy
  <2> DEFINE v == [[w EXCEPT !.receivers = rs] EXCEPT !.pc = "announce"]
  <2>1. Set(t, v)
    BY <1>2, <1>5
  <2>2. v = [f \in LcCreateFields |-> v[f]] /\ v.pc = "announce" /\ v.form = w.form /\ v.id = w.id
        /\ v.cred = w.cred /\ v.salt = w.salt /\ v.recipient = w.recipient /\ v.receivers = rs
    BY <1>3 DEF LcCreateFields
  <2> HIDE DEF v
  <2>3. LcRunning(v) /\ LcBuilt(v) /\ LcReady(v)
    BY <1>3, <1>4, <2>2 DEF LcRunning, LcBuilt, LcReady
  <2>4. LcCreate(v)
    BY <2>2, <2>3 DEF LcCreate
  <2>5. QED  BY <1>1, <2>1, <2>4, LcOwnStep
<1>6. CASE ~w.form.privacy
  <2> DEFINE v == [[w EXCEPT !.receivers = rs] EXCEPT !.attempt = 0]
  <2>1. Set(t, EnsureAuth(v, auth))
    BY <1>2, <1>6
  <2>2. v = [f \in LcCreateFields |-> v[f]] /\ v.form = w.form /\ v.id = w.id
        /\ v.cred = w.cred /\ v.salt = w.salt /\ v.recipient = w.recipient /\ v.receivers = rs
    BY <1>3 DEF LcCreateFields
  <2> HIDE DEF v
  <2>3. LcRunning(v) /\ LcPending(v)
    BY <1>3, <1>4, <1>6, <2>2 DEF LcRunning, LcBuilt, LcReady, LcPending
  <2>4. LcCreate(EnsureAuth(v, auth))
    BY <2>2, <2>3, LcEnsureAuth
  <2>5. QED  BY <1>1, <2>1, <2>4, LcOwnStep
<1>7. QED  BY <1>5, <1>6

(* The backend was asked, whether or not its answer came. *)
LEMMA LcAnnounce == ASSUME LcInv, NEW t \in Tabs, Announce(t) PROVE LcInv'
<1> DEFINE w == create[t]
<1>1. /\ w.pc = "announce" /\ announced' = announced \cup {<<w.form.target, w.recipient>>}
      /\ UNCHANGED <<env, passkeys, lanes, ids, verify, saved, shared>>
  BY DEF Announce
<1>2. PICK answer \in {"ok", "lost"} :
        Set(t, IF answer = "ok" THEN [w EXCEPT !.pc = "discover"] ELSE IdleCreate)
  BY DEF Announce
<1>3. UNCHANGED <<env, root, auth, archive, known, registered, prf, lanes, ids, verify, saved, shared>>
  BY <1>1 DEF passkeys
<1>4. LcGrows /\ LcWorld'
  BY <1>1, <1>3 DEF LcInv, LcWorld, LcGrows, AllCreds
<1>5. CASE answer = "lost"
  <2>1. Set(t, IdleCreate)
    BY <1>2, <1>5
  <2>2. QED  BY <1>3, <1>4, <2>1, LcIdle, LcSets
<1>6. CASE answer = "ok"
  <2>1. PICK v : v = [w EXCEPT !.pc = "discover"]
    OBVIOUS
  <2>2. create' = [create EXCEPT ![t] = v] /\ create = [s \in Tabs |-> create[s]]
    BY <1>2, <1>6, <2>1 DEF Set, LcInv
  <2>3. LcCreate(w) /\ w = [f \in LcCreateFields |-> w[f]] /\ LcRunning(w) /\ LcBuilt(w) /\ LcReady(w)
    BY <1>1, LcCreateOf DEF LcCreate
  <2>4. v = [f \in LcCreateFields |-> v[f]] /\ v.pc = "discover" /\ v.form = w.form /\ v.id = w.id
        /\ v.cred = w.cred /\ v.salt = w.salt /\ v.recipient = w.recipient /\ v.receivers = w.receivers
    BY <2>1, <2>3 DEF LcCreateFields
  <2>5. LcRunning(v) /\ LcBuilt(v) /\ LcReady(v)
    BY <2>3, <2>4 DEF LcRunning, LcBuilt, LcReady
  <2>6. <<v.form.target, v.recipient>> \in announced'
    BY <1>1, <2>4
  <2>7. LcRunning(v)' /\ LcBuilt(v)' /\ LcReady(v)'
    BY <1>4, <2>5, LcShowable DEF LcRunning, LcBuilt, LcGrows
  <2>8. LcCreate(v)'
    BY <2>4, <2>6, <2>7 DEF LcCreate
  <2>9. create' = [s \in Tabs |-> create'[s]] /\ create'[t] = v /\ \A s \in Tabs \ {t} : create'[s] = create[s]
    BY <2>2
  <2>10. LcCreate(create[t])'
    BY <2>8, <2>9
  <2>11. QED  BY <1>3, <1>4, <2>9, <2>10, LcCreateStep
<1>7. QED  BY <1>5, <1>6

-----------------------------------------------------------------------------
(* The parts of the invariant a step on the lanes does not touch. *)
LEMMA LcKeepsCreates ==
  ASSUME LcInv, LcGrows, create' = create \/ \E t \in Tabs : create' = [create EXCEPT ![t] = IdleCreate]
  PROVE  create' = [s \in Tabs |-> create'[s]] /\ \A s \in Tabs : LcCreate(create[s])'
<1>1. create = [s \in Tabs |-> create[s]]
  BY DEF LcInv
<1>2. create' = [s \in Tabs |-> create'[s]] /\ \A s \in Tabs : create'[s] \in {create[s], IdleCreate}
  BY <1>1
<1>3. ASSUME NEW s \in Tabs PROVE LcCreate(create[s])'
  <2>1. PICK w : w = create'[s]
    OBVIOUS
  <2>2. LcCreate(w)
    BY <1>2, <2>1, LcIdle, LcCreateOf
  <2>3. LcCreate(w)'
    BY <2>2, LcCreateGrows
  <2>4. QED  BY <2>1, <2>3
<1>4. QED  BY <1>2, <1>3

(* A lane of a file has another id than those made here. *)
LEMMA LcFiledId == ASSUME NEW l, LcFiled(l) PROVE l.id \notin 1..MaxLanes
BY LaneAssumption DEF LcFiled, LcSame

(* The running verifications still find their lane. *)
LEMMA LcKeepsVerify ==
  ASSUME LcInv, LcGrows, NEW v, LcVerify(v),
         \A i \in DOMAIN lanes : i \notin 1..MaxLanes => i \in DOMAIN lanes' /\ LcSame(lanes'[i], lanes[i])
  PROVE  LcVerify(v)'
<1> SUFFICES ASSUME v.pc # "idle"
             PROVE  /\ LcFiled(v.lane)' /\ v.lane.id \in DOMAIN lanes' /\ LcSame(lanes'[v.lane.id], v.lane)
                    /\ v.pc = "predict" /\ v.lane.privacy => LcDerived(v.lane)'
  BY DEF LcVerify, LcSame
<1>1. LcFiled(v.lane) /\ v.lane.id \in DOMAIN lanes /\ LcSame(lanes[v.lane.id], v.lane)
      /\ (v.pc = "predict" /\ v.lane.privacy => LcDerived(v.lane))
  BY DEF LcVerify
<1>2. v.lane.id \in DOMAIN lanes' /\ LcSame(lanes'[v.lane.id], lanes[v.lane.id])
  BY <1>1, LcFiledId
<1>3. LcSame(lanes'[v.lane.id], v.lane)
  BY <1>1, <1>2 DEF LcSame
<1>4. LcFiled(v.lane)' /\ (v.pc = "predict" /\ v.lane.privacy => LcDerived(v.lane)')
  BY <1>1, LcLaneGrows
<1>5. QED  BY <1>2, <1>3, <1>4

(* A step on the lanes, seen from the rest. *)
LEMMA LcLanesStep ==
  ASSUME LcInv, LcGrows, LcWorld',
         create' = create \/ \E t \in Tabs : create' = [create EXCEPT ![t] = IdleCreate],
         verify' = [s \in Tabs |-> verify'[s]], \A s \in Tabs : LcVerify(verify[s])',
         lanes' = [i \in DOMAIN lanes' |-> lanes'[i]],
         \A i \in DOMAIN lanes' : LcStored(i, lanes[i])',
         \A l \in shared' \ shared : LcShareable(l)' /\ LcKept(l)'
  PROVE  LcInv'
<1>1. create' = [s \in Tabs |-> create'[s]] /\ \A s \in Tabs : LcCreate(create[s])'
  BY LcKeepsCreates
<1>2. \A l \in shared : LcShareable(l)' /\ LcKept(l)'
  BY LcLaneGrows DEF LcInv
<1>3. QED  BY <1>1, <1>2 DEF LcInv

(* A lane that is stored stays what it is while things are added. *)
LEMMA LcKeepsStored ==
  ASSUME LcGrows, NEW i, NEW l, LcStored(i, l)
  PROVE  LcStored(i, l)'
BY LcLaneGrows DEF LcStored

(* The verifications of all tabs, where none of them moves. *)
LEMMA LcKeepsVerifies ==
  ASSUME LcInv, LcGrows, verify' = verify,
         \A i \in DOMAIN lanes : i \notin 1..MaxLanes => i \in DOMAIN lanes' /\ LcSame(lanes'[i], lanes[i])
  PROVE  verify' = [s \in Tabs |-> verify'[s]] /\ \A s \in Tabs : LcVerify(verify[s])'
<1>1. verify' = [s \in Tabs |-> verify'[s]]
  BY DEF LcInv
<1>2. ASSUME NEW s \in Tabs PROVE LcVerify(verify[s])'
  <2>1. PICK v : v = verify[s]
    OBVIOUS
  <2>2. LcVerify(v)
    BY <2>1 DEF LcInv
  <2>3. LcVerify(v)'
    BY <2>2, LcKeepsVerify
  <2>4. QED  BY <2>1, <2>3
<1>3. QED  BY <1>1, <1>2

(* The record of a finished creation can be shared: its payout was announced, *)
(* its receivers are the backend's, and it names the passkey.                 *)
LEMMA LcRecord ==
  ASSUME LcInv, NEW w, LcCreate(w), w.pc = "discover", NEW found \in Discovered(w),
         NEW l, l = LaneRecord(w, found)
  PROVE  /\ l = [f \in LaneFields |-> l[f]] /\ l.id = w.id /\ l.privacy = w.form.privacy
         /\ ~l.needsVerify /\ LcShareable(l)
<1>1. /\ l = [f \in LaneFields |-> l[f]] /\ l.id = w.id /\ l.privacy = w.form.privacy
      /\ ~l.needsVerify /\ l.target = w.form.target /\ l.recipient = w.recipient /\ l.cred = w.cred
      /\ l.receivers = w.receivers \cup found
      /\ (w.form.privacy => l.config = Cosigner)
  BY DEF LaneRecord, LaneFields
<1>2. LcRunning(w) /\ LcBuilt(w) /\ LcReady(w) /\ <<w.form.target, w.recipient>> \in announced
  BY DEF LcCreate
<1>3. found \subseteq Showable(w.form.target, w.recipient)
  <2>1. KindOf(w.recipient) = Kind(w.form.target)
    BY <1>2 DEF LcBuilt
  <2>2. AnnouncedFor(w.form.target, w.recipient) \subseteq Showable(w.form.target, w.recipient)
    BY <2>1, LcReceivers
  <2>3. QED  BY <2>2 DEF Discovered
<1>4. l.receivers \subseteq Showable(l.target, l.recipient)
  BY <1>1, <1>2, <1>3 DEF LcReady
<1>5. l.privacy => LcDerived(l)
  <2> SUFFICES ASSUME l.privacy PROVE LcDerived(l)
    OBVIOUS
  <2>1. l.cred \in prf /\ StealthAccount(l.cred, l.id, l.target, l.config) = l.recipient
    BY <1>1, <1>2 DEF LcBuilt
  <2>2. l.cred # None
    BY <2>1, LaneAssumption DEF LcInv, LcWorld, AllCreds
  <2>3. QED  BY <2>1, <2>2 DEF LcDerived
<1>6. ~l.privacy => l.cred = None
  BY <1>1, <1>2 DEF LcRunning
<1>7. LcShareable(l)
  BY <1>1, <1>2, <1>4, <1>5, <1>6 DEF LcShareable
<1>8. QED  BY <1>1, <1>7

(* The lane is saved, and a private one is in the file before it is shared.   *)
LEMMA LcFinish == ASSUME LcInv, NEW t \in Tabs, Finish(t) PROVE LcInv'
<1> DEFINE w == create[t]
<1>1. w.pc = "discover" /\ UNCHANGED <<env, passkeys, ids, verify, announced>>
      /\ create' = [create EXCEPT ![t] = IdleCreate]
  BY DEF Finish, Set
<1>2. LcCreate(w) /\ LcRunning(w)
  BY <1>1, LcCreateOf DEF LcCreate
<1>3. UNCHANGED <<env, root, auth, archive, known, registered, prf, ids, verify, announced>>
  BY <1>1 DEF passkeys
<1>4. PICK found \in Discovered(w) :
        \/ /\ lanes' = SaveLane(lanes, LaneRecord(w, found))
           /\ saved' = IF LaneRecord(w, found).privacy THEN saved \cup Range(lanes') ELSE saved
           /\ shared' = shared \cup {LaneRecord(w, found)}
        \/ UNCHANGED <<lanes, saved, shared>>
  BY DEF Finish
<1>5. saved \subseteq saved'
  BY <1>4
<1>6. LcGrows /\ LcWorld'
  BY <1>3, <1>5 DEF LcInv, LcWorld, LcGrows, AllCreds
<1>7. CASE UNCHANGED <<lanes, saved, shared>>
  BY <1>1, <1>3, <1>6, <1>7, LcIdle, LcSets DEF Set
<1>8. CASE /\ lanes' = SaveLane(lanes, LaneRecord(w, found))
           /\ saved' = IF LaneRecord(w, found).privacy THEN saved \cup Range(lanes') ELSE saved
           /\ shared' = shared \cup {LaneRecord(w, found)}
  <2>1. PICK l : l = LaneRecord(w, found)
    OBVIOUS
  <2>2. /\ l = [f \in LaneFields |-> l[f]] /\ l.id = w.id /\ l.privacy = w.form.privacy
        /\ ~l.needsVerify /\ LcShareable(l)
    <3>1. found \in Discovered(w)
      BY <1>4
    <3>2. LcCreate(w) /\ w.pc = "discover"
      BY <1>1, <1>2
    <3> HIDE DEF w
    <3>3. QED  BY <2>1, <3>1, <3>2, LcRecord
  <2>3. /\ lanes' = [i \in DOMAIN lanes \cup {l.id} |-> IF i = l.id THEN l ELSE lanes[i]]
        /\ saved' = IF l.privacy THEN saved \cup Range(lanes') ELSE saved
        /\ shared' = shared \cup {l}
    BY <1>8, <2>1 DEF SaveLane
  <2>4. DOMAIN lanes' = DOMAIN lanes \cup {l.id} /\ lanes'[l.id] = l
        /\ \A i \in DOMAIN lanes : i # l.id => lanes'[i] = lanes[i]
    BY <2>3
  <2>5. l.id \in 1..MaxLanes
    BY <1>2, <2>2 DEF LcRunning
  <2>6. l.privacy => l \in saved'
    BY <2>3, <2>4 DEF Range
  <2>7. LcKept(l)'
    BY <2>6 DEF LcKept, LcSame
  <2>8. LcShareable(l)'
    BY <1>6, <2>2, LcLaneGrows
  <2>9. ASSUME NEW i \in DOMAIN lanes' PROVE LcStored(i, lanes[i])'
    <3>1. CASE i = l.id
      <4>1. LcStored(i, l)'
        BY <2>2, <2>7, <2>8, <3>1 DEF LcStored
      <4>2. QED  BY <2>4, <3>1, <4>1
    <3>2. CASE i # l.id
      <4>1. PICK m : m = lanes[i]
        OBVIOUS
      <4>2. LcStored(i, m)
        BY <2>4, <3>2, <4>1 DEF LcInv
      <4>3. LcStored(i, m)'
        BY <1>6, <4>2, LcKeepsStored
      <4>4. lanes'[i] = m
        BY <2>4, <3>2, <4>1
      <4>5. QED  BY <4>3, <4>4
    <3>3. QED  BY <3>1, <3>2
  <2>10. \A i \in DOMAIN lanes : i \notin 1..MaxLanes => i \in DOMAIN lanes' /\ LcSame(lanes'[i], lanes[i])
    BY <2>4, <2>5 DEF LcSame
  <2>11. verify' = [s \in Tabs |-> verify'[s]] /\ \A s \in Tabs : LcVerify(verify[s])'
    BY <1>3, <1>6, <2>10, LcKeepsVerifies
  <2>12. \A m \in shared' \ shared : LcShareable(m)' /\ LcKept(m)'
    BY <2>3, <2>7, <2>8
  <2>13. lanes' = [i \in DOMAIN lanes' |-> lanes'[i]]
    BY <2>3
  <2>14. QED  BY <1>1, <1>6, <2>9, <2>11, <2>12, <2>13, LcLanesStep
<1>9. QED  BY <1>4, <1>7, <1>8

(* A verified row offers its link. *)
LEMMA LcShare == ASSUME LcInv, NEW id \in DOMAIN lanes, Share(id) PROVE LcInv'
<1>1. /\ ~lanes[id].needsVerify /\ shared' = shared \cup {lanes[id]}
      /\ UNCHANGED <<env, passkeys, lanes, ids, create, verify, announced, saved>>
  BY DEF Share
<1>2. LcGrows /\ LcWorld'
  <2>1. ids' \in Nat
    BY <1>1 DEF LcInv, LcWorld
  <2>2. QED  BY <1>1, <2>1, LcQuiet
<1>3. verify' = [s \in Tabs |-> verify'[s]] /\ \A s \in Tabs : LcVerify(verify[s])'
  BY <1>1, <1>2, LcKeepsVerifies DEF LcSame
<1>4. ASSUME NEW i \in DOMAIN lanes' PROVE LcStored(i, lanes[i])'
  <2>1. PICK l : l = lanes[i]
    OBVIOUS
  <2>2. LcStored(i, l)
    BY <1>1, <2>1 DEF LcInv
  <2>3. LcStored(i, l)'
    BY <1>2, <2>2, LcKeepsStored
  <2>4. QED  BY <1>1, <2>1, <2>3
<1>5. \A l \in shared' \ shared : LcShareable(l)' /\ LcKept(l)'
  <2>1. PICK l : l = lanes[id]
    OBVIOUS
  <2>2. LcShareable(l) /\ LcKept(l)
    BY <1>1, <2>1 DEF LcInv, LcStored
  <2>3. LcShareable(l)' /\ LcKept(l)'
    BY <1>2, <2>2, LcLaneGrows
  <2>4. QED  BY <1>1, <2>1, <2>3
<1>6. lanes' = [i \in DOMAIN lanes' |-> lanes'[i]]
  BY <1>1 DEF LcInv
<1>7. QED  BY <1>1, <1>2, <1>3, <1>4, <1>5, <1>6, LcLanesStep

(* exportBackup adds a file of what is stored. *)
LEMMA LcExport == ASSUME LcInv, ExportBackup PROVE LcInv'
<1>1. /\ saved \subseteq saved'
      /\ UNCHANGED <<env, passkeys, lanes, ids, create, verify, announced, shared>>
  BY DEF ExportBackup
<1>2. LcGrows /\ LcWorld'
  <2>1. UNCHANGED <<env, root, auth, archive, known, registered, prf, ids, announced>>
    BY <1>1 DEF passkeys
  <2>2. QED  BY <1>1, <2>1 DEF LcInv, LcWorld, LcGrows, AllCreds
<1>3. verify' = [s \in Tabs |-> verify'[s]] /\ \A s \in Tabs : LcVerify(verify[s])'
  BY <1>1, <1>2, LcKeepsVerifies DEF LcSame
<1>4. ASSUME NEW i \in DOMAIN lanes' PROVE LcStored(i, lanes[i])'
  <2>1. PICK l : l = lanes[i]
    OBVIOUS
  <2>2. LcStored(i, l)
    BY <1>1, <2>1 DEF LcInv
  <2>3. LcStored(i, l)'
    BY <1>2, <2>2, LcKeepsStored
  <2>4. QED  BY <1>1, <2>1, <2>3
<1>5. lanes' = [i \in DOMAIN lanes' |-> lanes'[i]]
  BY <1>1 DEF LcInv
<1>6. QED  BY <1>1, <1>2, <1>3, <1>4, <1>5, LcLanesStep

(* What a file adds are lanes of the file, to be verified; those there stay.  *)
LEMMA LcMerge ==
  ASSUME NEW ls, NEW file \in Files, NEW written \in SUBSET DOMAIN file, NEW id \in DOMAIN Merge(ls, file, written)
  PROVE  \/ id \in DOMAIN ls /\ Merge(ls, file, written)[id] = ls[id]
         \/ \E m \in FiledLanes : m.id = id /\ Merge(ls, file, written)[id] = Sanitize(m)
<1> DEFINE new == {i \in written : file[i].readable /\ file[i].lane.id \notin DOMAIN ls}
           S == {i \in new : file[i].lane.id = id}
<1>1. id \in DOMAIN ls \cup {file[i].lane.id : i \in new}
      /\ Merge(ls, file, written)[id] = IF id \in DOMAIN ls THEN ls[id] ELSE Sanitize(file[Min(S)].lane)
  BY DEF Merge
<1>2. CASE id \in DOMAIN ls
  BY <1>1, <1>2
<1>3. CASE id \notin DOMAIN ls
  <2>1. S # {}
    BY <1>1, <1>3
  <2>2. S \subseteq Nat
    <3>1. DOMAIN file = 1..Len(file)
      BY LaneAssumption
    <3>2. QED  BY <3>1
  <2>3. Min(S) \in S
    BY <2>1, <2>2, LcMinIn
  <2>4. file[Min(S)].lane.id = id /\ Min(S) \in DOMAIN file /\ file[Min(S)].readable
    BY <2>3
  <2>5. file[Min(S)].lane \in FiledLanes
    BY <2>4 DEF FiledLanes
  <2>6. QED  BY <1>1, <1>3, <2>4, <2>5
<1>4. QED  BY <1>2, <1>3

(* A lane of a file is stored to be verified. *)
LEMMA LcSanitized ==
  ASSUME LcInv, NEW m \in FiledLanes, NEW l, l = Sanitize(m)
  PROVE  LcStored(m.id, l)
<1>1. m = [f \in LaneFields |-> m[f]] /\ m \in saved
  BY LaneAssumption DEF LcInv, LcWorld
<1>2. l = [f \in LaneFields |-> l[f]] /\ LcSame(l, m) /\ l.needsVerify
  BY <1>1 DEF Sanitize, LaneFields, LcSame
<1>3. LcFiled(l) /\ LcKept(l)
  BY <1>1, <1>2 DEF LcFiled, LcKept
<1>4. QED  BY <1>2, <1>3 DEF LcStored, LcSame

(* importBackup stores lanes that need verification. *)
LEMMA LcImport == ASSUME LcInv, NEW file \in env.files, Import(file) PROVE LcInv'
<1>1. PICK written \in SUBSET DOMAIN file : lanes' = Merge(lanes, file, written)
  BY DEF Import
<1>2. UNCHANGED <<env, passkeys, ids, create, verify, announced, saved, shared>>
  BY DEF Import
<1>3. LcGrows /\ LcWorld'
  <2>1. ids' \in Nat
    BY <1>2 DEF LcInv, LcWorld
  <2>2. QED  BY <1>2, <2>1, LcQuiet
<1>4. file \in Files
  BY LaneAssumption DEF LcInv, LcWorld
<1>5. lanes' = [i \in DOMAIN lanes' |-> lanes'[i]] /\ DOMAIN lanes \subseteq DOMAIN lanes'
      /\ \A i \in DOMAIN lanes : lanes'[i] = lanes[i]
  BY <1>1 DEF Merge
<1>6. ASSUME NEW i \in DOMAIN lanes' PROVE LcStored(i, lanes[i])'
  <2>1. PICK l : l = lanes'[i]
    OBVIOUS
  <2>2. \/ i \in DOMAIN lanes /\ l = lanes[i]
        \/ \E m \in FiledLanes : m.id = i /\ l = Sanitize(m)
    BY <1>1, <1>4, <2>1, LcMerge
  <2>3. LcStored(i, l)
    BY <2>2, LcSanitized DEF LcInv
  <2>4. LcStored(i, l)'
    BY <1>3, <2>3, LcKeepsStored
  <2>5. QED  BY <2>1, <2>4
<1>7. verify' = [s \in Tabs |-> verify'[s]] /\ \A s \in Tabs : LcVerify(verify[s])'
  BY <1>2, <1>3, <1>5, LcKeepsVerifies DEF LcSame
<1>8. QED  BY <1>2, <1>3, <1>5, <1>6, <1>7, LcLanesStep

(* A step of a verification that leaves the lanes alone. *)
LEMMA LcVerifyOwn ==
  ASSUME LcInv, NEW t \in Tabs, UNCHANGED <<env, passkeys, lanes, ids, create, announced, saved, shared>>,
         NEW v, LcVerify(v), verify' = [verify EXCEPT ![t] = v]
  PROVE  LcInv'
<1>1. LcGrows /\ LcWorld'
  <2>1. ids' \in Nat
    BY DEF LcInv, LcWorld
  <2>2. QED  BY <2>1, LcQuiet
<1>2. verify = [s \in Tabs |-> verify[s]]
  BY DEF LcInv
<1>3. verify' = [s \in Tabs |-> verify'[s]] /\ \A s \in Tabs : verify'[s] \in {verify[s], v}
  BY <1>2
<1>4. ASSUME NEW s \in Tabs PROVE LcVerify(verify[s])'
  <2>1. PICK u : u = verify'[s]
    OBVIOUS
  <2>2. LcVerify(u)
    BY <1>3, <2>1 DEF LcInv
  <2>3. LcVerify(u)'
    BY <1>1, <2>2, LcKeepsVerify DEF LcSame
  <2>4. QED  BY <2>1, <2>3
<1>5. ASSUME NEW i \in DOMAIN lanes' PROVE LcStored(i, lanes[i])'
  <2>1. PICK l : l = lanes[i]
    OBVIOUS
  <2>2. LcStored(i, l)
    BY <2>1 DEF LcInv
  <2>3. LcStored(i, l)'
    BY <1>1, <2>2, LcKeepsStored
  <2>4. QED  BY <2>1, <2>3
<1>6. lanes' = [i \in DOMAIN lanes' |-> lanes'[i]]
  BY DEF LcInv
<1>7. QED  BY <1>1, <1>3, <1>4, <1>5, <1>6, LcLanesStep

(* No verification. *)
LEMMA LcIdleVerify == LcVerify(IdleVerify)
BY DEF LcVerify, IdleVerify

(* The Verify button of a row that asks for it. *)
LEMMA LcVerifyStart == ASSUME LcInv, NEW t \in Tabs, NEW id \in DOMAIN lanes, VerifyStart(t, id) PROVE LcInv'
<1> DEFINE l == lanes[id]
           v == [pc |-> IF l.privacy THEN "prf" ELSE "predict", lane |-> l]
<1>1. /\ l.needsVerify /\ verify' = [verify EXCEPT ![t] = v]
      /\ UNCHANGED <<env, passkeys, lanes, ids, create, announced, saved, shared>>
  BY DEF VerifyStart
<1>2. LcFiled(l) /\ l.id = id
  BY <1>1 DEF LcInv, LcStored
<1>3. LcVerify(v)
  <2>1. v.lane = l /\ LcSame(lanes[v.lane.id], v.lane)
    BY <1>2 DEF LcSame
  <2>2. v.pc = "predict" => ~l.privacy
    OBVIOUS
  <2>3. QED  BY <1>2, <2>1, <2>2 DEF LcVerify
<1>4. QED  BY <1>1, <1>3, LcVerifyOwn

(* A verification that fails changes nothing. *)
LEMMA LcVerifyFails == ASSUME LcInv, NEW t \in Tabs, VerifyFails(t) PROVE LcInv'
BY LcIdleVerify, LcVerifyOwn DEF VerifyFails

(* The passkey prompted derives the very account. *)
LEMMA LcVerifyAccount == ASSUME LcInv, NEW t \in Tabs, VerifyAccount(t) PROVE LcInv'
<1> DEFINE l == verify[t].lane
           v == [verify[t] EXCEPT !.pc = "predict"]
<1>1. /\ verify[t].pc = "prf"
      /\ verify' = [verify EXCEPT ![t].pc = "predict"]
      /\ UNCHANGED <<env, passkeys, lanes, ids, create, announced, saved, shared>>
  BY DEF VerifyAccount
<1>2. PICK c \in Prompted(l) \cap prf : l.recipient \in DerivedAccounts(c, l.id, l.target, l.config)
  BY DEF VerifyAccount
<1>3. StealthAccount(c, l.id, l.target, l.config) = l.recipient
  BY <1>2, LcDerivedAccounts
<1>4. c \in prf /\ c \in AllCreds /\ (l.cred # None => c = l.cred)
  BY <1>2 DEF LcInv, LcWorld, Prompted
<1>5. LcDerived(l)
  BY <1>3, <1>4 DEF LcDerived
<1>6. LcVerify(verify[t])
  BY DEF LcInv
<1>7. verify' = [verify EXCEPT ![t] = v]
  BY <1>1
<1>8. v = [f \in {"pc", "lane"} |-> v[f]] /\ v.lane = l
  BY <1>6 DEF LcVerify
<1>9. LcVerify(v)
  BY <1>1, <1>5, <1>6, <1>8 DEF LcVerify
<1>10. QED  BY <1>1, <1>7, <1>9, LcVerifyOwn

(* markVerified clears the flag of a lane whose account and receivers were    *)
(* derived again; its record is still the one that was checked.               *)
LEMMA LcVerifyReceivers == ASSUME LcInv, NEW t \in Tabs, VerifyReceivers(t) PROVE LcInv'
<1> DEFINE l == verify[t].lane
<1>1. /\ verify[t].pc = "predict"
      /\ verify' = [verify EXCEPT ![t] = IdleVerify]
      /\ lanes' \in IF l.id \in DOMAIN lanes
                    THEN Write(lanes, [lanes EXCEPT ![l.id].needsVerify = FALSE]) ELSE {lanes}
      /\ UNCHANGED <<env, passkeys, ids, create, announced, saved, shared>>
  BY DEF VerifyReceivers
<1>2. PICK rs \in PredictedReceivers(l.target, l.recipient) :
        \A r \in l.receivers : r \in rs \cup AnnouncedFor(l.target, l.recipient)
  BY DEF VerifyReceivers
<1>3. LcGrows /\ LcWorld'
  <2>1. ids' \in Nat
    BY <1>1 DEF LcInv, LcWorld
  <2>2. QED  BY <1>1, <2>1, LcQuiet
<1>4. /\ LcFiled(l) /\ l.id \in DOMAIN lanes /\ LcSame(lanes[l.id], l)
      /\ l.privacy => LcDerived(l)
  BY <1>1 DEF LcInv, LcVerify
<1>5. PICK m \in FiledLanes : LcSame(l, m)
  BY <1>4 DEF LcFiled
<1>6. KindOf(l.recipient) = Kind(l.target) /\ <<l.target, l.recipient>> \in announced
      /\ (~l.privacy => l.cred = None)
  BY <1>5, LaneAssumption DEF LcSame, LcInv, LcWorld
<1>7. l.receivers \subseteq Showable(l.target, l.recipient)
  BY <1>2, <1>6, LcReceivers
<1>8. LcShareable(l)
  BY <1>4, <1>6, <1>7 DEF LcShareable
<1>9. \/ lanes' = lanes
      \/ lanes' = [lanes EXCEPT ![l.id] = [lanes[l.id] EXCEPT !.needsVerify = FALSE]]
  BY <1>1, <1>4 DEF Write
<1>10. lanes = [i \in DOMAIN lanes |-> lanes[i]] /\ LcStored(l.id, lanes[l.id])
  BY <1>4 DEF LcInv
<1>11. PICK n : n = [lanes[l.id] EXCEPT !.needsVerify = FALSE]
  OBVIOUS
<1>12. n = [f \in LaneFields |-> n[f]] /\ LcSame(n, lanes[l.id]) /\ ~n.needsVerify
  BY <1>10, <1>11 DEF LcStored, LaneFields, LcSame
<1>13. LcSame(n, l)
  BY <1>4, <1>12 DEF LcSame
<1>14. LcStored(l.id, n)
  <2>1. LcShareable(n)
    BY <1>8, <1>13 DEF LcShareable, LcSame, LcDerived
  <2>2. LcKept(n)
    BY <1>10, <1>12 DEF LcStored, LcKept, LcSame
  <2>3. QED  BY <1>12, <1>13, <2>1, <2>2 DEF LcStored, LcSame
<1>15. lanes' = [i \in DOMAIN lanes' |-> lanes'[i]] /\ DOMAIN lanes' = DOMAIN lanes
       /\ \A i \in DOMAIN lanes : lanes'[i] = lanes[i] \/ (i = l.id /\ lanes'[i] = n)
  <2>1. CASE lanes' = lanes
    BY <1>10, <2>1
  <2>2. CASE lanes' = [lanes EXCEPT ![l.id] = [lanes[l.id] EXCEPT !.needsVerify = FALSE]]
    <3>1. lanes' = [lanes EXCEPT ![l.id] = n]
      BY <1>11, <2>2
    <3>2. QED  BY <1>4, <1>10, <3>1
  <2>3. QED  BY <1>9, <2>1, <2>2
<1>16. ASSUME NEW i \in DOMAIN lanes' PROVE LcStored(i, lanes[i])'
  <2>1. PICK k : k = lanes'[i]
    OBVIOUS
  <2>2. LcStored(i, k)
    BY <1>14, <1>15, <2>1 DEF LcInv
  <2>3. LcStored(i, k)'
    BY <1>3, <2>2, LcKeepsStored
  <2>4. QED  BY <2>1, <2>3
<1>17. \A i \in DOMAIN lanes : i \in DOMAIN lanes' /\ LcSame(lanes'[i], lanes[i])
  BY <1>12, <1>15 DEF LcSame
<1>18. verify' = [s \in Tabs |-> verify'[s]] /\ \A s \in Tabs : verify'[s] \in {verify[s], IdleVerify}
  BY <1>1 DEF LcInv
<1>19. ASSUME NEW s \in Tabs PROVE LcVerify(verify[s])'
  <2>1. PICK u : u = verify'[s]
    OBVIOUS
  <2>2. LcVerify(u)
    BY <1>18, <2>1, LcIdleVerify DEF LcInv
  <2>3. LcVerify(u)'
    BY <1>3, <1>17, <2>2, LcKeepsVerify
  <2>4. QED  BY <2>1, <2>3
<1>20. QED  BY <1>1, <1>3, <1>15, <1>16, <1>18, <1>19, LcLanesStep

(* The server forgets, or nothing happens. *)
LEMMA LcStutter ==
  ASSUME LcInv, UNCHANGED <<env, root, auth, archive, registered, prf, lanes, ids, create, verify, announced,
                            saved, shared>>
  PROVE  LcInv'
<1>1. LcGrows /\ LcWorld'
  BY DEF LcInv, LcWorld, LcGrows, AllCreds
<1>2. verify' = [s \in Tabs |-> verify'[s]] /\ \A s \in Tabs : LcVerify(verify[s])'
  BY <1>1, LcKeepsVerifies DEF LcSame
<1>3. ASSUME NEW i \in DOMAIN lanes' PROVE LcStored(i, lanes[i])'
  <2>1. PICK l : l = lanes[i]
    OBVIOUS
  <2>2. LcStored(i, l)
    BY <2>1 DEF LcInv
  <2>3. LcStored(i, l)'
    BY <1>1, <2>2, LcKeepsStored
  <2>4. QED  BY <2>1, <2>3
<1>4. lanes' = [i \in DOMAIN lanes' |-> lanes'[i]]
  BY DEF LcInv
<1>5. QED  BY <1>1, <1>2, <1>3, <1>4, LcLanesStep

(* Another browser: what was shared is still in the files. *)
LEMMA LcClear == ASSUME LcInv, ClearStorage PROVE LcInv'
<1>1. /\ "clear" \in env.faults /\ root' = None /\ auth' = None /\ archive' = {} /\ lanes' = <<>>
      /\ create' = [t \in Tabs |-> IdleCreate] /\ verify' = [t \in Tabs |-> IdleVerify]
      /\ UNCHANGED <<env, registered, prf, ids, announced, saved, shared>>
  BY DEF ClearStorage
<1>2. LcGrows
  BY <1>1 DEF LcGrows, AllCreds
<1>3. LcWorld'
  BY <1>1 DEF LcInv, LcWorld, AllCreds
<1>4. DOMAIN lanes' = {} /\ lanes' = [i \in DOMAIN lanes' |-> lanes'[i]]
  BY <1>1
<1>5. ASSUME NEW s \in Tabs PROVE LcCreate(create[s])' /\ LcVerify(verify[s])'
  <2>1. create'[s] = IdleCreate /\ verify'[s] = IdleVerify
    BY <1>1
  <2>2. LcCreate(IdleCreate)'
    BY <1>2, LcIdle, LcCreateGrows
  <2>3. LcVerify(IdleVerify)'
    BY DEF LcVerify, IdleVerify
  <2>4. QED  BY <2>1, <2>2, <2>3 DEF IdleCreate, IdleVerify
<1>6. \A l \in shared' : LcShareable(l)' /\ LcKept(l)'
  BY <1>1, <1>2, LcLaneGrows DEF LcInv
<1>7. create' = [s \in Tabs |-> create'[s]] /\ verify' = [s \in Tabs |-> verify'[s]]
  BY <1>1
<1>8. QED  BY <1>3, <1>4, <1>5, <1>6, <1>7 DEF LcInv

-----------------------------------------------------------------------------
(* Each step of the pages, the server and the browser keeps the invariant.    *)
LEMMA LcNextInv == LcInv /\ [Next]_vars => LcInv'
<1> SUFFICES ASSUME LcInv, [Next]_vars PROVE LcInv'
  OBVIOUS
<1>1. ASSUME NEW t \in Tabs, \E f \in env.forms : Submit(t, f) PROVE LcInv'
  BY <1>1, LcSubmit
<1>2. ASSUME NEW t \in Tabs, CreateStep(t) PROVE LcInv'
  BY <1>2, LcCreateFails, LcResolve, LcRegistered, LcRegisterLost, LcAuthStart, LcAssertion, LcEvaluatePrf,
     LcDerive, LcPredict, LcAnnounce, LcFinish DEF CreateStep
<1>3. ASSUME NEW t \in Tabs, \E id \in DOMAIN lanes : VerifyStart(t, id) PROVE LcInv'
  BY <1>3, LcVerifyStart
<1>4. ASSUME NEW t \in Tabs, VerifyStep(t) PROVE LcInv'
  BY <1>4, LcVerifyFails, LcVerifyAccount, LcVerifyReceivers DEF VerifyStep
<1>5. CASE \E id \in DOMAIN lanes : Share(id)
  BY <1>5, LcShare
<1>6. CASE ExportBackup
  BY <1>6, LcExport
<1>7. CASE \E file \in env.files : Import(file)
  BY <1>7, LcImport
<1>8. CASE ServerRestarts
  <2>1. UNCHANGED <<env, root, auth, archive, registered, prf, lanes, ids, create, verify, announced, saved, shared>>
    BY <1>8 DEF ServerRestarts
  <2>2. QED  BY <2>1, LcStutter
<1>9. CASE ClearStorage
  BY <1>9, LcClear
<1>10. CASE UNCHANGED vars
  <2>1. UNCHANGED <<env, root, auth, archive, registered, prf, lanes, ids, create, verify, announced, saved, shared>>
    BY <1>10 DEF vars, passkeys
  <2>2. QED  BY <2>1, LcStutter
<1>11. QED  BY <1>1, <1>2, <1>3, <1>4, <1>5, <1>6, <1>7, <1>8, <1>9, <1>10 DEF Next

(* The invariant holds in every state the pages reach. *)
THEOREM LaneInvariant == Spec => []LcInv
BY LcInitInv, LcNextInv, PTL DEF Spec

(* Every receiver of a link is one the backend was asked to announce          *)
(* (SharedRegistered): the two-source check of onchain.js and the addresses   *)
(* of identity.js agree with create_workers.rs, for any chains, forms, files  *)
(* and number of tabs, in whatever way the backend writes felts; if not in    *)
(* the page's, the EVM receivers of Starknet payouts are the exception.       *)
THEOREM LinksRegistered == Spec => []SharedRegistered
<1>1. LcInv => SharedRegistered
  BY DEF LcInv, LcShareable, SharedRegistered
<1>2. QED  BY <1>1, LaneInvariant, PTL

(* No private link is orphaned and no passkey forgotten (NothingOrphaned):    *)
(* passkey.js, store.js and beanie.js leave a record that derives the account *)
(* of every shared link, through clears of the storage and lost answers.      *)
THEOREM LinksRecoverable == Spec => []NothingOrphaned
<1>1. ASSUME LcInv PROVE SharedRecoverable
  <2> SUFFICES ASSUME NEW l \in shared, l.privacy
               PROVE  \E r \in saved \cup Range(lanes) : Recoverable(l, r)
    BY DEF SharedRecoverable
  <2>1. LcShareable(l) /\ LcKept(l)
    BY <1>1 DEF LcInv
  <2>2. PICK r \in saved : LcSame(l, r)
    BY <2>1 DEF LcKept
  <2>3. LcDerived(l)
    BY <2>1 DEF LcShareable
  <2>4. Recoverable(l, r)
    BY <2>2, <2>3 DEF LcDerived, LcSame, Recoverable
  <2>5. QED  BY <2>2, <2>4
<1>2. ASSUME LcInv PROVE CredentialsArchived
  <2>1. LcWorld
    BY <1>2 DEF LcInv
  <2>2. ASSUME NEW id \in DOMAIN lanes, ~lanes[id].needsVerify
        PROVE  lanes[id].cred \in prf \cup {None}
    <3>1. LcShareable(lanes[id])
      BY <1>2, <2>2 DEF LcInv, LcStored
    <3>2. QED  BY <3>1 DEF LcShareable, LcDerived
  <2>3. QED  BY <2>1, <2>2 DEF LcWorld, CredentialsArchived
<1>3. LcInv => NothingOrphaned
  BY <1>1, <1>2 DEF NothingOrphaned
<1>4. QED  BY <1>3, LaneInvariant, PTL

(* The PRF root is pinned (RootPinned): adopt in passkey.js never replaces    *)
(* it, whichever tab registers and whatever the server forgot.                *)
THEOREM RootNeverReplaced == Spec => RootPinned
<1> DEFINE Pinned == root # None => root' \in {root, None} /\ (root' = None => lanes' = <<>>)
<1>1. ASSUME [Next]_vars PROVE [Pinned]_vars
  <2>1. CASE \E t \in Tabs : Registered(t)
    BY <2>1 DEF Registered, Adopt
  <2>2. CASE ClearStorage
    BY <2>2 DEF ClearStorage
  <2>3. CASE root' = root
    BY <2>3
  <2>4. ASSUME NEW t \in Tabs,
               (\E f \in env.forms : Submit(t, f)) \/ (\E id \in DOMAIN lanes : VerifyStart(t, id)) \/ VerifyStep(t)
        PROVE  root' = root
    BY <2>4 DEF Submit, VerifyStart, VerifyStep, VerifyFails, VerifyAccount, VerifyReceivers, passkeys
  <2>5. ASSUME NEW t \in Tabs, CreateStep(t), ~Registered(t) PROVE root' = root
    BY <2>5 DEF CreateStep, CreateFails, ResolveConfig, RegisterLost, AuthStart, Assertion, EvaluatePrf, Derive,
       Predict, Announce, Finish, passkeys
  <2>6. ASSUME (\E id \in DOMAIN lanes : Share(id)) \/ ExportBackup \/ (\E file \in env.files : Import(file))
               \/ ServerRestarts
        PROVE  root' = root
    BY <2>6 DEF Share, ExportBackup, Import, ServerRestarts, passkeys
  <2>7. QED  BY <1>1, <2>1, <2>2, <2>3, <2>4, <2>5, <2>6 DEF Next
<1>2. QED  BY <1>1, PTL DEF Spec, RootPinned

-----------------------------------------------------------------------------
(* The private-lane page. *)

SpShown == [Lanes -> Nat \cup {Nothing}]
SpScan == [left : SUBSET Lanes, got : SpShown]
SpSelection == [lane : Lanes, balance : Nat \cup {Nothing}]

(* A transaction built for the claim c; a Starknet one carries as its nonce   *)
(* how many payments came before.                                             *)
SpTxOf(t, c) ==
  /\ t.kind = c.lane.kind /\ t.from = TargetRecipient(c.lane)
  /\ t.to = c.dest /\ t.amount = c.balance
  /\ t.kind = "starknet" => t.seen = t.nonce

SpFields == {"busy", "pc", "lane", "balance", "dest", "config", "secret", "signer", "tx", "binding"}

(* What each step of a claim has established by the time it is reached. *)
SpClaimOK(c) ==
  /\ c = [f \in SpFields |-> c[f]]
  /\ c.pc # "idle" => c.busy /\ c.lane \in Lanes /\ c.balance \in Nat
  /\ ~c.busy => c.secret = Nothing /\ c.signer = Nothing
  /\ c.pc \in {"build", "approve", "submit"} => c.signer = TargetRecipient(c.lane)
  /\ c.pc \in {"approve", "submit"} => SpTxOf(c.tx, c)
  /\ c.pc = "submit" => c.binding = Binding(c)

SpWatchOK(w) ==
  /\ w = [f \in {"lane", "previous", "left", "ref"} |-> w[f]]
  /\ w.lane \in Lanes /\ w.previous \in Nat

(* A request the backend has: the transaction of the click, from the lane's   *)
(* account, under a token for it.                                             *)
SpRequestOK(q) ==
  /\ q.asked.lane \in Lanes /\ q.asked.balance \in Nat
  /\ SpTxOf(q.hash, q.asked)
  /\ q.token = <<q.chain, q.derived, q.hash>>

(* Every payment was asked for; a Starknet account's nonce counts those made  *)
(* from it, and no two of them have the same.                                 *)
SpPaid ==
  /\ IsFiniteSet(paid)
  /\ \A t \in paid : \E q \in queue : t = q.hash
  /\ \A l \in Lanes :
       l.kind = "starknet" =>
         /\ nonce[l] = Cardinality(PaidFrom(l))
         /\ \A t \in PaidFrom(l) : t.nonce \in Nat /\ t.nonce < nonce[l]
         /\ \A t, u \in PaidFrom(l) : t # u => t.nonce # u.nonce

(* A balance read earlier is still covered, unless the lane has paid out. *)
SpSeen(l, b) == b \in Nat /\ PaidFrom(l) = {} => b <= bal[l]

(* One page: the rows it shows, its refreshes, selection, claim and watches, *)
(* and the last word it said.  Whoever selected, claims or watches saw rows. *)
SpPageOK(r, scanning, sel, c, ws, said) ==
  /\ r \in SpShown \cup {Nothing} /\ scanning \subseteq SpScan /\ sel \in SpSelection \cup {Nothing}
  /\ SpClaimOK(c)
  /\ \A w \in ws : SpWatchOK(w)
  /\ \A s \in scanning : \A l \in Lanes : SpSeen(l, s.got[l])
  /\ sel # Nothing => SpSeen(sel.lane, sel.balance)
  /\ c.pc # "idle" => SpSeen(c.lane, c.balance)
  /\ \A w \in ws : SpSeen(w.lane, w.previous)
  /\ r # Nothing \/ ws # {} \/ sel # Nothing \/ c.pc # "idle" => r \in SpShown /\ \A l \in Lanes : SpSeen(l, r[l])
  /\ said # Nothing /\ said.what = "processed" => PaidFrom(said.lane) # {}

SpFunctions ==
  /\ rows = [p \in Pages |-> rows[p]] /\ scans = [p \in Pages |-> scans[p]]
  /\ selected = [p \in Pages |-> selected[p]] /\ claim = [p \in Pages |-> claim[p]]
  /\ polls = [p \in Pages |-> polls[p]] /\ told = [p \in Pages |-> told[p]]

SpAccounts == scene \in Scenes /\ bal \in [Lanes -> Nat] /\ nonce \in [Lanes -> Nat]

SpPage(p) == SpPageOK(rows[p], scans[p], selected[p], claim[p], polls[p], told[p])

SpInv ==
  /\ StealthPageOK /\ SpAccounts /\ SpFunctions /\ SpPaid
  /\ \A q \in queue : SpRequestOK(q)
  /\ \A p \in Pages : SpPage(p)

-----------------------------------------------------------------------------
(* A claim that is not under way. *)
LEMMA SpIdle == SpClaimOK(Idle) /\ Idle.pc = "idle"
BY DEF SpClaimOK, SpFields, Idle

(* The invariant holds when the pages load. *)
LEMMA SpInitInv == StealthPageOK /\ PageInit => SpInv
<1> SUFFICES ASSUME StealthPageOK, PageInit PROVE SpInv
  OBVIOUS
<1>1. SpAccounts /\ SpFunctions
  BY DEF PageInit, SpAccounts, SpFunctions
<1>2. \A p \in Pages : claim[p] = Idle /\ polls[p] = {} /\ scans[p] = {} /\ rows[p] = Nothing
                       /\ selected[p] = Nothing /\ told[p] = Nothing
  BY DEF PageInit
<1>4. SpPaid
  <2>1. paid = {} /\ nonce = [l \in Lanes |-> 0]
    BY DEF PageInit
  <2>2. IsFiniteSet(paid) /\ \A l \in Lanes : PaidFrom(l) = {} /\ Cardinality(PaidFrom(l)) = 0
    BY <2>1, FS_EmptySet DEF PaidFrom
  <2>3. QED  BY <2>1, <2>2 DEF SpPaid
<1>5. \A p \in Pages : SpPage(p)
  BY <1>2, SpIdle DEF SpPage, SpPageOK
<1>7. queue = {}
  BY DEF PageInit
<1>8. QED  BY <1>1, <1>4, <1>5, <1>7 DEF SpInv

(* What is said of a page depends on the lanes and the accounts alone.  *)
LEMMA SpSame ==
  ASSUME UNCHANGED <<scene, bal, paid>>
  PROVE  /\ Lanes' = Lanes
         /\ \A l : PaidFrom(l)' = PaidFrom(l)
         /\ \A r, scanning, sel, c, ws, said :
              SpPageOK(r, scanning, sel, c, ws, said)' = SpPageOK(r, scanning, sel, c, ws, said)
<1>1. Lanes' = Lanes /\ \A l : PaidFrom(l)' = PaidFrom(l)
  BY DEF Lanes, PaidFrom, TargetRecipient, Account, Client
<1>2. SpShown' = SpShown /\ SpScan' = SpScan /\ SpSelection' = SpSelection
  BY <1>1 DEF SpShown, SpScan, SpSelection
<1>3. \A l, b : SpSeen(l, b)' = SpSeen(l, b)
  BY <1>1 DEF SpSeen
<1>4. \A c : SpClaimOK(c)' = SpClaimOK(c)
  BY <1>1 DEF SpClaimOK, SpTxOf, TargetRecipient, Account, Client, Binding, DerivedAddress
<1>5. \A w : SpWatchOK(w)' = SpWatchOK(w)
  BY <1>1 DEF SpWatchOK
<1>6. QED  BY <1>1, <1>2, <1>3, <1>4, <1>5 DEF SpPageOK

(* A step of the page p leaves the accounts and the other pages alone: the    *)
(* invariant follows from what the step makes of the page.                    *)
LEMMA SpPageStep ==
  ASSUME SpInv, UNCHANGED <<scene, bal, nonce, paid>>, NEW p \in Pages, SpFunctions',
         \A o \in Pages \ {p} :
           /\ rows'[o] = rows[o] /\ scans'[o] = scans[o] /\ selected'[o] = selected[o]
           /\ claim'[o] = claim[o] /\ polls'[o] = polls[o] /\ told'[o] = told[o],
         SpPageOK(rows'[p], scans'[p], selected'[p], claim'[p], polls'[p], told'[p]),
         queue \subseteq queue', \A q \in queue' \ queue : SpRequestOK(q)
  PROVE  SpInv'
<1>0. scene' = scene /\ bal' = bal /\ nonce' = nonce /\ paid' = paid
  OBVIOUS
<1>1. Lanes' = Lanes /\ \A l : PaidFrom(l)' = PaidFrom(l)
  BY SpSame
<1>2. StealthPageOK' /\ SpAccounts'
  BY <1>0, <1>1 DEF SpInv, StealthPageOK, SpAccounts
<1>3. (\A q \in queue : SpRequestOK(q))'
  BY <1>0 DEF SpInv, SpRequestOK, SpTxOf, Lanes, TargetRecipient, Account, Client
<1>5. SpPaid'
  <2>2. SpPaid
    BY DEF SpInv
  <2>3. IsFiniteSet(paid') /\ \A t \in paid' : \E q \in queue' : t = q.hash
    BY <1>0, <2>2 DEF SpPaid
  <2>4. ASSUME NEW l \in Lanes, l.kind = "starknet"
        PROVE  /\ nonce'[l] = Cardinality(PaidFrom(l)')
               /\ \A t \in PaidFrom(l)' : t.nonce \in Nat /\ t.nonce < nonce'[l]
               /\ \A t, u \in PaidFrom(l)' : t # u => t.nonce # u.nonce
    BY <1>0, <1>1, <2>2, <2>4 DEF SpPaid
  <2>5. QED  BY <1>1, <2>3, <2>4 DEF SpPaid
<1>6. (\A o \in Pages : SpPage(o))'
  <2> SUFFICES ASSUME NEW o \in Pages PROVE SpPage(o)'
    OBVIOUS
  <2>1. SpPageOK(rows'[o], scans'[o], selected'[o], claim'[o], polls'[o], told'[o])
    BY DEF SpInv, SpPage
  <2>2. \A r, scanning, sel, c, ws, said :
              SpPageOK(r, scanning, sel, c, ws, said)' = SpPageOK(r, scanning, sel, c, ws, said)
    BY SpSame
  <2>3. QED  BY <2>1, <2>2 DEF SpPage
<1>9. QED  BY <1>2, <1>3, <1>5, <1>6 DEF SpInv
-----------------------------------------------------------------------------
(* Every balance a page holds is still covered when the accounts only grow,   *)
(* or fall with a payment.                                                    *)
LEMMA SpAccountStep ==
  ASSUME SpInv, UNCHANGED <<scene, queue, pageVars, claim, polls>>, SpAccounts', SpPaid',
         paid \subseteq paid',
         \A l \in Lanes : PaidFrom(l)' # {} \/ bal[l] <= bal'[l]
  PROVE  SpInv'
<1>0. scene' = scene /\ queue' = queue /\ claim' = claim /\ polls' = polls /\ rows' = rows
      /\ scans' = scans /\ selected' = selected /\ told' = told
  BY DEF pageVars
<1>1. Lanes' = Lanes /\ \A l : TargetRecipient(l)' = TargetRecipient(l)
  BY <1>0 DEF Lanes, TargetRecipient, Account, Client
<1>2. \A l : PaidFrom(l) \subseteq PaidFrom(l)'
  BY <1>1 DEF PaidFrom
<1>3. \A l \in Lanes : \A b : SpSeen(l, b) => SpSeen(l, b)'
  <2> SUFFICES ASSUME NEW l \in Lanes, NEW b, SpSeen(l, b), b \in Nat, PaidFrom(l)' = {}
               PROVE  b <= bal'[l]
    BY DEF SpSeen
  <2>1. b <= bal[l] /\ bal[l] <= bal'[l]
    BY <1>2 DEF SpSeen
  <2>2. bal[l] \in Nat /\ bal'[l] \in Nat
    BY <1>1 DEF SpInv, SpAccounts
  <2>3. QED  BY <2>1, <2>2
<1>4. SpShown' = SpShown /\ SpScan' = SpScan /\ SpSelection' = SpSelection
  BY <1>1 DEF SpShown, SpScan, SpSelection
<1>5. \A c : SpClaimOK(c) => SpClaimOK(c)'
  BY <1>1 DEF SpClaimOK, SpTxOf, Binding, DerivedAddress
<1>6. \A w : SpWatchOK(w) => SpWatchOK(w)'
  BY <1>1 DEF SpWatchOK
<1>7. ASSUME NEW p \in Pages PROVE SpPage(p)'
  <2>1. SpPageOK(rows[p], scans[p], selected[p], claim[p], polls[p], told[p])
    BY DEF SpInv, SpPage
  <2>2. /\ rows[p] \in SpShown \cup {Nothing} /\ scans[p] \subseteq SpScan
        /\ selected[p] \in SpSelection \cup {Nothing}
        /\ SpClaimOK(claim[p])'
        /\ \A w \in polls[p] : SpWatchOK(w)'
    BY <1>0, <1>5, <1>6, <2>1 DEF SpPageOK
  <2>3. /\ rows[p] # Nothing \/ polls[p] # {} \/ selected[p] # Nothing \/ claim[p].pc # "idle" =>
             rows[p] \in SpShown /\ \A l \in Lanes : SpSeen(l, rows[p][l])'
        /\ \A s \in scans[p] : \A l \in Lanes : SpSeen(l, s.got[l])'
    BY <1>0, <1>3, <2>1 DEF SpPageOK
  <2>4. selected[p] # Nothing => SpSeen(selected[p].lane, selected[p].balance)'
    <3> SUFFICES ASSUME selected[p] # Nothing PROVE SpSeen(selected[p].lane, selected[p].balance)'
      OBVIOUS
    <3>1. selected[p].lane \in Lanes
      BY <2>2 DEF SpSelection
    <3>2. QED  BY <1>0, <1>3, <2>1, <3>1 DEF SpPageOK
  <2>5. claim[p].pc # "idle" => SpSeen(claim[p].lane, claim[p].balance)'
    <3> SUFFICES ASSUME claim[p].pc # "idle" PROVE SpSeen(claim[p].lane, claim[p].balance)'
      OBVIOUS
    <3>1. claim[p].lane \in Lanes
      BY <2>1 DEF SpPageOK, SpClaimOK
    <3>2. QED  BY <1>0, <1>3, <2>1, <3>1 DEF SpPageOK
  <2>6. ASSUME NEW w \in polls[p] PROVE SpSeen(w.lane, w.previous)'
    <3>1. w.lane \in Lanes
      BY <2>1 DEF SpPageOK, SpWatchOK
    <3>2. QED  BY <1>3, <2>1, <3>1 DEF SpPageOK
  <2>7. told[p] # Nothing /\ told[p].what = "processed" => PaidFrom(told[p].lane)' # {}
    BY <1>0, <1>2, <2>1 DEF SpPageOK
  <2>8. SpPageOK(rows[p], scans[p], selected[p], claim[p], polls[p], told[p])'
    BY <1>0, <1>1, <1>4, <2>2, <2>3, <2>4, <2>5, <2>6, <2>7 DEF SpPageOK
  <2>9. QED  BY <2>8 DEF SpPage
<1>8. (\A q \in queue : SpRequestOK(q))'
  BY <1>0, <1>1 DEF SpInv, SpRequestOK, SpTxOf
<1>9. StealthPageOK' /\ SpFunctions'
  BY <1>0 DEF SpInv, StealthPageOK, SpFunctions
<1>10. QED  BY <1>7, <1>8, <1>9 DEF SpInv

(* What is said of the payments is about the nonces, the payments and the     *)
(* requests only.                                                             *)
LEMMA SpSamePaid == ASSUME SpPaid, UNCHANGED <<scene, nonce, paid, queue>> PROVE SpPaid'
<1>1. Lanes' = Lanes
  BY DEF Lanes
<1>2. \A l : PaidFrom(l)' = PaidFrom(l)
  BY DEF PaidFrom, TargetRecipient, Account, Client
<1>3. QED  BY <1>1, <1>2 DEF SpPaid

(* The cosigner changes on the API alone. *)
LEMMA SpRotate == SpInv /\ RotateCosigner => SpInv'
<1> SUFFICES ASSUME SpInv, RotateCosigner PROVE SpInv'
  OBVIOUS
<1>1. UNCHANGED <<scene, bal, nonce, paid, queue, pageVars, claim, polls>>
  BY DEF RotateCosigner
<1>2. SpAccounts /\ SpPaid
  BY DEF SpInv
<1>3. SpPaid'
  BY <1>1, <1>2, SpSamePaid
<1>4. SpAccounts' /\ \A l \in Lanes : bal[l] <= bal'[l]
  BY <1>1, <1>2 DEF SpAccounts, Lanes
<1>5. QED  BY <1>1, <1>3, <1>4, SpAccountStep

(* A deposit adds to a balance. *)
LEMMA SpDeposit == ASSUME SpInv, NEW l \in Lanes, Deposit(l) PROVE SpInv'
<1>1. UNCHANGED <<scene, nonce, paid, queue, pageVars, claim, polls>> /\ bal' = [bal EXCEPT ![l] = @ + 1]
  BY DEF Deposit
<1>2. bal \in [Lanes -> Nat] /\ scene \in Scenes /\ nonce \in [Lanes -> Nat] /\ SpPaid
  BY DEF SpInv, SpAccounts
<1>3. bal' \in [Lanes -> Nat] /\ \A m \in Lanes : bal[m] <= bal'[m]
  BY <1>1, <1>2
<1>4. SpAccounts'
  BY <1>1, <1>2, <1>3 DEF SpAccounts, Lanes
<1>5. SpPaid'
  BY <1>1, <1>2, SpSamePaid
<1>6. QED  BY <1>1, <1>3, <1>4, <1>5, SpAccountStep

(* Lanes are told apart by their accounts. *)
LEMMA SpAccountOfLane ==
  ASSUME SpInv, NEW l \in Lanes, NEW m \in Lanes, TargetRecipient(l) = TargetRecipient(m)
  PROVE  l = m
<1>1. l.id = m.id
  BY DEF TargetRecipient, Account, Client
<1>2. QED  BY <1>1 DEF SpInv, SpAccounts, StealthPageOK, Lanes

(* A payment of a request is a transaction of the lane it was asked for; on   *)
(* Starknet it takes the account's nonce, which no earlier payment had.       *)
LEMMA SpPay == ASSUME SpInv, NEW l \in Lanes, NEW q \in queue, Pay(l, q.hash) PROVE SpInv'
<1> DEFINE tx == q.hash
<1>1. /\ UNCHANGED <<scene, queue, pageVars, claim, polls>> /\ paid' = paid \cup {tx}
      /\ tx \notin paid /\ tx.from = TargetRecipient(l) /\ tx.amount <= bal[l]
      /\ tx.kind = "starknet" => tx.nonce = nonce[l]
      /\ bal' = [bal EXCEPT ![l] = @ - tx.amount]
      /\ nonce' = [nonce EXCEPT ![l] = IF tx.kind = "starknet" THEN @ + 1 ELSE @]
  BY DEF Pay
<1>2. bal \in [Lanes -> Nat] /\ scene \in Scenes /\ nonce \in [Lanes -> Nat] /\ SpPaid
  BY DEF SpInv, SpAccounts
<1>3. SpRequestOK(q)
  BY DEF SpInv
<1>4. q.asked.lane = l
  BY <1>1, <1>3, SpAccountOfLane DEF SpRequestOK, SpTxOf
<1>5. tx.kind = l.kind /\ tx.amount \in Nat
  BY <1>3, <1>4 DEF SpRequestOK, SpTxOf
<1>6. bal' \in [Lanes -> Nat] /\ nonce' \in [Lanes -> Nat]
      /\ \A m \in Lanes : m # l => bal'[m] = bal[m] /\ nonce'[m] = nonce[m]
  BY <1>1, <1>2, <1>5
<1>7. Lanes' = Lanes /\ \A m : TargetRecipient(m)' = TargetRecipient(m)
  BY <1>1 DEF Lanes, TargetRecipient, Account, Client
<1>8. PaidFrom(l)' = PaidFrom(l) \cup {tx} /\ tx \notin PaidFrom(l)
  BY <1>1, <1>7 DEF PaidFrom
<1>9. \A m \in Lanes : m # l => PaidFrom(m)' = PaidFrom(m)
  BY <1>1, <1>7, SpAccountOfLane DEF PaidFrom
<1>10. SpAccounts'
  BY <1>1, <1>2, <1>6, <1>7 DEF SpAccounts
<1>11. IsFiniteSet(paid') /\ \A t \in paid' : \E r \in queue' : t = r.hash
  BY <1>1, <1>2, FS_AddElement DEF SpPaid
<1>12. ASSUME NEW m \in Lanes, m.kind = "starknet"
       PROVE  /\ nonce'[m] = Cardinality(PaidFrom(m)')
              /\ \A t \in PaidFrom(m)' : t.nonce \in Nat /\ t.nonce < nonce'[m]
              /\ \A t, u \in PaidFrom(m)' : t # u => t.nonce # u.nonce
  <2>0. /\ nonce[m] = Cardinality(PaidFrom(m))
        /\ \A t \in PaidFrom(m) : t.nonce \in Nat /\ t.nonce < nonce[m]
        /\ \A t, u \in PaidFrom(m) : t # u => t.nonce # u.nonce
    BY <1>2, <1>12 DEF SpPaid
  <2>1. CASE m # l
    BY <1>6, <1>9, <2>0, <2>1
  <2>2. CASE m = l
    <3>1. tx.nonce = nonce[m] /\ nonce'[m] = nonce[m] + 1 /\ nonce[m] \in Nat
      BY <1>1, <1>2, <1>5, <1>12, <2>2
    <3>2. IsFiniteSet(PaidFrom(m))
      BY <1>2, FS_Subset DEF SpPaid, PaidFrom
    <3>3. Cardinality(PaidFrom(m)') = Cardinality(PaidFrom(m)) + 1
      BY <1>8, <2>2, <3>2, FS_AddElement
    <3>4. \A t \in PaidFrom(m)' : t.nonce \in Nat /\ t.nonce < nonce'[m]
      BY <1>8, <2>0, <2>2, <3>1
    <3>5. ASSUME NEW t \in PaidFrom(m)', NEW u \in PaidFrom(m)', t # u PROVE t.nonce # u.nonce
      <4>1. CASE t = tx
        BY <1>8, <2>0, <2>2, <3>1, <3>5, <4>1
      <4>2. CASE u = tx
        BY <1>8, <2>0, <2>2, <3>1, <3>5, <4>2
      <4>3. CASE t # tx /\ u # tx
        BY <1>8, <2>0, <2>2, <3>5, <4>3
      <4>4. QED  BY <4>1, <4>2, <4>3
    <3>6. QED  BY <2>0, <3>1, <3>3, <3>4, <3>5
  <2>3. QED  BY <2>1, <2>2
<1>13. SpPaid'
  BY <1>7, <1>11, <1>12 DEF SpPaid
<1>14. \A m \in Lanes : PaidFrom(m)' # {} \/ bal[m] <= bal'[m]
  BY <1>2, <1>6, <1>8
<1>15. QED  BY <1>1, <1>10, <1>13, <1>14, SpAccountStep
-----------------------------------------------------------------------------
(* A refresh asks for every lane's balance. *)
LEMMA SpRefreshStart == ASSUME SpInv, NEW p \in Pages, RefreshStart(p) PROVE SpInv'
<1> DEFINE s == [left |-> Lanes, got |-> [l \in Lanes |-> Nothing]]
<1>1. UNCHANGED <<scene, bal, nonce, paid, queue, rows, selected, told, claim, polls>>
      /\ scans' = [scans EXCEPT ![p] = @ \cup {s}]
  BY DEF RefreshStart, chainVars
<1>2. SpFunctions /\ SpPageOK(rows[p], scans[p], selected[p], claim[p], polls[p], told[p])
  BY DEF SpInv, SpPage
<1>3. SpFunctions' /\ scans'[p] = scans[p] \cup {s} /\ \A o \in Pages \ {p} : scans'[o] = scans[o]
  BY <1>1, <1>2 DEF SpFunctions
<1>4. s \in SpScan
  BY DEF SpScan, SpShown
<1>5. \A l \in Lanes : SpSeen(l, s.got[l])
  BY DEF SpSeen, SpInv, StealthPageOK
<1>6. SpPageOK(rows'[p], scans'[p], selected'[p], claim'[p], polls'[p], told'[p])
  BY <1>1, <1>2, <1>3, <1>4, <1>5 DEF SpPageOK
<1>7. QED  BY <1>1, <1>3, <1>6, SpPageStep

(* What a refresh reads is the balance now, or nothing. *)
LEMMA SpRefreshRead ==
  ASSUME SpInv, NEW p \in Pages, NEW s \in scans[p], NEW l \in s.left, RefreshRead(p, s, l)
  PROVE  SpInv'
<1>1. PICK b \in {bal[l]} \cup (IF scene.fails THEN {Nothing} ELSE {}) :
        scans' = [scans EXCEPT ![p] = (@ \ {s}) \cup {[left |-> s.left \ {l}, got |-> [s.got EXCEPT ![l] = b]]}]
  BY DEF RefreshRead
<1> DEFINE n == [left |-> s.left \ {l}, got |-> [s.got EXCEPT ![l] = b]]
<1>2. UNCHANGED <<scene, bal, nonce, paid, queue, rows, selected, told, claim, polls>>
  BY DEF RefreshRead, chainVars
<1>3. SpFunctions /\ SpPageOK(rows[p], scans[p], selected[p], claim[p], polls[p], told[p])
  BY DEF SpInv, SpPage
<1>4. SpFunctions' /\ scans'[p] = (scans[p] \ {s}) \cup {n} /\ \A o \in Pages \ {p} : scans'[o] = scans[o]
  BY <1>1, <1>2, <1>3 DEF SpFunctions
<1>5. s \in SpScan /\ l \in Lanes
  BY <1>3 DEF SpPageOK, SpScan
<1>6. b \in {bal[l], Nothing} /\ bal[l] \in Nat
  BY <1>1, <1>5 DEF SpInv, SpAccounts
<1>7. n \in SpScan
  BY <1>5, <1>6 DEF SpScan, SpShown
<1>8. ASSUME NEW m \in Lanes PROVE SpSeen(m, n.got[m])
  <2>1. SpSeen(m, s.got[m])
    BY <1>3 DEF SpPageOK
  <2>2. CASE m # l
    <3>1. n.got[m] = s.got[m]
      BY <1>5, <2>2 DEF SpScan, SpShown
    <3>2. QED  BY <2>1, <3>1
  <2>3. CASE m = l
    <3>1. n.got[m] = b
      BY <1>5, <2>3 DEF SpScan, SpShown
    <3>2. Nothing \notin Nat
      BY DEF SpInv, StealthPageOK
    <3>3. QED  BY <1>6, <2>3, <3>1, <3>2 DEF SpSeen
  <2>4. QED  BY <2>2, <2>3
<1>9. SpPageOK(rows'[p], scans'[p], selected'[p], claim'[p], polls'[p], told'[p])
  BY <1>2, <1>3, <1>4, <1>7, <1>8 DEF SpPageOK
<1>10. QED  BY <1>2, <1>4, <1>9, SpPageStep

(* The rows drawn are what the refresh got. *)
LEMMA SpRefreshEnd ==
  ASSUME SpInv, NEW p \in Pages, NEW s \in scans[p], RefreshEnd(p, s)
  PROVE  SpInv'
<1>1. UNCHANGED <<scene, bal, nonce, paid, queue, selected, told, claim, polls>>
      /\ rows' = [rows EXCEPT ![p] = s.got] /\ scans' = [scans EXCEPT ![p] = @ \ {s}]
  BY DEF RefreshEnd, chainVars
<1>2. SpFunctions /\ SpPageOK(rows[p], scans[p], selected[p], claim[p], polls[p], told[p])
  BY DEF SpInv, SpPage
<1>3. /\ SpFunctions' /\ scans'[p] = scans[p] \ {s} /\ rows'[p] = s.got
      /\ \A o \in Pages \ {p} : scans'[o] = scans[o] /\ rows'[o] = rows[o]
  BY <1>1, <1>2 DEF SpFunctions
<1>4. s \in SpScan
  BY <1>2 DEF SpPageOK
<1>5. s.got \in SpShown /\ \A l \in Lanes : SpSeen(l, s.got[l])
  BY <1>2, <1>4 DEF SpPageOK, SpScan
<1>6. SpPageOK(s.got, scans'[p], selected[p], claim[p], polls[p], told[p])
  BY <1>2, <1>3, <1>5 DEF SpPageOK
<1>7. QED  BY <1>1, <1>3, <1>6, SpPageStep
(* The row clicked is one that is shown. *)
LEMMA SpSelect == ASSUME SpInv, NEW p \in Pages, NEW l \in Lanes, Select(p, l) PROVE SpInv'
<1> DEFINE sel == [lane |-> l, balance |-> rows[p][l]]
<1>1. UNCHANGED <<scene, bal, nonce, paid, queue, rows, scans, told, claim, polls>>
      /\ rows[p] # Nothing /\ selected' = [selected EXCEPT ![p] = sel]
  BY DEF Select, chainVars
<1>2. SpFunctions /\ SpPageOK(rows[p], scans[p], selected[p], claim[p], polls[p], told[p])
  BY DEF SpInv, SpPage
<1>3. SpFunctions' /\ selected'[p] = sel /\ \A o \in Pages \ {p} : selected'[o] = selected[o]
  BY <1>1, <1>2 DEF SpFunctions
<1>4. rows[p] \in SpShown /\ \A m \in Lanes : SpSeen(m, rows[p][m])
  BY <1>1, <1>2 DEF SpPageOK
<1>5. sel \in SpSelection /\ SpSeen(sel.lane, sel.balance)
  BY <1>4 DEF SpShown, SpSelection
<1>6. SpPageOK(rows[p], scans[p], sel, claim[p], polls[p], told[p])
  BY <1>2, <1>4, <1>5 DEF SpPageOK
<1>7. QED  BY <1>1, <1>3, <1>6, SpPageStep

(* A step of a claim keeps its lane and its balance. *)
LEMMA SpClaimStep ==
  ASSUME SpInv, UNCHANGED <<scene, bal, nonce, paid, queue, rows, scans, selected, told, polls>>,
         NEW p \in Pages, NEW c, SetClaim(p, c), SpClaimOK(c),
         \/ claim[p].pc # "idle" /\ c.lane = claim[p].lane /\ c.balance = claim[p].balance
         \/ selected[p] # Nothing /\ c.lane = selected[p].lane /\ c.balance = selected[p].balance
  PROVE  SpInv'
<1>1. SpFunctions /\ SpPageOK(rows[p], scans[p], selected[p], claim[p], polls[p], told[p])
  BY DEF SpInv, SpPage
<1>2. SpFunctions' /\ claim'[p] = c /\ \A o \in Pages \ {p} : claim'[o] = claim[o]
  BY <1>1 DEF SpFunctions, SetClaim
<1>3. SpPageOK(rows[p], scans[p], selected[p], c, polls[p], told[p])
  BY <1>1 DEF SpPageOK
<1>4. QED  BY <1>2, <1>3, SpPageStep

(* The claim is about what is selected. *)
LEMMA SpClaimStart == ASSUME SpInv, NEW p \in Pages, NEW dest, ClaimStart(p, dest) PROVE SpInv'
<1> DEFINE c == [Idle EXCEPT !.busy = TRUE, !.pc = "resolve", !.lane = selected[p].lane,
                             !.balance = selected[p].balance, !.dest = dest]
<1>1. UNCHANGED <<scene, bal, nonce, paid, queue, rows, scans, selected, told, polls>> /\ SetClaim(p, c)
      /\ selected[p] # Nothing /\ selected[p].balance \notin {Nothing, 0}
  BY DEF ClaimStart, chainVars, pageVars
<1>2. SpPageOK(rows[p], scans[p], selected[p], claim[p], polls[p], told[p])
  BY DEF SpInv, SpPage
<1>3. selected[p].lane \in Lanes /\ selected[p].balance \in Nat
  BY <1>1, <1>2 DEF SpPageOK, SpSelection
<1>4. SpClaimOK(c) /\ c.lane = selected[p].lane /\ c.balance = selected[p].balance
  BY <1>3 DEF SpClaimOK, SpFields, Idle
<1>5. QED  BY <1>1, <1>4, SpClaimStep

(* The claim of a page, as the invariant has it. *)
LEMMA SpClaimOf == SpInv => \A p \in Pages : SpClaimOK(claim[p])
BY DEF SpInv, SpPage, SpPageOK

(* resolveStealthConfig says nothing about the account yet. *)
LEMMA SpResolve == ASSUME SpInv, NEW p \in Pages, ResolveClaimConfig(p) PROVE SpInv'
<1> DEFINE c == [claim[p] EXCEPT !.pc = "unlock", !.config = cosigner]
<1>1. UNCHANGED <<scene, bal, nonce, paid, queue, rows, scans, selected, told, polls>> /\ SetClaim(p, c)
      /\ claim[p].pc = "resolve"
  BY DEF ResolveClaimConfig, chainVars, pageVars
<1>2. SpClaimOK(claim[p])
  BY SpClaimOf
<1>3. SpClaimOK(c) /\ c.lane = claim[p].lane /\ c.balance = claim[p].balance
  BY <1>1, <1>2 DEF SpClaimOK, SpFields
<1>4. QED  BY <1>1, <1>3, SpClaimStep

(* The passkey that answers gives some secret. *)
LEMMA SpPrf == ASSUME SpInv, NEW p \in Pages, EvaluateLanePrf(p) PROVE SpInv'
<1>1. UNCHANGED <<scene, bal, nonce, paid, queue, rows, scans, selected, told, polls>> /\ claim[p].pc = "unlock"
  BY DEF EvaluateLanePrf, chainVars, pageVars
<1>2. PICK k : SetClaim(p, [claim[p] EXCEPT !.pc = "derive", !.secret = k])
  BY DEF EvaluateLanePrf
<1> DEFINE c == [claim[p] EXCEPT !.pc = "derive", !.secret = k]
<1>3. SpClaimOK(claim[p])
  BY SpClaimOf
<1>4. SpClaimOK(c) /\ c.lane = claim[p].lane /\ c.balance = claim[p].balance
  BY <1>1, <1>3 DEF SpClaimOK, SpFields
<1>5. QED  BY <1>1, <1>2, <1>4, SpClaimStep

(* The signer passes the check that it is the lane's account. *)
LEMMA SpDerive == ASSUME SpInv, NEW p \in Pages, DeriveSigner(p) PROVE SpInv'
<1> DEFINE c == [claim[p] EXCEPT !.pc = "build", !.signer = TargetRecipient(claim[p].lane)]
<1>1. UNCHANGED <<scene, bal, nonce, paid, queue, rows, scans, selected, told, polls>> /\ SetClaim(p, c)
      /\ claim[p].pc = "derive"
  BY DEF DeriveSigner, chainVars, pageVars
<1>2. SpClaimOK(claim[p])
  BY SpClaimOf
<1>3. SpClaimOK(c) /\ c.lane = claim[p].lane /\ c.balance = claim[p].balance
  BY <1>1, <1>2 DEF SpClaimOK, SpFields
<1>4. QED  BY <1>1, <1>3, SpClaimStep

(* The transaction is the claim's; on Starknet its nonce counts the payments  *)
(* made from the account so far.                                              *)
LEMMA SpBuild == ASSUME SpInv, NEW p \in Pages, Build(p) PROVE SpInv'
<1> DEFINE c == [claim[p] EXCEPT !.pc = "approve", !.tx = Tx(p)]
<1>1. UNCHANGED <<scene, bal, nonce, paid, queue, rows, scans, selected, told, polls>> /\ SetClaim(p, c)
      /\ claim[p].pc = "build"
  BY DEF Build, chainVars, pageVars
<1>2. SpClaimOK(claim[p])
  BY SpClaimOf
<1>3. claim[p].lane \in Lanes /\ claim[p].signer = TargetRecipient(claim[p].lane)
  BY <1>1, <1>2 DEF SpClaimOK, SpFields
<1>4. claim[p].lane.kind = "starknet" => nonce[claim[p].lane] = Cardinality(PaidFrom(claim[p].lane))
  BY <1>3 DEF SpInv, SpPaid
<1>5. SpTxOf(Tx(p), claim[p])
  <2>1. PICK n, s : n = TxNonce(claim[p]) /\ s = Cardinality(PaidFrom(claim[p].lane))
    OBVIOUS
  <2>2. claim[p].lane.kind = "starknet" => s = n
    BY <1>4, <2>1 DEF TxNonce, StarknetAccountNonce
  <2>3. Tx(p) = [kind |-> claim[p].lane.kind, from |-> claim[p].signer, to |-> claim[p].dest,
                 amount |-> claim[p].balance, nonce |-> n, seen |-> s]
    BY <2>1 DEF Tx
  <2>4. QED  BY <1>3, <2>2, <2>3 DEF SpTxOf
<1>6. c.lane = claim[p].lane /\ c.balance = claim[p].balance /\ c.dest = claim[p].dest /\ c.tx = Tx(p)
      /\ c.pc = "approve" /\ c.signer = claim[p].signer /\ c.busy = claim[p].busy
  BY <1>2 DEF SpClaimOK, SpFields
<1>7. SpTxOf(c.tx, c)
  BY <1>5, <1>6 DEF SpTxOf
<1>8. SpClaimOK(c)
  BY <1>1, <1>2, <1>6, <1>7 DEF SpClaimOK, SpFields
<1>9. QED  BY <1>1, <1>6, <1>8, SpClaimStep

(* The token is asked for the claim that was built. *)
LEMMA SpToken == ASSUME SpInv, NEW p \in Pages, GetVerifiedToken(p) PROVE SpInv'
<1> DEFINE c == [claim[p] EXCEPT !.pc = "submit", !.binding = Binding(claim[p])]
<1>1. UNCHANGED <<scene, bal, nonce, paid, queue, rows, scans, selected, told, polls>> /\ SetClaim(p, c)
      /\ claim[p].pc = "approve"
  BY DEF GetVerifiedToken, chainVars, pageVars
<1>2. SpClaimOK(claim[p])
  BY SpClaimOf
<1>3. c.lane = claim[p].lane /\ c.balance = claim[p].balance /\ c.dest = claim[p].dest /\ c.tx = claim[p].tx
      /\ c.pc = "submit" /\ c.signer = claim[p].signer /\ c.busy = claim[p].busy
      /\ c.binding = Binding(claim[p])
  BY <1>2 DEF SpClaimOK, SpFields
<1>4. SpTxOf(c.tx, c)
  BY <1>1, <1>2, <1>3 DEF SpClaimOK, SpTxOf
<1>5. c.binding = Binding(c)
  BY <1>3 DEF Binding, DerivedAddress
<1>6. SpClaimOK(c)
  BY <1>1, <1>2, <1>3, <1>4, <1>5 DEF SpClaimOK, SpFields
<1>7. QED  BY <1>1, <1>3, <1>6, SpClaimStep
(* A claim that failed leaves nothing behind. *)
LEMMA SpClaimFails == ASSUME SpInv, NEW p \in Pages, ClaimFails(p) PROVE SpInv'
<1> DEFINE said == [lane |-> claim[p].lane, what |-> "failed"]
<1>1. UNCHANGED <<scene, bal, nonce, paid, queue, rows, scans, selected, polls>>
      /\ told' = [told EXCEPT ![p] = said] /\ claim' = [claim EXCEPT ![p] = Idle]
  BY DEF ClaimFails, Finally, SetClaim, chainVars
<1>2. SpFunctions /\ SpPageOK(rows[p], scans[p], selected[p], claim[p], polls[p], told[p])
  BY DEF SpInv, SpPage
<1>3. SpFunctions' /\ told'[p] = said /\ claim'[p] = Idle
      /\ \A o \in Pages \ {p} : told'[o] = told[o] /\ claim'[o] = claim[o]
  BY <1>1, <1>2 DEF SpFunctions
<1>4. said.what # "processed"
  OBVIOUS
<1>5. SpPageOK(rows[p], scans[p], selected[p], Idle, polls[p], said)
  BY <1>2, <1>4, SpIdle DEF SpPageOK
<1>6. QED  BY <1>1, <1>3, <1>5, SpPageStep

(* What reaches the backend is the claim of the click, with its own token. *)
LEMMA SpRequest == ASSUME SpInv, NEW p \in Pages, claim[p].pc = "submit" PROVE SpRequestOK(Request(p))
<1> DEFINE c == claim[p]
           r == Request(p)
<1>1. SpClaimOK(c)
  BY SpClaimOf
<1>2. r.asked.lane = c.lane /\ r.asked.balance = c.balance /\ r.asked.dest = c.dest /\ r.hash = c.tx
      /\ r.chain = c.lane.kind /\ r.derived = DerivedAddress(c) /\ r.token = c.binding
  BY DEF Request
<1>3. c.lane \in Lanes /\ c.balance \in Nat /\ SpTxOf(c.tx, c) /\ c.binding = Binding(c)
  BY <1>1 DEF SpClaimOK
<1>4. SpTxOf(r.hash, r.asked)
  BY <1>2, <1>3 DEF SpTxOf
<1>5. r.token = <<r.chain, r.derived, r.hash>>
  BY <1>2, <1>3 DEF Binding
<1>6. QED  BY <1>2, <1>3, <1>4, <1>5 DEF SpRequestOK

(* The accepted claim is watched from the balance it was made on. *)
LEMMA SpSubmit == ASSUME SpInv, NEW p \in Pages, SubmitClaim(p) PROVE SpInv'
<1> DEFINE said == [lane |-> claim[p].lane, what |-> "queued"]
           w == [lane |-> claim[p].lane, previous |-> claim[p].balance, left |-> POLLS, ref |-> claim[p].tx]
<1>1. UNCHANGED <<scene, bal, nonce, paid, rows, scans, selected>> /\ claim[p].pc = "submit"
      /\ queue' = queue \cup {Request(p)}
      /\ polls' = [polls EXCEPT ![p] = @ \cup {w}]
      /\ told' = [told EXCEPT ![p] = said] /\ claim' = [claim EXCEPT ![p] = Idle]
  BY DEF SubmitClaim, Finally, SetClaim, chainVars
<1>2. SpFunctions /\ SpPageOK(rows[p], scans[p], selected[p], claim[p], polls[p], told[p])
  BY DEF SpInv, SpPage
<1>3. SpFunctions' /\ told'[p] = said /\ claim'[p] = Idle /\ polls'[p] = polls[p] \cup {w}
      /\ \A o \in Pages \ {p} : told'[o] = told[o] /\ claim'[o] = claim[o] /\ polls'[o] = polls[o]
  BY <1>1, <1>2 DEF SpFunctions
<1>4. said.what # "processed"
  OBVIOUS
<1>5. SpWatchOK(w) /\ SpSeen(w.lane, w.previous)
      /\ rows[p] \in SpShown /\ \A l \in Lanes : SpSeen(l, rows[p][l])
  <2>1. claim[p].lane \in Lanes /\ claim[p].balance \in Nat
    BY <1>1, SpClaimOf DEF SpClaimOK
  <2>2. SpSeen(claim[p].lane, claim[p].balance)
        /\ rows[p] \in SpShown /\ \A l \in Lanes : SpSeen(l, rows[p][l])
    BY <1>1, <1>2 DEF SpPageOK
  <2>3. QED  BY <2>1, <2>2 DEF SpWatchOK
<1>6. SpPageOK(rows[p], scans[p], selected[p], Idle, polls[p] \cup {w}, said)
  BY <1>2, <1>4, <1>5, SpIdle DEF SpPageOK
<1>7. queue \subseteq queue' /\ \A q \in queue' \ queue : SpRequestOK(q)
  BY <1>1, SpRequest
<1>8. QED  BY <1>1, <1>3, <1>6, <1>7, SpPageStep

(* A lost answer leaves the claim with the backend all the same. *)
LEMMA SpSubmitLost == ASSUME SpInv, NEW p \in Pages, SubmitClaimLost(p) PROVE SpInv'
<1> DEFINE said == [lane |-> claim[p].lane, what |-> "failed"]
<1>1. UNCHANGED <<scene, bal, nonce, paid, rows, scans, selected, polls>> /\ claim[p].pc = "submit"
      /\ queue' = queue \cup {Request(p)}
      /\ told' = [told EXCEPT ![p] = said] /\ claim' = [claim EXCEPT ![p] = Idle]
  BY DEF SubmitClaimLost, Finally, SetClaim, chainVars
<1>2. SpFunctions /\ SpPageOK(rows[p], scans[p], selected[p], claim[p], polls[p], told[p])
  BY DEF SpInv, SpPage
<1>3. SpFunctions' /\ told'[p] = said /\ claim'[p] = Idle
      /\ \A o \in Pages \ {p} : told'[o] = told[o] /\ claim'[o] = claim[o]
  BY <1>1, <1>2 DEF SpFunctions
<1>4. said.what # "processed"
  OBVIOUS
<1>5. SpPageOK(rows[p], scans[p], selected[p], Idle, polls[p], said)
  BY <1>2, <1>4, SpIdle DEF SpPageOK
<1>6. queue \subseteq queue' /\ \A q \in queue' \ queue : SpRequestOK(q)
  BY <1>1, SpRequest
<1>7. QED  BY <1>1, <1>3, <1>5, <1>6, SpPageStep

-----------------------------------------------------------------------------
(* A watch with one poll less is the same watch. *)
LEMMA SpOneLess ==
  ASSUME NEW w, SpWatchOK(w)
  PROVE  LET v == [w EXCEPT !.left = @ - 1]
         IN SpWatchOK(v) /\ v.lane = w.lane /\ v.previous = w.previous
BY DEF SpWatchOK

(* A balance below the one claimed can only mean that the lane has paid out.  *)
LEMMA SpFellPaid ==
  ASSUME SpInv, NEW p \in Pages, NEW w \in polls[p], Fell(w)
  PROVE  PaidFrom(w.lane) # {}
<1>1. SpPageOK(rows[p], scans[p], selected[p], claim[p], polls[p], told[p])
  BY DEF SpInv, SpPage
<1>2. SpWatchOK(w) /\ SpSeen(w.lane, w.previous)
  BY <1>1 DEF SpPageOK
<1>3. w.lane \in Lanes /\ w.previous \in Nat
  BY <1>2 DEF SpWatchOK
<1>4. bal[w.lane] \in Nat /\ bal[w.lane] < w.previous
  BY <1>3 DEF SpInv, SpAccounts, Fell
<1>5. QED  BY <1>2, <1>3, <1>4 DEF SpSeen

(* A poll shows the balance it read, and says "processed" when that fell. *)
LEMMA SpPoll == ASSUME SpInv, NEW p \in Pages, NEW w \in polls[p], Poll(p, w) PROVE SpInv'
<1> DEFINE v == [w EXCEPT !.left = @ - 1]
           r == [rows[p] EXCEPT ![w.lane] = bal[w.lane]]
           sel == IF Watched(p, w) THEN [lane |-> w.lane, balance |-> bal[w.lane]] ELSE selected[p]
<1>1. UNCHANGED <<scene, bal, nonce, paid, queue, scans, claim>>
      /\ rows' = [rows EXCEPT ![p][w.lane] = bal[w.lane]]
      /\ selected' = [selected EXCEPT ![p] = IF Watched(p, w) THEN [lane |-> w.lane, balance |-> bal[w.lane]] ELSE @]
  BY DEF Poll, chainVars
<1>2. SpFunctions /\ SpPageOK(rows[p], scans[p], selected[p], claim[p], polls[p], told[p])
  BY DEF SpInv, SpPage
<1>3. PICK ws, said :
        /\ polls' = [polls EXCEPT ![p] = ws] /\ told' = [told EXCEPT ![p] = said]
        /\ ws \subseteq polls[p] \cup {v}
        /\ \/ said = told[p]
           \/ said = [lane |-> w.lane, what |-> "processed"] /\ PaidFrom(w.lane) # {}
  <2>1. CASE Fell(w)
    <3>1. polls' = [polls EXCEPT ![p] = polls[p] \ {w}] /\ SayIfSelected(p, w, "processed")
      BY <2>1 DEF Poll
    <3>2. PaidFrom(w.lane) # {}
      BY <2>1, SpFellPaid
    <3>3. told' = [told EXCEPT ![p] = IF Watched(p, w) THEN [lane |-> w.lane, what |-> "processed"] ELSE told[p]]
      BY <3>1, <1>2 DEF SayIfSelected, SpFunctions
    <3>4. QED  BY <3>1, <3>2, <3>3
  <2>2. CASE ~Fell(w)
    <3>1. polls' = [polls EXCEPT ![p] = (polls[p] \ {w}) \cup {v}] /\ told' = told
      BY <2>2 DEF Poll
    <3>2. told' = [told EXCEPT ![p] = told[p]]
      BY <3>1, <1>2 DEF SpFunctions
    <3>3. QED  BY <3>1, <3>2
  <2>3. QED  BY <2>1, <2>2
<1>4. SpWatchOK(w) /\ w.lane \in Lanes /\ rows[p] \in SpShown
  BY <1>2 DEF SpPageOK, SpWatchOK
<1>5. bal[w.lane] \in Nat
  BY <1>4 DEF SpInv, SpAccounts
<1>6. /\ rows'[p] = r /\ selected'[p] = sel /\ polls'[p] = ws /\ told'[p] = said
      /\ \A o \in Pages \ {p} : rows'[o] = rows[o] /\ selected'[o] = selected[o]
                                /\ polls'[o] = polls[o] /\ told'[o] = told[o]
  BY <1>1, <1>2, <1>3 DEF SpFunctions
<1>7. SpFunctions'
  BY <1>1, <1>2, <1>3 DEF SpFunctions
<1>8. r \in SpShown /\ \A l \in Lanes : SpSeen(l, r[l])
  <2>1. r \in SpShown
    BY <1>4, <1>5 DEF SpShown
  <2>2. ASSUME NEW l \in Lanes PROVE SpSeen(l, r[l])
    <3>1. CASE l = w.lane
      BY <1>4, <1>5, <3>1 DEF SpShown, SpSeen
    <3>2. CASE l # w.lane
      <4>1. r[l] = rows[p][l]
        BY <1>4, <3>2 DEF SpShown
      <4>2. QED  BY <1>2, <4>1 DEF SpPageOK
    <3>3. QED  BY <3>1, <3>2
  <2>3. QED  BY <2>1, <2>2
<1>9. sel \in SpSelection \cup {Nothing} /\ (sel # Nothing => SpSeen(sel.lane, sel.balance))
  BY <1>2, <1>4, <1>5 DEF SpPageOK, SpSelection, SpSeen
<1>10. \A u \in ws : SpWatchOK(u) /\ SpSeen(u.lane, u.previous)
  <2>1. SpWatchOK(v) /\ v.lane = w.lane /\ v.previous = w.previous
    BY <1>4, SpOneLess
  <2>2. QED  BY <1>2, <1>3, <2>1 DEF SpPageOK
<1>11. said # Nothing /\ said.what = "processed" => PaidFrom(said.lane) # {}
  BY <1>2, <1>3 DEF SpPageOK
<1>12. SpPageOK(r, scans[p], sel, claim[p], ws, said)
  BY <1>2, <1>8, <1>9, <1>10, <1>11 DEF SpPageOK
<1>13. QED  BY <1>1, <1>6, <1>7, <1>12, SpPageStep
(* A failed read counts as a poll. *)
LEMMA SpPollFails == ASSUME SpInv, NEW p \in Pages, NEW w \in polls[p], PollFails(p, w) PROVE SpInv'
<1> DEFINE v == [w EXCEPT !.left = @ - 1]
           ws == (polls[p] \ {w}) \cup {v}
<1>1. UNCHANGED <<scene, bal, nonce, paid, queue, rows, scans, selected, told, claim>>
      /\ polls' = [polls EXCEPT ![p] = (@ \ {w}) \cup {v}]
  BY DEF PollFails, chainVars, pageVars
<1>2. SpFunctions /\ SpPageOK(rows[p], scans[p], selected[p], claim[p], polls[p], told[p])
  BY DEF SpInv, SpPage
<1>3. SpFunctions' /\ polls'[p] = ws /\ \A o \in Pages \ {p} : polls'[o] = polls[o]
  BY <1>1, <1>2 DEF SpFunctions
<1>4. SpWatchOK(v) /\ v.lane = w.lane /\ v.previous = w.previous
  BY <1>2, SpOneLess DEF SpPageOK
<1>5. SpPageOK(rows[p], scans[p], selected[p], claim[p], ws, told[p])
  BY <1>2, <1>4 DEF SpPageOK
<1>6. QED  BY <1>1, <1>3, <1>5, SpPageStep

(* A watch that gives up says so. *)
LEMMA SpPollsOver == ASSUME SpInv, NEW p \in Pages, NEW w \in polls[p], PollsOver(p, w) PROVE SpInv'
<1> DEFINE said == IF Watched(p, w) THEN [lane |-> w.lane, what |-> "unchanged"] ELSE told[p]
<1>1. UNCHANGED <<scene, bal, nonce, paid, queue, rows, scans, selected, claim>>
      /\ polls' = [polls EXCEPT ![p] = @ \ {w}]
      /\ told' = [told EXCEPT ![p] = IF Watched(p, w) THEN [lane |-> w.lane, what |-> "unchanged"] ELSE @]
  BY DEF PollsOver, SayIfSelected, chainVars
<1>2. SpFunctions /\ SpPageOK(rows[p], scans[p], selected[p], claim[p], polls[p], told[p])
  BY DEF SpInv, SpPage
<1>3. SpFunctions' /\ polls'[p] = polls[p] \ {w} /\ told'[p] = said
      /\ \A o \in Pages \ {p} : polls'[o] = polls[o] /\ told'[o] = told[o]
  BY <1>1, <1>2 DEF SpFunctions
<1>4. said = told[p] \/ said.what # "processed"
  OBVIOUS
<1>5. SpPageOK(rows[p], scans[p], selected[p], claim[p], polls[p] \ {w}, said)
  BY <1>2, <1>4 DEF SpPageOK
<1>6. QED  BY <1>1, <1>3, <1>5, SpPageStep

-----------------------------------------------------------------------------
(* Each step of the pages, the chains and the API keeps the invariant.        *)
LEMMA SpNextInv == SpInv /\ [PageNext]_pageState => SpInv'
<1> SUFFICES ASSUME SpInv, [PageNext]_pageState PROVE SpInv'
  OBVIOUS
<1>1. scene.pages \subseteq Pages
  BY DEF SpInv, SpAccounts, StealthPageOK
<1>2. CASE RotateCosigner
  BY <1>2, SpRotate
<1>3. CASE \E l \in Lanes : Deposit(l) \/ \E q \in queue : Pay(l, q.hash)
  BY <1>3, SpDeposit, SpPay
<1>4. ASSUME NEW p \in scene.pages,
             \/ RefreshStart(p)
             \/ \E s \in scans[p] : RefreshEnd(p, s) \/ \E l \in s.left : RefreshRead(p, s, l)
             \/ \E l \in Lanes : Select(p, l)
             \/ \E dest \in scene.dests : ClaimStart(p, dest)
             \/ ClaimStep(p) \/ PollStep(p)
      PROVE  SpInv'
  <2>0. p \in Pages
    BY <1>1
  <2>1. CASE RefreshStart(p)
    BY <2>0, <2>1, SpRefreshStart
  <2>2. CASE \E s \in scans[p] : RefreshEnd(p, s) \/ \E l \in s.left : RefreshRead(p, s, l)
    BY <2>0, <2>2, SpRefreshEnd, SpRefreshRead
  <2>3. CASE \E l \in Lanes : Select(p, l)
    BY <2>0, <2>3, SpSelect
  <2>4. CASE \E dest \in scene.dests : ClaimStart(p, dest)
    BY <2>0, <2>4, SpClaimStart
  <2>5. CASE ClaimStep(p)
    BY <2>0, <2>5, SpClaimFails, SpResolve, SpPrf, SpDerive, SpBuild, SpToken, SpSubmit, SpSubmitLost
       DEF ClaimStep
  <2>6. CASE PollStep(p)
    BY <2>0, <2>6, SpPoll, SpPollFails, SpPollsOver DEF PollStep
  <2>7. QED  BY <1>4, <2>1, <2>2, <2>3, <2>4, <2>5, <2>6
<1>5. CASE UNCHANGED pageState
  <2>1. UNCHANGED <<scene, bal, nonce, paid, queue, pageVars, claim, polls>>
    BY <1>5 DEF pageState, chainVars
  <2>2. SpAccounts /\ SpPaid
    BY DEF SpInv
  <2>3. SpPaid'
    BY <2>1, <2>2, SpSamePaid
  <2>4. SpAccounts' /\ \A l \in Lanes : bal[l] <= bal'[l]
    BY <2>1, <2>2 DEF SpAccounts, Lanes
  <2>5. QED  BY <2>1, <2>3, <2>4, SpAccountStep
<1>6. QED  BY <1>2, <1>3, <1>4, <1>5 DEF PageNext

(* The invariant holds in every state the pages reach. *)
THEOREM ClaimInvariant == PageSpec => []SpInv
BY StealthPageAssumption, SpInitInv, SpNextInv, PTL DEF PageSpec

(* A claim that reaches the backend is the one of the click (ClaimFaithful):  *)
(* amount, destination, account and token, and no secret outlives it.         *)
THEOREM ClaimsFaithful == PageSpec => []ClaimFaithful
<1>1. ASSUME SpInv PROVE ClaimFaithful
  <2>1. ClaimAsAsked /\ OwnAccountOnly /\ TokenBoundToClaim
    BY <1>1 DEF SpInv, SpRequestOK, SpTxOf, ClaimAsAsked, OwnAccountOnly, TokenBoundToClaim
  <2>2. SecretWiped
    BY <1>1, SpClaimOf DEF SpClaimOK, SecretWiped
  <2>3. QED  BY <2>1, <2>2 DEF ClaimFaithful
<1>2. QED  BY <1>1, ClaimInvariant, PTL

(* Two payments from one Starknet account were never built on the same state  *)
(* of it (RetryPaysOnce): the nonce in a claim counts the payments before it, *)
(* so a claim made again pays once, whatever tabs, prompts and lost answers.  *)
THEOREM RetriesPayOnce == PageSpec => []RetryPaysOnce
<1>1. ASSUME SpInv PROVE RetryPaysOnce
  <2> SUFFICES ASSUME NEW t \in paid, NEW u \in paid, t.kind = "starknet", t # u, t.from = u.from
               PROVE  t.seen # u.seen
    BY DEF RetryPaysOnce
  <2>1. SpPaid /\ \A q \in queue : SpRequestOK(q)
    BY <1>1 DEF SpInv
  <2>2. PICK q \in queue : t = q.hash
    BY <2>1 DEF SpPaid
  <2>3. PICK r \in queue : u = r.hash
    BY <2>1 DEF SpPaid
  <2> DEFINE l == q.asked.lane
  <2>4. /\ l \in Lanes /\ t.from = TargetRecipient(l) /\ l.kind = "starknet" /\ t.seen = t.nonce
        /\ r.asked.lane \in Lanes /\ u.from = TargetRecipient(r.asked.lane) /\ u.kind = r.asked.lane.kind
        /\ u.kind = "starknet" => u.seen = u.nonce
    BY <2>1, <2>2, <2>3 DEF SpRequestOK, SpTxOf
  <2>5. r.asked.lane = l
    BY <1>1, <2>4, SpAccountOfLane
  <2>6. t \in PaidFrom(l) /\ u \in PaidFrom(l)
    BY <2>4, <2>5 DEF PaidFrom
  <2>7. t.nonce # u.nonce
    BY <2>1, <2>4, <2>6 DEF SpPaid
  <2>8. QED  BY <2>4, <2>5, <2>7
<1>2. QED  BY <1>1, ClaimInvariant, PTL

(* The page says "processed" of lanes that paid out only                      *)
(* (ProcessedMeansSpent): the balances a watch compares only fall by a        *)
(* payment.                                                                   *)
THEOREM ProcessedWasSpent == PageSpec => []ProcessedMeansSpent
<1>1. ASSUME SpInv PROVE ProcessedMeansSpent
  BY <1>1 DEF SpInv, SpPage, SpPageOK, ProcessedMeansSpent
<1>2. QED  BY <1>1, ClaimInvariant, PTL
=============================================================================
