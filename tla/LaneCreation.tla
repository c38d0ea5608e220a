---------------------------- MODULE LaneCreation ----------------------------
(***************************************************************************)
(* The merchant's page: passkeys (passkey.js), creating and verifying a    *)
(* lane (lane.js, beanie.js), the lanes and the backup file (store.js) and *)
(* the two-source address check (onchain.js).  Several tabs share one      *)
(* localStorage and one authenticator.                                     *)
(*                                                                         *)
(* A step is what a page does between two awaits.  The server's sessions   *)
(* and tokens are its own (auth.rs): any call of the API may fail here,    *)
(* and a lost answer may follow a call that took effect.                   *)
(***************************************************************************)
EXTENDS LaneAddresses, FiniteSetsExt, Functions

CONSTANTS
    Tabs,
    Forms,          \* [privacy, target, typed]: what a merchant submits
    Cosigner,       \* cosigner the API publishes
    Synced,         \* credentials of the authenticator from another device
    MaxCreds,       \* bound on credentials registered here
    MaxLanes,       \* bound on creations begun
    Files,          \* backup files: sequences of raw lanes
    Elsewhere,      \* <<target, recipient>> announced from another device
    Environments,   \* [faults, wrong, format, forms, files, tabs]: circumstances
    None

LaneFields == {"id", "privacy", "target", "recipient", "merchant", "cred", "config", "receivers", "needsVerify"}

\* The lanes of the backup files that sanitizeLane accepts.
FiledLanes == UNION {{f[i].lane : i \in {i \in DOMAIN f : f[i].readable}} : f \in Files}

\* sanitizeLane wants a known chain and a payout address of its kind.  A file was
\* exported by the merchant: its lanes have ids of their own, were announced before
\* they were saved, and the public ones have no passkey; the receivers, passkeys and
\* configurations in it are whatever the file says.
ASSUME LaneAssumption ==
    /\ MaxCreds \in Nat /\ MaxLanes \in Nat
    /\ Synced \subseteq {0} /\ None \notin Nat
    /\ \A f \in Forms : f.target \in DOMAIN Chain /\ f.privacy \in BOOLEAN
    /\ \A f \in Files : DOMAIN f = 1..Len(f)
    /\ \A l \in FiledLanes :
          /\ l = [x \in LaneFields |-> l[x]] /\ l.privacy \in BOOLEAN /\ l.id \notin 1..MaxLanes
          /\ l.target \in DOMAIN Chain /\ KindOf(l.recipient) = Kind(l.target)
          /\ <<l.target, l.recipient>> \in Elsewhere
          /\ ~l.privacy => l.cred = None
    /\ \A e \in Environments :
          /\ e.faults \subseteq {"refuse", "clear", "restart"} /\ e.wrong \in {None, "proxy", "direct"}
          /\ e.forms \subseteq Forms /\ e.files \subseteq Files /\ e.tabs \subseteq Tabs

VARIABLES
    env,        \* storage refuses or is cleared, server restarts; an RPC source that may be wrong;
                \* the format of the backend's felts, which its library decides
    root, auth, archive,   \* beanie.passkey.prf.v1, .auth.v1, .archive.v1
    lanes,      \* beanie.lanes.v2: lane id |-> record
    known,      \* credentials the server holds in memory
    registered, \* credentials registered here so far
    prf,        \* those of the authenticator's credentials that support PRF
    ids,        \* lane ids generated so far
    create,     \* per tab: the running createLane
    verify,     \* per tab: the running verifyLane
    announced,  \* <<target, recipient>> the backend was asked to announce
    saved,      \* lane records in the user's files
    shared      \* lane records whose link was opened or copied

passkeys == <<root, auth, archive, known, registered, prf>>
vars == <<env, passkeys, lanes, ids, create, verify, announced, saved, shared>>

Creds == Synced \cup 1..MaxCreds
AllCreds == Synced \cup 1..registered

IdleCreate == [pc |-> "idle", form |-> None, id |-> 0, cred |-> None, auth |-> None, salt |-> FALSE,
               eval |-> FALSE, attempt |-> 0, why |-> "", secret |-> None, recipient |-> NoAddress,
               receivers |-> {}]
IdleVerify == [pc |-> "idle", lane |-> None]
Set(t, w) == create' = [create EXCEPT ![t] = w]

\* localStorage.setItem: it may refuse, and passkey.js then goes on regardless.
Write(old, new) == {new} \cup (IF "refuse" \in env.faults THEN {old} ELSE {})

Init ==
    /\ env \in Environments
    /\ root = None /\ auth = None /\ archive = {}
    /\ lanes = <<>>
    /\ known = {} /\ registered = 0 /\ prf = Synced
    /\ ids = 0
    /\ create = [t \in Tabs |-> IdleCreate]
    /\ verify = [t \in Tabs |-> IdleVerify]
    /\ announced = Elsewhere
    /\ saved = FiledLanes
    /\ shared = {}

-----------------------------------------------------------------------------
(* Two RPC sources                                                         *)

\* How a source answers: right, not at all, or (one of them) wrong.
Moods(source) == {"right", "failed"} \cup (IF env.wrong = source THEN {"wrong"} ELSE {})
Answer(mood, a) ==
    CASE mood = "right" -> a
      [] mood = "failed" -> NoAddress
      [] mood = "wrong" -> <<"wrong", KindOf(a), a>>

BugConfirmed(viaProxy, viaDirect) ==
    IF viaDirect # NoAddress THEN viaDirect ELSE viaProxy

\* predictReceiver and predictStealthAccount: both sources answer and agree.
Confirmed(viaProxy, viaDirect) ==
    IF viaProxy # NoAddress /\ viaDirect # NoAddress /\ viaProxy = viaDirect
    THEN viaDirect ELSE NoAddress

\* The outcomes of asking both for these addresses; none where the caller throws.
Predicted(wanted) ==
    {rs \in {{Confirmed(Answer(p, a), Answer(d, a)) : a \in wanted} :
                 p \in Moods("proxy"), d \in Moods("direct")} : NoAddress \notin rs}

\* Only the EVM account comes from a factory; the others are computed.
DerivedAccounts(credential, id, c, cosigner) ==
    LET a == StealthAccount(credential, id, c, cosigner)
    IN IF Kind(c) = "evm" THEN UNION Predicted({a}) ELSE {a}

\* computeReceivers: every leg, or nothing.
Receivers(target, recipient) == {LegReceiver(leg, target, recipient, recipient) : leg \in laneChains}
PredictedReceivers(target, recipient) ==
    IF canSettle(target) THEN Predicted(Receivers(target, recipient)) ELSE {}

SolanaLegs(target, recipient) ==
    {LegReceiver(leg, target, recipient, recipient) : leg \in {c \in DOMAIN Chain : canDiscover(c)}}
OnChain == UNION {AnnouncedReceivers(env.format, a[1], a[2], a[2]) : a \in announced}

\* The Solana receivers whose program accounts exist for this merchant and route.
AnnouncedFor(target, recipient) == SolanaLegs(target, recipient) \cap OnChain

-----------------------------------------------------------------------------
(* Submitting, and the end of a creation                                   *)

\* handleSubmit: one creation per page, a payout address of the settlement
\* chain or a chain ready for private lanes.
Submit(t, f) ==
    /\ t \in env.tabs /\ create[t].pc = "idle" /\ ids < MaxLanes
    /\ IF f.privacy THEN stealthReady(f.target) ELSE canonicalAddress(f.target, f.typed) # NoAddress
    /\ ids' = ids + 1
    /\ Set(t, [IdleCreate EXCEPT
                  !.pc = IF f.privacy THEN "config" ELSE "predict",
                  !.form = f, !.id = ids + 1,
                  !.recipient = IF f.privacy THEN NoAddress ELSE canonicalAddress(f.target, f.typed)])
    /\ UNCHANGED <<env, passkeys, lanes, verify, announced, saved, shared>>

\* A call fails, a prompt is cancelled or times out: handleSubmit's catch.
CreateFails(t) ==
    /\ create[t].pc # "idle"
    /\ Set(t, IdleCreate)
    /\ UNCHANGED <<env, passkeys, lanes, ids, verify, announced, saved, shared>>

-----------------------------------------------------------------------------
(* Passkey ceremonies                                                      *)

Register(w, why) == [w EXCEPT !.pc = "register", !.why = why]

\* ensureAuthCredential.
EnsureAuth(w, a) == IF a # None THEN [w EXCEPT !.pc = "start", !.auth = a] ELSE Register(w, "auth")

\* getVerifiedTokenWithPrf once the root is there: one prompt if it is also the
\* auth credential, else the PRF first.
WithRoot(w, r, a) ==
    IF a = r THEN EnsureAuth([w EXCEPT !.cred = r, !.salt = TRUE, !.attempt = 0], a)
    ELSE [w EXCEPT !.cred = r, !.pc = "prf"]

\* resolveStealthConfig, then ensurePrfRoot.
ResolveConfig(t) ==
    /\ create[t].pc = "config"
    /\ Set(t, IF root # None THEN WithRoot(create[t], root, auth) ELSE Register(create[t], "root"))
    /\ UNCHANGED <<env, passkeys, lanes, ids, verify, announced, saved, shared>>

BugAdopt(c, hasPrf, asAuth) ==
    /\ auth' \in IF asAuth THEN Write(auth, c) ELSE {auth}
    /\ root' \in IF hasPrf THEN Write(root, c) ELSE {root}

\* adopt: a new auth credential; the root only if there is none.
Adopt(c, hasPrf, asAuth) ==
    /\ auth' \in IF asAuth THEN Write(auth, c) ELSE {auth}
    /\ root' \in IF hasPrf /\ root = None THEN Write(root, c) ELSE {root}

BugArchive(c) == archive' \in Write(archive, {c})

Archive(c) == archive' \in Write(archive, archive \cup {c})

\* registerCredential, from registerStart to its caller's adopt.
Registered(t) ==
    LET w == create[t]
        c == registered + 1
    IN /\ w.pc = "register" /\ registered < MaxCreds
       /\ registered' = c
       /\ known' = known \cup {c}
       /\ Archive(c)
       /\ \E hasPrf \in BOOLEAN :
             /\ prf' = IF hasPrf THEN prf \cup {c} ELSE prf
             /\ Adopt(c, hasPrf, w.why # "root" \/ auth = None)
             /\ Set(t, CASE w.why = "root" /\ ~hasPrf -> IdleCreate
                         [] w.why = "root" /\ hasPrf -> WithRoot(w, c, auth')
                         [] w.why = "auth" -> [w EXCEPT !.pc = "start", !.auth = c]
                         [] w.why = "fresh" -> EnsureAuth([w EXCEPT !.attempt = 1], auth'))
       /\ UNCHANGED <<env, lanes, ids, verify, announced, saved, shared>>

\* The credential exists, and perhaps the server knows it, but the answer of
\* registerFinish is lost: nothing is archived or adopted.
RegisterLost(t) ==
    /\ create[t].pc = "register" /\ registered < MaxCreds
    /\ registered' = registered + 1
    /\ known' \in {known, known \cup {registered + 1}}
    /\ Set(t, IdleCreate)
    /\ UNCHANGED <<env, root, auth, archive, prf, lanes, ids, verify, announced, saved, shared>>

BugAuthStart(t) ==
    LET w == create[t]
    IN /\ w.pc = "start"
       /\ Set(t, IF w.auth \in known
                 THEN [w EXCEPT !.pc = "assert", !.eval = w.salt /\ w.auth = root]
                 ELSE [w EXCEPT !.pc = "config"])
       /\ UNCHANGED <<env, passkeys, lanes, ids, verify, announced, saved, shared>>

\* authStart: 409 once makes a fresh auth credential, 409 twice gives up.
AuthStart(t) ==
    LET w == create[t]
    IN /\ w.pc = "start"
       /\ Set(t, CASE w.auth \in known -> [w EXCEPT !.pc = "assert", !.eval = w.salt /\ w.auth = root]
                   [] w.auth \notin known /\ w.attempt = 0 -> Register(w, "fresh")
                   [] OTHER -> IdleCreate)
       /\ UNCHANGED <<env, passkeys, lanes, ids, verify, announced, saved, shared>>

\* The secret counts only if the root gave it: a swapped auth credential means
\* a second prompt, for the root.
TokenWithPrf(w, secret) ==
    IF secret # None /\ w.auth = w.cred
    THEN [w EXCEPT !.pc = "derive", !.secret = secret]
    ELSE [w EXCEPT !.pc = "prf"]

\* navigator.credentials.get and authFinish: the token, and the PRF output if
\* it was asked for and the authenticator gave it.
Assertion(t) ==
    LET w == create[t]
    IN /\ w.pc = "assert"
       /\ \E secret \in IF w.eval /\ w.auth \in prf THEN {w.auth, None} ELSE {None} :
             Set(t, CASE w.salt -> TokenWithPrf([w EXCEPT !.salt = FALSE], secret)
                      [] ~w.salt /\ w.form.privacy -> [w EXCEPT !.pc = "derive"]
                      [] OTHER -> [w EXCEPT !.pc = "announce"])
       /\ UNCHANGED <<env, passkeys, lanes, ids, verify, announced, saved, shared>>

\* evaluatePrf against the root, then a token without PRF.
EvaluatePrf(t) ==
    LET w == create[t]
    IN /\ w.pc = "prf" /\ w.cred \in prf
       /\ Set(t, EnsureAuth([w EXCEPT !.secret = w.cred, !.attempt = 0], auth))
       /\ UNCHANGED <<env, passkeys, lanes, ids, verify, announced, saved, shared>>

-----------------------------------------------------------------------------
(* Addresses, announcement and saving                                      *)

\* deriveStealthAddress: the payout account, from the secret now wiped.
Derive(t) ==
    LET w == create[t]
    IN /\ w.pc = "derive"
       /\ \E a \in DerivedAccounts(w.secret, w.id, w.form.target, Cosigner) :
             Set(t, [w EXCEPT !.pc = "predict", !.secret = None, !.recipient = a])
       /\ UNCHANGED <<env, passkeys, lanes, ids, verify, announced, saved, shared>>

\* computeReceivers; a public lane asks for its token only now.
Predict(t) ==
    LET w == create[t]
    IN /\ w.pc = "predict"
       /\ \E rs \in PredictedReceivers(w.form.target, w.recipient) :
             LET ready == [w EXCEPT !.receivers = rs]
             IN Set(t, IF w.form.privacy THEN [ready EXCEPT !.pc = "announce"]
                       ELSE EnsureAuth([ready EXCEPT !.attempt = 0], auth))
       /\ UNCHANGED <<env, passkeys, lanes, ids, verify, announced, saved, shared>>

\* api.createLane takes effect; its answer may be lost.
Announce(t) ==
    LET w == create[t]
    IN /\ w.pc = "announce"
       /\ announced' = announced \cup {<<w.form.target, w.recipient>>}
       /\ \E answer \in {"ok", "lost"} :
             Set(t, IF answer = "ok" THEN [w EXCEPT !.pc = "discover"] ELSE IdleCreate)
       /\ UNCHANGED <<env, passkeys, lanes, ids, verify, saved, shared>>

\* discoverSolanaReceiver: a receiver announced for this merchant and route, or
\* none within the deadline.
Discovered(w) ==
    {{}} \cup {{r} : r \in AnnouncedFor(w.form.target, w.recipient)}

BugLaneRecord(w, found) ==
    [id |-> w.id, privacy |-> w.form.privacy, target |-> w.form.target, recipient |-> w.recipient,
     merchant |-> IF w.form.privacy THEN None ELSE w.form.typed, cred |-> root,
     config |-> IF w.form.privacy THEN Cosigner ELSE None,
     receivers |-> w.receivers \cup found, needsVerify |-> FALSE]

LaneRecord(w, found) ==
    [id |-> w.id, privacy |-> w.form.privacy, target |-> w.form.target, recipient |-> w.recipient,
     merchant |-> IF w.form.privacy THEN None ELSE w.form.typed, cred |-> w.cred,
     config |-> IF w.form.privacy THEN Cosigner ELSE None,
     receivers |-> w.receivers \cup found, needsVerify |-> FALSE]

SaveLane(ls, l) == [i \in DOMAIN ls \cup {l.id} |-> IF i = l.id THEN l ELSE ls[i]]

\* saveLane, the backup of a private lane, then the link: or, refused by the
\* storage, an error.
Finish(t) ==
    LET w == create[t]
    IN /\ w.pc = "discover"
       /\ \E found \in Discovered(w) :
             LET l == LaneRecord(w, found)
             IN \/ /\ lanes' = SaveLane(lanes, l)
                   /\ saved' = IF l.privacy THEN saved \cup Range(lanes') ELSE saved
                   /\ shared' = shared \cup {l}
                \/ /\ "refuse" \in env.faults
                   /\ UNCHANGED <<lanes, saved, shared>>
       /\ Set(t, IdleCreate)
       /\ UNCHANGED <<env, passkeys, ids, verify, announced>>

-----------------------------------------------------------------------------
(* The lane list: sharing, backup, import and verification                 *)

\* A verified row offers its link.
Share(id) ==
    /\ id \in DOMAIN lanes /\ ~lanes[id].needsVerify
    /\ shared' = shared \cup {lanes[id]}
    /\ UNCHANGED <<env, passkeys, lanes, ids, create, verify, announced, saved>>

ExportBackup ==
    /\ saved' = saved \cup Range(lanes)
    /\ UNCHANGED <<env, passkeys, lanes, ids, create, verify, announced, shared>>

Sanitize(l) == [l EXCEPT !.needsVerify = TRUE]

\* The lanes of a file, in its order: unreadable ones and ids already there, in the
\* storage or by then from the file, are skipped.
Merge(ls, file, written) ==
    LET new == {i \in written : file[i].readable /\ file[i].lane.id \notin DOMAIN ls}
    IN [id \in DOMAIN ls \cup {file[i].lane.id : i \in new} |->
          IF id \in DOMAIN ls THEN ls[id]
          ELSE Sanitize(file[Min({i \in new : file[i].lane.id = id})].lane)]

\* importBackup, without the lanes whose write the storage refuses.
Import(file) ==
    /\ \E refused \in IF "refuse" \in env.faults THEN SUBSET DOMAIN file ELSE {{}} :
          lanes' = Merge(lanes, file, DOMAIN file \ refused)
    /\ UNCHANGED <<env, passkeys, ids, create, verify, announced, saved, shared>>

\* The Verify button of a row: the page goes on with the record it drew.
VerifyStart(t, id) ==
    /\ t \in env.tabs /\ verify[t].pc = "idle" /\ id \in DOMAIN lanes /\ lanes[id].needsVerify
    /\ verify' = [verify EXCEPT ![t] = [pc |-> IF lanes[id].privacy THEN "prf" ELSE "predict", lane |-> lanes[id]]]
    /\ UNCHANGED <<env, passkeys, lanes, ids, create, announced, saved, shared>>

VerifyFails(t) ==
    /\ verify[t].pc # "idle"
    /\ verify' = [verify EXCEPT ![t] = IdleVerify]
    /\ UNCHANGED <<env, passkeys, lanes, ids, create, announced, saved, shared>>

\* The lane's credential, else the root, else whichever passkey the user picks,
\* derives the payout account under the lane's own settings.
Prompted(l) == IF l.cred # None THEN {l.cred} ELSE IF root # None THEN {root} ELSE AllCreds
VerifyAccount(t) ==
    LET l == verify[t].lane
    IN /\ verify[t].pc = "prf" /\ l.config # None
       /\ \E c \in Prompted(l) \cap prf :
             l.recipient \in DerivedAccounts(c, l.id, l.target, l.config)
       /\ verify' = [verify EXCEPT ![t].pc = "predict"]
       /\ UNCHANGED <<env, passkeys, lanes, ids, create, announced, saved, shared>>

\* Every receiver is the factories' answer for this payout, or a Solana receiver
\* announced for it; markVerified then clears the flag of the stored lane.
VerifyReceivers(t) ==
    LET l == verify[t].lane
    IN /\ verify[t].pc = "predict"
       /\ ~l.privacy => canonicalAddress(l.target, l.merchant) = l.recipient
       /\ \E rs \in PredictedReceivers(l.target, l.recipient) :
             \A r \in l.receivers : r \in rs \cup AnnouncedFor(l.target, l.recipient)
       /\ lanes' \in IF l.id \in DOMAIN lanes
                     THEN Write(lanes, [lanes EXCEPT ![l.id].needsVerify = FALSE]) ELSE {lanes}
       /\ verify' = [verify EXCEPT ![t] = IdleVerify]
       /\ UNCHANGED <<env, passkeys, ids, create, announced, saved, shared>>

-----------------------------------------------------------------------------
(* Surroundings                                                            *)

\* The server restarts and forgets its passkeys.
ServerRestarts ==
    /\ "restart" \in env.faults /\ known # {}
    /\ known' = {}
    /\ UNCHANGED <<env, root, auth, archive, registered, prf, lanes, ids, create, verify, announced, saved, shared>>

\* The pages are closed and the site data is gone: another browser, another
\* device, a cleared profile.
ClearStorage ==
    /\ "clear" \in env.faults
    /\ root' = None /\ auth' = None /\ archive' = {} /\ lanes' = <<>>
    /\ create' = [t \in Tabs |-> IdleCreate] /\ verify' = [t \in Tabs |-> IdleVerify]
    /\ UNCHANGED <<env, known, registered, prf, ids, announced, saved, shared>>

CreateStep(t) ==
    \/ CreateFails(t) \/ ResolveConfig(t) \/ Registered(t) \/ RegisterLost(t) \/ AuthStart(t)
    \/ Assertion(t) \/ EvaluatePrf(t) \/ Derive(t) \/ Predict(t) \/ Announce(t) \/ Finish(t)

VerifyStep(t) == VerifyFails(t) \/ VerifyAccount(t) \/ VerifyReceivers(t)

Next ==
    \/ \E t \in Tabs : \/ \E f \in env.forms : Submit(t, f)
                       \/ CreateStep(t)
                       \/ \E id \in DOMAIN lanes : VerifyStart(t, id)
                       \/ VerifyStep(t)
    \/ \E id \in DOMAIN lanes : Share(id)
    \/ ExportBackup
    \/ \E file \in env.files : Import(file)
    \/ ServerRestarts \/ ClearStorage

\* Every call has a timeout, every prompt too, and the discovery a deadline.
Fairness == \A t \in Tabs : WF_vars(CreateStep(t))

Spec == Init /\ [][Next]_vars /\ Fairness

-----------------------------------------------------------------------------
(* Properties                                                              *)

TypeOK ==
    /\ root \in Creds \cup {None} /\ auth \in Creds \cup {None}
    /\ archive \subseteq Creds /\ known \subseteq 1..registered
    /\ registered \in 0..MaxCreds /\ prf \subseteq AllCreds /\ ids \in 0..MaxLanes
    /\ \A id \in DOMAIN lanes : lanes[id].id = id /\ lanes[id].needsVerify \in BOOLEAN
    /\ \A t \in Tabs :
          /\ create[t].pc \in {"idle", "config", "register", "start", "assert", "prf",
                               "derive", "predict", "announce", "discover"}
          /\ create[t].pc \in {"start", "assert"} => create[t].auth \in Creds
          /\ create[t].pc = "derive" => create[t].secret \in prf
          /\ create[t].pc \in {"announce", "discover"} => create[t].recipient # NoAddress
          /\ verify[t].pc \in {"idle", "prf", "predict"}

\* The merchant can always get at the money of a private link: a record the
\* browser still stores or a file the user has names the passkey that derives
\* the very account the link pays to (passkey.js:6-9: replacing the root "would
\* orphan every private lane derived from it"; beanie.js:69 "Make sure the user
\* leaves with a copy").  Two tabs may register passkeys at the same time, the
\* server may forget them and the storage may be cleared.
Recoverable(l, r) ==
    /\ r.id = l.id
    /\ \E c \in IF r.cred # None THEN {r.cred} ELSE AllCreds :
          c \in prf /\ StealthAccount(c, r.id, r.target, r.config) = l.recipient
SharedRecoverable ==
    \A l \in shared : l.privacy => \E r \in saved \cup Range(lanes) : Recoverable(l, r)

\* The EVM receivers of a Starknet payout as the page computes them: their merchant
\* is a hash of the string it takes the backend to make of the felt (chains.js:19-28).
HashedFelt(target, recipient) ==
    {LegReceiver(leg, target, recipient, recipient) :
        leg \in {c \in laneChains : KindOf(recipient) = "starknet" /\ Kind(c) = "evm"}}

\* What a link for this payout may show: the receivers the backend announces, and
\* those it would if it wrote felts the way the page believes.
Showable(target, recipient) ==
    AnnouncedReceivers(env.format, target, recipient, recipient)
        \cup (IF env.format = BACKEND_FELT_FORMAT THEN {} ELSE HashedFelt(target, recipient))

\* Every receiver of a link is one the backend was asked to announce for this
\* payout: the page computes addresses by itself (lane.js:5-8), from two RPC
\* sources one of which may be wrong, and a lane of a backup file is shared only
\* once it was derived again (store.js:237-238).  If the page is wrong about the
\* backend's felts, the EVM receivers of Starknet payouts are the only ones nobody
\* registers.
SharedRegistered ==
    \A l \in shared :
        /\ <<l.target, l.recipient>> \in announced
        /\ l.receivers \subseteq Showable(l.target, l.recipient)

\* Nothing is silently forgotten (passkey.js:15 "Every credential id ever seen is
\* archived"): what the browser uses, and what its own lanes were made with, is in
\* the archive, whichever tab registered it; unless writes are refused.
CredentialsArchived ==
    "refuse" \notin env.faults =>
        /\ {root, auth} \ {None} \subseteq archive
        /\ "clear" \notin env.faults =>
              \A id \in DOMAIN lanes : ~lanes[id].needsVerify => lanes[id].cred \in archive \cup Synced \cup {None}

\* No lane is orphaned by the passkeys that came after it (passkey.js:6-9): the
\* shared ones are recovered by a record, and the archive keeps every passkey.
NothingOrphaned == SharedRecoverable /\ CredentialsArchived

\* The PRF root is never replaced (passkey.js:8 "NEVER replaced or deleted"), not
\* even after a 409 made the page register anew; only clearing the site data
\* takes it away.
RootPinned == [][root # None => root' \in {root, None} /\ (root' = None => lanes' = <<>>)]_vars

\* A creation ends: the button works again or the link is open, whatever the
\* server forgets and the user cancels.
CreateEnds == \A t \in Tabs : create[t].pc # "idle" ~> create[t].pc = "idle"
=============================================================================
