--------------------------- MODULE EvmIndexerProofs ---------------------------
(* Proofs about EvmIndexer, for every chain length, channel capacity, set of  *)
(* receivers and set of environments.                                         *)
EXTENDS EvmIndexer, TLAPS

(* A tip of the stream is a block of the chain, and says truly when neither   *)
(* contract logged in it.                                                     *)
Truthful(t) == t.block \in 1..head /\ (t.active \/ ~Active(t.block))

Tip == [block : Nat, active : BOOLEAN]

(* The tips, the scans and the subscription stay within the chain; a registry *)
(* scan has committed the blocks before its cursor.                           *)
Positions ==
  /\ acted \in [Blocks -> Nat] /\ forgotten \in [Blocks -> Nat]
  /\ wsCursor \in 1..(head + 1)
  /\ tips \in Seq(Tip) /\ \A i \in 1..Len(tips) : Truthful(tips[i])
  /\ tip \in Tip
  /\ phase \in {"registry", "scan", "deposits"} => Truthful(tip)
  /\ scanned \in 0..head
  /\ scanFrom \in Nat /\ cursor \in Nat
  /\ phase = "scan" =>
       /\ 1 <= scanFrom /\ scanFrom <= cursor
       /\ cursor <= tip.block + 1 /\ regCp = cursor - 1

(* A deposit is behind its checkpoint before anyone acts on it, what a scan   *)
(* returned is acted on before the next one, and a block before the           *)
(* checkpoint was acted on only as often as stops have forgotten it.          *)
BehindCheckpoint ==
  /\ phase # "act" => pending = {}
  /\ \A n \in Blocks : n \in pending => n <= depCp
  /\ \A n \in Blocks :
       acted[n] + (IF n \in pending THEN 1 ELSE 0)
         <= forgotten[n] + (IF n <= depCp THEN 1 ELSE 0)

(* m holds the receivers of blocks 1..b and the routes they announce. *)
Knows(m, b) ==
  \A n \in 1..b, r \in Receivers :
    /\ Is(n, "announce", r) => m[r] = "routed"
    /\ Is(n, "register", r) => m[r] # "absent"

(* Where MapComplete is promised. *)
Dependable == "fatal" \notin env /\ ~({"lag", "crash"} \subseteq env)

(* The map covers the registry checkpoint, or during a scan the blocks before *)
(* it; the snapshot of the catch-up covers what it says, always.              *)
MapCovers ==
  /\ phase = "catchupDeposits" => Knows(map, scanned)
  /\ Dependable =>
       /\ phase \in {"catchupDeposits", "act", "live", "registry", "deposits"} =>
            Knows(map, regCp)
       /\ phase = "scan" => Knows(map, scanFrom - 1)
       /\ phase = "catchup" /\ "lag" \in env => regCp = 0

(* A deposit scan follows a registry scan that went as far. *)
RegistryFirst == Calm /\ phase = "deposits" => tip.block <= regCp

IInv == /\ TypeOK /\ Positions
        /\ BehindCheckpoint
        /\ MapCovers
        /\ RegistryFirst /\ NoDepositSkipped

-----------------------------------------------------------------------------
(* The operators *)

(* Folding the rows of blocks a..b into a map that covers the blocks before a *)
(* gives one that covers those up to b.                                       *)
LEMMA RememberKnows ==
  ASSUME NEW m, NEW a \in Nat \ {0}, NEW b \in Nat, Knows(m, a - 1)
  PROVE  Knows(Remember(m, a, b), b)
<1> SUFFICES ASSUME NEW n \in 1..b, NEW r \in Receivers
             PROVE  /\ Is(n, "announce", r) => Remember(m, a, b)[r] = "routed"
                    /\ Is(n, "register", r) => Remember(m, a, b)[r] # "absent"
  BY DEF Knows
<1>1. Remember(m, a, b)[r] =
        IF \E k \in a..b : Is(k, "announce", r) THEN "routed"
        ELSE IF m[r] = "absent" /\ \E k \in a..b : Is(k, "register", r) THEN "bare" ELSE m[r]
  BY DEF Remember
<1>2. CASE n \in a..b
  BY <1>1, <1>2
<1>3. CASE n \in 1..(a - 1)
  BY <1>1, <1>3 DEF Knows
<1>4. QED  BY <1>2, <1>3

(* Folding keeps the map a map. *)
LEMMA RememberType ==
  ASSUME NEW m \in [Receivers -> {"absent", "bare", "routed"}], NEW a, NEW b
  PROVE  Remember(m, a, b) \in [Receivers -> {"absent", "bare", "routed"}]
BY DEF Remember

(* A deposit to a receiver announced by then is returned by a scan whose      *)
(* filter covers the range.                                                   *)
LEMMA DepositReturned ==
  ASSUME NEW a \in Nat, NEW b \in Nat, Knows(map, b),
         NEW n \in a..b, NEW r \in Receivers, Is(n, "deposit", r), AnnouncedBy(n, r)
  PROVE  n \in DepositsIn(a, b, Known(map))
<1>1. PICK k \in 1..n : Is(k, "announce", r)
  BY DEF AnnouncedBy
<1>2. k \in 1..b
  OBVIOUS
<1>3. r \in Known(map)
  BY <1>1, <1>2 DEF Knows, Known
<1>4. QED  BY <1>3 DEF DepositsIn

(* What Portal answers to a request is a block up to the one asked for. *)
LEMMA AnswersBound ==
  ASSUME NEW b \in Nat, NEW s \in Answers(b)
  PROVE  s \in 0..b /\ ("lag" \notin env => s = b)
BY DEF Answers

-----------------------------------------------------------------------------
(* The invariant holds when the process first starts. *)
LEMMA InitInv == Init => IInv
<1> SUFFICES ASSUME Init PROVE IInv
  OBVIOUS
<1>1. TypeOK
  BY ConstantsAssumption DEF Init, TypeOK, Blocks, NobodyKnown, NoTip
<1>2. Positions
  BY DEF Init, Positions, Tip, NoTip
<1>3. BehindCheckpoint
  BY DEF Init, BehindCheckpoint
<1>4. MapCovers /\ RegistryFirst /\ NoDepositSkipped
  BY DEF Init, MapCovers, RegistryFirst, NoDepositSkipped
<1>5. QED  BY <1>1, <1>2, <1>3, <1>4 DEF IInv

(* A new block changes nothing behind the head. *)
LEMMA NewBlockStep ==
  ASSUME IInv, NEW e \in Events, NewBlock(e)
  PROVE  IInv'
<1> USE DEF IInv, NewBlock, cps, disk, stream, scan
<1>h. /\ head \in Nat /\ head' = head + 1 /\ head' \in 0..MaxBlock /\ MaxBlock \in Nat
      /\ regCp \in 0..head /\ depCp \in 0..head
  BY ConstantsAssumption DEF TypeOK
<1>k. \A n \in 1..head : logs'[n] = logs[n]
  BY <1>h DEF TypeOK, Blocks
<1>i. \A n \in 1..head, r \in Receivers, kind \in {"announce", "register", "deposit"} :
        Is(n, kind, r)' <=> Is(n, kind, r)
  BY <1>k DEF Is
<1>a. \A n \in 1..head : Active(n)' <=> Active(n)
  BY <1>k DEF Active
<1>1. TypeOK'
  <2>1. logs' \in [Blocks -> Events \cup {None}]
    BY DEF TypeOK
  <2>2. QED  BY <2>1, <1>h DEF TypeOK
<1>2. Positions'
  <2>1. ASSUME NEW t, Truthful(t)
        PROVE  Truthful(t)'
    BY <2>1, <1>a, <1>h DEF Truthful
  <2>2. \A i \in 1..Len(tips) : Truthful(tips[i])'
    BY <2>1 DEF Positions
  <2>3. phase \in {"registry", "scan", "deposits"} => Truthful(tip)'
    BY <2>1 DEF Positions
  <2>4. wsCursor' \in 1..(head' + 1) /\ scanned' \in 0..head'
    BY <1>h DEF Positions
  <2>5. QED  BY <2>2, <2>3, <2>4 DEF Positions, Truthful, Active
<1>3. BehindCheckpoint'
  BY DEF BehindCheckpoint
<1>4. MapCovers'
  <2>1. ASSUME NEW b \in 0..head, Knows(map, b)
        PROVE  Knows(map, b)'
    BY <2>1, <1>h, <1>i DEF Knows
  <2>2. phase = "scan" => scanFrom - 1 \in 0..head
    BY <1>h DEF Positions
  <2>3. scanned \in 0..head
    BY DEF Positions
  <2>4. phase = "catchupDeposits" => Knows(map, scanned)'
    BY <2>1, <2>3 DEF MapCovers
  <2>5. /\ Dependable /\ phase \in {"catchupDeposits", "act", "live", "registry", "deposits"}
             => Knows(map, regCp)'
        /\ Dependable /\ phase = "scan" => Knows(map, scanFrom - 1)'
    BY <1>h, <2>1, <2>2 DEF MapCovers
  <2>6. QED  BY <2>4, <2>5 DEF MapCovers, Dependable, Knows, Is
<1>5. RegistryFirst'
  BY DEF RegistryFirst, Calm
<1>6. NoDepositSkipped'
  <2> SUFFICES ASSUME Calm, NEW n \in 1..depCp, NEW r \in Receivers,
                      Is(n, "deposit", r)', AnnouncedBy(n, r)'
               PROVE  acted[n] > 0 \/ n \in pending
    BY DEF NoDepositSkipped, Calm
  <2>1. n \in 1..head
    BY <1>h
  <2>2. Is(n, "deposit", r)
    BY <2>1, <1>i
  <2>3. PICK k \in 1..n : Is(k, "announce", r)'
    BY DEF AnnouncedBy, Is
  <2>4. k \in 1..head /\ Is(k, "announce", r)
    BY <2>1, <2>3, <1>h, <1>i
  <2>5. AnnouncedBy(n, r)
    BY <2>4 DEF AnnouncedBy
  <2>6. QED  BY <2>2, <2>5 DEF NoDepositSkipped
<1>7. QED  BY <1>1, <1>2, <1>3, <1>4, <1>5, <1>6

-----------------------------------------------------------------------------
(* The subscription's own steps: they see only the tip channel. *)
LEMMA StreamStep ==
  ASSUME IInv, PushTip \/ SkipTip
  PROVE  IInv'
<1> USE DEF IInv, chain, cps, disk, scan
<1>u. UNCHANGED <<chain, cps, disk, map, phase, scan, pending, acted, forgotten, env>>
  BY DEF PushTip, SkipTip
<1>h. head \in Nat /\ wsCursor \in 1..head /\ head <= MaxBlock /\ MaxBlock \in Nat
  BY ConstantsAssumption DEF PushTip, SkipTip, TypeOK, Positions
<1>t. /\ tips' \in Seq(Tip) /\ Len(tips') <= TIP_CHANNEL
      /\ \A i \in 1..Len(tips') : Truthful(tips'[i])
      /\ wsCursor' \in 1..(head + 1)
  <2>1. CASE PushTip
    <3> DEFINE new == [block |-> wsCursor, active |-> Active(wsCursor)]
    <3>1. new \in Tip /\ Truthful(new)
      <4>1. Active(wsCursor) \in BOOLEAN
        BY DEF Active
      <4>2. new.block = wsCursor /\ new.active = Active(wsCursor)
        OBVIOUS
      <4>3. wsCursor \in Nat
        BY <1>h
      <4>4. new \in Tip
        BY <4>1, <4>3 DEF Tip
      <4> HIDE DEF new
      <4>5. Truthful(new)
        BY <1>h, <4>1, <4>2 DEF Truthful
      <4>6. QED  BY <4>4, <4>5
    <3>2. tips \in Seq(Tip) /\ Len(tips) < TIP_CHANNEL /\ TIP_CHANNEL \in Nat
          /\ tips' = Append(tips, new)
          /\ \A i \in 1..Len(tips) : Truthful(tips[i])
      BY <2>1, ConstantsAssumption DEF PushTip, Positions
    <3> HIDE DEF new
    <3>3. tips' \in Seq(Tip) /\ Len(tips') = Len(tips) + 1 /\ tips'[Len(tips) + 1] = new
          /\ \A i \in 1..Len(tips) : tips'[i] = tips[i]
      BY <3>1, <3>2
    <3>4. QED  BY <2>1, <3>1, <3>2, <3>3, <1>h DEF PushTip
  <2>2. CASE SkipTip
    BY <2>2, <1>h DEF SkipTip, Positions, TypeOK
  <2>3. QED  BY <2>1, <2>2
<1>1. TypeOK'
  BY <1>u, <1>t, <1>h DEF TypeOK
<1>2. Positions'
  BY <1>u, <1>t DEF Positions, Truthful, Active
<1>3. BehindCheckpoint' /\ MapCovers'
  BY <1>u DEF BehindCheckpoint, MapCovers, Dependable, Knows, Is
<1>4. RegistryFirst' /\ NoDepositSkipped'
  BY <1>u DEF RegistryFirst, NoDepositSkipped, Calm, AnnouncedBy, Is
<1>5. QED  BY <1>1, <1>2, <1>3, <1>4

(* The steps of the live loop that take a tip. *)
LEMMA TipStep ==
  ASSUME IInv, TakeTip \/ Reconcile
  PROVE  IInv'
<1> USE DEF IInv, chain, cps, disk, stream
<1>u. /\ UNCHANGED <<chain, cps, disk, map, wsCursor, scanFrom, cursor, scanned, pending, acted, forgotten, env>>
      /\ phase = "live" /\ phase' = "registry"
  BY DEF TakeTip, Reconcile
<1>t. /\ tips' \in Seq(Tip) /\ Len(tips') <= TIP_CHANNEL
      /\ \A i \in 1..Len(tips') : Truthful(tips'[i])
      /\ tip' \in Tip /\ Truthful(tip')
  <2>1. CASE TakeTip
    <3>1. tips \in Seq(Tip) /\ tips # <<>> /\ Len(tips) <= TIP_CHANNEL /\ TIP_CHANNEL \in Nat
          /\ tips' = Tail(tips) /\ tip' = Head(tips)
          /\ \A i \in 1..Len(tips) : Truthful(tips[i])
      BY <2>1, ConstantsAssumption DEF TakeTip, Positions, TypeOK
    <3>2. tips' \in Seq(Tip) /\ Len(tips') = Len(tips) - 1 /\ tip' = tips[1] /\ tip' \in Tip
          /\ Len(tips) \in Nat /\ Len(tips) >= 1
          /\ \A i \in 1..Len(tips') : tips'[i] = tips[i + 1]
      BY <3>1
    <3>3. QED  BY <3>1, <3>2
  <2>2. CASE Reconcile
    <3>1. head \in Nat /\ head > 0 /\ tip' = [block |-> head, active |-> TRUE]
          /\ tips' = tips
      BY <2>2 DEF Reconcile, TypeOK
    <3>2. tip' \in Tip
      BY <3>1 DEF Tip
    <3>3. tip'.block \in 1..head /\ tip'.active
      BY <3>1
    <3>4. Truthful(tip')
      BY <3>3 DEF Truthful
    <3>5. QED  BY <3>1, <3>2, <3>4 DEF Positions, TypeOK
  <2>3. QED  BY <2>1, <2>2
<1>1. TypeOK'
  BY <1>u, <1>t DEF TypeOK, Truthful
<1>2. Positions'
  BY <1>u, <1>t DEF Positions, Truthful, Active
<1>3. BehindCheckpoint' /\ MapCovers'
  BY <1>u DEF BehindCheckpoint, MapCovers, Dependable, Knows, Is
<1>4. RegistryFirst' /\ NoDepositSkipped'
  BY <1>u DEF RegistryFirst, NoDepositSkipped, Calm, AnnouncedBy, Is
<1>5. QED  BY <1>1, <1>2, <1>3, <1>4

-----------------------------------------------------------------------------
(* The registry scan: BeginRegistryScan, SkipRegistryScan, ScanBatch,         *)
(* ScanDone and ScanFail leave the deposits alone.                            *)
LEMMA RegistryStep ==
  ASSUME IInv, UNCHANGED <<chain, depCp, disk, stream, tip, scanned, pending, acted, forgotten, env>>,
         phase \in {"registry", "scan"}, phase' \in {"scan", "deposits"},
         regCp' \in 0..head, regCp <= regCp',
         map' \in [Receivers -> {"absent", "bare", "routed"}],
         scanFrom' \in Nat, cursor' \in Nat,
         phase' = "scan" =>
           /\ 1 <= scanFrom' /\ scanFrom' <= cursor'
           /\ cursor' <= tip.block + 1 /\ regCp' = cursor' - 1,
         Dependable /\ phase' = "deposits" => Knows(map', regCp'),
         Dependable /\ phase' = "scan" => Knows(map', scanFrom' - 1),
         Calm /\ phase' = "deposits" => tip.block <= regCp'
  PROVE  IInv'
<1> USE DEF IInv, chain, disk, stream
<1>0. regSaved' \in 0..regCp'
  BY DEF TypeOK
<1>1. TypeOK'
  BY <1>0 DEF TypeOK
<1>2. Positions'
  BY DEF Positions, Truthful, Active
<1>3. BehindCheckpoint'
  BY DEF BehindCheckpoint
<1>4. MapCovers'
  BY DEF MapCovers, Dependable, Knows, Is
<1>5. RegistryFirst' /\ NoDepositSkipped'
  BY DEF RegistryFirst, NoDepositSkipped, Calm, AnnouncedBy, Is
<1>6. QED  BY <1>1, <1>2, <1>3, <1>4, <1>5

(* The live loop's registry scan keeps the invariant. *)
LEMMA RegistrySteps ==
  ASSUME IInv,
         \/ BeginRegistryScan \/ SkipRegistryScan
         \/ \E last \in cursor..tip.block : ScanBatch(last)
         \/ ScanDone \/ ScanFail
  PROVE  IInv'
<1> USE DEF cps, disk, scan
<1>t. /\ head \in Nat /\ regCp \in 0..head /\ scanFrom \in Nat /\ cursor \in Nat
      /\ map \in [Receivers -> {"absent", "bare", "routed"}]
      /\ phase \in {"registry", "scan"} => tip.block \in 1..head
      /\ phase = "scan" =>
           /\ 1 <= scanFrom /\ scanFrom <= cursor
           /\ cursor <= tip.block + 1 /\ regCp = cursor - 1
  BY DEF IInv, TypeOK, Positions, Truthful
<1>1. CASE BeginRegistryScan
  <2>1. /\ phase = "registry" /\ phase' = "scan" /\ scanFrom' = regCp + 1 /\ cursor' = regCp + 1
        /\ regCp + 1 <= tip.block
        /\ UNCHANGED <<chain, cps, disk, map, stream, tip, scanned, pending, acted, forgotten, env>>
    BY <1>1 DEF BeginRegistryScan, Due, Watermark
  <2>2. Dependable => Knows(map, scanFrom' - 1)
    <3>1. scanFrom' - 1 = regCp
      BY <1>t, <2>1
    <3>2. QED  BY <2>1, <3>1 DEF IInv, MapCovers
  <2>3. QED  BY <1>t, <2>1, <2>2, RegistryStep
<1>2. CASE SkipRegistryScan
  <2>1. /\ phase = "registry" /\ phase' = "deposits"
        /\ UNCHANGED <<chain, depCp, disk, map, stream, scan, pending, acted, forgotten, env>>
    BY <1>2 DEF SkipRegistryScan
  <2>2. \/ tip.block <= regCp /\ regCp' = regCp
        \/ regCp + 1 = tip.block /\ regCp' = tip.block /\ ~tip.active
    BY <1>2, <1>t, <2>1 DEF SkipRegistryScan, Due, Watermark
  <2>3. Dependable => Knows(map, regCp')
    <3> SUFFICES ASSUME Dependable PROVE Knows(map, regCp')
      OBVIOUS
    <3>1. Knows(map, regCp)
      BY <2>1 DEF IInv, MapCovers
    <3>2. CASE regCp + 1 = tip.block /\ regCp' = tip.block /\ ~tip.active
      <4>1. ~Active(tip.block)
        BY <2>1, <3>2 DEF IInv, Positions, Truthful
      <4>2. \A n \in 1..regCp' : n \in 1..regCp \/ n = tip.block
        BY <1>t, <3>2
      <4>3. QED  BY <3>1, <4>1, <4>2 DEF Knows, Is, Active
    <3>3. QED  BY <2>2, <3>1, <3>2
  <2>4. regCp' \in 0..head /\ regCp <= regCp' /\ tip.block <= regCp'
    BY <1>t, <2>1, <2>2
  <2>5. QED  BY <1>t, <2>1, <2>3, <2>4, RegistryStep
<1>3. ASSUME NEW last \in cursor..tip.block, ScanBatch(last)
      PROVE  IInv'
  <2>1. /\ phase = "scan" /\ phase' = "scan" /\ regCp' = last /\ cursor' = last + 1
        /\ UNCHANGED <<chain, depCp, disk, map, stream, tip, scanFrom, scanned, pending, acted, forgotten, env>>
    BY <1>3 DEF ScanBatch
  <2>2. last \in 0..head /\ regCp <= last /\ last + 1 \in Nat /\ scanFrom <= last + 1 /\ last + 1 <= tip.block + 1
        /\ last = last + 1 - 1
    BY <1>t, <2>1
  <2>3. Dependable => Knows(map, scanFrom - 1)
    BY <2>1 DEF IInv, MapCovers
  <2>4. QED  BY <1>t, <2>1, <2>2, <2>3, RegistryStep
<1>4. CASE ScanDone
  <2>1. /\ phase = "scan" /\ phase' = "deposits" /\ map' = Remember(map, scanFrom, cursor - 1)
        /\ cursor > tip.block \/ "lag" \in env
        /\ UNCHANGED <<chain, cps, disk, stream, scan, pending, acted, forgotten, env>>
    BY <1>4 DEF ScanDone
  <2>2. map' \in [Receivers -> {"absent", "bare", "routed"}]
    BY <1>t, <2>1, RememberType
  <2>3. Dependable => Knows(map', regCp)
    <3> SUFFICES ASSUME Dependable PROVE Knows(map', regCp)
      OBVIOUS
    <3>1. Knows(map, scanFrom - 1)
      BY <2>1 DEF IInv, MapCovers
    <3>2. scanFrom \in Nat \ {0} /\ cursor - 1 \in Nat /\ cursor - 1 = regCp
      BY <1>t, <2>1
    <3>3. QED  BY <2>1, <3>1, <3>2, RememberKnows
  <2>4. Calm => tip.block <= regCp
    BY <1>t, <2>1 DEF Calm
  <2>5. QED  BY <1>t, <2>1, <2>2, <2>3, <2>4, RegistryStep
<1>5. CASE ScanFail
  BY <1>5, <1>t, RegistryStep DEF ScanFail, Dependable, Calm
<1>6. QED  BY <1>1, <1>2, <1>3, <1>4, <1>5

-----------------------------------------------------------------------------
(* A deposit scan over blocks depCp + 1..last with the receivers of the map. *)
LEMMA DepositScanStep ==
  ASSUME IInv, NEW last \in 0..head, last > depCp,
         phase \in {"catchupDeposits", "deposits"}, phase' = "act",
         pending' = DepositsIn(depCp + 1, last, Known(map)), depCp' = last,
         wsCursor' \in 1..(head + 1),
         regSaved' \in 0..regCp, depSaved' \in 0..last,
         UNCHANGED <<chain, regCp, map, tips, scan, acted, forgotten, env>>,
         Calm => Knows(map, last)
  PROVE  IInv'
<1> USE DEF IInv, chain, scan
<1>h. /\ head \in Nat /\ depCp \in 0..head /\ regCp \in 0..head /\ head <= MaxBlock
      /\ MaxBlock \in Nat /\ last \in Nat
  BY ConstantsAssumption DEF TypeOK
<1>p. pending = {} /\ pending' \subseteq (depCp + 1)..last
  BY DEF BehindCheckpoint, DepositsIn
<1>q. pending' \subseteq Blocks
  BY <1>h, <1>p DEF Blocks
<1>1. TypeOK'
  BY <1>h, <1>q DEF TypeOK
<1>2. Positions'
  BY DEF Positions, Truthful, Active
<1>3. BehindCheckpoint'
  <2> SUFFICES ASSUME NEW n \in Blocks
               PROVE  /\ n \in pending' => n <= last
                      /\ acted[n] + (IF n \in pending' THEN 1 ELSE 0)
                           <= forgotten[n] + (IF n <= last THEN 1 ELSE 0)
    BY DEF BehindCheckpoint
  <2>1. n \in Nat /\ acted[n] \in Nat /\ forgotten[n] \in Nat
    <3>1. acted \in [Blocks -> Nat] /\ forgotten \in [Blocks -> Nat]
      BY DEF Positions
    <3>2. QED  BY <1>h, <3>1 DEF Blocks
  <2>2. acted[n] <= forgotten[n] + (IF n <= depCp THEN 1 ELSE 0)
    BY <1>p, <2>1 DEF BehindCheckpoint
  <2>3. n \in pending' => n <= last /\ ~(n <= depCp)
    BY <1>h, <1>p, <2>1
  <2>4. QED  BY <1>h, <2>1, <2>2, <2>3
<1>4. MapCovers'
  BY DEF MapCovers, Dependable, Knows, Is
<1>5. RegistryFirst'
  BY DEF RegistryFirst
<1>6. NoDepositSkipped'
  <2> SUFFICES ASSUME Calm, NEW n \in 1..last, NEW r \in Receivers,
                      Is(n, "deposit", r), AnnouncedBy(n, r)
               PROVE  acted[n] > 0 \/ n \in pending'
    BY DEF NoDepositSkipped, Calm, AnnouncedBy, Is
  <2>1. CASE n \in 1..depCp
    BY <2>1, <1>p DEF NoDepositSkipped
  <2>2. CASE n \in (depCp + 1)..last
    BY <2>2, <1>h, DepositReturned
  <2>3. QED  BY <2>1, <2>2, <1>h
<1>7. QED  BY <1>1, <1>2, <1>3, <1>4, <1>5, <1>6

(* The steps after which the worker goes on without a deposit scan. *)
LEMMA NoScanStep ==
  ASSUME IInv, phase \in {"catchupDeposits", "deposits"}, phase' \in {"act", "live"},
         wsCursor' \in 1..(head + 1),
         regSaved' \in 0..regCp, depSaved' \in 0..depCp,
         UNCHANGED <<chain, cps, map, tips, scan, pending, acted, forgotten, env>>
  PROVE  IInv'
<1> USE DEF IInv, chain, cps, disk, scan
<1>0. wsCursor' \in 1..(MaxBlock + 1)
  BY ConstantsAssumption DEF TypeOK
<1>1. TypeOK'
  BY <1>0 DEF TypeOK
<1>2. Positions' /\ BehindCheckpoint'
  BY DEF Positions, Truthful, Active, BehindCheckpoint
<1>3. MapCovers'
  BY DEF MapCovers, Dependable, Knows, Is
<1>4. RegistryFirst' /\ NoDepositSkipped'
  BY DEF RegistryFirst, NoDepositSkipped, Calm, AnnouncedBy, Is
<1>5. QED  BY <1>1, <1>2, <1>3, <1>4

(* Fetching deposits, in the catch-up or the live loop, keeps it. *)
LEMMA DepositSteps ==
  ASSUME IInv,
         \/ \E last \in Answers(scanned) : CatchUpDeposits(last)
         \/ \E last \in Answers(tip.block) : ScanDeposits(last)
         \/ NoDeposits
  PROVE  IInv'
<1>h. /\ head \in Nat /\ scanned \in 0..head /\ tip.block \in Nat /\ wsCursor \in 1..(head + 1)
      /\ tip.block \in 0..head /\ regCp \in Nat /\ depCp \in Nat
      /\ regSaved \in 0..regCp /\ depSaved \in 0..depCp
  BY DEF IInv, TypeOK, Positions, Tip
<1>1. ASSUME NEW last \in Answers(scanned), CatchUpDeposits(last)
      PROVE  IInv'
  <2>1. last \in 0..scanned /\ last \in 0..head /\ last \in Nat
        /\ scanned + 1 \in 1..(head + 1)
    BY <1>h, AnswersBound
  <2>2. /\ phase = "catchupDeposits" /\ phase' = "act" /\ wsCursor' = scanned + 1
        /\ UNCHANGED <<chain, regCp, map, tips, scan, acted, forgotten, env>>
        /\ regSaved' = regCp /\ depSaved' = depCp'
    BY <1>1 DEF CatchUpDeposits
  <2>3. Knows(map, last)
    BY <1>h, <2>1, <2>2 DEF IInv, MapCovers, Knows
  <2>4. CASE Known(map) # {} /\ depCp < scanned /\ last > depCp
    <3>1. pending' = DepositsIn(depCp + 1, last, Known(map)) /\ depCp' = last
      BY <1>1, <2>4 DEF CatchUpDeposits
    <3>2. regSaved' \in 0..regCp /\ depSaved' \in 0..last /\ wsCursor' \in 1..(head + 1)
      BY <1>h, <2>1, <2>2, <3>1
    <3>3. QED  BY <2>1, <2>2, <2>3, <2>4, <3>1, <3>2, DepositScanStep
  <2>5. CASE UNCHANGED <<pending, depCp>>
    <3>1. regSaved' \in 0..regCp /\ depSaved' \in 0..depCp /\ wsCursor' \in 1..(head + 1)
      BY <1>h, <2>1, <2>2, <2>5
    <3>2. QED  BY <2>2, <2>5, <3>1, NoScanStep DEF cps
  <2>6. QED  BY <1>1, <2>4, <2>5 DEF CatchUpDeposits
<1>2. ASSUME NEW last \in Answers(tip.block), ScanDeposits(last)
      PROVE  IInv'
  <2>1. last \in 0..head
    BY <1>h, AnswersBound
  <2>2. /\ phase = "deposits" /\ phase' = "act" /\ last > depCp /\ last <= tip.block
        /\ pending' = DepositsIn(depCp + 1, last, Known(map)) /\ depCp' = last
        /\ UNCHANGED <<chain, regCp, disk, map, stream, scan, acted, forgotten, env>>
    BY <1>2 DEF ScanDeposits
  <2>3. ASSUME Calm
        PROVE  Knows(map, last)
    <3>1. Dependable
      BY <2>3 DEF Calm, Dependable
    <3>2. Knows(map, regCp) /\ tip.block <= regCp /\ regCp \in Nat
      BY <2>2, <2>3, <3>1, <1>h DEF IInv, MapCovers, RegistryFirst, TypeOK
    <3>3. last <= regCp /\ last \in Nat
      BY <1>h, <2>1, <2>2, <3>2
    <3>4. QED  BY <3>2, <3>3 DEF Knows
  <2>4. wsCursor' \in 1..(head + 1) /\ tips' = tips /\ regSaved' \in 0..regCp /\ depSaved' \in 0..last
    BY <1>h, <2>1, <2>2 DEF stream, disk
  <2>5. QED  BY <2>1, <2>2, <2>3, <2>4, DepositScanStep
<1>3. CASE NoDeposits
  <2>1. regSaved' \in 0..regCp /\ depSaved' \in 0..depCp /\ wsCursor' \in 1..(head + 1)
    BY <1>3, <1>h DEF NoDeposits, stream, disk
  <2>2. QED  BY <1>3, <2>1, NoScanStep DEF NoDeposits, stream
<1>4. QED  BY <1>1, <1>2, <1>3

-----------------------------------------------------------------------------
(* Acting on the fetched deposits keeps the invariant. *)
LEMMA ActStep ==
  ASSUME IInv, Act
  PROVE  IInv'
<1> USE DEF IInv, Act, chain, cps, disk, stream, scan
<1>a. \A n \in Blocks : acted[n] \in Nat
      /\ acted'[n] = IF n \in pending THEN acted[n] + 1 ELSE acted[n]
  BY DEF Positions
<1>b. acted' \in [Blocks -> Nat]
  BY DEF Positions
<1>1. TypeOK'
  BY DEF TypeOK
<1>2. Positions'
  BY <1>b DEF Positions, Truthful, Active
<1>3. BehindCheckpoint'
  BY <1>a DEF BehindCheckpoint
<1>4. MapCovers' /\ RegistryFirst'
  BY DEF MapCovers, RegistryFirst, Dependable, Knows, Is
<1>5. NoDepositSkipped'
  <2> SUFFICES ASSUME Calm, NEW n \in 1..depCp, NEW r \in Receivers,
                      Is(n, "deposit", r), AnnouncedBy(n, r)
               PROVE  acted'[n] > 0
    BY DEF NoDepositSkipped, Calm, AnnouncedBy, Is
  <2>1. acted[n] > 0 \/ n \in pending
    BY DEF NoDepositSkipped
  <2>2. n \in Blocks
    BY ConstantsAssumption DEF TypeOK, Blocks
  <2>3. QED  BY <2>1, <2>2, <1>a
<1>6. QED  BY <1>1, <1>2, <1>3, <1>4, <1>5

(* Rebuilding the registry after a start keeps the invariant. *)
LEMMA CatchUpStep ==
  ASSUME IInv, NEW s \in Answers(head) \ {0}, CatchUpRegistry(s)
  PROVE  IInv'
<1> USE DEF IInv, CatchUpRegistry, chain, stream
<1>s. head \in Nat /\ s \in 1..head /\ ("lag" \notin env => s = head) /\ regCp \in 0..head
  BY AnswersBound DEF TypeOK
<1>m. NobodyKnown \in [Receivers -> {"absent", "bare", "routed"}]
  BY DEF NobodyKnown
<1>k. Knows(map', s)
  <2>1. Knows(NobodyKnown, 1 - 1)
    BY DEF Knows
  <2>2. QED  BY <1>s, <2>1, RememberKnows
<1>1. TypeOK'
  <2>1. map' \in [Receivers -> {"absent", "bare", "routed"}]
    BY <1>m, RememberType
  <2>2. regCp' \in 0..head /\ regSaved' \in 0..regCp'
    BY <1>s DEF TypeOK, disk
  <2>3. QED  BY <1>s, <2>1, <2>2 DEF TypeOK, disk
<1>2. Positions' /\ BehindCheckpoint'
  BY <1>s DEF Positions, Truthful, Active, BehindCheckpoint
<1>3. MapCovers'
  <2>1. Dependable => regCp' = s
    BY <1>s DEF MapCovers
  <2>2. QED  BY <1>k, <2>1 DEF MapCovers, Dependable, Knows, Is
<1>4. RegistryFirst' /\ NoDepositSkipped'
  BY DEF RegistryFirst, NoDepositSkipped, Calm, AnnouncedBy, Is
<1>5. QED  BY <1>1, <1>2, <1>3, <1>4

(* Back to the catch-up: a restart, or a scan of the catch-up that fails.     *)
LEMMA StartOverStep ==
  ASSUME IInv,
         CatchUpFail \/ \E reg \in regSaved..regCp, dep \in depSaved..depCp : Crash(reg, dep)
  PROVE  IInv'
<1> USE DEF IInv, chain, cps, disk, stream, scan
<1>h. /\ head \in Nat /\ regCp \in 0..head /\ depCp \in 0..head
      /\ regSaved \in 0..regCp /\ depSaved \in 0..depCp
      /\ acted \in [Blocks -> Nat] /\ forgotten \in [Blocks -> Nat]
  BY DEF TypeOK, Positions
<1>u. /\ UNCHANGED <<chain, acted, env>>
      /\ phase' = "catchup" /\ map' = NobodyKnown
      /\ "fatal" \in env \/ "crash" \in env
  BY DEF CatchUpFail, Crash
<1>p. pending' = {}
  BY DEF CatchUpFail, Crash, BehindCheckpoint
<1>c. /\ regCp' \in 0..head /\ regSaved' \in 0..regCp' /\ depCp' \in 0..head /\ depSaved' \in 0..depCp'
      /\ forgotten' \in [Blocks -> Nat]
      /\ \A n \in Blocks :
           forgotten[n] + (IF n <= depCp THEN 1 ELSE 0)
             <= forgotten'[n] + (IF n <= depCp' THEN 1 ELSE 0)
      /\ "crash" \notin env => regCp' = regCp
  <2>1. CASE CatchUpFail
    BY <1>h, <2>1 DEF CatchUpFail, Blocks
  <2>2. CASE \E reg \in regSaved..regCp, dep \in depSaved..depCp : Crash(reg, dep)
    <3>0. PICK reg \in regSaved..regCp, dep \in depSaved..depCp : Crash(reg, dep)
      BY <2>2
    <3>1. /\ regCp' = reg /\ regSaved' = reg /\ depCp' = dep /\ depSaved' = dep /\ "crash" \in env
          /\ forgotten' = [n \in Blocks |->
               IF n \in (dep + 1)..depCp THEN forgotten[n] + 1 ELSE forgotten[n]]
      BY <3>0 DEF Crash
    <3>2. ASSUME NEW n \in Blocks
          PROVE  forgotten[n] + (IF n <= depCp THEN 1 ELSE 0)
                   <= forgotten'[n] + (IF n <= dep THEN 1 ELSE 0)
      <4>1. n \in Nat /\ forgotten[n] \in Nat
        BY <1>h, ConstantsAssumption DEF Blocks
      <4>2. forgotten'[n] = IF n \in (dep + 1)..depCp THEN forgotten[n] + 1 ELSE forgotten[n]
        BY <3>1
      <4>3. QED  BY <1>h, <4>1, <4>2
    <3>3. forgotten' \in [Blocks -> Nat]
      BY <1>h, <3>1
    <3>4. QED  BY <1>h, <3>1, <3>2, <3>3
  <2>3. QED  BY <2>1, <2>2
<1>w. /\ wsCursor' \in 1..(head + 1) /\ wsCursor' \in 1..(MaxBlock + 1)
      /\ tip' \in Tip /\ tip'.block \in 0..head
      /\ scanned' \in 0..head /\ scanFrom' \in Nat /\ cursor' \in Nat
      /\ tips' \in Seq(Tip) /\ Len(tips') <= TIP_CHANNEL
      /\ \A i \in 1..Len(tips') : Truthful(tips'[i])
  <2>1. CASE CatchUpFail
    BY <2>1 DEF CatchUpFail, TypeOK, Positions
  <2>2. CASE \E reg \in regSaved..regCp, dep \in depSaved..depCp : Crash(reg, dep)
    BY <2>2, ConstantsAssumption DEF Crash, TypeOK, NoTip, Tip
  <2>3. QED  BY <2>1, <2>2
<1>1. TypeOK'
  BY <1>u, <1>p, <1>c, <1>w DEF TypeOK, NobodyKnown
<1>2. Positions'
  BY <1>u, <1>c, <1>w DEF Positions, Truthful, Active
<1>3. BehindCheckpoint'
  <2> SUFFICES ASSUME NEW n \in Blocks
               PROVE  acted[n] <= forgotten'[n] + (IF n <= depCp' THEN 1 ELSE 0)
    BY <1>u, <1>p, <1>c, <1>h DEF BehindCheckpoint
  <2>1. /\ n \in Nat /\ acted[n] \in Nat /\ forgotten[n] \in Nat /\ forgotten'[n] \in Nat
        /\ depCp' \in Nat
    BY <1>h, <1>c, ConstantsAssumption DEF Blocks
  <2>2. acted[n] <= forgotten[n] + (IF n <= depCp THEN 1 ELSE 0)
    BY <2>1 DEF BehindCheckpoint
  <2>3. QED  BY <1>h, <1>c, <2>1, <2>2
<1>4. MapCovers'
  BY <1>u, <1>c DEF MapCovers, Dependable
<1>5. RegistryFirst' /\ NoDepositSkipped'
  BY <1>u DEF RegistryFirst, NoDepositSkipped, Calm
<1>6. QED  BY <1>1, <1>2, <1>3, <1>4, <1>5

-----------------------------------------------------------------------------
(* Every step keeps the invariant: one case per action. *)
LEMMA NextInv == IInv /\ [Next]_vars => IInv'
<1> SUFFICES ASSUME IInv, [Next]_vars
             PROVE  IInv'
  OBVIOUS
<1>1. CASE UNCHANGED vars
  BY <1>1
  DEF vars, chain, cps, disk, stream, scan, IInv, TypeOK, Positions, Truthful, Active,
      BehindCheckpoint, MapCovers, Dependable, Knows, Is, RegistryFirst,
      NoDepositSkipped, Calm, AnnouncedBy
<1>2. CASE Next
  BY <1>2, NewBlockStep, StreamStep, TipStep, RegistrySteps, DepositSteps, ActStep,
     CatchUpStep, StartOverStep
  DEF Next, Worker
<1>3. QED  BY <1>1, <1>2

(* The inductive invariant of the worker holds in every behaviour. *)
THEOREM Invariance == Spec => []IInv
BY InitInv, NextInv, PTL DEF Spec

(* The variables keep their types, and both checkpoints and the tip stay      *)
(* within the chain.                                                          *)
THEOREM TypeCorrect == Spec => []TypeOK
BY Invariance, PTL DEF IInv

(* A deposit is acted on once, and once more for each stop that forgets its   *)
(* block was scanned, whatever lag, failing scans and reconciliation ticks    *)
(* do.                                                                        *)
THEOREM AtMostOnce == Spec => []ActedOnce
<1>1. IInv => ActedOnce
  BY DEF IInv, Positions, BehindCheckpoint, ActedOnce
<1>2. QED  BY <1>1, Invariance, PTL

(* Behind the two checkpoints, where no scan looks again, the worker has      *)
(* passed over neither a receiver nor a deposit, in the environments the      *)
(* two parts of NothingMissed name.                                           *)
THEOREM Complete == Spec => []NothingMissed
<1>1. IInv => NothingMissed
  BY DEF IInv, NothingMissed, MapComplete, MapCovers, Dependable, Knows
<1>2. QED  BY <1>1, Invariance, PTL

(* Every step of the catch-up that moves the deposits checkpoint does so with *)
(* each receiver announced in the range in its filter, also when Portal lags  *)
(* or scans fail.                                                             *)
THEOREM CatchUpCovers == Spec => CatchUpCoverage
<1>1. ASSUME IInv, [Next]_vars
      PROVE  [phase = "catchupDeposits" =>
                \A n \in (depCp + 1)..depCp', r \in Receivers :
                  AnnouncedBy(n, r) => map[r] # "absent"]_vars
  <2> SUFFICES ASSUME phase = "catchupDeposits",
                      NEW n \in (depCp + 1)..depCp', NEW r \in Receivers, AnnouncedBy(n, r)
               PROVE  map[r] # "absent"
    OBVIOUS
  <2>h. depCp \in Nat /\ scanned \in Nat
    BY <1>1 DEF IInv, TypeOK, Positions
  <2>1. depCp' # depCp /\ ~\E dep \in depSaved..depCp : depCp' = dep
    BY <2>h
  <2>2. PICK last \in Answers(scanned) : CatchUpDeposits(last)
    BY <1>1, <2>1
    DEF Next, Worker, NewBlock, PushTip, SkipTip, TakeTip, Reconcile, CatchUpRegistry, Act,
        BeginRegistryScan, SkipRegistryScan, ScanBatch, ScanDone, ScanDeposits, NoDeposits,
        CatchUpFail, ScanFail, Crash, cps, disk, vars
  <2>3. depCp' = last /\ last \in 0..scanned
    BY <2>h, <2>1, <2>2, AnswersBound DEF CatchUpDeposits
  <2>4. PICK k \in 1..n : Is(k, "announce", r)
    BY DEF AnnouncedBy
  <2>5. k \in 1..scanned
    BY <2>h, <2>3
  <2>6. QED  BY <1>1, <2>4, <2>5 DEF IInv, MapCovers, Knows
<1>2. QED  BY <1>1, Invariance, PTL DEF Spec, CatchUpCoverage
===============================================================================
