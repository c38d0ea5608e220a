---------------------------- MODULE CheckoutProofs ----------------------------
(* Proofs about Checkout, for every number of pages, payments and blocks and   *)
(* every set of routes, amounts and environments.                              *)
EXTENDS Checkout, FiniteSetTheorems, TLAPS

Outcomes == {"failed", "refused", "queued", "confirmed", "expired", "unknown"}

(* A click handler. *)
Pay ==
  [page : Pages, route : DOMAIN Routes \cup {None},
   amount : {ParseDecimalToRawUnits(t, Decimals) : t \in Typed},
   pc : {"prepare", "sign", "submit", "wait", "scan", "done"},
   lastValid : Int, cursor : Int, polls : Int, height : Int, shown : BOOLEAN,
   told : {None} \cup Outcomes]

Cards == [route : DOMAIN Routes \cup {None}, gasless : BOOLEAN, enabled : BOOLEAN]

WellTyped ==
  /\ env \in Environments
  /\ tip \in Nat /\ final \in 0..tip
  /\ inFlight \in [Pages -> BOOLEAN]
  /\ card \in [Pages -> Cards]
  /\ pays \in Seq(Pay)
  /\ \A t \in landed : t.slot \in 1..tip

Submitted(i) == i \in DOMAIN pays /\ pays[i].pc \in {"wait", "scan", "done"}

(* Two handlers of a page that have not ended are the same one, and the       *)
(* page's flag is up while there is one.                                      *)
FlagHeld ==
  /\ \A i, j \in DOMAIN pays :
       pays[i].page = pays[j].page /\ pays[i].pc # "done" /\ pays[j].pc # "done" => i = j
  /\ \A i \in DOMAIN pays : pays[i].pc # "done" => inFlight[pays[i].page]

(* What the backend has, and what is on the chain, was submitted; a transfer  *)
(* lands while its blockhash lives.                                           *)
Relayed ==
  /\ \A q \in queue : Submitted(q.pay)
  /\ \A t \in landed : Submitted(t.pay) /\ t.slot <= pays[t.pay].lastValid

(* The watch has not passed the transfer it waits for, and reads its height   *)
(* before it looks.                                                           *)
WatchBehind ==
  \A i \in DOMAIN pays :
    /\ pays[i].pc # "done" =>
         /\ pays[i].cursor <= final + 1
         /\ \A t \in landed : t.pay = i => pays[i].cursor <= t.slot
    /\ pays[i].pc = "scan" => pays[i].height <= final

(* The blockhash of an expired payment is dead. *)
ExpiredForGood ==
  \A i \in DOMAIN pays :
    pays[i].told = "expired" => pays[i].pc = "done" /\ pays[i].lastValid < tip

IInv == /\ WellTyped /\ FlagHeld /\ Relayed /\ WatchBehind
        /\ ExpiredForGood /\ ExpiredMeansUnpaid

-----------------------------------------------------------------------------
(* The invariant holds when the pages load. *)
LEMMA InitInv == Init => IInv
<1> SUFFICES ASSUME Init PROVE IInv
  OBVIOUS
<1>1. pays = <<>> /\ DOMAIN pays = {} /\ landed = {} /\ queue = {}
  BY DEF Init
<1>2. WellTyped
  BY <1>1 DEF Init, WellTyped, Cards
<1>3. QED
  BY <1>1, <1>2
  DEF IInv, FlagHeld, Relayed, WatchBehind, ExpiredForGood, ExpiredMeansUnpaid

(* What the assignment of one handler does to the list. *)
LEMMA SetPayEffect ==
  ASSUME pays \in Seq(Pay), NEW i \in DOMAIN pays, NEW h \in Pay, SetPay(i, h)
  PROVE  /\ pays' \in Seq(Pay) /\ DOMAIN pays' = DOMAIN pays
         /\ pays'[i] = h
         /\ \A j \in DOMAIN pays \ {i} : pays'[j] = pays[j]
BY DEF SetPay

(* A step of the handler i. *)
LEMMA HandlerStep ==
  ASSUME IInv, NEW i \in DOMAIN pays, NEW h \in Pay, SetPay(i, h),
         UNCHANGED world, card' \in [Pages -> Cards],
         h.page = pays[i].page, h.route = pays[i].route, h.amount = pays[i].amount,
         pays[i].pc # "done",
         \/ h.pc # "done" /\ UNCHANGED inFlight
         \/ h.pc = "done" /\ inFlight' = [inFlight EXCEPT ![pays[i].page] = FALSE],
         \/ queue' = queue
         \/ queue' = queue \cup {Request(i)} /\ h.pc \in {"wait", "done"},
         pays[i].pc \in {"wait", "scan"} => h.pc \in {"wait", "scan", "done"},
         pays[i].pc # "prepare" => h.lastValid = pays[i].lastValid,
         h.pc # "done" =>
           h.cursor <= final + 1 /\ \A t \in landed : t.pay = i => h.cursor <= t.slot,
         h.pc = "scan" => h.height <= final,
         h.told = "expired" =>
           h.pc = "done" /\ h.lastValid < tip /\ \A t \in landed : t.pay # i
  PROVE  IInv'
<1> USE DEF IInv, world
<1>1. /\ pays' \in Seq(Pay) /\ DOMAIN pays' = DOMAIN pays
      /\ pays'[i] = h
      /\ \A j \in DOMAIN pays \ {i} : pays'[j] = pays[j]
  BY SetPayEffect DEF WellTyped
<1>p. \A j \in DOMAIN pays :
        pays'[j].page = pays[j].page /\ pays'[j].route = pays[j].route
        /\ pays'[j].amount = pays[j].amount
  BY <1>1
<1>t. inFlight \in [Pages -> BOOLEAN] /\ \A j \in DOMAIN pays : pays[j].page \in Pages
  <2>1. \A j \in DOMAIN pays : pays[j] \in Pay
    BY DEF WellTyped
  <2>2. QED  BY <2>1 DEF WellTyped, Pay
<1>2. WellTyped'
  <2>1. inFlight' \in [Pages -> BOOLEAN]
    BY <1>t
  <2>2. QED  BY <1>1, <2>1 DEF WellTyped
<1>3. FlagHeld'
  <2>1. \A j \in DOMAIN pays : pays'[j].pc # "done" => pays[j].pc # "done"
    BY <1>1
  <2>2. ASSUME NEW j \in DOMAIN pays, pays'[j].pc # "done"
        PROVE  inFlight'[pays[j].page]
    <3>1. pays[j].pc # "done" /\ inFlight[pays[j].page]
      BY <2>1, <2>2 DEF FlagHeld
    <3>2. CASE UNCHANGED inFlight
      BY <3>1, <3>2
    <3>3. CASE h.pc = "done" /\ inFlight' = [inFlight EXCEPT ![pays[i].page] = FALSE]
      <4>1. j # i
        BY <1>1, <2>2, <3>3
      <4>2. pays[j].page # pays[i].page
        BY <3>1, <4>1 DEF FlagHeld
      <4>3. QED  BY <1>t, <3>1, <3>3, <4>2
    <3>4. QED  BY <3>2, <3>3
  <2>3. \A j, k \in DOMAIN pays' :
          pays'[j].page = pays'[k].page /\ pays'[j].pc # "done" /\ pays'[k].pc # "done" => j = k
    BY <1>1, <1>p, <2>1 DEF FlagHeld
  <2>4. QED  BY <1>1, <1>p, <2>2, <2>3 DEF FlagHeld
<1>4. Relayed'
  <2>1. ASSUME NEW j, Submitted(j)
        PROVE  Submitted(j)' /\ pays'[j].lastValid = pays[j].lastValid
    BY <2>1, <1>1 DEF Submitted
  <2>2. \A q \in queue' : Submitted(q.pay)'
    <3>1. CASE queue' = queue
      BY <2>1, <3>1 DEF Relayed
    <3>2. CASE queue' = queue \cup {Request(i)} /\ h.pc \in {"wait", "done"}
      <4>1. Request(i).pay = i /\ Submitted(i)'
        BY <1>1, <3>2 DEF Request, Submitted
      <4>2. QED  BY <2>1, <3>2, <4>1 DEF Relayed
    <3>3. QED  BY <3>1, <3>2
  <2>3. \A t \in landed : Submitted(t.pay)' /\ t.slot <= pays'[t.pay].lastValid
    BY <2>1 DEF Relayed
  <2>4. QED  BY <2>2, <2>3 DEF Relayed
<1>5. WatchBehind'
  BY <1>1 DEF WatchBehind
<1>6. ExpiredForGood' /\ ExpiredMeansUnpaid'
  BY <1>1 DEF ExpiredForGood, ExpiredMeansUnpaid
<1>7. QED  BY <1>2, <1>3, <1>4, <1>5, <1>6

-----------------------------------------------------------------------------
(* The steps of a click handler                                            *)

(* A handler's record has its type. *)
LEMMA PayTyped ==
  ASSUME WellTyped
  PROVE  \A i \in DOMAIN pays : pays[i] \in Pay
BY DEF WellTyped

(* An ending handler: what it tells the payer may not be a wrong "expired".   *)
LEMMA EndStep ==
  ASSUME IInv, NEW i \in DOMAIN pays, NEW told \in Outcomes, NEW again \in BOOLEAN,
         End(i, told, again), UNCHANGED world, pays[i].pc # "done",
         \/ queue' = queue
         \/ queue' = queue \cup {Request(i)},
         told = "expired" =>
           pays[i].lastValid < tip /\ \A t \in landed : t.pay # i
  PROVE  IInv'
<1> DEFINE h == [pays[i] EXCEPT !.pc = "done", !.told = told, !.shown = FALSE,
                                !.cursor = 0, !.polls = 0, !.height = 0]
<1>1. pays[i] \in Pay /\ pays[i].page \in Pages /\ pays[i].shown \in BOOLEAN
  BY PayTyped DEF IInv, Pay
<1>2. /\ h.page = pays[i].page /\ h.route = pays[i].route
      /\ h.amount = pays[i].amount /\ h.pc = "done" /\ h.told = told
      /\ h.lastValid = pays[i].lastValid
  BY <1>1 DEF Pay
<1>h. h \in Pay
  <2> DEFINE g == [pays[i] EXCEPT !.pc = "done", !.told = told, !.shown = FALSE]
  <2>1. g \in Pay
    BY <1>1 DEF Pay
  <2>2. h = [g EXCEPT !.cursor = 0, !.polls = 0, !.height = 0]
    OBVIOUS
  <2> HIDE DEF g
  <2>3. [g EXCEPT !.cursor = 0] \in Pay
    BY <2>1 DEF Pay
  <2>4. [[g EXCEPT !.cursor = 0] EXCEPT !.polls = 0] \in Pay
    BY <2>3 DEF Pay
  <2>5. [[[g EXCEPT !.cursor = 0] EXCEPT !.polls = 0] EXCEPT !.height = 0] \in Pay
    BY <2>4 DEF Pay
  <2>6. QED  BY <2>2, <2>5
<1>3. SetPay(i, h)
  BY DEF End
<1>4. card' \in [Pages -> Cards]
  <2> DEFINE b == card[pays[i].page].enabled \/ (again /\ pays[i].shown)
  <2>1. card \in [Pages -> Cards] /\ card[pays[i].page] \in Cards
    BY <1>1 DEF IInv, WellTyped
  <2>2. b \in BOOLEAN
    OBVIOUS
  <2>3. card' = [card EXCEPT ![pays[i].page] = [card[pays[i].page] EXCEPT !.enabled = b]]
    BY <1>1, <2>1 DEF End, Cards
  <2> HIDE DEF b
  <2>4. [card[pays[i].page] EXCEPT !.enabled = b] \in Cards
    BY <2>1, <2>2 DEF Cards
  <2>5. QED  BY <1>1, <2>1, <2>3, <2>4
<1>5. inFlight' = [inFlight EXCEPT ![pays[i].page] = FALSE]
  BY DEF End
<1> HIDE DEF h
<1>6. QED
  BY <1>2, <1>h, <1>3, <1>4, <1>5, HandlerStep

(* A handler that goes on. *)
LEMMA GoOnStep ==
  ASSUME IInv, NEW i \in DOMAIN pays, NEW h \in Pay, SetPay(i, h),
         UNCHANGED <<world, card, inFlight>>,
         h.page = pays[i].page, h.route = pays[i].route, h.amount = pays[i].amount,
         h.told = pays[i].told, pays[i].pc # "done", h.pc # "done",
         \/ queue' = queue
         \/ queue' = queue \cup {Request(i)} /\ h.pc = "wait",
         pays[i].pc \in {"wait", "scan"} => h.pc \in {"wait", "scan"},
         pays[i].pc # "prepare" => h.lastValid = pays[i].lastValid,
         h.cursor <= final + 1, \A t \in landed : t.pay = i => h.cursor <= t.slot,
         h.pc = "scan" => h.height <= final
  PROVE  IInv'
<1>1. h.told # "expired"
  BY DEF IInv, ExpiredForGood
<1>2. card' \in [Pages -> Cards]
  BY DEF IInv, WellTyped
<1>3. QED
  BY <1>1, <1>2, HandlerStep

(* A wallet refuses, a lookup fails, the API answers with an error. *)
LEMMA PayFailsStep ==
  ASSUME IInv, NEW i \in DOMAIN pays, PayFails(i) PROVE IInv'
BY EndStep DEF PayFails, Outcomes

(* Preparing a Starknet signature keeps the invariant. *)
LEMMA PrepareStarknetStep ==
  ASSUME IInv, NEW i \in DOMAIN pays, PrepareStarknet(i) PROVE IInv'
<1> DEFINE h == [pays[i] EXCEPT !.pc = "sign"]
<1>1. pays[i] \in Pay
  BY PayTyped DEF IInv
<1>2. /\ h \in Pay /\ h.page = pays[i].page /\ h.route = pays[i].route
      /\ h.amount = pays[i].amount /\ h.pc = "sign" /\ h.told = pays[i].told
      /\ h.cursor = pays[i].cursor
  BY <1>1 DEF Pay
<1>3. SetPay(i, h)
  BY DEF PrepareStarknet
<1> HIDE DEF h
<1>4. QED
  BY <1>2, <1>3, GoOnStep DEF PrepareStarknet, IInv, WatchBehind

(* Preparing an EVM signature keeps the invariant. *)
LEMMA PrepareEvmStep ==
  ASSUME IInv, NEW i \in DOMAIN pays, PrepareEvm(i) PROVE IInv'
<1> DEFINE h == [pays[i] EXCEPT !.pc = "sign"]
<1>1. pays[i] \in Pay
  BY PayTyped DEF IInv
<1>2. /\ h \in Pay /\ h.page = pays[i].page /\ h.route = pays[i].route
      /\ h.amount = pays[i].amount /\ h.pc = "sign" /\ h.told = pays[i].told
      /\ h.cursor = pays[i].cursor
  BY <1>1 DEF Pay
<1>3. SetPay(i, h)
  BY DEF PrepareEvm
<1> HIDE DEF h
<1>4. QED
  BY <1>2, <1>3, GoOnStep DEF PrepareEvm, IInv, WatchBehind

(* The watch starts at or before the finalized head; nothing of the handler   *)
(* is on the chain yet.                                                       *)
LEMMA PrepareSolanaStep ==
  ASSUME IInv, NEW i \in DOMAIN pays, PrepareSolana(i) PROVE IInv'
<1>1. PICK head \in {final} \cup (IF env.loses THEN {0} ELSE {}) :
        SetPay(i, [pays[i] EXCEPT !.pc = "sign", !.lastValid = tip + Life,
                                  !.cursor = Max0(head - Rewind)])
  BY DEF PrepareSolana
<1> DEFINE c == Max0(head - Rewind)
           v == tip + Life
           h == [pays[i] EXCEPT !.pc = "sign", !.lastValid = v, !.cursor = c]
<1>2. c \in Int /\ v \in Int /\ c <= final + 1
  <2>1. tip \in Nat /\ final \in Nat /\ Rewind \in Nat /\ Life \in Nat
    BY CheckoutAssumption DEF IInv, WellTyped
  <2>2. head \in Nat /\ head <= final
    BY <2>1
  <2>3. QED  BY <2>1, <2>2 DEF Max0
<1>3. pays[i] \in Pay
  BY PayTyped DEF IInv
<1>4. SetPay(i, h)
  BY <1>1
<1> HIDE DEF c, v
<1>5. /\ h \in Pay /\ h.page = pays[i].page /\ h.route = pays[i].route
      /\ h.amount = pays[i].amount /\ h.pc = "sign" /\ h.told = pays[i].told
      /\ h.cursor = c
  BY <1>2, <1>3 DEF Pay
<1>6. \A t \in landed : t.pay # i
  BY DEF PrepareSolana, IInv, Relayed, Submitted
<1> HIDE DEF h
<1>7. QED
  BY <1>2, <1>4, <1>5, <1>6, GoOnStep DEF PrepareSolana, IInv

(* The payer's signature keeps the invariant. *)
LEMMA SignStep ==
  ASSUME IInv, NEW i \in DOMAIN pays, Sign(i) PROVE IInv'
<1> DEFINE h == [pays[i] EXCEPT !.pc = "submit"]
<1>1. pays[i] \in Pay
  BY PayTyped DEF IInv
<1>2. /\ h \in Pay /\ h.page = pays[i].page /\ h.route = pays[i].route
      /\ h.amount = pays[i].amount /\ h.pc = "submit" /\ h.told = pays[i].told
      /\ h.cursor = pays[i].cursor
      /\ h.lastValid = pays[i].lastValid
  BY <1>1 DEF Pay
<1>3. SetPay(i, h)
  BY DEF Sign
<1> HIDE DEF h
<1>4. QED
  BY <1>2, <1>3, GoOnStep DEF Sign, IInv, WatchBehind

(* The request the backend accepts carries the clicked card's data. *)
LEMMA SubmitStep ==
  ASSUME IInv, NEW i \in DOMAIN pays, Submit(i) PROVE IInv'
<1>1. CASE Routes[pays[i].route] = "solana"
  <2> DEFINE h == [pays[i] EXCEPT !.pc = "wait"]
  <2>1. pays[i] \in Pay
    BY PayTyped DEF IInv
  <2>2. /\ h \in Pay /\ h.page = pays[i].page /\ h.route = pays[i].route
        /\ h.amount = pays[i].amount /\ h.pc = "wait" /\ h.told = pays[i].told
        /\ h.cursor = pays[i].cursor
        /\ h.lastValid = pays[i].lastValid
    BY <2>1 DEF Pay
  <2>3. SetPay(i, h)
    BY <1>1 DEF Submit
  <2> HIDE DEF h
  <2>4. UNCHANGED <<world, card, inFlight>> /\ queue' = queue \cup {Request(i)}
    BY <1>1 DEF Submit
  <2>5. pays[i].pc = "submit"
    BY DEF Submit
  <2>6. QED
    BY <2>2, <2>3, <2>4, <2>5, GoOnStep DEF IInv, WatchBehind
<1>2. CASE Routes[pays[i].route] # "solana"
  BY <1>2, EndStep DEF Submit, Outcomes
<1>3. QED  BY <1>1, <1>2

(* A relay whose answer is lost keeps the invariant. *)
LEMMA SubmitLostStep ==
  ASSUME IInv, NEW i \in DOMAIN pays, SubmitLost(i) PROVE IInv'
BY EndStep DEF SubmitLost, Outcomes

(* The API refuses the payload. *)
LEMMA RefusedStep ==
  ASSUME IInv, NEW i \in DOMAIN pays, Refused(i) PROVE IInv'
BY EndStep DEF Refused, Outcomes

(* The height is read from the finalized head, before the scan. *)
LEMMA ReadHeightStep ==
  ASSUME IInv, NEW i \in DOMAIN pays, ReadHeight(i) PROVE IInv'
<1> DEFINE h == [pays[i] EXCEPT !.pc = "scan", !.polls = @ + 1, !.height = final]
<1>1. pays[i] \in Pay /\ final \in Int /\ pays[i].polls + 1 \in Int
  <2>1. pays[i] \in Pay
    BY PayTyped DEF IInv
  <2>2. QED  BY <2>1 DEF IInv, WellTyped, Pay
<1>2. /\ h.page = pays[i].page /\ h.route = pays[i].route
      /\ h.amount = pays[i].amount /\ h.pc = "scan" /\ h.told = pays[i].told
      /\ h.cursor = pays[i].cursor
      /\ h.lastValid = pays[i].lastValid /\ h.height = final
  BY <1>1 DEF Pay
<1>3. h \in Pay
  BY <1>1 DEF Pay
<1>4. SetPay(i, h)
  BY DEF ReadHeight
<1> HIDE DEF h
<1>5. QED
  BY <1>1, <1>2, <1>3, <1>4, GoOnStep
  DEF ReadHeight, IInv, WatchBehind

(* A status poll that fails keeps the invariant. *)
LEMMA PollFailsStep ==
  ASSUME IInv, NEW i \in DOMAIN pays, PollFails(i) PROVE IInv'
<1> DEFINE h == [pays[i] EXCEPT !.pc = "wait"]
<1>1. pays[i] \in Pay
  BY PayTyped DEF IInv
<1>2. /\ h \in Pay /\ h.page = pays[i].page /\ h.route = pays[i].route
      /\ h.amount = pays[i].amount /\ h.pc = "wait" /\ h.told = pays[i].told
      /\ h.cursor = pays[i].cursor
      /\ h.lastValid = pays[i].lastValid
  BY <1>1 DEF Pay
<1>3. SetPay(i, h)
  BY DEF PollFails
<1> HIDE DEF h
<1>4. QED
  BY <1>2, <1>3, GoOnStep DEF PollFails, IInv, WatchBehind

(* Running out of polls keeps the invariant: the outcome is "unknown". *)
LEMMA GiveUpStep ==
  ASSUME IInv, NEW i \in DOMAIN pays, GiveUp(i) PROVE IInv'
BY EndStep DEF GiveUp, Outcomes

(* The scan: an expired blockhash whose transfer had landed would have been   *)
(* found, since the watch is behind it and the height was finalized.          *)
LEMMA ScanStep ==
  ASSUME IInv, NEW i \in DOMAIN pays, Scan(i) PROVE IInv'
<1>0. /\ pays[i].pc = "scan" /\ UNCHANGED <<world, queue>>
      /\ pays[i] \in Pay
      /\ tip \in Nat /\ final \in Nat /\ final <= tip
  BY PayTyped DEF Scan, IInv, WellTyped
<1>i. /\ pays[i].lastValid \in Int /\ pays[i].cursor \in Int /\ pays[i].height \in Int
      /\ pays[i].height <= final
  BY <1>0 DEF Pay, IInv, WatchBehind
<1>m. ASSUME Matches(i) = {}, NEW t \in landed, t.pay = i
      PROVE  t.slot > final
  <2>1. t.slot \in Nat /\ pays[i].cursor <= t.slot
    BY <1>m, <1>0 DEF IInv, WellTyped, WatchBehind
  <2>2. t \notin Matches(i)
    BY <1>m
  <2>3. QED  BY <1>m, <1>0, <1>i, <2>1, <2>2 DEF Matches
<1>1. CASE Matches(i) # {}
  <2>1. End(i, "confirmed", FALSE)
    BY <1>1 DEF Scan
  <2>2. QED  BY <1>0, <2>1, EndStep DEF Outcomes
<1>2. CASE Matches(i) = {} /\ Expired(i)
  <2>1. End(i, "expired", TRUE)
    BY <1>2 DEF Scan
  <2>2. pays[i].lastValid < final
    BY <1>2, <1>0, <1>i DEF Expired
  <2>3. \A t \in landed : t.pay # i
    <3>1. SUFFICES ASSUME NEW t \in landed, t.pay = i PROVE FALSE
      OBVIOUS
    <3>2. t.slot \in Int /\ t.slot > final /\ t.slot <= pays[i].lastValid
      BY <1>2, <1>m, <3>1 DEF IInv, WellTyped, Relayed
    <3>3. QED  BY <1>0, <1>i, <2>2, <3>2
  <2>4. pays[i].lastValid < tip
    BY <1>0, <1>i, <2>2
  <2>5. QED  BY <1>0, <2>1, <2>3, <2>4, EndStep DEF Outcomes
<1>3. CASE Matches(i) = {} /\ ~ Expired(i)
  <2> DEFINE c == final + 1
             h == [pays[i] EXCEPT !.pc = "wait", !.cursor = c]
  <2>1. SetPay(i, h) /\ UNCHANGED <<card, inFlight>>
    BY <1>3 DEF Scan
  <2>2. c \in Int /\ c <= final + 1 /\ \A t \in landed : t.pay = i => c <= t.slot
    <3>1. \A t \in landed : t.slot \in Int
      BY DEF IInv, WellTyped
    <3>2. QED  BY <1>0, <1>m, <1>3, <3>1
  <2> HIDE DEF c
  <2>3. /\ h \in Pay /\ h.page = pays[i].page /\ h.route = pays[i].route
        /\ h.amount = pays[i].amount /\ h.pc = "wait" /\ h.told = pays[i].told
        /\ h.cursor = c
        /\ h.lastValid = pays[i].lastValid
    BY <1>0, <2>2 DEF Pay
  <2> HIDE DEF h
  <2>4. QED
    BY <1>0, <2>1, <2>2, <2>3, GoOnStep DEF IInv
<1>4. QED  BY <1>1, <1>2, <1>3

-----------------------------------------------------------------------------
(* The steps of the network and of the payer                               *)

(* The chain including a relayed transfer keeps the invariant. *)
LEMMA MineStep == IInv /\ Mine => IInv'
<1> SUFFICES ASSUME IInv, Mine PROVE IInv'
  OBVIOUS
<1>1. UNCHANGED <<env, final, landed, card, inFlight, pays, queue>> /\ tip \in Nat /\ tip' = tip + 1
  BY DEF Mine, IInv, WellTyped
<1>2. WellTyped'
  <2>1. final' \in 0..tip' /\ \A t \in landed' : t.slot \in 1..tip'
    BY <1>1 DEF IInv, WellTyped
  <2>2. QED  BY <1>1, <2>1 DEF IInv, WellTyped
<1>3. ExpiredForGood'
  <2>1. \A i \in DOMAIN pays : pays[i].lastValid \in Int
    BY PayTyped DEF IInv, Pay
  <2>2. QED  BY <1>1, <2>1 DEF IInv, ExpiredForGood
<1>4. FlagHeld' /\ Relayed' /\ WatchBehind' /\ ExpiredMeansUnpaid'
  BY <1>1 DEF IInv, FlagHeld, Relayed, Submitted, WatchBehind, ExpiredMeansUnpaid
<1>5. QED  BY <1>2, <1>3, <1>4 DEF IInv

(* The finalized head moving up keeps the invariant. *)
LEMMA FinalizeStep == IInv /\ Finalize => IInv'
<1> SUFFICES ASSUME IInv, Finalize PROVE IInv'
  OBVIOUS
<1>1. /\ UNCHANGED <<env, tip, landed, card, inFlight, pays, queue>>
      /\ final \in Nat /\ tip \in Nat /\ final < tip /\ final' = final + 1
  BY DEF Finalize, IInv, WellTyped
<1>2. WellTyped'
  BY <1>1 DEF IInv, WellTyped
<1>3. WatchBehind'
  <2>1. \A i \in DOMAIN pays : pays[i].cursor \in Int /\ pays[i].height \in Int
    BY PayTyped DEF IInv, Pay
  <2>2. QED  BY <1>1, <2>1 DEF IInv, WatchBehind
<1>4. FlagHeld' /\ Relayed' /\ ExpiredForGood' /\ ExpiredMeansUnpaid'
  BY <1>1 DEF IInv, FlagHeld, Relayed, Submitted, ExpiredForGood, ExpiredMeansUnpaid
<1>5. QED  BY <1>2, <1>3, <1>4 DEF IInv

(* The keeper is late or early: an expired payment no longer lands, and what  *)
(* lands is ahead of the watch.                                               *)
LEMMA LandStep ==
  ASSUME IInv, NEW q \in queue, Land(q) PROVE IInv'
<1> DEFINE l == [pay |-> q.pay, slot |-> tip + 1]
<1>1. /\ UNCHANGED <<env, final, card, inFlight, pays, queue>>
      /\ tip \in Nat /\ final \in Nat /\ final <= tip
      /\ tip' = tip + 1 /\ landed' = landed \cup {l}
      /\ tip + 1 <= pays[q.pay].lastValid
  BY DEF Land, IInv, WellTyped
<1>2. l.pay = q.pay /\ l.slot = tip + 1
  OBVIOUS
<1>3. Submitted(q.pay) /\ q.pay \in DOMAIN pays
  BY DEF IInv, Relayed, Submitted
<1>4. \A i \in DOMAIN pays : pays[i].cursor \in Int /\ pays[i].height \in Int /\ pays[i].lastValid \in Int
  BY PayTyped DEF IInv, Pay
<1> HIDE DEF l
<1>5. WellTyped'
  <2>1. final' \in 0..tip' /\ \A t \in landed' : t.slot \in 1..tip'
    BY <1>1, <1>2 DEF IInv, WellTyped
  <2>2. QED  BY <1>1, <2>1 DEF IInv, WellTyped
<1>6. Relayed'
  BY <1>1, <1>2, <1>3 DEF IInv, Relayed, Submitted
<1>7. WatchBehind'
  BY <1>1, <1>2, <1>4 DEF IInv, WatchBehind
<1>8. ExpiredForGood'
  BY <1>1, <1>4 DEF IInv, ExpiredForGood
<1>9. ExpiredMeansUnpaid'
  <2>1. pays[q.pay].told # "expired"
    BY <1>1, <1>3, <1>4 DEF IInv, ExpiredForGood
  <2>2. QED  BY <1>1, <1>2, <2>1 DEF IInv, ExpiredMeansUnpaid
<1>10. FlagHeld'
  BY <1>1 DEF IInv, FlagHeld
<1>11. QED  BY <1>5, <1>6, <1>7, <1>8, <1>9, <1>10 DEF IInv

(* Redrawing a card detaches the running handlers from it and changes nothing *)
(* else of theirs.                                                            *)
LEMMA DrawStep ==
  ASSUME IInv, NEW p \in Pages, NEW c \in Cards, Draw(p, c), UNCHANGED <<world, queue>>
  PROVE  IInv'
<1>1. UNCHANGED <<env, tip, final, landed, inFlight, queue>>
  BY DEF Draw, world
<1>2. card' \in [Pages -> Cards]
  <2>1. [c EXCEPT !.enabled = c.gasless] \in Cards
    BY DEF Cards
  <2>2. QED  BY <2>1 DEF Draw, IInv, WellTyped
<1>3. \A i \in DOMAIN pays : pays[i] \in Pay
  BY PayTyped DEF IInv
<1>4. DOMAIN pays' = DOMAIN pays /\ \A i \in DOMAIN pays : 
        pays'[i] = IF pays[i].page = p THEN [pays[i] EXCEPT !.shown = FALSE] ELSE pays[i]
  BY DEF Draw
<1>5. \A i \in DOMAIN pays :
        /\ pays'[i] \in Pay
        /\ pays'[i].page = pays[i].page /\ pays'[i].route = pays[i].route
        /\ pays'[i].amount = pays[i].amount /\ pays'[i].pc = pays[i].pc
        /\ pays'[i].lastValid = pays[i].lastValid
        /\ pays'[i].cursor = pays[i].cursor /\ pays'[i].height = pays[i].height
        /\ pays'[i].told = pays[i].told
  <2> TAKE i \in DOMAIN pays
  <2> DEFINE h == [pays[i] EXCEPT !.shown = FALSE]
  <2>1. /\ h \in Pay
        /\ h.page = pays[i].page /\ h.route = pays[i].route
        /\ h.amount = pays[i].amount /\ h.pc = pays[i].pc
        /\ h.lastValid = pays[i].lastValid
        /\ h.cursor = pays[i].cursor /\ h.height = pays[i].height
        /\ h.told = pays[i].told
    BY <1>3 DEF Pay
  <2> HIDE DEF h
  <2>2. pays'[i] = pays[i] \/ pays'[i] = h
    BY <1>4 DEF h
  <2>3. QED  BY <1>3, <2>1, <2>2
<1>6. pays' \in Seq(Pay)
  <2>1. pays \in Seq(Pay) /\ DOMAIN pays = 1..Len(pays) /\ Len(pays) \in Nat
    BY DEF IInv, WellTyped
  <2>2. pays' \in [1..Len(pays) -> Pay]
    BY <1>4, <1>5, <2>1 DEF Draw
  <2>3. QED  BY <2>1, <2>2
<1>7. WellTyped'
  BY <1>1, <1>2, <1>6 DEF IInv, WellTyped
<1>8. FlagHeld'
  BY <1>1, <1>4, <1>5 DEF IInv, FlagHeld
<1>9. Relayed'
  BY <1>1, <1>4, <1>5 DEF IInv, Relayed, Submitted
<1>10. WatchBehind'
  BY <1>1, <1>4, <1>5 DEF IInv, WatchBehind
<1>11. ExpiredForGood' /\ ExpiredMeansUnpaid'
  BY <1>1, <1>4, <1>5 DEF IInv, ExpiredForGood, ExpiredMeansUnpaid
<1>12. QED
  BY <1>7, <1>8, <1>9, <1>10, <1>11 DEF IInv

(* The payer choosing another route keeps the invariant. *)
LEMMA SelectRouteStep ==
  ASSUME IInv, NEW p \in Pages, NEW r \in env.routes, SelectRoute(p, r) PROVE IInv'
<1>1. r \in DOMAIN Routes /\ card[p] \in Cards
  BY CheckoutAssumption DEF IInv, WellTyped
<1>2. [card[p] EXCEPT !.route = r] \in Cards
  BY <1>1 DEF Cards
<1>3. QED  BY <1>2, DrawStep DEF SelectRoute

(* The payer toggling gasless keeps the invariant. *)
LEMMA ToggleGaslessStep ==
  ASSUME IInv, NEW p \in Pages, ToggleGasless(p) PROVE IInv'
<1>1. card[p] \in Cards
  BY DEF IInv, WellTyped
<1> DEFINE b == ~ card[p].gasless
<1>2. b \in BOOLEAN
  OBVIOUS
<1>3. Draw(p, [card[p] EXCEPT !.gasless = b])
  BY DEF ToggleGasless
<1> HIDE DEF b
<1>4. [card[p] EXCEPT !.gasless = b] \in Cards
  BY <1>1, <1>2 DEF Cards
<1>5. QED  BY <1>3, <1>4, DrawStep DEF ToggleGasless

(* A new handler: the flag was down, so the page has no other one that has    *)
(* not ended.                                                                 *)
LEMMA ClickStep ==
  ASSUME IInv, NEW p \in Pages, NEW t \in Typed, Click(p, t) PROVE IInv'
<1> DEFINE n == Len(pays) + 1
           a == ParseDecimalToRawUnits(t, Decimals)
           h == [page |-> p, route |-> card[p].route, amount |-> a,
                 pc |-> "prepare", lastValid |-> 0, cursor |-> 0,
                 polls |-> 0, height |-> 0, shown |-> TRUE, told |-> None]
<1>1. /\ UNCHANGED <<env, tip, final, landed, queue>>
      /\ inFlight' = [inFlight EXCEPT ![p] = TRUE] /\ ~ inFlight[p]
      /\ card' = [card EXCEPT ![p].enabled = FALSE]
      /\ pays' = Append(pays, h)
  BY DEF Click, world
<1>2. /\ card \in [Pages -> Cards] /\ card[p] \in Cards /\ card[p].route \in DOMAIN Routes \cup {None}
      /\ inFlight \in [Pages -> BOOLEAN] /\ final \in Nat
      /\ pays \in Seq(Pay) /\ DOMAIN pays = 1..Len(pays) /\ Len(pays) \in Nat
  BY DEF IInv, WellTyped, Cards
<1>3. a \in {ParseDecimalToRawUnits(x, Decimals) : x \in Typed}
  OBVIOUS
<1> HIDE DEF a
<1>4. h \in Pay
  BY <1>2, <1>3 DEF Pay
<1>5. /\ h.page = p /\ h.pc = "prepare" /\ h.cursor = 0
      /\ h.told = None /\ h.told # "expired"
  BY CheckoutAssumption
<1> HIDE DEF h
<1>6. /\ pays' \in Seq(Pay) /\ DOMAIN pays' = DOMAIN pays \cup {n} /\ n \notin DOMAIN pays
      /\ pays'[n] = h /\ \A j \in DOMAIN pays : pays'[j] = pays[j]
  BY <1>1, <1>2, <1>4
<1> HIDE DEF n
<1>7. WellTyped'
  <2>1. [card[p] EXCEPT !.enabled = FALSE] \in Cards
    BY <1>2 DEF Cards
  <2>2. card' \in [Pages -> Cards] /\ inFlight' \in [Pages -> BOOLEAN]
    BY <1>1, <1>2, <2>1
  <2>3. QED  BY <1>1, <1>6, <2>2 DEF IInv, WellTyped
<1>8. FlagHeld'
  <2>1. \A j \in DOMAIN pays : pays[j].page \in Pages
    BY PayTyped DEF IInv, Pay
  <2>2. \A j \in DOMAIN pays : pays[j].page = p => pays[j].pc = "done"
    BY <1>1 DEF IInv, FlagHeld
  <2>3. \A j, k \in DOMAIN pays' :
          pays'[j].page = pays'[k].page /\ pays'[j].pc # "done" /\ pays'[k].pc # "done" => j = k
    BY <1>5, <1>6, <2>2 DEF IInv, FlagHeld
  <2>4. \A j \in DOMAIN pays' : pays'[j].pc # "done" => inFlight'[pays'[j].page]
    <3>1. inFlight'[p]
      BY <1>1, <1>2
    <3>2. \A x \in Pages : inFlight[x] => inFlight'[x]
      BY <1>1, <1>2
    <3>3. QED  BY <1>5, <1>6, <2>1, <3>1, <3>2 DEF IInv, FlagHeld
  <2>5. QED  BY <2>3, <2>4 DEF FlagHeld
<1>9. Relayed'
  BY <1>1, <1>6 DEF IInv, Relayed, Submitted
<1>10. WatchBehind'
  <2>1. \A x \in landed : x.pay # n
    BY <1>6 DEF IInv, Relayed, Submitted
  <2>2. 0 <= final + 1
    BY <1>2
  <2>3. QED  BY <1>1, <1>5, <1>6, <2>1, <2>2 DEF IInv, WatchBehind
<1>11. ExpiredForGood' /\ ExpiredMeansUnpaid'
  BY <1>1, <1>5, <1>6 DEF IInv, ExpiredForGood, ExpiredMeansUnpaid
<1>12. QED
  BY <1>7, <1>8, <1>9, <1>10, <1>11 DEF IInv

-----------------------------------------------------------------------------
(* Every step keeps the invariant: one case per action. *)
LEMMA NextInv == IInv /\ [Next]_vars => IInv'
<1> SUFFICES ASSUME IInv, [Next]_vars PROVE IInv'
  OBVIOUS
<1>1. CASE Mine \/ Finalize
  BY <1>1, MineStep, FinalizeStep
<1>2. CASE \E q \in queue : Land(q)
  BY <1>2, LandStep
<1>3. CASE \E p \in Pages : \/ \E r \in env.routes : SelectRoute(p, r)
                            \/ ToggleGasless(p)
                            \/ \E t \in Typed : Click(p, t)
  BY <1>3, SelectRouteStep, ToggleGaslessStep, ClickStep
<1>4. CASE \E i \in DOMAIN pays : \/ PayFails(i) \/ PrepareStarknet(i) \/ PrepareEvm(i)
                                  \/ PrepareSolana(i) \/ Sign(i) \/ RelayStep(i)
  BY <1>4, PayFailsStep, PrepareStarknetStep, PrepareEvmStep, PrepareSolanaStep, SignStep,
     SubmitStep, SubmitLostStep, RefusedStep, ReadHeightStep, ScanStep,
     PollFailsStep, GiveUpStep
  DEF RelayStep
<1>5. CASE UNCHANGED vars
  BY <1>5
  DEF vars, IInv, WellTyped, FlagHeld, Relayed, Submitted, WatchBehind, ExpiredForGood,
      ExpiredMeansUnpaid
<1>6. QED  BY <1>1, <1>2, <1>3, <1>4, <1>5 DEF Next

(* The inductive invariant of the checkout page.                              *)
THEOREM Invariance == Spec => []IInv
BY InitInv, NextInv, PTL DEF Spec

(* However often the payer redraws the card, a page has at most one payment   *)
(* with the wallet or the network: the flag of renderCard outlives the card   *)
(* (pay.js:294).                                                              *)
THEOREM OnePayment == Spec => []OneInFlight
<1>1. IInv => OneInFlight
  <2> SUFFICES ASSUME IInv, NEW p \in Pages
               PROVE  Cardinality({i \in DOMAIN pays : pays[i].page = p /\ pays[i].pc # "done"}) <= 1
    BY DEF OneInFlight
  <2> DEFINE S == {i \in DOMAIN pays : pays[i].page = p /\ pays[i].pc # "done"}
  <2>1. CASE S = {}
    BY <2>1, FS_EmptySet
  <2>2. CASE S # {}
    <3>1. PICK i \in S : TRUE
      BY <2>2
    <3>2. S = {i}
      BY <3>1 DEF IInv, FlagHeld
    <3> HIDE DEF S
    <3>3. Cardinality(S) = 1
      BY <3>2, FS_Singleton
    <3>4. QED  BY <3>3 DEF S
  <2>3. QED  BY <2>1, <2>2
<1>2. QED  BY <1>1, Invariance, PTL

(* "Nothing was sent" is true for good: the height that proves the blockhash  *)
(* dead is read before the scan that looks for the transfer, and a dead       *)
(* blockhash cannot land however late the keeper is (gasless.js:375).         *)
THEOREM SafeToRetry == Spec => []ExpiredMeansUnpaid
<1>1. IInv => ExpiredMeansUnpaid
  BY DEF IInv
<1>2. QED  BY <1>1, Invariance, PTL
===============================================================================
