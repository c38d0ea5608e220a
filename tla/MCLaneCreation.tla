--------------------------- MODULE MCLaneCreation ---------------------------
(* A small instance of LaneCreation: Base, Starknet and Solana with the       *)
(* contracts they have today, Ethereum without its factory; two tabs; a       *)
(* backup file of the merchant's other device and one with a receiver that    *)
(* no factory answers with.                                                   *)
EXTENDS LaneCreation

CONSTANTS t1, t2

C(k, f, p, s) == [kind |-> k, factory |-> f, program |-> p, stealth |-> s]
MCChain == [c \in {"BASE", "ETHEREUM", "STARKNET", "SOLANA"} |->
    CASE c = "BASE" -> C("evm", TRUE, FALSE, TRUE)
      [] c = "ETHEREUM" -> C("evm", FALSE, FALSE, TRUE)
      [] c = "STARKNET" -> C("starknet", TRUE, FALSE, FALSE)
      [] c = "SOLANA" -> C("solana", FALSE, TRUE, FALSE)]

Typed(k) == [kind |-> k, n |-> 1]
Form(p, c, k) == [privacy |-> p, target |-> c, typed |-> Typed(k)]
Private == {Form(TRUE, "BASE", "evm")}
Mixed == {Form(FALSE, "STARKNET", "starknet"), Form(TRUE, "SOLANA", "evm")}
Rejected == {Form(TRUE, "ETHEREUM", "evm"), Form(FALSE, "BASE", "starknet"), Form(TRUE, "STARKNET", "evm")}
MCForms == Private \cup Mixed \cup Rejected

\* Lanes of a file: id 10 was made with the synced passkey 0, id 11 is a public
\* lane whose Starknet receiver belongs to another payout.
Account == StealthAccount(0, 10, "BASE", "k")
Payout == canonicalAddress("BASE", Typed("evm"))
Raw(id, p, a, rs) == [readable |-> TRUE,
    lane |-> [id |-> id, privacy |-> p, target |-> "BASE", recipient |-> a,
              merchant |-> IF p THEN None ELSE Typed("evm"),
              cred |-> IF p THEN 0 ELSE None, config |-> IF p THEN "k" ELSE None,
              receivers |-> rs, needsVerify |-> FALSE]]
Good == Raw(10, TRUE, Account, Receivers("BASE", Account) \cup SolanaLegs("BASE", Account))
Same == Raw(10, TRUE, Account, Receivers("BASE", Payout))
Bad == Raw(11, FALSE, Payout, Receivers("BASE", Account))
Foreign == <<Good, [readable |-> FALSE], Same>>
MCFiles == {Foreign, <<Same, Bad>>}
MCElsewhere == {<<"BASE", Account>>, <<"BASE", Payout>>}

E(faults, wrong, forms, files, tabs) ==
    [faults |-> faults, wrong |-> wrong, format |-> "pad64",
     forms |-> forms, files |-> files, tabs |-> tabs]
MCEnvironments ==
    {E({"restart"}, None, Private, {}, Tabs),
     E({"refuse"}, None, Mixed, {}, {t1}),
     E({"clear"}, None, Private, {Foreign}, {t1}),
     E({"refuse"}, "proxy", {}, MCFiles, Tabs),
     E({}, "direct", MCForms, {}, {t1}),
     [E({}, "proxy", Mixed, {Foreign}, {t1}) EXCEPT !.format = "min"]}
=============================================================================
