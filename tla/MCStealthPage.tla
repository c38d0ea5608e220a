--------------------------- MODULE MCStealthPage ---------------------------
(* Small instances of StealthPage: lanes of each kind, with and without what *)
(* a complete lane record keeps (the passkey and the cosigner).              *)
EXTENDS StealthPage
CONSTANTS p1, p2, c1, c2, wallet, fresh

Lane(id, kind, prf, snapshot) ==
    [id |-> id, kind |-> kind, by |-> c1, prf |-> prf, cosigner |-> 1, snapshot |-> snapshot]
E(lanes, funds, pages, dests, root, rotates, fails) ==
    [lanes |-> lanes, funds |-> funds, pages |-> pages, dests |-> dests, root |-> root, rotates |-> rotates, fails |-> fails]
MCScenes ==
    {E({Lane("a", "starknet", c1, TRUE)}, 1, {p1, p2}, {wallet}, c1, FALSE, FALSE),
     E({Lane("a", "starknet", c1, TRUE)}, 2, {p1}, {wallet}, c1, FALSE, TRUE),
     E({Lane("a", "starknet", c1, TRUE), Lane("b", "evm", c1, TRUE)}, 1, {p1}, {wallet}, c1, FALSE, FALSE),
     E({Lane("a", "evm", Nothing, FALSE)}, 2, {p1}, {wallet}, c2, TRUE, FALSE),
     E({Lane("a", "evm", c1, FALSE)}, 2, {p1}, {wallet}, c2, TRUE, TRUE),
     E({Lane("a", "solana", Nothing, TRUE)}, 2, {p1}, {wallet, fresh, Own}, Nothing, TRUE, FALSE)}
MCDestinations == {wallet, fresh, Own}
MCHasTokenAccount == {wallet}
============================================================================
