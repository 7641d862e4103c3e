----------------------------- MODULE MCWagering ----------------------------
(***************************************************************************)
(* Small instances of Wagering.  Each question has a set of commands and a *)
(* set of wallets of its own; a configuration picks them by name.          *)
(***************************************************************************)
EXTENDS Wagering, SerialWagering, TLC

CONSTANTS w1, w2

Command(ext, key, wallet, kind, amount, reference) ==
    [provider |-> "P", ext |-> ext, key |-> key, wallet |-> wallet,
     player |-> "ana", round |-> "R", kind |-> kind, amount |-> amount,
     currency |-> "BRL", ref |-> reference]

Opening(wallet, player, currency, initial) ==
    [wallet |-> wallet, player |-> player, currency |-> currency, initial |-> initial]

\* Two bets that the balance covers only once, a win on one of them, a win that
\* refers to itself, a win that the full balance has no room for, a loss, and a
\* bet in a currency the wallet does not have.
FundsRequests ==
    {Command("b1", "k1", w1, "BET", 2, NONE),
     Command("b2", "k2", w1, "BET", 2, NONE),
     Command("v1", "k3", w1, "WIN", 1, "b1"),
     Command("v2", "k6", w1, "WIN", 1, "v2"),
     Command("v3", "k7", w1, "WIN", 2, NONE),
     Command("l1", "k4", w1, "LOSS", 0, NONE),
     [Command("b3", "k5", w1, "BET", 1, NONE) EXCEPT !.currency = "USD"]}
FundsOpenings == {Opening(w1, "ana", "BRL", 3), Opening(w1, "ana", "BRL", 0)}

\* A bet with everything that may undo it, two refunds and a rollback, and what
\* may undo that.
ReversalRequests ==
    {Command("b1", "k1", w1, "BET", 2, NONE),
     Command("f1", "k2", w1, "REFUND", 2, "b1"),
     Command("f2", "k5", w1, "REFUND", 2, "b1"),
     Command("r1", "k3", w1, "ROLLBACK", 2, "b1"),
     Command("r2", "k4", w1, "ROLLBACK", 2, "f1")}
ReversalOpenings == {Opening(w1, "ana", "BRL", 2)}

\* References that are wrong: of another wallet, of another amount, to an
\* operation that is refused, to a win that is already spent.
\* And one external id and one key, each used a second time for something
\* else, on the same wallet and on another one.
ReferenceRequests ==
    {Command("b1", "k1", w1, "BET", 2, NONE),
     [Command("f1", "k2", w2, "REFUND", 2, "b1") EXCEPT !.player = "bia"],
     Command("f2", "k3", w1, "REFUND", 1, "b1"),
     Command("v1", "k4", w1, "WIN", 2, NONE),
     Command("r1", "k5", w1, "ROLLBACK", 2, "v1"),
     Command("b1", "k1", w1, "BET", 1, NONE),
     [Command("b1", "k8", w2, "BET", 1, NONE) EXCEPT !.player = "bia"],
     [Command("b2", "k1", w2, "BET", 1, NONE) EXCEPT !.player = "bia"]}
TwoWallets == {Opening(w1, "ana", "BRL", 2), Opening(w2, "bia", "BRL", 1)}

\* One key and one external id sent twice, for different amounts: docs say the
\* second is a payload conflict.
SameKeyRequests ==
    {Command("e1", "k1", w1, "BET", 1, NONE), Command("e1", "k1", w1, "BET", 2, NONE)}

Symmetry == Permutations(Calls) \cup Permutations(Workers)
=============================================================================
