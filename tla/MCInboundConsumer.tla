-------------------------- MODULE MCInboundConsumer ------------------------
(***************************************************************************)
(* Small instances of InboundConsumer.                                     *)
(***************************************************************************)
EXTENDS InboundConsumer, TLC

CONSTANTS w1, w2

Letter(id, fate, key, ext, wallet, amount) ==
    [id |-> id, fate |-> fate, key |-> key, ext |-> ext, wallet |-> wallet, amount |-> amount]

Operation(key, ext, wallet, amount) ==
    [key |-> key, ext |-> ext, wallet |-> wallet, amount |-> amount]

\* One messageId on two bodies, for two wallets, with one key.
OneIdTwoBodies == <<
    Letter("a", "doubtful", "k1", "e1", w1, 1),
    Letter("a", "sound", "k1", "e1", w2, 1)>>

\* The same command twice, under ids of its own.
OneCommandTwoIds == <<
    Letter("a", "sound", "k1", "e1", w1, 1),
    Letter("b", "sound", "k1", "e1", w1, 1)>>

\* One key for two wallets, under ids of their own.
OneKeyTwoWallets == <<
    Letter("a", "sound", "k1", "e1", w1, 1),
    Letter("b", "sound", "k1", "e2", w2, 1)>>

\* A body that cannot be parsed before one that uses the external id of another.
BadMail == <<
    Letter("a", "malformed", "k1", "e1", w2, 1),
    Letter("a", "refused", "k2", "e1", w2, 1)>>

SettleMails == {OneIdTwoBodies, OneCommandTwoIds, OneKeyTwoWallets, BadMail}
SettlePosts == {Operation("k1", "e1", w1, 1)}
=============================================================================
