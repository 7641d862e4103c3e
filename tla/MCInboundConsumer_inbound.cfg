CONSTANTS
    Consumers = {c1, c2}
    Messages = {1, 2}
    Mails <- SettleMails
    Posts <- SettlePosts
    Wallets = {w1, w2}
    Founded = {w2}
    Stoppable = {c1}
    MaxReceives = 2
    NONE = NONE
    w1 = w1
    w2 = w2
SPECIFICATION FairSpec
INVARIANTS TypeOK NothingLost OneEffect BuriedRightly RecoveryOnlyReads
PROPERTIES SettlementSafe SettlementLive
