CONSTANTS
    Wallets = {w1, w2}
    EntryIds = {1, 2, 3, 4}
    Instants = {1, 2, 3}
    Grain = 2
    Second = 4
    Limits <- SomeLimits
    DefaultLimit = 1
    MaxLimit = 2
    MaxListLimit = 3
    EMPTY = EMPTY
SPECIFICATION FairSpec
INVARIANTS PagesInOrder NothingSkipped PagesAreHistory
PROPERTY ListingEnds
