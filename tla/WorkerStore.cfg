SPECIFICATION FairSpec
CONSTANTS
    Keys = {k1, k2}
    Items = {a, empty}
    EmptyString = empty
    Seconds = {2}
    MaxNumber = 1
    MaxLength = 2
INVARIANTS
    TypeOK
    EveryTimerIsItsKeys
PROPERTIES
    OnlyTheLastExpireRemoves
    ExpiringKeysGo
