SPECIFICATION FairQueueSpec
CONSTANTS
    Callers = {p1, p2, p3, p4}
    Poller = p4
    Payloads = {zero, job}
    Falsy = {zero}
    Ranks = {0, 1}
    NoItem = NoItem
    MaxEnqueues = 3
    MaxNow = 1
INVARIANTS
    TypeOK
    MutualExclusion
    WaitersAreServed
    KeysAreThoseQueued
PROPERTIES
    ImplementsFairLock
    EveryCallerEnters
    ItemsLeaveInTurn
    DelayedItemsLeave
