SPECIFICATION Spec
CONSTANTS
    Calls = {c1, c2, c3, c4}
    Delayed = {c4}
    Throwing = {c1, c2}
    MaxWorkers = 2
    NoCall = NoCall
INVARIANTS
    PoolIsSound
    AnswersAreTheirOwn
    TransactionsEnd
PROPERTIES
    RunningCallsEndOrFail
