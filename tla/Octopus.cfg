SPECIFICATION OctopusSpec
CONSTANTS
    set = set
    get = get
    del = del
    key = key
    other = other
    value = value
    Calls = {set, get, del}
    Tasks <- MCTasks
    DataOf <- MCDataOf
    Delayed = {}
    Throwing = {}
    MaxWorkers = 1
    NoCall = NoCall
    NoTask = NoTask
    ThrowOnUnhandled = FALSE
    Nothing = Nothing
INVARIANT
    GetsFindWhatWasSet
