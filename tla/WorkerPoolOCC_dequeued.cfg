SPECIFICATION Spec
CONSTANTS
    c1 = c1
    c2 = c2
    c3 = c3
    c4 = c4
    c5 = c5
    incr = incr
    push = push
    get = get
    Calls = {c1, c2, c3, c4}
    Tasks = {incr, push, get}
    DataOf <- MCDataOf
    Delayed = {c4}
    Throwing = {push}
    MaxWorkers = 2
    NoCall = NoCall
    NoTask = NoTask
    ThrowOnUnhandled = FALSE
PROPERTY DequeuedTasksAreStarted
