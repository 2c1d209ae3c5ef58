SPECIFICATION Spec
CONSTANTS
    Calls = {c1, c2, c3, c4, c5, c6}
    Throwing = {c1, c2}
    MaxWorkers = 2
\* A client that has made its calls makes no more: the run then ends.
CHECK_DEADLOCK FALSE
INVARIANTS
    TypeOK
    LiveWorkersServeOneCall
    NoCallWaitsBesideAWorker
