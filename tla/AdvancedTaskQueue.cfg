SPECIFICATION Spec
CONSTANTS
    Tasks = {t1, t2, t3, t4}
    NoTask = NoTask
    Priorities = {0, 1}
    Delays = {0, 1}
    MaxNow = 1
    MaxPending = 2
SYMMETRY TaskSymmetry
INVARIANTS
    TypeOK
    HeapOrdered
    KeysMatchHeap
    LockServesAll
PROPERTIES
    
    ImplementsTaskQueue
