SPECIFICATION Spec
CONSTANTS
    t1 = t1
    t2 = t2
    n1 = n1
    n2 = n2
    n3 = n3
    n4 = n4
    Thieves <- OneThief
    Nodes <- FourNodes
    NoNode = NoNode
    InitialCapacity = 2
    TaskFreeListCapacity = 1
    MaxPushes = 3
INVARIANTS DeliveredExactlyOnce
