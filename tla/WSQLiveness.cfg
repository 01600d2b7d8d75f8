SPECIFICATION FairSpec
CONSTANTS
    t1 = t1
    t2 = t2
    n1 = n1
    n2 = n2
    n3 = n3
    n4 = n4
    Thieves <- TwoThieves
    Nodes <- TwoNodes
    NoNode = NoNode
    InitialCapacity = 1
    TaskFreeListCapacity = 1
    MaxPushes = 2
PROPERTIES EveryTaskClaimed
