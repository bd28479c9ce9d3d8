CONSTANTS
    a = a  b = b  c = c  d = d  e = e  u = u  v = v  w1 = w1  w2 = w2
    Root = a
    NoNode = NoNode
    Handles <- AllHandles
    Node = {a}
    Caller = {u}
    Coro = {w1}
    Ops <- MoveOps
    Kinds = {"await"}
    Duration = {1, 2}
    MaxCalls = 2
    MaxData = 1
SPECIFICATION FairSpec
CHECK_DEADLOCK FALSE
PROPERTY TimeoutCloses
