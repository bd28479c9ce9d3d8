CONSTANTS
    a = a  b = b  c = c  d = d  e = e  u = u  v = v  w1 = w1  w2 = w2
    Root = a
    NoNode = NoNode
    Handles <- AllHandles
    Node = {a, b}
    Caller = {u, v}
    Coro = {w1}
    Ops <- LiveOps
    Kinds = {"await", "select"}
    Duration = {1, 2}
    MaxCalls = 2
    MaxData = 1
SPECIFICATION FairSpec
CHECK_DEADLOCK FALSE
INVARIANTS StopHoldsTimeout
PROPERTIES ClosedReleases TimeoutCloses CloseIsFinal
