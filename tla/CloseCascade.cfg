CONSTANTS
    a = a  b = b  c = c  d = d  e = e  u = u  v = v  w1 = w1  w2 = w2
    Root = a
    NoNode = NoNode
    Node = {a, b, c}
    Caller = {u, v}
    Coro = {w1}
    Ops <- CloseOps
    Handles <- RootHandle
    Kinds = {"await", "select", "throw"}
    Duration = {1}
    MaxCalls = 3
    MaxData = 1
SPECIFICATION Spec
CHECK_DEADLOCK FALSE
SYMMETRY Symmetry
INVARIANTS NoOrphan NoLostWakeup NoStoppedUnderRunning
