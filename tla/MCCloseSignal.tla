--------------------------- MODULE MCCloseSignal ---------------------------
EXTENDS CloseSignal, TLC

CONSTANTS a, b, c, d, e,     \* closers, callers and coroutines
          u, v,
          w1, w2

\* Two callers create children and close; one of them stops and resumes as well,
\* as CfgoSrc does under its mutex.
CloseOps ==
    (u :> {"create", "close", "stop", "stopNoTimer", "resume"}) @@ (v :> {"create", "close"})

LiveOps == (u :> {"setTimeout", "create", "close"}) @@ (v :> {"stop", "resume", "close"})

MoveOps == [x \in Caller |-> {"setTimeout", "moveTimeout"}]

AllHandles == [x \in Caller |-> Node]

\* The caller that stops and resumes only knows the root.
RootHandle == (u :> {Root}) @@ (v :> Node)

Symmetry == Permutations(Node \ {Root}) \cup Permutations(Coro)
=============================================================================
