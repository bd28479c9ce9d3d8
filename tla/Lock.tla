-------------------------------- MODULE Lock --------------------------------
(***************************************************************************)
(* What a cancellable lock promises: one task at a time holds it, only who *)
(* asked gets it, and who waits may give up.                               *)
(***************************************************************************)
CONSTANT Task

VARIABLES holding, waiting

lockVars == <<holding, waiting>>

LockInit == holding = {} /\ waiting = {}

Ask(t) ==
    /\ t \notin holding \cup waiting
    /\ waiting' = waiting \cup {t}
    /\ UNCHANGED holding

Grant(t) ==
    /\ holding = {}
    /\ t \in waiting
    /\ holding' = {t}
    /\ waiting' = waiting \ {t}

GiveUp(t) ==
    /\ t \in waiting
    /\ waiting' = waiting \ {t}
    /\ UNCHANGED holding

Free(t) ==
    /\ t \in holding
    /\ holding' = holding \ {t}
    /\ UNCHANGED waiting

LockNext == \E t \in Task : Ask(t) \/ Grant(t) \/ GiveUp(t) \/ Free(t)

LockSpec == LockInit /\ [][LockNext]_lockVars
=============================================================================
