----------------------------- MODULE AsyncMutex -----------------------------
(***************************************************************************)
(* AsyncMutex (async.cpp, async.hpp): a mutex for coroutines.  A waiter    *)
(* lists a channel of its own, and release writes to every listed channel, *)
(* each write in a coroutine of its own; who is woken tries again.         *)
(***************************************************************************)
EXTENDS Naturals, FiniteSets

CONSTANTS
    Task,       \* the coroutines that use the mutex
    MaxCalls    \* bound: how often each of them calls accquire

ASSUME MutexAssumption == MaxCalls \in Nat

VARIABLES
    busy,       \* m_busy
    listed,     \* the tasks whose channel is in m_busy_chans
    writes,     \* the writes to each task's channel that nobody has read
    pc,         \* where each task is
    closer,     \* the state of the closer each task passed to accquire
    calls       \* how often each task has called accquire

vars == <<busy, listed, writes, pc, closer, calls>>

\* "try": about to enter the locked section.  "read": in chan_read.
\* "check": it has read, and looks at its closer.
PC == {"idle", "try", "read", "check", "hold"}

Closer == {"open", "stopped", "closed", "timeout"}

\* Types: the state keeps its types; a channel is never read more often than it
\* was written.
TypeOK ==
    /\ busy \in BOOLEAN
    /\ listed \subseteq Task
    /\ writes \in [Task -> Nat]
    /\ pc \in [Task -> PC]
    /\ closer \in [Task -> Closer]
    /\ calls \in [Task -> Nat]

Init ==
    /\ busy = FALSE
    /\ listed = {}
    /\ writes = [t \in Task |-> 0]
    /\ pc = [t \in Task |-> "idle"]
    /\ closer = [t \in Task |-> "open"]
    /\ calls = [t \in Task |-> 0]

Goto(t, l) == pc' = [pc EXCEPT ![t] = l]

----------------------------------------------------------------------------
\* accquire, with a channel nobody else has and a closer in any state.  The
\* channel of a call that was cancelled stays in m_busy_chans, and the writes to
\* it are never read; nothing refers to it any more.
Call(t) ==
    /\ pc[t] = "idle"
    /\ calls[t] < MaxCalls
    /\ calls' = [calls EXCEPT ![t] = @ + 1]
    /\ Goto(t, "try")
    /\ listed' = listed \ {t}
    /\ writes' = [writes EXCEPT ![t] = 0]
    /\ closer' = [closer EXCEPT ![t] = "open"]
    /\ UNCHANGED busy

\* Mutation: m_busy is not looked at.
AccquireBusy(t) ==
    /\ pc[t] = "try"
    /\ busy' = TRUE
    /\ listed' = listed \ {t}
    /\ Goto(t, "hold")
    /\ UNCHANGED <<writes, closer, calls>>

\* The locked section finds the mutex free.
Accquire(t) ==
    /\ pc[t] = "try"
    /\ ~ busy
    /\ busy' = TRUE
    /\ listed' = listed \ {t}
    /\ Goto(t, "hold")
    /\ UNCHANGED <<writes, closer, calls>>

\* Mutation: a task that tries again is not listed any more.
EnlistOnce(t) ==
    /\ pc[t] = "try"
    /\ busy
    /\ listed' = IF t \in listed THEN listed \ {t} ELSE listed \cup {t}
    /\ Goto(t, "read")
    /\ UNCHANGED <<busy, writes, closer, calls>>

\* The locked section finds it busy; then chan_read.
Enlist(t) ==
    /\ pc[t] = "try"
    /\ busy
    /\ listed' = listed \cup {t}
    /\ Goto(t, "read")
    /\ UNCHANGED <<busy, writes, closer, calls>>

\* chan_read takes one of the writes; an old one serves as well as a new one.
Read(t) ==
    /\ pc[t] = "read"
    /\ writes[t] > 0
    /\ closer[t] \notin {"closed", "timeout"}
    /\ writes' = [writes EXCEPT ![t] = @ - 1]
    /\ Goto(t, "check")
    /\ UNCHANGED <<busy, listed, closer, calls>>

\* select, once it has read: it waits while the closer is stopped.
Woken(t) ==
    /\ pc[t] = "check"
    /\ closer[t] # "stopped"
    /\ Goto(t, IF closer[t] = "closed" THEN "idle" ELSE "try")
    /\ UNCHANGED <<busy, listed, writes, closer, calls>>

\* chan_read is cancelled: accquire returns false.
Cancel(t) ==
    /\ pc[t] = "read"
    /\ closer[t] \in {"closed", "timeout"}
    /\ Goto(t, "idle")
    /\ UNCHANGED <<busy, listed, writes, closer, calls>>

\* Mutation: one waiter is woken.
ReleaseOne(t) ==
    /\ pc[t] = "hold"
    /\ busy' = FALSE
    /\ \/ listed = {} /\ UNCHANGED writes
       \/ \E u \in listed : writes' = [writes EXCEPT ![u] = @ + 1]
    /\ Goto(t, "idle")
    /\ UNCHANGED <<listed, closer, calls>>

\* release, in the locked section that spawns the writes.
Release(t) ==
    /\ pc[t] = "hold"
    /\ busy' = FALSE
    /\ writes' = [u \in Task |-> IF u \in listed THEN writes[u] + 1
                                 ELSE writes[u]]
    /\ Goto(t, "idle")
    /\ UNCHANGED <<listed, closer, calls>>

\* What others do to the closer of a task that waits.
Closes(t) ==
    /\ pc[t] \in {"try", "read", "check"}
    /\ \/ /\ closer[t] \in {"open", "stopped"}
          /\ \E s \in {"closed", "timeout"} : closer' = [closer EXCEPT ![t] = s]
       \/ /\ closer[t] = "open"
          /\ closer' = [closer EXCEPT ![t] = "stopped"]
       \/ /\ closer[t] = "stopped"
          /\ closer' = [closer EXCEPT ![t] = "open"]
    /\ UNCHANGED <<busy, listed, writes, pc, calls>>

----------------------------------------------------------------------------
Waits(t) == Accquire(t) \/ Enlist(t) \/ Read(t) \/ Woken(t) \/ Cancel(t)

Next == \E t \in Task : Call(t) \/ Waits(t) \/ Release(t) \/ Closes(t)

Spec == Init /\ [][Next]_vars

\* The executor runs every ready coroutine, and every holder releases (by a
\* DEFER); a closer that is stopped may stay so.
FairSpec == Spec /\ \A t \in Task : WF_vars(Waits(t)) /\ WF_vars(Release(t))

----------------------------------------------------------------------------
\* Two tasks never hold the mutex, and m_busy says whether one does.
MutualExclusion ==
    /\ \A t, u \in Task : pc[t] = "hold" /\ pc[u] = "hold" => t = u
    /\ busy <=> \E t \in Task : pc[t] = "hold"

\* No lost wakeup: when the mutex is free every task that waits has a write to
\* read, so it does not depend on another one that was woken and is cancelled.
NoLostWakeup ==
    \A t \in Task : pc[t] = "read" /\ ~ busy => writes[t] > 0

\* What makes both inductive.
MutexInv ==
    /\ MutualExclusion
    /\ NoLostWakeup
    /\ \A t \in Task : pc[t] = "read" => t \in listed

\* A free mutex that somebody waits for is taken, or nobody waits any more (the
\* task whose closer is stopped waits for its resume).
FreeIsTaken ==
    (~ busy /\ \E t \in Task : pc[t] \in {"try", "read"})
        ~> (busy \/ \A t \in Task : pc[t] \notin {"try", "read"})

\* Refinement: the holder and those between the call and its return are a Lock.
L == INSTANCE Lock WITH
        holding <- {t \in Task : pc[t] = "hold"},
        waiting <- {t \in Task : pc[t] \in {"try", "read", "check"}}

\* accquire and release implement the abstract lock.
ImplementsLock == L!LockSpec
=============================================================================
