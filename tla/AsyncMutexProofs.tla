-------------------------- MODULE AsyncMutexProofs --------------------------
(***************************************************************************)
(* Theorems about AsyncMutex, for any set of tasks.                        *)
(***************************************************************************)
EXTENDS AsyncMutex, TLAPS

LEMMA InitType == Init => TypeOK
<1> SUFFICES ASSUME Init PROVE TypeOK
  OBVIOUS
<1>1. busy \in BOOLEAN /\ listed \subseteq Task
  BY DEF Init
<1>2. writes \in [Task -> Nat] /\ calls \in [Task -> Nat]
  BY DEF Init
<1>3. pc \in [Task -> PC] /\ closer \in [Task -> Closer]
  BY DEF Init, PC, Closer
<1>4. QED BY <1>1, <1>2, <1>3 DEF TypeOK

LEMMA NextType == ASSUME TypeOK, [Next]_vars PROVE TypeOK'
<1>1. CASE UNCHANGED vars
  BY <1>1 DEF vars, TypeOK
<1>2. ASSUME NEW t \in Task, Call(t) PROVE TypeOK'
  BY <1>2 DEF Call, Goto, TypeOK, PC, Closer
<1>3. ASSUME NEW t \in Task, Waits(t) PROVE TypeOK'
  <2>1. CASE Accquire(t)
    BY <2>1 DEF Accquire, Goto, TypeOK, PC
  <2>2. CASE Enlist(t)
    BY <2>2 DEF Enlist, Goto, TypeOK, PC
  <2>3. CASE Read(t)
    <3>1. writes[t] - 1 \in Nat
      BY <2>3 DEF Read, TypeOK
    <3>2. QED BY <3>1, <2>3 DEF Read, Goto, TypeOK, PC
  <2>4. CASE Woken(t)
    BY <2>4 DEF Woken, Goto, TypeOK, PC
  <2>5. CASE Cancel(t)
    BY <2>5 DEF Cancel, Goto, TypeOK, PC
  <2>6. QED BY <1>3, <2>1, <2>2, <2>3, <2>4, <2>5 DEF Waits
<1>4. ASSUME NEW t \in Task, Release(t) PROVE TypeOK'
  <2>1. /\ pc' = [pc EXCEPT ![t] = "idle"]
        /\ writes' = [u \in Task |-> IF u \in listed THEN writes[u] + 1
                                     ELSE writes[u]]
        /\ busy' \in BOOLEAN /\ UNCHANGED <<listed, closer, calls>>
    BY <1>4 DEF Release, Goto
  <2>2. pc' \in [Task -> PC]
    BY <2>1 DEF TypeOK, PC
  <2>3. \A u \in Task : writes[u] \in Nat /\ writes[u] + 1 \in Nat
    BY DEF TypeOK
  <2>4. writes' \in [Task -> Nat]
    BY <2>1, <2>3
  <2>5. QED BY <2>1, <2>2, <2>4 DEF TypeOK
<1>5. ASSUME NEW t \in Task, Closes(t) PROVE TypeOK'
  <2>1. PICK s \in Closer : closer' = [closer EXCEPT ![t] = s]
    BY <1>5 DEF Closes, Closer
  <2>2. closer' \in [Task -> Closer]
    BY <2>1 DEF TypeOK
  <2>3. QED BY <1>5, <2>2 DEF Closes, TypeOK
<1>6. QED BY <1>1, <1>2, <1>3, <1>4, <1>5 DEF Next

\* The state keeps its types, whatever the tasks and their closers do.
THEOREM TypeCorrect == Spec => []TypeOK
<1>1. Init => TypeOK
  BY InitType
<1>2. TypeOK /\ [Next]_vars => TypeOK'
  BY NextType
<1>3. QED BY <1>1, <1>2, PTL DEF Spec

----------------------------------------------------------------------------
LEMMA InitMutex == Init => MutexInv
BY DEF Init, MutexInv, MutualExclusion, NoLostWakeup

LEMMA NextMutex == ASSUME TypeOK, MutexInv, [Next]_vars PROVE MutexInv'
<1> USE DEF MutexInv
<1>1. CASE UNCHANGED vars
  BY <1>1 DEF vars, MutualExclusion, NoLostWakeup
<1>2. ASSUME NEW t \in Task, Call(t) PROVE MutexInv'
  <2>1. /\ \A u \in Task : u # t => pc'[u] = pc[u] /\ writes'[u] = writes[u]
        /\ pc[t] = "idle" /\ pc'[t] = "try" /\ busy' = busy
        /\ listed' = listed \ {t}
    BY <1>2 DEF Call, Goto, TypeOK
  <2>2. QED BY <2>1 DEF MutualExclusion, NoLostWakeup
<1>3. ASSUME NEW t \in Task, Accquire(t) PROVE MutexInv'
  <2>1. /\ \A u \in Task : u # t => pc'[u] = pc[u]
        /\ pc'[t] = "hold" /\ ~ busy /\ busy' = TRUE
        /\ listed' = listed \ {t}
    BY <1>3 DEF Accquire, Goto, TypeOK
  <2>2. MutualExclusion' /\ NoLostWakeup'
    BY <2>1 DEF MutualExclusion, NoLostWakeup
  <2>3. \A u \in Task : pc'[u] = "read" => u \in listed'
    BY <2>1
  <2>4. QED BY <2>2, <2>3
<1>4. ASSUME NEW t \in Task, Enlist(t) PROVE MutexInv'
  <2>1. /\ \A u \in Task : u # t => pc'[u] = pc[u]
        /\ pc[t] = "try" /\ pc'[t] = "read" /\ busy /\ busy' = busy
        /\ listed' = listed \cup {t}
    BY <1>4 DEF Enlist, Goto, TypeOK
  <2>2. QED BY <2>1 DEF MutualExclusion, NoLostWakeup
<1>5. ASSUME NEW t \in Task, Read(t) \/ Woken(t) \/ Cancel(t) PROVE MutexInv'
  <2>1. /\ \A u \in Task : u # t => pc'[u] = pc[u] /\ writes'[u] = writes[u]
        /\ pc[t] # "hold" /\ pc'[t] \notin {"read", "hold"}
        /\ busy' = busy /\ listed' = listed
    BY <1>5 DEF Read, Woken, Cancel, Goto, TypeOK
  <2>2. QED BY <2>1 DEF MutualExclusion, NoLostWakeup
<1>6. ASSUME NEW t \in Task, Release(t) PROVE MutexInv'
  <2>1. /\ \A u \in Task : u # t => pc'[u] = pc[u]
        /\ pc[t] = "hold" /\ pc'[t] = "idle" /\ busy' = FALSE
        /\ listed' = listed
    BY <1>6 DEF Release, Goto, TypeOK
  <2>2. MutualExclusion'
    BY <2>1 DEF MutualExclusion
  <2>3. \A u \in listed \cap Task : writes'[u] > 0
    <3> SUFFICES ASSUME NEW u \in listed \cap Task PROVE writes'[u] > 0
      OBVIOUS
    <3>1. writes'[u] = writes[u] + 1 /\ writes[u] \in Nat
      BY <1>6 DEF Release, TypeOK
    <3>2. QED BY <3>1
  <2>4. NoLostWakeup'
    BY <2>1, <2>3 DEF NoLostWakeup
  <2>5. \A u \in Task : pc'[u] = "read" => u \in listed'
    BY <2>1
  <2>6. QED BY <2>2, <2>4, <2>5
<1>7. ASSUME NEW t \in Task, Closes(t) PROVE MutexInv'
  BY <1>7 DEF Closes, MutualExclusion, NoLostWakeup
<1>8. QED
  BY <1>1, <1>2, <1>3, <1>4, <1>5, <1>6, <1>7 DEF Next, Waits

\* Mutual exclusion, no lost wakeup and the list of waiters, for any tasks.
THEOREM MutexCorrect == Spec => []MutexInv
<1>1. Init => MutexInv
  BY InitMutex
<1>2. TypeOK /\ MutexInv /\ [Next]_vars => MutexInv'
  BY NextMutex
<1>3. QED BY <1>1, <1>2, TypeCorrect, PTL DEF Spec

\* No two coroutines are between accquire and release at the same time.
THEOREM MutualExclusionEver == Spec => []MutualExclusion
<1>1. MutexInv => MutualExclusion
  BY DEF MutexInv
<1>2. QED BY <1>1, MutexCorrect, PTL

\* A release leaves no waiter without a write to its channel.
THEOREM NoLostWakeupEver == Spec => []NoLostWakeup
<1>1. MutexInv => NoLostWakeup
  BY DEF MutexInv
<1>2. QED BY <1>1, MutexCorrect, PTL

----------------------------------------------------------------------------
(* Refinement. *)

H == {t \in Task : pc[t] = "hold"}
W == {t \in Task : pc[t] \in {"try", "read", "check"}}

LEMMA NextLock ==
    ASSUME TypeOK, MutexInv, [Next]_vars
    PROVE  [L!LockNext]_(L!lockVars)
<1> USE DEF L!lockVars, L!LockNext
<1>0. ASSUME NEW t \in Task, NEW l \in PC, pc' = [pc EXCEPT ![t] = l]
      PROVE  /\ H' = IF l = "hold" THEN H \cup {t} ELSE H \ {t}
             /\ W' = IF l \in {"try", "read", "check"} THEN W \cup {t}
                     ELSE W \ {t}
  BY <1>0 DEF TypeOK, H, W
<1>a. ASSUME NEW t \in Task, pc' = [pc EXCEPT ![t] = "idle"]
      PROVE  H' = H \ {t} /\ W' = W \ {t}
  BY <1>a DEF TypeOK, H, W
<1>b. ASSUME NEW t \in Task, pc' = [pc EXCEPT ![t] = "try"], t \in W, t \notin H
      PROVE  H' = H /\ W' = W
  BY <1>b DEF TypeOK, H, W
<1>1. CASE UNCHANGED vars
  BY <1>1 DEF vars
<1>2. ASSUME NEW t \in Task, Call(t) PROVE L!Ask(t)
  <2>1. H' = H /\ W' = W \cup {t} /\ t \notin H \cup W
    BY <1>0, <1>2 DEF Call, Goto, PC, H, W
  <2>2. QED BY <2>1 DEF L!Ask, H, W
<1>3. ASSUME NEW t \in Task, Accquire(t) PROVE L!Grant(t)
  <2>1. ~ busy /\ t \in W
    BY <1>3 DEF Accquire, W
  <2>2. H = {}
    BY <2>1 DEF MutexInv, MutualExclusion, H
  <2>3. H' = H \cup {t} /\ W' = W \ {t}
    BY <1>0, <1>3 DEF Accquire, Goto, PC
  <2>4. QED BY <2>1, <2>2, <2>3 DEF L!Grant, H, W
<1>4. ASSUME NEW t \in Task, Enlist(t) \/ Read(t) PROVE UNCHANGED <<H, W>>
  <2>1. t \in W /\ t \notin H /\ \E l \in {"read", "check"} : Goto(t, l)
    BY <1>4 DEF Enlist, Read, H, W
  <2>2. QED BY <1>0, <2>1 DEF Goto, PC, H, W
<1>5. ASSUME NEW t \in Task, Woken(t) \/ Cancel(t)
      PROVE  UNCHANGED <<H, W>> \/ L!GiveUp(t)
  <2>1. t \in W /\ t \notin H /\ \E l \in {"idle", "try"} : Goto(t, l)
    BY <1>5 DEF Woken, Cancel, H, W
  <2>2. PICK l \in {"idle", "try"} : pc' = [pc EXCEPT ![t] = l]
    BY <2>1 DEF Goto
  <2>3. CASE l = "idle"
    <3>1. pc' = [pc EXCEPT ![t] = "idle"]
      BY <2>2, <2>3
    <3>2. H' = H \ {t} /\ W' = W \ {t}
      BY <1>a, <3>1
    <3>3. H' = H
      BY <2>1, <3>2
    <3>4. QED BY <2>1, <3>2, <3>3 DEF L!GiveUp, H, W
  <2>4. CASE l = "try"
    <3>1. pc' = [pc EXCEPT ![t] = "try"]
      BY <2>2, <2>4
    <3>2. H' = H /\ W' = W
      BY <1>b, <2>1, <3>1
    <3>3. QED BY <3>2
  <2>5. QED BY <2>3, <2>4
<1>6. ASSUME NEW t \in Task, Release(t) PROVE L!Free(t)
  <2>1. t \in H /\ t \notin W /\ pc' = [pc EXCEPT ![t] = "idle"]
    BY <1>6 DEF Release, Goto, H, W
  <2>2. H' = H \ {t} /\ W' = W
    BY <1>a, <2>1
  <2>3. QED BY <2>1, <2>2 DEF L!Free, H, W
<1>7. ASSUME NEW t \in Task, Closes(t) PROVE UNCHANGED <<H, W>>
  BY <1>7 DEF Closes, H, W
<1>8. QED
  BY <1>1, <1>2, <1>3, <1>4, <1>5, <1>6, <1>7 DEF Next, Waits, H, W

\* accquire and release implement the abstract lock: every step of a task is a
\* step of the lock or none.
THEOREM Refinement == Spec => ImplementsLock
<1>1. Init => L!LockInit
  BY DEF Init, L!LockInit
<1>2. TypeOK /\ MutexInv /\ [Next]_vars => [L!LockNext]_(L!lockVars)
  BY NextLock
<1>3. QED
  BY <1>1, <1>2, TypeCorrect, MutexCorrect, PTL
  DEF Spec, ImplementsLock, L!LockSpec
=============================================================================
