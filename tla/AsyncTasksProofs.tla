-------------------------- MODULE AsyncTasksProofs --------------------------
(***************************************************************************)
(* Theorems about AsyncTasks, for any number of tasks and awaiters.        *)
(***************************************************************************)
EXTENDS AsyncTasks, FiniteSetTheorems, TLAPS

USE TasksAssumption DEF TasksAssumption

Verdicts == {"none", "value", "error", "closed", "timeout", "empty", "target"}

LEMMA VerdictType ==
    /\ Pending \in Verdict
    /\ \A s \in SUBSET Index : Value(s) \in Verdict
    /\ \A t \in Index : Error(t) \in Verdict
    /\ \A w \in Verdicts : Without(w) \in Verdict
  BY DEF Pending, Value, Error, Without, Verdict, Verdicts

LEMMA InitType == Init => TypeOK
<1> SUFFICES ASSUME Init PROVE TypeOK
  OBVIOUS
<1>1. /\ kind \in {"all", "any", "some"} /\ target \in Nat
      /\ n \in 0 .. MaxTasks /\ start \in BOOLEAN
  <2>1. n \in 0 .. MaxTasks /\ start \in BOOLEAN
    <3>1. n = 0 /\ start = FALSE
      BY DEF Init
    <3>2. 0 \in 0 .. MaxTasks
      BY SMT
    <3>3. QED BY <3>1, <3>2
  <2>2. CASE kind = "some"
    BY <2>1, <2>2 DEF Init
  <2>3. CASE kind # "some"
    BY <2>1, <2>3 DEF Init
  <2>4. QED BY <2>2, <2>3
<1>2. /\ task \in [Index -> TaskPC] /\ ended \in [Index -> {"no", "ok", "fail"}]
  BY DEF Init, TaskPC
<1>8. item \in Index \cup {MaxTasks} /\ collector \in CollectorPC /\ collector # "got"
  BY DEF Init, CollectorPC
<1>3. /\ verdict \in Verdict /\ collected \subseteq Tasks /\ done \in BOOLEAN
  BY VerdictType DEF Init
<1>4. /\ closer \in {"open", "stopped", "closed", "timeout"}
      /\ awaiter \in [Awaiter -> {"idle", "collect", "wait", "returned"}]
  BY DEF Init
<1>5. \A i \in Index : task[i] = "none" <=> i >= n
  BY DEF Init, Index
<1>6. \A i \in Tasks : task[i] = "added" <=> ~ start
  BY DEF Init, Index, Tasks
<1>7. QED BY <1>1, <1>2, <1>3, <1>4, <1>5, <1>6, <1>8 DEF TypeOK

LEMMA EarlyType == Early \in Verdict
  BY VerdictType DEF Early, Verdicts

LEMMA JudgeType ==
    ASSUME TypeOK, NEW t \in Tasks
    PROVE  Judge(t) \in Verdict
<1> DEFINE c == collected \cup {t}
<1>1. c \in SUBSET Index /\ t \in Index /\ Succeeded(c) \in SUBSET Index
  BY DEF TypeOK, Tasks, Succeeded
<1>2. AllVerdict(c, t) \in Verdict
  BY <1>1, VerdictType DEF AllVerdict
<1>3. AnyVerdict(c, t) \in Verdict
  <2>1. 0 \in Index
    BY DEF Tasks, Index
  <2>2. QED BY <1>1, <2>1, VerdictType DEF AnyVerdict
<1>4. SomeVerdict(c, t) \in Verdict
  BY <1>1, VerdictType DEF SomeVerdict
<1> HIDE DEF c
<1>5. Judge(t) = CASE kind = "all" -> AllVerdict(c, t)
                   [] kind = "any" -> AnyVerdict(c, t)
                   [] kind = "some" -> SomeVerdict(c, t)
  BY DEF Judge, c
<1>6. kind \in {"all", "any", "some"}
  BY DEF TypeOK
<1>7. QED BY <1>2, <1>3, <1>4, <1>5, <1>6

LEMMA CancelType ==
    ASSUME TypeOK, Closed
    PROVE  CancelVerdict \in Verdict
<1>1. closer \in Verdicts
  BY DEF Closed, Verdicts
<1>2. 0 \in Failed(collected) => 0 \in Index
  BY DEF TypeOK, Failed, Tasks
<1>3. QED BY <1>1, <1>2, VerdictType DEF CancelVerdict

\* A task's coroutine moves on, and the rest of the group stays.
LEMMA TaskMoves ==
    ASSUME TypeOK, NEW t \in Index, NEW p \in {"put", "sent", "gone"},
           task[t] \in {"running", "put", "sent"},
           task' = [task EXCEPT ![t] = p], UNCHANGED group
    PROVE  /\ task' \in [Index -> TaskPC]
           /\ \A i \in Index : task'[i] = "none" <=> i >= n
           /\ \A i \in Tasks : task'[i] = "added" <=> ~ start
  BY DEF TypeOK, TaskPC, group, Tasks

LEMMA NextType == ASSUME TypeOK, [Next]_vars PROVE TypeOK'
<1>1. CASE UNCHANGED vars
  BY <1>1 DEF vars, TypeOK, Tasks
<1>2. CASE AddTask
  <2>1. n \in Index /\ n + 1 \in 0 .. MaxTasks
    BY <1>2 DEF AddTask, TypeOK, Index
  <2>2. task' \in [Index -> TaskPC]
    BY <1>2, <2>1 DEF AddTask, TypeOK, TaskPC
  <2>3. \A i \in Index : task'[i] = "none" <=> i >= n'
    BY <1>2, <2>1 DEF AddTask, TypeOK, Index
  <2>4. \A i \in Tasks' : task'[i] = "added" <=> ~ start'
    BY <1>2, <2>1 DEF AddTask, TypeOK, Index, Tasks
  <2>5. collected' \subseteq Tasks'
    BY <1>2, <2>1 DEF AddTask, TypeOK, Index, Tasks
  <2>6. collector' = "got" => item' \in Tasks'
    BY <1>2, <2>1 DEF AddTask, TypeOK, Index, Tasks
  <2>7. QED BY <1>2, <2>1, <2>2, <2>3, <2>4, <2>5, <2>6 DEF AddTask, TypeOK
<1>3. ASSUME NEW a \in Awaiter, Start(a) PROVE TypeOK'
  <2>1. task' \in [Index -> TaskPC]
    BY <1>3 DEF Start, TaskPC
  <2>2. verdict' \in Verdict
    BY <1>3, EarlyType DEF Start
  <2>3. collector' \in CollectorPC \ {"got"}
    BY <1>3 DEF Start, CollectorPC
  <2>4. \A i \in Index : task'[i] = "none" <=> i >= n'
    BY <1>3 DEF Start, TypeOK, Index
  <2>5. \A i \in Tasks' : task'[i] = "added" <=> ~ start'
    BY <1>3 DEF Start, TypeOK, Tasks
  <2>6. awaiter' \in [Awaiter -> {"idle", "collect", "wait", "returned"}]
    BY <1>3 DEF Start, TypeOK
  <2>7. collected' \subseteq Tasks'
    BY <1>3 DEF Start, TypeOK, Tasks
  <2>8. QED BY <1>3, <2>1, <2>2, <2>3, <2>4, <2>5, <2>6, <2>7 DEF Start, TypeOK
<1>4. ASSUME NEW a \in Awaiter, Join(a) PROVE TypeOK'
  BY <1>4 DEF Join, group, TypeOK, Tasks
<1>5. ASSUME NEW a \in Awaiter, Return(a) PROVE TypeOK'
  BY <1>5 DEF Return, group, TypeOK, Tasks
<1>6. ASSUME NEW t \in Index, TaskEnds(t) PROVE TypeOK'
  <2>1. ended' \in [Index -> {"no", "ok", "fail"}]
    BY <1>6 DEF TaskEnds, TypeOK
  <2>2. /\ task' \in [Index -> TaskPC]
        /\ \A i \in Index : task'[i] = "none" <=> i >= n
        /\ \A i \in Tasks : task'[i] = "added" <=> ~ start
    BY <1>6, TaskMoves DEF TaskEnds
  <2>3. QED BY <1>6, <2>1, <2>2 DEF TaskEnds, group, TypeOK, Tasks
<1>7. ASSUME NEW t \in Index, WriteEnds(t) PROVE TypeOK'
  <2>1. /\ task' \in [Index -> TaskPC]
        /\ \A i \in Index : task'[i] = "none" <=> i >= n
        /\ \A i \in Tasks : task'[i] = "added" <=> ~ start
    BY <1>7, TaskMoves DEF WriteEnds
  <2>2. QED BY <1>7, <2>1 DEF WriteEnds, group, TypeOK, Tasks
<1>8. ASSUME NEW t \in Index, WriteCancelled(t) PROVE TypeOK'
  <2>1. /\ task' \in [Index -> TaskPC]
        /\ \A i \in Index : task'[i] = "none" <=> i >= n
        /\ \A i \in Tasks : task'[i] = "added" <=> ~ start
    BY <1>8, TaskMoves DEF WriteCancelled
  <2>2. QED BY <1>8, <2>1 DEF WriteCancelled, group, TypeOK, Tasks
<1>9. ASSUME NEW t \in Index, Deliver(t) PROVE TypeOK'
  <2>1. /\ task' \in [Index -> TaskPC]
        /\ \A i \in Index : task'[i] = "none" <=> i >= n
        /\ \A i \in Tasks : task'[i] = "added" <=> ~ start
    BY <1>9, TaskMoves DEF Deliver
  <2>2. collector' \in CollectorPC /\ item' \in Index \cup {MaxTasks}
    BY <1>9 DEF Deliver, CollectorPC
  <2>3. task[t] = "put" /\ task[t] # "none" /\ t \in Index
    BY <1>9 DEF Deliver
  <2>4. Tasks' = Tasks
    BY <1>9 DEF Deliver, group, Tasks
  <2>5. item' \in Tasks'
    <3>1. ~ (t >= n)
      BY <2>3 DEF TypeOK
    <3>2. t < n
      BY <3>1, <2>3 DEF TypeOK, Index
    <3>3. QED BY <1>9, <2>4, <3>2 DEF Deliver, Tasks
  <2>6. QED BY <1>9, <2>1, <2>2, <2>4, <2>5 DEF Deliver, group, TypeOK
<1>10. CASE SyncCancel
  <2>1. verdict' \in Verdict /\ collector' \in CollectorPC
    BY <1>10, CancelType DEF SyncCancel, CollectorPC
  <2>2. QED BY <1>10, <2>1 DEF SyncCancel, group, TypeOK, Tasks
<1>11. CASE CollectCancel
  <2>1. verdict' \in Verdict /\ collector' \in CollectorPC
    BY <1>11, CancelType DEF CollectCancel, CollectorPC, Closed
  <2>2. QED BY <1>11, <2>1 DEF CollectCancel, group, TypeOK, Tasks
<1>12. CASE Collect
  <2>4. item \in Tasks
    BY <1>12 DEF Collect, TypeOK
  <2>1. verdict' \in Verdict /\ collector' \in CollectorPC \ {"got"}
    BY <1>12, <2>4, JudgeType DEF Collect, CollectorPC
  <2>2. collected' \subseteq Tasks
    BY <1>12, <2>4 DEF Collect, TypeOK
  <2>3. QED BY <1>12, <2>1, <2>2 DEF Collect, group, TypeOK, Tasks
<1>13. CASE Signal
  BY <1>13 DEF Signal, group, TypeOK, Tasks, CollectorPC
<1>14. CASE CloseGroup
  <2>1. awaiter' \in [Awaiter -> {"idle", "collect", "wait", "returned"}]
    BY <1>14 DEF CloseGroup, TypeOK
  <2>2. closer' \in {"open", "stopped", "closed", "timeout"}
    BY <1>14 DEF CloseGroup, TypeOK
  <2>3. QED BY <1>14, <2>1, <2>2 DEF CloseGroup, group, TypeOK, Tasks, CollectorPC
<1>15. CASE Closes
  BY <1>15 DEF Closes, group, TypeOK, Tasks
<1>16. QED
  BY <1>1, <1>2, <1>3, <1>4, <1>5, <1>6, <1>7, <1>8, <1>9, <1>10, <1>11,
     <1>12, <1>13, <1>14, <1>15 DEF Next, TaskSteps, CollectorSteps

\* The state keeps its types, and a group that has started has started every
\* task it holds, for any number of tasks and awaiters.
THEOREM TypeCorrect == Spec => []TypeOK
<1>1. QED BY InitType, NextType, PTL DEF Spec

----------------------------------------------------------------------------
\* Sets of tasks are finite, and a larger one has no fewer members.
LEMMA IndexFinite == IsFiniteSet(Index)
  BY FS_Interval DEF Index

LEMMA SubsetCard ==
    ASSUME NEW B \in SUBSET Index, NEW A \in SUBSET B
    PROVE  /\ IsFiniteSet(A) /\ IsFiniteSet(B)
           /\ Cardinality(A) \in Nat /\ Cardinality(B) \in Nat
           /\ Cardinality(A) <= Cardinality(B)
           /\ Cardinality(A) = Cardinality(B) => A = B
<1>1. IsFiniteSet(B)
  BY IndexFinite, FS_Subset
<1>2. IsFiniteSet(A)
  BY <1>1, FS_Subset
<1>3. QED BY <1>1, <1>2, FS_Subset, FS_CardinalityType

LEMMA TasksCard == ASSUME TypeOK PROVE Tasks \in SUBSET Index /\ Cardinality(Tasks) = n
<1>1. n \in 0 .. MaxTasks
  BY DEF TypeOK
<1>2. Tasks = 0 .. n - 1
  BY <1>1 DEF Tasks, Index
<1>3. Cardinality(0 .. n - 1) = n
  BY <1>1, FS_Interval
<1>4. QED BY <1>2, <1>3 DEF Tasks

\* Of tasks that have ended some succeeded and the others failed.
LEMMA Halves ==
    ASSUME TypeOK, NEW c \in SUBSET Index, \A t \in c : ended[t] # "no"
    PROVE  /\ Cardinality(Succeeded(c)) \in Nat /\ Cardinality(Failed(c)) \in Nat
           /\ Cardinality(Succeeded(c)) + Cardinality(Failed(c)) = Cardinality(c)
<1> DEFINE S == Succeeded(c)
           F == Failed(c)
<1>1. S \in SUBSET c /\ F \in SUBSET c
  BY DEF Succeeded, Failed
<1>2. S \cup F = c
  BY DEF TypeOK, Succeeded, Failed
<1>3. S \cap F = {}
  BY DEF Succeeded, Failed
<1>4. IsFiniteSet(S) /\ IsFiniteSet(F) /\ Cardinality(S) \in Nat /\ Cardinality(F) \in Nat
  BY <1>1, SubsetCard
<1> HIDE DEF S, F
<1>5. Cardinality(c) = Cardinality(S) + Cardinality(F) - Cardinality(S \cap F)
  BY <1>2, <1>4, FS_Union
<1>6. Cardinality(S \cap F) = 0
  BY <1>3, FS_EmptySet
<1>7. QED BY <1>4, <1>5, <1>6 DEF S, F

\* The result of a task counts on the side it is on.
LEMMA Halves1 ==
    ASSUME NEW c \in SUBSET Index, NEW t \in Index \ c
    PROVE  /\ Cardinality(c \cup {t}) = Cardinality(c) + 1
           /\ ended[t] = "ok" =>
                /\ Failed(c \cup {t}) = Failed(c)
                /\ Succeeded(c \cup {t}) = Succeeded(c) \cup {t}
                /\ Cardinality(Succeeded(c \cup {t})) = Cardinality(Succeeded(c)) + 1
           /\ ended[t] = "fail" =>
                /\ Succeeded(c \cup {t}) = Succeeded(c)
                /\ Failed(c \cup {t}) = Failed(c) \cup {t}
                /\ Cardinality(Failed(c \cup {t})) = Cardinality(Failed(c)) + 1
<1>1. IsFiniteSet(c) /\ IsFiniteSet(Succeeded(c)) /\ IsFiniteSet(Failed(c))
  BY SubsetCard DEF Succeeded, Failed
<1>2. t \notin c /\ t \notin Succeeded(c) /\ t \notin Failed(c)
  BY DEF Succeeded, Failed
<1>3. ended[t] = "ok" =>
        /\ Failed(c \cup {t}) = Failed(c)
        /\ Succeeded(c \cup {t}) = Succeeded(c) \cup {t}
  BY DEF Succeeded, Failed
<1>4. ended[t] = "fail" =>
        /\ Succeeded(c \cup {t}) = Succeeded(c)
        /\ Failed(c \cup {t}) = Failed(c) \cup {t}
  BY DEF Succeeded, Failed
<1>5. /\ Cardinality(c \cup {t}) = Cardinality(c) + 1
      /\ Cardinality(Succeeded(c) \cup {t}) = Cardinality(Succeeded(c)) + 1
      /\ Cardinality(Failed(c) \cup {t}) = Cardinality(Failed(c)) + 1
  BY <1>1, <1>2, FS_AddElement
<1>6. QED BY <1>3, <1>4, <1>5

----------------------------------------------------------------------------
\* A task that failed makes the error of All and, when it is one too many, of Some.
LEMMA ErrorSound ==
    ASSUME NEW t \in Failed(Tasks), kind = "some" => Cardinality(Failed(Tasks)) > n - target
    PROVE  Sound(Error(t))
<1>1. Error(t).what = "error" /\ Error(t).of = {t}
  BY DEF Error
<1>2. QED BY <1>1 DEF Sound

LEMMA ValueSound ==
    ASSUME NEW s, s \subseteq Succeeded(Tasks),
           kind = "all" => s = Tasks,
           kind = "any" => Cardinality(s) = 1,
           kind = "some" => Cardinality(s) >= target,
           kind = "some" /\ target > 0 => Cardinality(s) = target
    PROVE  Sound(Value(s))
<1>1. Value(s).what = "value" /\ Value(s).of = s
  BY DEF Value
<1>2. QED BY <1>1 DEF Sound

LEMMA OtherSound ==
    ASSUME NEW v, v.what \notin {"value", "error"}
    PROVE  Sound(v)
  BY DEF Sound

LEMMA Whats ==
    /\ Pending.what = "none"
    /\ \A s : Value(s) # Pending /\ Value(s).what = "value"
    /\ \A t : Error(t) # Pending /\ Error(t).what = "error"
    /\ \A w \in Verdicts \ {"none"} : Without(w) # Pending /\ Without(w).what = w
<1>1. Pending.what = "none"
  BY DEF Pending
<1>2. ASSUME NEW s PROVE Value(s) # Pending /\ Value(s).what = "value"
  <2>1. Value(s).what = "value"
    BY DEF Value
  <2>2. QED BY <1>1, <2>1
<1>3. ASSUME NEW t PROVE Error(t) # Pending /\ Error(t).what = "error"
  <2>1. Error(t).what = "error"
    BY DEF Error
  <2>2. QED BY <1>1, <2>1
<1>4. ASSUME NEW w \in Verdicts \ {"none"}
      PROVE  Without(w) # Pending /\ Without(w).what = w
  <2>1. Without(w).what = w
    BY DEF Without
  <2>2. QED BY <1>1, <2>1
<1>5. QED BY <1>1, <1>2, <1>3, <1>4

\* What one round of _sync decides, and what it goes on with when it does not.
LEMMA JudgeSound ==
    ASSUME TypeOK, GroupInv, collector = "got"
    PROVE  /\ Judge(item).what \in {"none", "value", "error"}
           /\ Judge(item) = Pending => Undecided(collected \cup {item})
           /\ Sound(Judge(item))
<1> DEFINE t == item
           c == collected \cup {t}
           v == Judge(t)
<1>1. /\ t \in Tasks \ collected /\ task[t] \in Read
      /\ \A u \in c : ended[u] # "no" /\ u \in Tasks
      /\ Undecided(collected)
  BY DEF GroupInv, Results, TypeOK, Tasks
<1>2. n \in Nat /\ target \in Nat /\ Tasks \in SUBSET Index /\ Cardinality(Tasks) = n
  BY TasksCard DEF TypeOK
<1>3. /\ c \in SUBSET Tasks /\ c \in SUBSET Index /\ collected \in SUBSET Index
      /\ t \in Index \ collected
  BY <1>1, <1>2
<1>4. /\ Cardinality(Succeeded(c)) \in Nat /\ Cardinality(Failed(c)) \in Nat
      /\ Cardinality(Succeeded(c)) + Cardinality(Failed(c)) = Cardinality(c)
  BY <1>1, <1>3, Halves
<1>5. /\ Cardinality(Succeeded(collected)) \in Nat
      /\ Cardinality(Failed(collected)) \in Nat
  BY <1>1, <1>3, Halves
<1>6. /\ Cardinality(c) \in Nat /\ Cardinality(c) <= n
      /\ Cardinality(c) = n => c = Tasks
  BY <1>2, <1>3, SubsetCard
<1>7. \A u \in c : ended[u] \in {"ok", "fail"}
  <2>1. ended \in [Index -> {"no", "ok", "fail"}]
    BY DEF TypeOK
  <2>2. QED BY <1>1, <1>3, <2>1
<1>8. Failed(c) \subseteq Failed(Tasks) /\ Succeeded(c) \subseteq Succeeded(Tasks)
  BY <1>3 DEF Failed, Succeeded
<1>9. Cardinality(Failed(Tasks)) \in Nat /\ Cardinality(Failed(c)) <= Cardinality(Failed(Tasks))
  <2>1. Failed(Tasks) \in SUBSET Index
    BY <1>2 DEF Failed
  <2>2. QED BY <2>1, <1>8, SubsetCard
<1>10. t \in c
  OBVIOUS
<1>11. kind \in {"all", "any", "some"}
  BY DEF TypeOK
<1>12. Judge(t) = CASE kind = "all" -> AllVerdict(c, t)
                    [] kind = "any" -> AnyVerdict(c, t)
                    [] kind = "some" -> SomeVerdict(c, t)
  BY DEF Judge
<1> HIDE DEF c, t
<1> SUFFICES /\ v.what \in {"none", "value", "error"}
             /\ v = Pending => Undecided(c)
             /\ Sound(v)
  BY DEF c, t
<1> HIDE DEF v
<1>13. CASE v = Pending /\ Undecided(c)
  BY <1>13, Whats, OtherSound
<1>14. ASSUME NEW s, v = Value(s), Sound(v) PROVE v.what = "value" /\ v # Pending
  BY <1>14, Whats
<1>15. ASSUME NEW s, v = Error(s), Sound(v) PROVE v.what = "error" /\ v # Pending
  BY <1>15, Whats
<1>20. CASE kind = "all"
  <2>1. v = AllVerdict(c, t)
    BY <1>12, <1>20 DEF v
  <2>2. Failed(collected) = {}
    BY <1>1, <1>20 DEF Undecided
  <2>3. CASE ended[t] = "fail"
    <3>1. v = Error(t) /\ t \in Failed(Tasks)
      BY <2>1, <2>3, <1>1 DEF AllVerdict, Failed
    <3>2. Sound(v)
      BY <3>1, <1>20, ErrorSound
    <3>3. QED BY <3>1, <3>2, <1>15
  <2>4. CASE ended[t] = "ok"
    <3>1. Failed(c) = {}
      BY <2>2, <2>4, <1>3, Halves1 DEF c
    <3>2. CASE Cardinality(c) = n
      <4>1. v = Value(c) /\ c = Tasks
        BY <2>1, <2>4, <3>2, <1>6 DEF AllVerdict
      <4>2. c \subseteq Succeeded(Tasks)
        BY <4>1, <3>1, <1>7 DEF Failed, Succeeded
      <4>3. Sound(v)
        BY <4>1, <4>2, <1>20, ValueSound
      <4>4. QED BY <4>1, <4>3, <1>14
    <3>3. CASE Cardinality(c) # n
      <4>1. v = Pending
        BY <2>1, <2>4, <3>3 DEF AllVerdict
      <4>2. Undecided(c)
        BY <3>1, <3>3, <1>2, <1>6, <1>20 DEF Undecided
      <4>3. QED BY <4>1, <4>2, <1>13
    <3>4. QED BY <3>2, <3>3
  <2>5. QED BY <2>3, <2>4, <1>7, <1>10
<1>21. CASE kind = "any"
  <2>1. v = AnyVerdict(c, t)
    BY <1>12, <1>21 DEF v
  <2>2. Succeeded(collected) = {}
    BY <1>1, <1>21 DEF Undecided
  <2>3. CASE ended[t] = "ok"
    <3>1. v = Value({t}) /\ {t} \subseteq Succeeded(Tasks)
      BY <2>1, <2>3, <1>1 DEF AnyVerdict, Succeeded
    <3>2. Cardinality({t}) = 1
      BY FS_Singleton
    <3>3. Sound(v)
      BY <3>1, <3>2, <1>21, ValueSound
    <3>4. QED BY <3>1, <3>3, <1>14
  <2>4. CASE ended[t] = "fail"
    <3>1. Succeeded(c) = {}
      BY <2>2, <2>4, <1>3, Halves1 DEF c
    <3>2. CASE Cardinality(c) = n
      <4>1. v = Error(0) /\ c = Tasks
        BY <2>1, <2>4, <3>2, <1>6 DEF AnyVerdict
      <4>2. 0 \in Tasks
        BY <1>1, <1>2 DEF Tasks, Index
      <4>3. 0 \in Failed(Tasks)
        BY <4>1, <4>2, <3>1, <1>7 DEF Failed, Succeeded
      <4>4. Sound(v)
        BY <4>1, <4>3, <1>21, ErrorSound
      <4>5. QED BY <4>1, <4>4, <1>15
    <3>3. CASE Cardinality(c) # n
      <4>1. v = Pending
        BY <2>1, <2>4, <3>3 DEF AnyVerdict
      <4>2. Undecided(c)
        BY <3>1, <3>3, <1>2, <1>6, <1>21 DEF Undecided
      <4>3. QED BY <4>1, <4>2, <1>13
    <3>4. QED BY <3>2, <3>3
  <2>5. QED BY <2>3, <2>4, <1>7, <1>10
<1>22. CASE kind = "some"
  <2>1. v = SomeVerdict(c, t)
    BY <1>12, <1>22 DEF v
  <2>2. /\ Cardinality(Failed(collected)) + target <= n
        /\ target > 0 => Cardinality(Succeeded(collected)) < target
    BY <1>1, <1>22 DEF Undecided
  <2>3. CASE Cardinality(Failed(c)) + target > n
    <3>1. ended[t] = "fail"
      <4>1. ended[t] = "ok" => Failed(c) = Failed(collected)
        BY <1>3, Halves1 DEF c
      <4>2. QED BY <4>1, <2>2, <2>3, <1>7, <1>10, <1>2, <1>5
    <3>2. v = Error(t) /\ t \in Failed(Tasks)
      BY <2>1, <2>3, <3>1, <1>1 DEF SomeVerdict, Failed
    <3>3. Cardinality(Failed(Tasks)) > n - target
      BY <2>3, <1>2, <1>4, <1>9
    <3>4. Sound(v)
      BY <3>2, <3>3, ErrorSound
    <3>5. QED BY <3>2, <3>4, <1>15
  <2>4. CASE ~ (Cardinality(Failed(c)) + target > n)
    <3>1. Cardinality(Failed(c)) + target <= n
      BY <2>4, <1>2, <1>4
    <3>2. target > 0 => Cardinality(Succeeded(c)) <= target
      <4>1. ended[t] = "ok" => Cardinality(Succeeded(c)) = Cardinality(Succeeded(collected)) + 1
        BY <1>3, Halves1 DEF c
      <4>2. ended[t] = "fail" => Succeeded(c) = Succeeded(collected)
        BY <1>3, Halves1 DEF c
      <4>3. QED BY <4>1, <4>2, <2>2, <1>2, <1>4, <1>5, <1>7, <1>10
    <3>3. CASE Cardinality(Succeeded(c)) = target \/ Cardinality(c) = n
      <4>1. v = Value(Succeeded(c))
        BY <2>1, <2>4, <3>3 DEF SomeVerdict
      <4>2. Cardinality(Succeeded(c)) >= target
        BY <3>1, <3>3, <1>2, <1>4, <1>6
      <4>3. target > 0 => Cardinality(Succeeded(c)) = target
        BY <3>2, <4>2, <1>2, <1>4
      <4>4. Sound(v)
        BY <4>1, <4>2, <4>3, <1>8, <1>22, ValueSound
      <4>5. QED BY <4>1, <4>4, <1>14
    <3>4. CASE ~ (Cardinality(Succeeded(c)) = target \/ Cardinality(c) = n)
      <4>1. v = Pending
        BY <2>1, <2>4, <3>4 DEF SomeVerdict
      <4>2. Cardinality(c) < n /\ (target > 0 => Cardinality(Succeeded(c)) < target)
        BY <3>2, <3>4, <1>2, <1>4, <1>6
      <4>3. Undecided(c)
        BY <4>2, <3>1, <1>22 DEF Undecided
      <4>4. QED BY <4>1, <4>3, <1>13
    <3>5. QED BY <3>3, <3>4
  <2>5. QED BY <2>3, <2>4
<1>23. QED
  BY <1>11, <1>20, <1>21, <1>22

----------------------------------------------------------------------------
LEMMA InitInv == Init => GroupInv
<1> SUFFICES ASSUME Init PROVE GroupInv
  OBVIOUS
<1>1. collector = "idle" /\ ~ start /\ verdict = Pending /\ collected = {} /\ ~ done
  BY DEF Init
<1>2. Stage
  BY <1>1 DEF Stage
<1>3. \A t \in Index : ended[t] = "no" /\ task[t] = "none"
  BY DEF Init
<1>4. Results
  BY <1>1, <1>3 DEF Results, Read
<1>5. VerdictSound
  BY <1>1, Whats, OtherSound DEF VerdictSound
<1>6. QED BY <1>1, <1>2, <1>4, <1>5 DEF GroupInv

\* A step that changes no result keeps what the results say.
LEMMA SameResults ==
    ASSUME UNCHANGED <<group, ended>>
    PROVE  /\ \A v : Sound(v)' <=> Sound(v)
           /\ \A c : Undecided(c)' <=> Undecided(c)
<1>1. ASSUME NEW s PROVE Failed(s)' = Failed(s) /\ Succeeded(s)' = Succeeded(s)
  BY DEF Failed, Succeeded
<1>2. UNCHANGED <<kind, target, n, Tasks>>
  BY DEF group, Tasks
<1>3. ASSUME NEW v PROVE Sound(v)' <=> Sound(v)
  BY <1>1, <1>2 DEF Sound
<1>4. ASSUME NEW c PROVE Undecided(c)' <=> Undecided(c)
  BY <1>1, <1>2 DEF Undecided
<1>5. QED BY <1>3, <1>4

\* A task that ends does not take back what was answered before.
LEMMA MoreResults ==
    ASSUME TypeOK, NEW t \in Index, ended[t] = "no", NEW r \in {"ok", "fail"},
           ended' = [ended EXCEPT ![t] = r], UNCHANGED <<group, verdict>>, Sound(verdict)
    PROVE  Sound(verdict)'
<1>0. UNCHANGED <<kind, target, n, Tasks>> /\ Tasks \in SUBSET Index
  BY DEF group, Tasks
<1>1. /\ Failed(Tasks) \subseteq Failed(Tasks)'
      /\ Succeeded(Tasks) \subseteq Succeeded(Tasks)'
  BY <1>0 DEF Failed, Succeeded, TypeOK
<1>2. Failed(Tasks)' \in SUBSET Index
  BY <1>0 DEF Failed
<1>3. /\ Cardinality(Failed(Tasks)) \in Nat /\ Cardinality(Failed(Tasks)') \in Nat
      /\ Cardinality(Failed(Tasks)) <= Cardinality(Failed(Tasks)')
  BY <1>1, <1>2, SubsetCard
<1>4. Cardinality(Failed(Tasks)') = Cardinality(Failed(Tasks))'
  OBVIOUS
<1>5. n \in Nat /\ target \in Nat
  BY DEF TypeOK
<1> DEFINE f == Cardinality(Failed(Tasks))
           g == Cardinality(Failed(Tasks)')
<1> HIDE DEF f, g
<1>6. f > n - target => g > n - target
  BY <1>3, <1>5 DEF f, g
<1>7. QED
  BY <1>0, <1>1, <1>6 DEF Sound, f, g

\* The parts of GroupInv that speak of the collector, by the action taken.
LEMMA NextStage == ASSUME TypeOK, GroupInv, [Next]_vars PROVE Stage'
<1>1. Stage
  BY DEF GroupInv
<1>2. CASE UNCHANGED vars
  BY <1>1, <1>2 DEF vars, Stage
<1>3. CASE AddTask
  BY <1>1, <1>3 DEF AddTask, Stage
<1>4. ASSUME NEW a \in Awaiter, Start(a) PROVE Stage'
  <2>1. collected = {} /\ ~ done
    BY <1>1, <1>4 DEF Start, Stage
  <2>2. collector' \in {"sync", "signal"} /\ (collector' = "sync" => verdict' = Pending)
    BY <1>4 DEF Start
  <2>3. QED BY <1>4, <2>1, <2>2 DEF Start, Stage
<1>5. ASSUME NEW a \in Awaiter, Join(a) \/ Return(a) PROVE Stage'
  BY <1>1, <1>5 DEF Join, Return, group, Stage
<1>6. ASSUME NEW t \in Index, TaskSteps(t) PROVE Stage'
  BY <1>1, <1>6 DEF TaskSteps, TaskEnds, WriteEnds, WriteCancelled, group, Stage
<1>7. ASSUME NEW t \in Index, Deliver(t) PROVE Stage'
  BY <1>1, <1>7 DEF Deliver, group, Stage
<1>8. CASE SyncCancel
  BY <1>1, <1>8 DEF SyncCancel, group, Stage
<1>9. CASE CollectCancel
  BY <1>1, <1>9 DEF CollectCancel, group, Stage
<1>10. CASE Collect
  <2>1. collector' \in {"sync", "signal"} /\ (collector' = "sync" => verdict' = Pending)
    BY <1>10 DEF Collect
  <2>2. QED BY <1>1, <1>10, <2>1 DEF Collect, group, Stage
<1>11. CASE Signal
  BY <1>1, <1>11 DEF Signal, group, Stage
<1>12. CASE CloseGroup
  BY <1>1, <1>12 DEF CloseGroup, group, Stage
<1>13. CASE Closes
  BY <1>1, <1>13 DEF Closes, group, Stage
<1>14. QED
  BY <1>2, <1>3, <1>4, <1>5, <1>6, <1>7, <1>8, <1>9, <1>10, <1>11, <1>12, <1>13
     DEF Next, CollectorSteps

LEMMA NextResults == ASSUME TypeOK, GroupInv, [Next]_vars PROVE Results'
<1>1. Results /\ Stage
  BY DEF GroupInv
<1>2. CASE UNCHANGED vars
  BY <1>1, <1>2 DEF vars, Results, Tasks, Closed
<1>3. CASE AddTask
  <2>1. collector = "idle" /\ collected = {} /\ n \in Index
    BY <1>1, <1>3 DEF AddTask, Stage, TypeOK, Index
  <2>2. task[n] = "none"
    BY <2>1 DEF TypeOK, Index
  <2>3. \A t \in Index : ended'[t] # "no" <=> task'[t] \in {"put"} \cup Read
    BY <1>1, <1>3, <2>1, <2>2 DEF AddTask, Results, Read, TypeOK
  <2>4. QED BY <1>3, <2>1, <2>3 DEF AddTask, Results
<1>4. ASSUME NEW a \in Awaiter, Start(a) PROVE Results'
  <2>1. collector = "idle" /\ collected = {}
    BY <1>1, <1>4 DEF Start, Stage
  <2>2. \A t \in Index : task[t] \in {"none", "added"}
    BY <1>4 DEF Start, TypeOK, Tasks, Index
  <2>3. \A t \in Index : ended[t] = "no" /\ task'[t] \in {"none", "running"}
    BY <1>1, <1>4, <2>2 DEF Start, Results, Read
  <2>4. collector' \in {"sync", "signal"}
    BY <1>4 DEF Start
  <2>5. \A t \in Index : task'[t] \notin Read /\ task'[t] # "put"
    BY <2>3 DEF Read
  <2>6. \A t \in Tasks' : t \in Index
    BY DEF Tasks
  <2>7. QED BY <1>4, <2>1, <2>3, <2>4, <2>5, <2>6 DEF Start, Results
<1>5. ASSUME NEW a \in Awaiter, Join(a) \/ Return(a) PROVE Results'
  BY <1>1, <1>5 DEF Join, Return, group, Results, Tasks, Closed
<1>6. ASSUME NEW t \in Index, TaskEnds(t) PROVE Results'
  <2>1. t \notin collected /\ (collector = "got" => item # t)
    BY <1>1, <1>6 DEF TaskEnds, Results, Read
  <2>2. \A u \in Index : ended'[u] # "no" <=> task'[u] \in {"put"} \cup Read
    BY <1>1, <1>6 DEF TaskEnds, Results, Read, TypeOK
  <2>3. \A u \in Index : u # t => task'[u] = task[u]
    BY <1>6 DEF TaskEnds, TypeOK
  <2>4. task'[t] \notin Read
    BY <1>6 DEF TaskEnds, TypeOK, Read
  <2>5. UNCHANGED <<collector, item, collected, Tasks, Closed>> /\ Tasks \subseteq Index
    BY <1>6 DEF TaskEnds, group, Tasks, Closed
  <2>6. collected \subseteq Index
    BY <2>5 DEF TypeOK
  <2>7. QED BY <1>1, <2>1, <2>2, <2>3, <2>4, <2>5, <2>6 DEF Results
<1>7. ASSUME NEW t \in Index, WriteEnds(t) PROVE Results'
  <2>1. task[t] \in Read /\ \A u \in Index : u # t => task'[u] = task[u]
    BY <1>7 DEF WriteEnds, TypeOK, Read
  <2>2. task'[t] \in Read
    BY <1>7 DEF WriteEnds, TypeOK, Read
  <2>3. UNCHANGED <<collector, item, collected, ended, Tasks, Closed>> /\ Tasks \subseteq Index
    BY <1>7 DEF WriteEnds, group, Tasks, Closed
  <2>4. collected \subseteq Index
    BY <2>3 DEF TypeOK
  <2>5. QED BY <1>1, <2>1, <2>2, <2>3, <2>4 DEF Results
<1>8. ASSUME NEW t \in Index, WriteCancelled(t) PROVE Results'
  <2>1. task[t] = "put" /\ \A u \in Index : u # t => task'[u] = task[u]
    BY <1>8 DEF WriteCancelled, TypeOK
  <2>2. task'[t] \in Read
    BY <1>8 DEF WriteCancelled, TypeOK, Read
  <2>3. UNCHANGED <<collector, item, collected, ended, Tasks, Closed>> /\ Tasks \subseteq Index
    BY <1>8 DEF WriteCancelled, group, Tasks, Closed
  <2>4. collected \subseteq Index /\ Closed
    BY <1>8, <2>3 DEF TypeOK, WriteCancelled
  <2>5. QED BY <1>1, <2>1, <2>2, <2>3, <2>4 DEF Results
<1>9. ASSUME NEW t \in Index, Deliver(t) PROVE Results'
  <2>1. task[t] = "put" /\ \A u \in Index : u # t => task'[u] = task[u]
    BY <1>9 DEF Deliver, TypeOK
  <2>2. task'[t] \in Read
    BY <1>9 DEF Deliver, TypeOK, Read
  <2>3. UNCHANGED <<collected, ended, Tasks, Closed>> /\ Tasks \subseteq Index
    BY <1>9 DEF Deliver, group, Tasks, Closed
  <2>4. collector = "sync" /\ ~ Closed /\ collector' = "got" /\ item' = t
    BY <1>9 DEF Deliver
  <2>5. t \notin collected
    BY <1>1, <2>1 DEF Results, Read
  <2>6. t \in Tasks
    BY <2>1 DEF TypeOK, Tasks, Index
  <2>7. \A u \in Index : ended'[u] # "no" <=> task'[u] \in {"put"} \cup Read
    BY <1>1, <2>1, <2>2, <2>3 DEF Results
  <2>8. \A u \in collected' : task'[u] \in Read
    BY <1>1, <2>1, <2>2, <2>3, <2>5 DEF Results, TypeOK
  <2>9. \A u \in Tasks' : task'[u] \in Read =>
            u \in collected' \/ (collector' = "got" /\ u = item')
    BY <1>1, <2>1, <2>3, <2>4 DEF Results
  <2>10. QED BY <2>2, <2>3, <2>4, <2>5, <2>6, <2>7, <2>8, <2>9 DEF Results
<1>10. ASSUME SyncCancel \/ CollectCancel \/ Signal \/ CloseGroup PROVE Results'
  <2>1. UNCHANGED <<task, ended, item, collected, Tasks>> /\ collector' \in {"signal", "close", "end"}
    BY <1>10 DEF SyncCancel, CollectCancel, Signal, CloseGroup, group, Tasks
  <2>2. QED BY <1>1, <2>1 DEF Results
<1>11. CASE Collect
  <2>1. /\ UNCHANGED <<task, ended, item, Tasks, Closed>> /\ collector' \in {"sync", "signal"}
        /\ collector = "got" /\ collected' = collected \cup {item}
    BY <1>11 DEF Collect, group, Tasks, Closed
  <2>2. QED BY <1>1, <2>1 DEF Results
<1>12. CASE Closes
  <2>1. UNCHANGED <<task, ended, item, collected, collector, Tasks>> /\ ~ Closed
    BY <1>12 DEF Closes, group, Tasks
  <2>2. QED BY <1>1, <2>1 DEF Results
<1>13. QED
  BY <1>2, <1>3, <1>4, <1>5, <1>6, <1>7, <1>8, <1>9, <1>10, <1>11, <1>12
     DEF Next, CollectorSteps, TaskSteps

LEMMA NextDecided ==
    ASSUME TypeOK, GroupInv, [Next]_vars
    PROVE  (collector \in {"sync", "got"} => Undecided(collected))'
<1>1. Stage /\ Results /\ (collector \in {"sync", "got"} => Undecided(collected))
  BY DEF GroupInv
<1>2. CASE UNCHANGED vars
  <2>1. UNCHANGED <<group, ended, collected, collector>>
    BY <1>2 DEF vars, group
  <2>2. QED BY <1>1, <2>1, SameResults
<1>3. CASE AddTask
  BY <1>1, <1>3 DEF AddTask, Stage
<1>4. ASSUME NEW a \in Awaiter, Start(a) PROVE (collector \in {"sync", "got"} => Undecided(collected))'
  <2>1. collected' = {}
    BY <1>1, <1>4 DEF Start, Stage
  <2>2. CASE Early = Pending
    <3>1. ~ (kind = "some" /\ target > n) /\ n > 0
      <4>1. \A w \in {"target", "empty"} : Without(w) # Pending
        BY Whats DEF Verdicts
      <4>2. Value({}) # Pending
        BY Whats
      <4>3. QED BY <2>2, <4>1, <4>2 DEF Early
    <3>2. Failed(collected)' = {} /\ Succeeded(collected)' = {} /\ Cardinality(collected') = 0
      BY <2>1, FS_EmptySet DEF Failed, Succeeded
    <3>3. UNCHANGED <<kind, target, n>> /\ n \in Nat /\ target \in Nat
      BY <1>4 DEF Start, TypeOK
    <3>4. Cardinality(Failed(collected)') = 0 /\ Cardinality(Succeeded(collected)') = 0
      BY <3>2, FS_EmptySet
    <3>5. kind = "some" => target <= n
      BY <3>1, <3>3
    <3>6. Undecided(collected)'
      BY <3>1, <3>2, <3>3, <3>4, <3>5 DEF Undecided
    <3>7. QED BY <3>6
  <2>3. CASE Early # Pending
    BY <1>4, <2>3 DEF Start
  <2>4. QED BY <2>2, <2>3
<1>5. CASE /\ UNCHANGED <<group, ended, collected>>
           /\ collector' = "sync" \/ collector' = "got" => collector \in {"sync", "got"}
  BY <1>1, <1>5, SameResults
<1>6. ASSUME NEW a \in Awaiter, Join(a) \/ Return(a)
      PROVE  (collector \in {"sync", "got"} => Undecided(collected))'
  BY <1>5, <1>6 DEF Join, Return
<1>7. ASSUME NEW t \in Index, TaskEnds(t)
      PROVE  (collector \in {"sync", "got"} => Undecided(collected))'
  <2>1. t \notin collected
    BY <1>1, <1>7 DEF TaskEnds, Results, Read
  <2>2. \A u \in collected : ended'[u] = ended[u]
    BY <1>7, <2>1 DEF TaskEnds, TypeOK
  <2>3. UNCHANGED <<group, collected, collector, kind, target, n>>
    BY <1>7 DEF TaskEnds, group
  <2>4. Failed(collected)' = Failed(collected) /\ Succeeded(collected)' = Succeeded(collected)
    BY <2>2, <2>3 DEF Failed, Succeeded
  <2>5. QED BY <1>1, <2>3, <2>4 DEF Undecided
<1>8. ASSUME NEW t \in Index, WriteEnds(t) \/ WriteCancelled(t) \/ Deliver(t)
      PROVE  (collector \in {"sync", "got"} => Undecided(collected))'
  BY <1>5, <1>8 DEF WriteEnds, WriteCancelled, Deliver
<1>9. ASSUME SyncCancel \/ CollectCancel \/ Signal \/ CloseGroup \/ Closes
      PROVE  (collector \in {"sync", "got"} => Undecided(collected))'
  BY <1>5, <1>9 DEF SyncCancel, CollectCancel, Signal, CloseGroup, Closes
<1>10. CASE Collect
  <2>1. /\ collected' = collected \cup {item} /\ collector = "got"
        /\ UNCHANGED <<group, ended>>
        /\ collector' \in {"sync", "got"} => Judge(item) = Pending
    BY <1>10 DEF Collect
  <2>2. Judge(item) = Pending => Undecided(collected \cup {item})
    BY <2>1, JudgeSound
  <2>3. Judge(item) = Pending => Undecided(collected)'
    BY <2>1, <2>2, SameResults
  <2>4. QED BY <2>1, <2>3
<1>11. QED
  BY <1>2, <1>3, <1>4, <1>6, <1>7, <1>8, <1>9, <1>10
     DEF Next, CollectorSteps, TaskSteps

\* What a cancelled read ends _sync with is true.
LEMMA CancelSound ==
    ASSUME TypeOK, GroupInv, Closed, collector \in {"sync", "got"}
    PROVE  /\ Sound(CancelVerdict)
           /\ CancelVerdict.what \in {"closed", "timeout"} => CancelVerdict.what = closer
<1>1. CASE kind = "any" /\ 0 \in Failed(collected)
  <2>1. 0 \in Failed(Tasks)
    BY <1>1 DEF TypeOK, Failed
  <2>2. Sound(Error(0))
    BY <1>1, <2>1, ErrorSound
  <2>3. QED BY <1>1, <2>2, Whats DEF CancelVerdict
<1>2. CASE ~ (kind = "any" /\ 0 \in Failed(collected))
  <2>1. closer \in Verdicts \ {"none"} /\ closer \notin {"value", "error"}
    BY DEF Closed, Verdicts
  <2>2. CancelVerdict = Without(closer) /\ Without(closer).what = closer
    BY <1>2, <2>1, Whats DEF CancelVerdict
  <2>3. QED BY <2>1, <2>2, OtherSound
<1>3. QED BY <1>1, <1>2

LEMMA NextSound == ASSUME TypeOK, GroupInv, [Next]_vars PROVE VerdictSound'
<1>1. Stage /\ Results /\ VerdictSound
  BY DEF GroupInv
<1>2. CASE UNCHANGED vars
  <2>1. UNCHANGED <<group, ended, verdict, closer>>
    BY <1>2 DEF vars, group
  <2>2. QED BY <1>1, <2>1, SameResults DEF VerdictSound
<1>3. ASSUME UNCHANGED <<group, ended, verdict, closer>> PROVE VerdictSound'
  BY <1>1, <1>3, SameResults DEF VerdictSound
<1>4. CASE AddTask
  <2>1. verdict' = Pending
    BY <1>1, <1>4 DEF AddTask, Stage
  <2>2. verdict'.what = "none"
    BY <2>1, Whats
  <2>3. QED BY <2>2 DEF VerdictSound, Sound
<1>5. ASSUME NEW a \in Awaiter, Start(a) PROVE VerdictSound'
  <2>1. verdict' = Early /\ UNCHANGED <<kind, target, n>>
    BY <1>5 DEF Start
  <2>2. CASE (kind = "some" /\ target > n) \/ n > 0 \/ kind = "any"
    <3>1. verdict'.what \in {"none", "target", "empty"}
      BY <2>1, <2>2, Whats DEF Early, Verdicts
    <3>2. QED BY <3>1 DEF VerdictSound, Sound
  <2>3. CASE ~ ((kind = "some" /\ target > n) \/ n > 0 \/ kind = "any")
    <3>1. verdict' = Value({}) /\ Value({}).what = "value" /\ Value({}).of = {}
      BY <2>1, <2>3 DEF Early, Value
    <3>2. n = 0 /\ target \in Nat /\ (kind = "some" => target = 0)
      BY <2>3 DEF TypeOK
    <3>3. Tasks' = {}
      BY <2>1, <3>2 DEF Tasks, Index
    <3>4. Cardinality({}) = 0
      BY FS_EmptySet
    <3>5. QED BY <2>1, <2>3, <3>1, <3>2, <3>3, <3>4 DEF VerdictSound, Sound
  <2>4. QED BY <2>2, <2>3
<1>6. ASSUME NEW a \in Awaiter, Join(a) \/ Return(a) PROVE VerdictSound'
  BY <1>3, <1>6 DEF Join, Return
<1>7. ASSUME NEW t \in Index, TaskEnds(t) PROVE VerdictSound'
  <2>1. ended[t] = "no"
    BY <1>1, <1>7 DEF TaskEnds, Results, Read
  <2>2. UNCHANGED <<group, verdict, closer>>
    BY <1>7 DEF TaskEnds
  <2>3. PICK r \in {"ok", "fail"} : ended' = [ended EXCEPT ![t] = r]
    BY <1>7 DEF TaskEnds
  <2>4. Sound(verdict)'
    BY <1>1, <2>1, <2>2, <2>3, MoreResults DEF VerdictSound
  <2>5. QED BY <1>1, <2>2, <2>4 DEF VerdictSound
<1>8. ASSUME NEW t \in Index, WriteEnds(t) \/ WriteCancelled(t) \/ Deliver(t) PROVE VerdictSound'
  BY <1>3, <1>8 DEF WriteEnds, WriteCancelled, Deliver
<1>9. CASE Signal
  BY <1>3, <1>9 DEF Signal
<1>10. ASSUME SyncCancel \/ CollectCancel PROVE VerdictSound'
  <2>1. /\ Closed /\ collector \in {"sync", "got"}
        /\ verdict' = CancelVerdict /\ UNCHANGED <<group, ended, closer>>
    BY <1>10 DEF SyncCancel, CollectCancel, Closed
  <2>2. /\ Sound(CancelVerdict)
        /\ CancelVerdict.what \in {"closed", "timeout"} => CancelVerdict.what = closer
    BY <2>1, CancelSound
  <2>3. QED BY <2>1, <2>2, SameResults DEF VerdictSound
<1>11. CASE Collect
  <2>1. collector = "got" /\ verdict' = Judge(item) /\ UNCHANGED <<group, ended, closer>>
    BY <1>11 DEF Collect
  <2>2. Sound(Judge(item)) /\ Judge(item).what \in {"none", "value", "error"}
    BY <2>1, JudgeSound
  <2>3. QED BY <2>1, <2>2, SameResults DEF VerdictSound
<1>12. ASSUME CloseGroup \/ Closes PROVE VerdictSound'
  <2>1. UNCHANGED <<group, ended, verdict>> /\ (Closed => closer' = closer)
    BY <1>12 DEF CloseGroup, Closes
  <2>2. verdict.what \in {"closed", "timeout"} => Closed
    BY <1>1 DEF VerdictSound, Closed
  <2>3. QED BY <1>1, <2>1, <2>2, SameResults DEF VerdictSound
<1>13. QED
  BY <1>2, <1>4, <1>5, <1>6, <1>7, <1>8, <1>9, <1>10, <1>11, <1>12
     DEF Next, CollectorSteps, TaskSteps

----------------------------------------------------------------------------
LEMMA NextInv == ASSUME TypeOK, GroupInv, [Next]_vars PROVE GroupInv'
  BY NextStage, NextResults, NextDecided, NextSound DEF GroupInv

\* GroupInv, the strengthening that makes the two invariants below inductive,
\* holds in every reachable state.
THEOREM GroupCorrect == Spec => []GroupInv
<1>1. QED BY InitInv, NextInv, TypeCorrect, PTL DEF Spec

\* Whatever the group answers is true of its tasks, whichever of them fail, in
\* whatever order they end and whenever the closer is closed: no value is made of
\* too few results, and no error is thrown that no task has thrown.
THEOREM VerdictSoundEver == Spec => []VerdictSound
<1>1. GroupInv => VerdictSound
  BY DEF GroupInv
<1>2. QED BY <1>1, GroupCorrect, PTL

\* No result is lost while the closer of the group is not closed: a collector
\* that waits has a result to wait for.
THEOREM NothingLostEver == Spec => []NothingLost
<1>1. TypeOK /\ GroupInv => NothingLost
  <2> SUFFICES ASSUME TypeOK, GroupInv, collector = "sync", ~ Closed
               PROVE  /\ collected # Tasks
                      /\ \A i \in Tasks : i \in collected <=> task[i] \in Read
    BY DEF NothingLost, Read
  <2>1. Results /\ Undecided(collected)
    BY DEF GroupInv
  <2>2. collected # Tasks
    <3>1. Cardinality(Tasks) = n /\ n \in Nat
      BY TasksCard DEF TypeOK
    <3>2. Cardinality(collected) < n
      BY <2>1 DEF Undecided
    <3>3. QED BY <3>1, <3>2
  <2>3. \A i \in Tasks : i \in collected <=> task[i] \in Read
    BY <2>1 DEF Results
  <2>4. QED BY <2>2, <2>3
<1>2. QED BY <1>1, GroupCorrect, TypeCorrect, PTL

\* What the group answers does not change once the done signal is closed.
THEOREM AnswerFinalEver == Spec => AnswerFinal
<1>1. GroupInv /\ [Next]_vars => [done => UNCHANGED <<verdict, collected>>]_vars
  <2> SUFFICES ASSUME GroupInv, Next, done PROVE UNCHANGED <<verdict, collected>>
    OBVIOUS
  <2>1. collector \in {"close", "end"} /\ start
    BY DEF GroupInv, Stage
  <2>2. CASE AddTask
    BY <2>2 DEF AddTask
  <2>3. ASSUME NEW a \in Awaiter, Start(a) \/ Join(a) \/ Return(a)
        PROVE  UNCHANGED <<verdict, collected>>
    BY <2>1, <2>3 DEF Start, Join, Return
  <2>4. ASSUME NEW t \in Index, TaskSteps(t) \/ Deliver(t)
        PROVE  UNCHANGED <<verdict, collected>>
    BY <2>4 DEF TaskSteps, TaskEnds, WriteEnds, WriteCancelled, Deliver
  <2>5. ~ SyncCancel /\ ~ CollectCancel /\ ~ Collect /\ ~ Signal
    BY <2>1 DEF SyncCancel, CollectCancel, Collect, Signal
  <2>6. CASE CloseGroup \/ Closes
    BY <2>6 DEF CloseGroup, Closes
  <2>7. QED BY <2>2, <2>3, <2>4, <2>5, <2>6 DEF Next, CollectorSteps
<1>2. QED BY <1>1, GroupCorrect, PTL DEF Spec, AnswerFinal
=============================================================================
