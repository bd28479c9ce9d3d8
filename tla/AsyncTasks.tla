----------------------------- MODULE AsyncTasks -----------------------------
(***************************************************************************)
(* AsyncTasksAll, AsyncTasksAny and AsyncTasksSome (async.hpp): a group of *)
(* tasks run as coroutines of their own.  Each of them, when it ends,      *)
(* offers its result on a channel without a buffer; the first coroutine    *)
(* that awaits the group collects them until the group has an answer.      *)
(***************************************************************************)
EXTENDS Naturals, FiniteSets

CONSTANTS
    Awaiter,    \* the coroutines that await the group
    MaxTasks    \* bound: how many tasks are added

ASSUME TasksAssumption == MaxTasks \in Nat

VARIABLES
    kind,       \* which of the three classes the group is of
    target,     \* m_target, what a "some" group asks for
    n,          \* m_tasks.size()
    start,      \* m_start
    task,       \* where the coroutine of each task is
    ended,      \* how the body of each task ended
    collector,  \* where the first await is
    item,       \* the task whose result it has read last
    collected,  \* the tasks whose results _sync has taken in
    verdict,    \* what _sync ended with
    done,       \* whether m_done_signal is closed
    closer,     \* the state of m_close_ch
    awaiter     \* where each awaiting coroutine is

vars == <<kind, target, n, start, task, ended, collector, item, collected,
          verdict, done, closer, awaiter>>

group == <<kind, target, n, start>>

Index == 0 .. MaxTasks - 1
Tasks == {i \in Index : i < n}

\* "put": it offers its result.  "sent": the result has been read.
TaskPC == {"none", "added", "running", "put", "sent", "gone"}

\* "sync": in chan_read.  "got": it has read.  "signal", "close": what follows
\* _sync.
CollectorPC == {"idle", "sync", "got", "signal", "close", "end"}

\* A value, the error of a task, a cancellation, or a misuse of the group.
Pending == [what |-> "none", of |-> {}]
Value(s) == [what |-> "value", of |-> s]
Error(t) == [what |-> "error", of |-> {t}]
Without(w) == [what |-> w, of |-> {}]

Verdict ==
    [what : {"none", "value", "error", "closed", "timeout", "empty", "target"},
     of : SUBSET Index]

Closed == closer \in {"closed", "timeout"}

\* Types: the state keeps its types, and a group that has started has started
\* every task it holds and reads the results of these only.
TypeOK ==
    /\ kind \in {"all", "any", "some"}
    /\ target \in Nat
    /\ n \in 0 .. MaxTasks
    /\ start \in BOOLEAN
    /\ task \in [Index -> TaskPC]
    /\ ended \in [Index -> {"no", "ok", "fail"}]
    /\ collector \in CollectorPC
    /\ item \in Index \cup {MaxTasks}
    /\ collected \subseteq Tasks
    /\ verdict \in Verdict
    /\ done \in BOOLEAN
    /\ closer \in {"open", "stopped", "closed", "timeout"}
    /\ awaiter \in [Awaiter -> {"idle", "collect", "wait", "returned"}]
    /\ \A i \in Index : task[i] = "none" <=> i >= n
    /\ \A i \in Tasks : task[i] = "added" <=> ~ start
    /\ collector = "got" => item \in Tasks

Init ==
    /\ kind \in {"all", "any", "some"}
    /\ target \in IF kind = "some" THEN 0 .. MaxTasks + 1 ELSE {0}
    /\ n = 0
    /\ start = FALSE
    /\ task = [i \in Index |-> "none"]
    /\ ended = [i \in Index |-> "no"]
    /\ collector = "idle"
    /\ item = MaxTasks
    /\ collected = {}
    /\ verdict = Pending
    /\ done = FALSE
    /\ closer = "open"
    /\ awaiter = [a \in Awaiter |-> "idle"]

----------------------------------------------------------------------------
\* add_task; it throws when the group has started.
AddTask ==
    /\ ~ start
    /\ n < MaxTasks
    /\ n' = n + 1
    /\ task' = [task EXCEPT ![n] = "added"]
    /\ UNCHANGED <<kind, target, start, ended, collector, item, collected,
                   verdict, done, closer, awaiter>>

\* What _sync does before it reads: a target out of reach, or no task at all.
Early ==
    IF kind = "some" /\ target > n THEN Without("target")
    ELSE IF n > 0 THEN Pending
    ELSE IF kind = "any" THEN Without("empty")
    ELSE Value({})

\* The first await starts every task.
Start(a) ==
    /\ awaiter[a] = "idle"
    /\ ~ start
    /\ start' = TRUE
    /\ awaiter' = [awaiter EXCEPT ![a] = "collect"]
    /\ task' = [i \in Index |-> IF i < n THEN "running" ELSE "none"]
    /\ verdict' = Early
    /\ collector' = IF Early = Pending THEN "sync" ELSE "signal"
    /\ UNCHANGED <<kind, target, n, ended, item, collected, done, closer>>

\* Every other await waits for the done signal.
Join(a) ==
    /\ awaiter[a] = "idle"
    /\ start
    /\ awaiter' = [awaiter EXCEPT ![a] = "wait"]
    /\ UNCHANGED <<group, task, ended, collector, item, collected, verdict,
                   done, closer>>

----------------------------------------------------------------------------
\* Mutation: the error of a task is not written.
TaskEndsSilent(t) ==
    /\ task[t] = "running"
    /\ \E r \in {"ok", "fail"} :
        /\ ended' = [ended EXCEPT ![t] = r]
        /\ task' = [task EXCEPT ![t] = IF r = "ok" THEN "put" ELSE "gone"]
    /\ UNCHANGED <<group, collector, item, collected, verdict, done, closer,
                   awaiter>>

\* The body returns or throws; its coroutine offers the value or the error.
TaskEnds(t) ==
    /\ task[t] = "running"
    /\ \E r \in {"ok", "fail"} : ended' = [ended EXCEPT ![t] = r]
    /\ task' = [task EXCEPT ![t] = "put"]
    /\ UNCHANGED <<group, collector, item, collected, verdict, done, closer,
                   awaiter>>

\* The write and the read meet.
Deliver(t) ==
    /\ task[t] = "put"
    /\ collector = "sync"
    /\ ~ Closed
    /\ task' = [task EXCEPT ![t] = "sent"]
    /\ collector' = "got"
    /\ item' = t
    /\ UNCHANGED <<group, ended, collected, verdict, done, closer, awaiter>>

\* chan_write has written; it waits while the closer is stopped.
WriteEnds(t) ==
    /\ task[t] = "sent"
    /\ closer # "stopped"
    /\ task' = [task EXCEPT ![t] = "gone"]
    /\ UNCHANGED <<group, ended, collector, item, collected, verdict, done,
                   closer, awaiter>>

\* chan_write is cancelled, and so is the second one, of the CancelError.
WriteCancelled(t) ==
    /\ task[t] = "put"
    /\ Closed
    /\ task' = [task EXCEPT ![t] = "gone"]
    /\ UNCHANGED <<group, ended, collector, item, collected, verdict, done,
                   closer, awaiter>>

----------------------------------------------------------------------------
Failed(s) == {t \in s : ended[t] = "fail"}
Succeeded(s) == {t \in s : ended[t] = "ok"}

\* The verdict of each class once it has taken the result of t in, c being all
\* it has; Pending to read on.
AllVerdict(c, t) ==
    IF ended[t] = "fail" THEN Error(t)
    ELSE IF Cardinality(c) = n THEN Value(c)
    ELSE Pending

\* When all have failed it throws the error of its first task.
AnyVerdict(c, t) ==
    IF ended[t] = "ok" THEN Value({t})
    ELSE IF Cardinality(c) = n THEN Error(0)
    ELSE Pending

\* Mutation: a target that all but the failed tasks could still reach is given up.
SomeVerdictEager(c, t) ==
    IF Cardinality(Failed(c)) + target >= n THEN Error(t)
    ELSE IF Cardinality(Succeeded(c)) = target \/ Cardinality(c) = n
         THEN Value(Succeeded(c))
    ELSE Pending

\* With a target of 0 it waits for every task.
SomeVerdict(c, t) ==
    IF Cardinality(Failed(c)) + target > n THEN Error(t)
    ELSE IF Cardinality(Succeeded(c)) = target \/ Cardinality(c) = n
         THEN Value(Succeeded(c))
    ELSE Pending

Judge(t) ==
    LET c == collected \cup {t}
    IN CASE kind = "all" -> AllVerdict(c, t)
         [] kind = "any" -> AnyVerdict(c, t)
         [] kind = "some" -> SomeVerdict(c, t)

\* What a cancelled read ends _sync with.  An Any throws what its first task
\* has failed with, and the cancellation only if it has not failed.
CancelVerdict ==
    IF kind = "any" /\ 0 \in Failed(collected) THEN Error(0) ELSE Without(closer)

\* chan_read is cancelled.
SyncCancel ==
    /\ collector = "sync"
    /\ Closed
    /\ verdict' = CancelVerdict
    /\ collector' = "signal"
    /\ UNCHANGED <<group, task, ended, item, collected, done, closer, awaiter>>

\* chan_read has read, but a user has closed the closer: what it read is lost.
CollectCancel ==
    /\ collector = "got"
    /\ closer = "closed"
    /\ verdict' = CancelVerdict
    /\ collector' = "signal"
    /\ UNCHANGED <<group, task, ended, item, collected, done, closer, awaiter>>

\* One round of the loop of _sync.
Collect ==
    /\ collector = "got"
    /\ closer \in {"open", "timeout"}
    /\ collected' = collected \cup {item}
    /\ verdict' = Judge(item)
    /\ collector' = IF Judge(item) = Pending THEN "sync" ELSE "signal"
    /\ UNCHANGED <<group, task, ended, item, done, closer, awaiter>>

\* await closes m_done_signal, whether _sync returned or threw.
Signal ==
    /\ collector = "signal"
    /\ done' = TRUE
    /\ collector' = "close"
    /\ UNCHANGED <<group, task, ended, item, collected, verdict, closer, awaiter>>

\* Mutation: the closer of the group is left open.
LeaveGroup ==
    /\ collector = "close"
    /\ collector' = "end"
    /\ awaiter' = [a \in Awaiter |->
                    IF awaiter[a] = "collect" THEN "wait" ELSE awaiter[a]]
    /\ UNCHANGED <<group, task, ended, item, collected, verdict, done, closer>>

\* Then it closes m_close_ch, for the tasks that have not ended.
CloseGroup ==
    /\ collector = "close"
    /\ collector' = "end"
    /\ closer' = IF Closed THEN closer ELSE "closed"
    /\ awaiter' = [a \in Awaiter |->
                    IF awaiter[a] = "collect" THEN "wait" ELSE awaiter[a]]
    /\ UNCHANGED <<group, task, ended, item, collected, verdict, done>>

\* await, past the done signal, returns the result or throws m_internal_err.
Return(a) ==
    /\ awaiter[a] = "wait"
    /\ done
    /\ awaiter' = [awaiter EXCEPT ![a] = "returned"]
    /\ UNCHANGED <<group, task, ended, collector, item, collected, verdict,
                   done, closer>>

\* What the owner of the closer does, through the closer's tree.
Closes ==
    /\ ~ Closed
    /\ \/ \E s \in {"closed", "timeout"} : closer' = s
       \/ closer' = IF closer = "open" THEN "stopped" ELSE "open"
    /\ UNCHANGED <<group, task, ended, collector, item, collected, verdict,
                   done, awaiter>>

----------------------------------------------------------------------------
TaskSteps(t) == TaskEnds(t) \/ WriteEnds(t) \/ WriteCancelled(t)

CollectorSteps ==
    \/ \E t \in Index : Deliver(t)
    \/ SyncCancel \/ CollectCancel \/ Collect \/ Signal \/ CloseGroup

Next ==
    \/ AddTask
    \/ \E a \in Awaiter : Start(a) \/ Join(a) \/ Return(a)
    \/ \E t \in Index : TaskSteps(t)
    \/ CollectorSteps
    \/ Closes

Spec == Init /\ [][Next]_vars

\* The executor runs every ready coroutine, and the body of every task ends.
FairSpec ==
    /\ Spec
    /\ \A t \in Index : WF_vars(TaskSteps(t))
    /\ WF_vars(CollectorSteps)
    /\ \A a \in Awaiter : WF_vars(Return(a))

----------------------------------------------------------------------------
\* The value that a group answers, or the error, is true of its tasks.
Sound(v) ==
    LET ok == Succeeded(Tasks)
        fail == Failed(Tasks)
    IN  /\ v.what = "value" =>
            /\ v.of \subseteq ok
            /\ kind = "all" => v.of = Tasks
            /\ kind = "any" => Cardinality(v.of) = 1
            /\ kind = "some" => Cardinality(v.of) >= target
            /\ kind = "some" /\ target > 0 => Cardinality(v.of) = target
        /\ v.what = "error" =>
            /\ v.of # {} /\ v.of \subseteq fail
            /\ kind = "some" => Cardinality(fail) > n - target

\* What await answers is true of the tasks: All has every result, Any one, Some
\* its target, none of them the result of a task that failed; the error it
\* throws is of a task that failed, which leaves Some too few to reach its
\* target; and it tells a cancellation only of a closer that is closed, as it was
\* closed.
VerdictSound ==
    /\ Sound(verdict)
    /\ verdict.what \in {"closed", "timeout"} => closer = verdict.what

\* No result is lost: while the collector waits and the closer is not closed, it
\* has taken in just the results that were offered and read, so there is another
\* one to wait for.
NothingLost ==
    collector = "sync" /\ ~ Closed =>
        /\ collected # Tasks
        /\ \A i \in Tasks : i \in collected <=> task[i] \in {"sent", "gone"}

\* What makes both inductive: which part of await the state belongs to,
Stage ==
    /\ collector = "idle" <=> ~ start
    /\ collector \in {"idle", "sync", "got"} => verdict = Pending
    /\ collector = "idle" => collected = {}
    /\ done => collector \in {"close", "end"}

\* which results have been read, and by whom,
Read == {"sent", "gone"}

Results ==
    /\ \A t \in Index : ended[t] # "no" <=> task[t] \in {"put"} \cup Read
    /\ \A t \in collected : task[t] \in Read
    /\ collector = "got" => item \in Tasks \ collected /\ task[item] \in Read
    /\ collector \in {"sync", "got"} /\ ~ Closed =>
        \A t \in Tasks : task[t] \in Read =>
            t \in collected \/ (collector = "got" /\ t = item)

\* and that those taken in so far do not decide the group.
Undecided(c) ==
    /\ Cardinality(c) < n
    /\ kind = "all" => Failed(c) = {}
    /\ kind = "any" => Succeeded(c) = {}
    /\ kind = "some" =>
        /\ Cardinality(Failed(c)) + target <= n
        /\ target > 0 => Cardinality(Succeeded(c)) < target

GroupInv ==
    /\ Stage
    /\ Results
    /\ collector \in {"sync", "got"} => Undecided(collected)
    /\ VerdictSound

\* Once the done signal is closed what await answers does not change any more,
\* and no later result is taken in.
AnswerFinal == [][done => UNCHANGED <<verdict, collected>>]_vars

\* Every await returns, unless the closer is stopped and not resumed.
AwaitReturns ==
    \A a \in Awaiter :
        awaiter[a] \in {"collect", "wait"} ~> (awaiter[a] = "returned" \/ closer = "stopped")

\* No coroutine of a task is left behind once the group has its answer, whether
\* anyone reads its result or not.
TasksDrain == (collector = "end") ~> (\A i \in Tasks : task[i] = "gone")

\* The whole group comes to its end: the awaits and the coroutines of the tasks.
GroupEnds == AwaitReturns /\ TasksDrain
=============================================================================
