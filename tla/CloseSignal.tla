---------------------------- MODULE CloseSignal ----------------------------
(***************************************************************************)
(* The closer tree of cfgo (CloseSignal and CloseSignalState, async.cpp)   *)
(* and the coroutines that wait on it (await, select, select_or_throw).    *)
(*                                                                         *)
(* Every state of the tree has its own mutex, so one action is one locked  *)
(* section; the calls a section makes after unlocking, on the parent or on *)
(* the children, are frames left on the stack of the calling thread, and   *)
(* other threads may run between them.                                     *)
(***************************************************************************)
EXTENDS Naturals, Sequences, FiniteSets

CONSTANTS
    Node,       \* the closers that may exist
    Root,       \* the closer that exists from the start
    NoNode,     \* the null parent
    Caller,     \* threads that call close, stop, resume, set_timeout ...
    Coro,       \* coroutines that call await, select or select_or_throw
    Ops,        \* the operations each caller uses
    Handles,    \* the closers each caller has a handle of (if they exist)
    Kinds,      \* which of "await", "select", "throw" the coroutines call
    Duration,   \* the non-zero timeouts
    MaxCalls,   \* bound: the calls each caller makes
    MaxData     \* bound: the messages written to the channel being selected

Operation == {"create", "close", "stop", "stopNoTimer", "resume",
              "setTimeout", "moveTimeout", "clearTimeout"}

\* The executor thread that runs the timer_task of closer n is named n.
Thread == Caller \cup Coro \cup Node

ASSUME SignalAssumption ==
    /\ Root \in Node
    /\ NoNode \notin Node
    /\ Caller \cap Coro = {} /\ Caller \cap Node = {} /\ Coro \cap Node = {}
    /\ Ops \in [Caller -> SUBSET Operation]
    /\ Handles \in [Caller -> SUBSET Node]
    /\ Kinds \subseteq {"await", "select", "throw"}
    /\ Duration \subseteq Nat \ {0}
    /\ MaxCalls \in Nat
    /\ MaxData \in Nat

VARIABLES
    made,    \* the closers created so far
    origin,  \* history: the closer each one was created from
    sig,     \* the CloseSignalState of every closer, but for its timer
    tm,      \* its timeouts, its timer and the timer_task coroutines
    todo,    \* the call stack of every thread
    calls,   \* how many calls each caller has made
    pc,      \* where each waiting coroutine is
    on,      \* the closer it waits on
    kind,    \* which function it called
    token,   \* its waiter channel was written before it began to read it
    res,     \* what the call returned
    data,    \* messages buffered in the channel being selected
    sent     \* messages written to that channel so far

treeVars == <<made, origin>>
coroVars == <<pc, on, kind, token, res, data, sent>>
vars == <<made, origin, sig, tm, todo, calls, pc, on, kind, token, res, data,
          sent>>

----------------------------------------------------------------------------
(* Frames: what a thread still has to do once it has left a locked section. *)

\* "close", "stop", "resume", "initTimer": call it on each of kids in turn.
\* "seal": the rest of the locked section of close, after m_closed = true.
\* "unlink": up->remove_me(the kid).  "initParent": init_timer on the parent.
FrameOp == {"close", "seal", "unlink", "stop", "resume", "initTimer",
            "initParent"}

Frame == [op : FrameOp, kids : SUBSET Node, flag : BOOLEAN,
          up : Node \cup {NoNode}]

Call(op, kids, flag) == [op |-> op, kids |-> kids, flag |-> flag, up |-> NoNode]

\* A loop over no children is over at once.
Push(f, stack) == IF f.kids = {} THEN stack ELSE <<f>> \o stack

\* The frame of thread t once it has called k, and what lies below it.
Without(t, k) ==
    Push([Head(todo[t]) EXCEPT !.kids = @ \ {k}], Tail(todo[t]))

\* Thread t is about to call op on closer k.
Runs(t, op, k) ==
    /\ todo[t] # <<>>
    /\ Head(todo[t]).op = op
    /\ k \in Head(todo[t]).kids

----------------------------------------------------------------------------
(* The timer of one closer.  clock compares the expiry with now: "none"     *)
(* while there is no m_timer, "future", or "past".  spawned, waiting and    *)
(* fired count the timer_task coroutines that have not started to wait,     *)
(* that wait, and whose wait has ended.                                     *)

Clock == {"none", "future", "past"}

Timer == [timeout : Nat, stopTimeout : Nat, clock : Clock,
          spawned : Nat, waiting : Nat, fired : Nat]

NewTimer == [timeout |-> 0, stopTimeout |-> 0, clock |-> "none",
             spawned |-> 0, waiting |-> 0, fired |-> 0]

\* The outcomes of _set_timeout(d).  Moving the expiry of a timer (expires_at,
\* expires_after) or cancelling it aborts the waits on it, which end their
\* timer_task by an exception; only a timeout set from zero spawns a new one.
SetTimer(r, d) ==
    IF r.timeout = d THEN {r}
    ELSE IF r.clock = "none" THEN {[r EXCEPT !.timeout = d]}
    ELSE IF d = 0 THEN {[r EXCEPT !.timeout = 0, !.waiting = 0]}
    ELSE IF r.timeout = 0
    THEN {[r EXCEPT !.timeout = d, !.clock = "future", !.waiting = 0,
                    !.spawned = @ + 1]}
    ELSE {[r EXCEPT !.timeout = d, !.clock = c, !.waiting = 0] :
             c \in {"future", "past"}}

\* Mutation: a timeout whose timer is not made yet is left alone.
StopTimerRunning(r) ==
    IF r.clock = "future" /\ r.timeout > 0
    THEN SetTimer([r EXCEPT !.stopTimeout = r.timeout], 0)
    ELSE {r}

\* stop(true): the time left is saved, unless the timer has already expired.
StopTimer(r) ==
    IF r.clock = "none" \/ r.timeout = 0
    THEN SetTimer([r EXCEPT !.stopTimeout = r.timeout], 0)
    ELSE IF r.clock = "future"
    THEN UNION {SetTimer([r EXCEPT !.stopTimeout = left], 0) :
                   left \in {d \in Duration : d <= r.timeout}}
    ELSE {r}

ResumeTimer(r) ==
    IF r.stopTimeout > 0
    THEN {[q EXCEPT !.stopTimeout = 0] : q \in SetTimer(r, r.stopTimeout)}
    ELSE {r}

----------------------------------------------------------------------------
State == [closed : BOOLEAN, sealing : BOOLEAN, isTimeout : BOOLEAN,
          stop : BOOLEAN, parent : Node \cup {NoNode}, children : SUBSET Node,
          waiters : SUBSET Coro, stopWaiters : SUBSET Coro]

NewState(p) ==
    [closed |-> FALSE, sealing |-> FALSE, isTimeout |-> FALSE, stop |-> FALSE,
     parent |-> p, children |-> {}, waiters |-> {}, stopWaiters |-> {}]

PC == {"idle", "init", "submit", "wait", "closer", "value", "stopwait",
       "check", "done"}

Result == {"none", "value", "canceled", "timeout"}

\* Types: every closer, stack, coroutine and counter keeps its type; the counters
\* of timer_task coroutines and of messages never go below zero.
TypeOK ==
    /\ made \subseteq Node /\ Root \in made
    /\ origin \in [Node -> made \cup {NoNode}]
    /\ sig \in [Node -> State]
    /\ tm \in [Node -> Timer]
    /\ todo \in [Thread -> Seq(Frame)]
    /\ calls \in [Caller -> Nat]
    /\ pc \in [Coro -> PC]
    /\ on \in [Coro -> Node]
    /\ kind \in [Coro -> {"await", "select", "throw"}]
    /\ token \in [Coro -> BOOLEAN]
    /\ res \in [Coro -> Result]
    /\ data \in Nat /\ sent \in Nat

Init ==
    /\ made = {Root}
    /\ origin = [n \in Node |-> NoNode]
    /\ sig = [n \in Node |-> NewState(NoNode)]
    /\ tm = [n \in Node |-> NewTimer]
    /\ todo = [t \in Thread |-> <<>>]
    /\ calls = [c \in Caller |-> 0]
    /\ pc = [w \in Coro |-> "idle"]
    /\ on = [w \in Coro |-> Root]
    /\ kind = [w \in Coro |-> "await"]
    /\ token = [w \in Coro |-> FALSE]
    /\ res = [w \in Coro |-> "none"]
    /\ data = 0
    /\ sent = 0

----------------------------------------------------------------------------
(* What callers do. *)

\* Caller c starts an operation; callers are sequential.
Begins(c, op) ==
    /\ todo[c] = <<>>
    /\ op \in Ops[c]
    /\ calls[c] < MaxCalls
    /\ calls' = [calls EXCEPT ![c] = @ + 1]

\* close(), or the destructor of a closer whose last handle is dropped.
BeginClose(c, n) ==
    /\ Begins(c, "close")
    /\ todo' = [todo EXCEPT ![c] = <<Call("close", {n}, FALSE)>>]
    /\ UNCHANGED <<treeVars, sig, tm, coroVars>>

BeginStop(c, n, stopTimer) ==
    /\ Begins(c, IF stopTimer THEN "stop" ELSE "stopNoTimer")
    /\ todo' = [todo EXCEPT ![c] = <<Call("stop", {n}, stopTimer)>>]
    /\ UNCHANGED <<treeVars, sig, tm, coroVars>>

BeginResume(c, n) ==
    /\ Begins(c, "resume")
    /\ todo' = [todo EXCEPT ![c] = <<Call("resume", {n}, FALSE)>>]
    /\ UNCHANGED <<treeVars, sig, tm, coroVars>>

\* set_timeout, named by what it does: the code of cfgo itself only ever sets
\* the timeout of a closer it has just made, before anything waits on it.
SetTimeout(c, n, d) ==
    /\ Begins(c, IF d = 0 THEN "clearTimeout"
                 ELSE IF tm[n].clock = "none" /\ ~ sig[n].stop THEN "setTimeout"
                 ELSE "moveTimeout")
    /\ ~ sig[n].closed
    /\ \E r \in SetTimer(tm[n], d) : tm' = [tm EXCEPT ![n] = r]
    /\ UNCHANGED <<treeVars, sig, todo, coroVars>>

\* Mutation: m_closed is not looked at.
CreateChildUnchecked(c, p, n) ==
    /\ Begins(c, "create")
    /\ n \notin made
    /\ made' = made \cup {n}
    /\ origin' = [origin EXCEPT ![n] = p]
    /\ sig' = [sig EXCEPT ![n].parent = p, ![p].children = @ \cup {n}]
    /\ UNCHANGED <<tm, todo, coroVars>>

\* A child of a closed closer is born closed, in the same way.
CreateChild(c, p, n) ==
    /\ Begins(c, "create")
    /\ n \notin made
    /\ ~ sig[p].sealing
    /\ made' = made \cup {n}
    /\ origin' = [origin EXCEPT ![n] = p]
    /\ \/ /\ sig[p].closed
          /\ sig' = [sig EXCEPT ![n].closed = TRUE,
                                ![n].isTimeout = sig[p].isTimeout]
       \/ /\ ~ sig[p].closed
          /\ sig' = [sig EXCEPT ![n].parent = p,
                                ![p].children = @ \cup {n}]
    /\ UNCHANGED <<tm, todo, coroVars>>

----------------------------------------------------------------------------
(* close: m_closed is set first and read by others without the mutex; the  *)
(* section goes on with Seal.                                              *)

CloseClosed(t, k) ==
    /\ Runs(t, "close", k)
    /\ sig[k].closed
    /\ todo' = [todo EXCEPT ![t] = Without(t, k)]
    /\ UNCHANGED <<treeVars, sig, tm, calls, coroVars>>

\* Mutation: the timer closes what has been closed since it looked.
CloseAgain(t, k) ==
    /\ Runs(t, "close", k)
    /\ ~ sig[k].sealing
    /\ sig' = [sig EXCEPT ![k].closed = TRUE, ![k].sealing = TRUE,
                          ![k].stop = FALSE]
    /\ todo' = [todo EXCEPT ![t] =
                   <<Call("seal", {k}, Head(todo[t]).flag)>> \o Without(t, k)]
    /\ UNCHANGED <<treeVars, tm, calls, coroVars>>

CloseOpen(t, k) ==
    /\ Runs(t, "close", k)
    /\ ~ sig[k].closed
    /\ sig' = [sig EXCEPT ![k].closed = TRUE, ![k].sealing = TRUE,
                          ![k].stop = FALSE]
    /\ todo' = [todo EXCEPT ![t] =
                   <<Call("seal", {k}, Head(todo[t]).flag)>> \o Without(t, k)]
    /\ UNCHANGED <<treeVars, tm, calls, coroVars>>

\* Mutation: the stop waiters are forgotten.
AfterCloseMissesStopped(w, s) ==
    IF w \in s.waiters /\ pc[w] = "wait" THEN "closer" ELSE pc[w]

\* Where coroutine w is once the waiters of state s have been written.
AfterClose(w, s) ==
    IF w \in s.waiters /\ pc[w] = "wait" THEN "closer"
    ELSE IF w \in s.stopWaiters /\ pc[w] = "stopwait" THEN "check"
    ELSE pc[w]

\* The children that close goes on to close.
Taken(s) == s.children

\* m_is_timeout, the timer, the waiters; the children and the parent are taken
\* out, for the calls that follow the locked section.  Writing a waiter channel
\* ends a suspended read; one that has not begun will find the token.
Seal(t, k) ==
    /\ Runs(t, "seal", k)
    /\ sig' = [sig EXCEPT ![k].sealing = FALSE,
                          ![k].isTimeout = Head(todo[t]).flag,
                          ![k].parent = NoNode,
                          ![k].children = {},
                          ![k].waiters = {},
                          ![k].stopWaiters = {}]
    /\ tm' = [tm EXCEPT ![k].timeout = 0, ![k].waiting = 0]
    /\ LET kids == Push(Call("close", Taken(sig[k]), Head(todo[t]).flag),
                        Tail(todo[t]))
           up == [Call("unlink", {k}, FALSE) EXCEPT !.up = sig[k].parent]
       IN  todo' = [todo EXCEPT ![t] = IF sig[k].parent = NoNode THEN kids
                                       ELSE <<up>> \o kids]
    /\ pc' = [w \in Coro |-> AfterClose(w, sig[k])]
    /\ token' = [w \in Coro |->
                    token[w] \/ (w \in sig[k].waiters /\ pc[w] = "submit")]
    /\ UNCHANGED <<treeVars, calls, on, kind, res, data, sent>>

\* remove_me on the former parent of k.
Unlink(t, k) ==
    /\ Runs(t, "unlink", k)
    /\ todo' = [todo EXCEPT ![t] = Tail(todo[t])]
    /\ LET p == Head(todo[t]).up
       IN  sig' = IF sig[p].closed THEN sig
                  ELSE [sig EXCEPT ![p].children = @ \ {k}]
    /\ UNCHANGED <<treeVars, tm, calls, coroVars>>

----------------------------------------------------------------------------
(* stop and resume: the flag under the mutex, then the children. *)

StopSkips(t, k) ==
    /\ Runs(t, "stop", k)
    /\ sig[k].closed \/ sig[k].stop
    /\ todo' = [todo EXCEPT ![t] = Without(t, k)]
    /\ UNCHANGED <<treeVars, sig, tm, calls, coroVars>>

StopOpen(t, k) ==
    /\ Runs(t, "stop", k)
    /\ ~ sig[k].closed /\ ~ sig[k].stop
    /\ sig' = [sig EXCEPT ![k].stop = TRUE]
    /\ \E r \in (IF Head(todo[t]).flag THEN StopTimer(tm[k]) ELSE {tm[k]}) :
          tm' = [tm EXCEPT ![k] = r]
    /\ todo' = [todo EXCEPT ![t] =
                   Push(Call("stop", sig[k].children, Head(todo[t]).flag),
                        Without(t, k))]
    /\ UNCHANGED <<treeVars, calls, coroVars>>

ResumeSkips(t, k) ==
    /\ Runs(t, "resume", k)
    /\ ~ sig[k].stop
    /\ todo' = [todo EXCEPT ![t] = Without(t, k)]
    /\ UNCHANGED <<treeVars, sig, tm, calls, coroVars>>

\* Mutation: the children are not resumed.
ResumeOne(t, k) ==
    /\ Runs(t, "resume", k)
    /\ sig[k].stop
    /\ sig' = [sig EXCEPT ![k].stop = FALSE, ![k].stopWaiters = {}]
    /\ todo' = [todo EXCEPT ![t] = Without(t, k)]
    /\ pc' = [w \in Coro |->
                 IF w \in sig[k].stopWaiters /\ pc[w] = "stopwait" THEN "check"
                 ELSE pc[w]]
    /\ UNCHANGED <<treeVars, tm, calls, on, kind, token, res, data, sent>>

ResumeStopped(t, k) ==
    /\ Runs(t, "resume", k)
    /\ sig[k].stop
    /\ sig' = [sig EXCEPT ![k].stop = FALSE, ![k].stopWaiters = {}]
    /\ \E r \in ResumeTimer(tm[k]) : tm' = [tm EXCEPT ![k] = r]
    /\ todo' = [todo EXCEPT ![t] =
                   Push(Call("resume", sig[k].children, FALSE), Without(t, k))]
    /\ pc' = [w \in Coro |->
                 IF w \in sig[k].stopWaiters /\ pc[w] = "stopwait" THEN "check"
                 ELSE pc[w]]
    /\ UNCHANGED <<treeVars, calls, on, kind, token, res, data, sent>>

----------------------------------------------------------------------------
(* init_timer, from a closer up to the root, and timer_task. *)

InitTimerSkips(t, k) ==
    /\ Runs(t, "initTimer", k)
    /\ sig[k].closed \/ tm[k].clock # "none"
    /\ todo' = [todo EXCEPT ![t] = Without(t, k)]
    /\ UNCHANGED <<treeVars, sig, tm, calls, coroVars>>

InitTimer(t, k) ==
    /\ Runs(t, "initTimer", k)
    /\ ~ sig[k].closed /\ tm[k].clock = "none"
    /\ \/ /\ tm[k].timeout = 0
          /\ tm' = [tm EXCEPT ![k].clock = "past"]
       \/ /\ tm[k].timeout # 0
          /\ tm' = [tm EXCEPT ![k].clock = "future", ![k].spawned = @ + 1]
    /\ todo' = [todo EXCEPT ![t] =
                   <<Call("initParent", {k}, FALSE)>> \o Without(t, k)]
    /\ UNCHANGED <<treeVars, sig, calls, coroVars>>

\* m_parent is read after the mutex has been released.
InitParent(t, k) ==
    /\ Runs(t, "initParent", k)
    /\ todo' = [todo EXCEPT ![t] =
                   IF sig[k].parent = NoNode THEN Tail(todo[t])
                   ELSE <<Call("initTimer", {sig[k].parent}, FALSE)>>
                            \o Tail(todo[t])]
    /\ UNCHANGED <<treeVars, sig, tm, calls, coroVars>>

Elapse(n) ==
    /\ tm[n].clock = "future"
    /\ tm' = [tm EXCEPT ![n].clock = "past"]
    /\ UNCHANGED <<treeVars, sig, todo, calls, coroVars>>

TaskStarts(n) ==
    /\ tm[n].spawned > 0
    /\ tm' = [tm EXCEPT ![n].spawned = @ - 1, ![n].waiting = @ + 1]
    /\ UNCHANGED <<treeVars, sig, todo, calls, coroVars>>

TaskFires(n) ==
    /\ tm[n].waiting > 0
    /\ tm[n].clock = "past"
    /\ tm' = [tm EXCEPT ![n].waiting = @ - 1, ![n].fired = @ + 1]
    /\ UNCHANGED <<treeVars, sig, todo, calls, coroVars>>

\* Mutation: the test is inverted.
TaskChecksInverted(n) ==
    /\ tm[n].fired > 0
    /\ todo[n] = <<>>
    /\ ~ sig[n].sealing
    /\ tm' = [tm EXCEPT ![n].fired = @ - 1]
    /\ todo' = [todo EXCEPT ![n] = IF tm[n].timeout # 0 THEN <<>>
                                   ELSE <<Call("close", {n}, TRUE)>>]
    /\ UNCHANGED <<treeVars, sig, calls, coroVars>>

\* The second half of timer_task: m_timeout is looked at under the mutex, and
\* close(true) is called after it has been released.
TaskChecks(n) ==
    /\ tm[n].fired > 0
    /\ todo[n] = <<>>
    /\ ~ sig[n].sealing
    /\ tm' = [tm EXCEPT ![n].fired = @ - 1]
    /\ todo' = [todo EXCEPT ![n] = IF tm[n].timeout = 0 THEN <<>>
                                   ELSE <<Call("close", {n}, TRUE)>>]
    /\ UNCHANGED <<treeVars, sig, calls, coroVars>>

----------------------------------------------------------------------------
(* await, select and select_or_throw. *)

\* The result of a call that finds its closer closed.
Cancelled(w) ==
    IF kind[w] # "select" /\ sig[on[w]].isTimeout THEN "timeout" ELSE "canceled"

Finish(w, r) ==
    /\ pc' = [pc EXCEPT ![w] = "done"]
    /\ res' = [res EXCEPT ![w] = r]

Enter(w, n, k) ==
    /\ pc[w] = "idle"
    /\ todo[w] = <<>>
    /\ k \in Kinds
    /\ pc' = [pc EXCEPT ![w] = "init"]
    /\ on' = [on EXCEPT ![w] = n]
    /\ kind' = [kind EXCEPT ![w] = k]
    /\ todo' = [todo EXCEPT ![w] = <<Call("initTimer", {n}, FALSE)>>]
    /\ UNCHANGED <<treeVars, sig, tm, calls, token, res, data, sent>>

\* Mutation: the waiter is registered without looking at m_closed.
GetWaiterUnchecked(w) ==
    /\ pc[w] = "init"
    /\ todo[w] = <<>>
    /\ sig' = [sig EXCEPT ![on[w]].waiters = @ \cup {w}]
    /\ pc' = [pc EXCEPT ![w] = "submit"]
    /\ UNCHANGED <<treeVars, tm, todo, calls, on, kind, token, res, data, sent>>

\* get_waiter, after init_timer.
GetWaiter(w) ==
    /\ pc[w] = "init"
    /\ todo[w] = <<>>
    /\ \/ /\ sig[on[w]].closed
          /\ Finish(w, Cancelled(w))
          /\ UNCHANGED sig
       \/ /\ ~ sig[on[w]].closed
          /\ sig' = [sig EXCEPT ![on[w]].waiters = @ \cup {w}]
          /\ pc' = [pc EXCEPT ![w] = "submit"]
          /\ UNCHANGED res
    /\ UNCHANGED <<treeVars, tm, todo, calls, on, kind, token, data, sent>>

\* The closer's waiter is read first, then the channel.  A waiter nobody reads
\* any more stays in m_waiters in the code; here it leaves.
Submit(w) ==
    /\ pc[w] = "submit"
    /\ \/ /\ token[w]
          /\ pc' = [pc EXCEPT ![w] = "closer"]
          /\ UNCHANGED <<sig, data>>
       \/ /\ ~ token[w] /\ kind[w] # "await" /\ data > 0
          /\ pc' = [pc EXCEPT ![w] = "value"]
          /\ data' = data - 1
          /\ sig' = [sig EXCEPT ![on[w]].waiters = @ \ {w}]
       \/ /\ ~ token[w] /\ (kind[w] = "await" \/ data = 0)
          /\ pc' = [pc EXCEPT ![w] = "wait"]
          /\ UNCHANGED <<sig, data>>
    /\ UNCHANGED <<treeVars, tm, todo, calls, on, kind, token, res, sent>>

\* A message arrives: a suspended select takes it, or it is buffered.
Produce ==
    /\ sent < MaxData
    /\ sent' = sent + 1
    /\ LET reading == {w \in Coro : pc[w] = "wait" /\ kind[w] # "await"}
       IN  \/ \E w \in reading :
                 /\ pc' = [pc EXCEPT ![w] = "value"]
                 /\ sig' = [sig EXCEPT ![on[w]].waiters = @ \ {w}]
                 /\ UNCHANGED data
           \/ /\ reading = {}
              /\ data' = data + 1
              /\ UNCHANGED <<pc, sig>>
    /\ UNCHANGED <<treeVars, tm, todo, calls, on, kind, token, res>>

CloserRead(w) ==
    /\ pc[w] = "closer"
    /\ Finish(w, Cancelled(w))
    /\ UNCHANGED <<treeVars, sig, tm, todo, calls, on, kind, token, data, sent>>

\* A value was read: if the closer is stopped wait, once, until it resumes.
GetStopWaiter(w) ==
    /\ pc[w] = "value"
    /\ \/ /\ sig[on[w]].stop
          /\ sig' = [sig EXCEPT ![on[w]].stopWaiters = @ \cup {w}]
          /\ pc' = [pc EXCEPT ![w] = "stopwait"]
       \/ /\ ~ sig[on[w]].stop
          /\ pc' = [pc EXCEPT ![w] = "check"]
          /\ UNCHANGED sig
    /\ UNCHANGED <<treeVars, tm, todo, calls, on, kind, token, res, data, sent>>

\* The value is given up if the closer was closed, unless it timed out; then
\* select is cancelled and select_or_throw throws CancelError(true).
Deliver(w) ==
    /\ pc[w] = "check"
    /\ Finish(w, IF ~ sig[on[w]].closed \/ sig[on[w]].isTimeout THEN "value"
                 ELSE IF kind[w] = "throw" THEN "timeout" ELSE "canceled")
    /\ UNCHANGED <<treeVars, sig, tm, todo, calls, on, kind, token, data, sent>>

----------------------------------------------------------------------------
Calls(c) ==
    \E n \in made \cap Handles[c] :
        \/ BeginClose(c, n)
        \/ \E b \in BOOLEAN : BeginStop(c, n, b)
        \/ BeginResume(c, n)
        \/ \E d \in Duration \cup {0} : SetTimeout(c, n, d)
        \/ \E m \in Node : CreateChild(c, n, m)

Works(t) ==
    \E k \in Node :
        \/ CloseClosed(t, k)
        \/ CloseOpen(t, k)
        \/ Seal(t, k)
        \/ Unlink(t, k)
        \/ StopSkips(t, k)
        \/ StopOpen(t, k)
        \/ ResumeSkips(t, k)
        \/ ResumeStopped(t, k)
        \/ InitTimerSkips(t, k)
        \/ InitTimer(t, k)
        \/ InitParent(t, k)

Timers(n) == Elapse(n) \/ TaskStarts(n) \/ TaskFires(n) \/ TaskChecks(n)

Waits(w) ==
    \/ GetWaiter(w)
    \/ Submit(w)
    \/ CloserRead(w)
    \/ GetStopWaiter(w)
    \/ Deliver(w)

Next ==
    \/ \E c \in Caller : Calls(c)
    \/ \E t \in Thread : Works(t)
    \/ \E n \in made : Timers(n)
    \/ \E w \in Coro : Waits(w)
    \/ \E w \in Coro, n \in made, k \in Kinds : Enter(w, n, k)
    \/ Produce

Spec == Init /\ [][Next]_vars

\* The executor runs every ready thread, coroutine and timer handler; nothing
\* makes a caller call or a message arrive.
Fairness ==
    /\ \A t \in Thread : WF_vars(Works(t))
    /\ \A n \in Node : WF_vars(Timers(n))
    /\ \A w \in Coro : WF_vars(Waits(w))

FairSpec == Spec /\ Fairness
----------------------------------------------------------------------------
(* Safety. *)

\* Stack s will call op on closer k.
InStack(op, k, s) == \E i \in DOMAIN s : s[i].op = op /\ k \in s[i].kids

\* Some thread still has closer k to close.
ClosePending(k) == \E t \in Thread : InStack("close", k, todo[t])

\* No orphan: once the locked section of a close is over, each closer created
\* from the closed one, however late, is closed or some thread is on its way to
\* close it (close copies the children under the mutex and create_child looks at
\* m_closed under it, but the children are only closed after unlocking).
NoOrphan ==
    \A n \in made \ {Root} :
        LET p == sig[origin[n]]
        IN  p.closed /\ ~ p.sealing => sig[n].closed \/ ClosePending(n)

\* An open closer is in the list its open creator will walk: remove_me only ever
\* takes out closers that are closed.
OpenChildListed ==
    \A n \in made \ {Root} :
        ~ sig[n].closed /\ ~ sig[origin[n]].closed
            => n \in sig[origin[n]].children

\* What makes NoOrphan inductive: a closer that is still open is in the list its
\* creator will take, or on the stack of a thread; a closer that is closed and
\* sealed, or not made yet, has no children; and only closers that are closed are
\* sealed or taken out of a list.
TreeInv ==
    /\ \A n \in made \ {Root} :
          /\ origin[n] \in made
          /\ \/ sig[n].closed
             \/ n \in sig[origin[n]].children
             \/ ClosePending(n)
    /\ OpenChildListed
    /\ \A n \in Node :
          (n \notin made \/ (sig[n].closed /\ ~ sig[n].sealing))
              => sig[n].children = {}
    /\ \A t \in Thread, k \in Node :
          InStack("seal", k, todo[t]) \/ InStack("unlink", k, todo[t])
              => sig[k].closed

\* No lost wakeup: a coroutine suspended on a closer is in the list that the
\* next close (or resume) of that closer empties, and the event has not passed.
NoLostWakeup ==
    \A w \in Coro :
        LET s == sig[on[w]]
        IN  /\ pc[w] = "wait"
                   => w \in s.waiters /\ (s.closed => s.sealing)
            /\ pc[w] = "submit"
                   => token[w] \/ (w \in s.waiters /\ (s.closed => s.sealing))
            /\ pc[w] = "stopwait"
                   => w \in s.stopWaiters /\ (s.stop \/ s.sealing)

\* When no call is under way, no closer is stopped under a running one: stop and
\* resume reach the children they find, and a child is created running.
NoStoppedUnderRunning ==
    (\A t \in Thread : todo[t] = <<>>)
        => \A n \in made \ {Root} :
              sig[n].stop => sig[origin[n]].stop \/ sig[origin[n]].closed

\* stop() holds the timeout: while a closer is stopped its timeout is not running
\* down, whether stop found the timer running, expired or not yet made (a timer
\* made while the closer is stopped must not start).
StopHoldsTimeout ==
    \A n \in made :
        sig[n].stop => tm[n].timeout = 0 \/ tm[n].clock = "past"

\* Closing is final, and so is the way it was closed: what is closed is not closed
\* again, by a second close or by the timer that had looked before; no resume and
\* no timer_task changes how, and nothing stops a closed closer.
CloseIsFinal ==
    [][\A n \in Node :
          sig[n].closed =>
             /\ sig'[n].closed /\ ~ sig'[n].stop
             /\ ~ sig[n].sealing =>
                   ~ sig'[n].sealing /\ sig'[n].isTimeout = sig[n].isTimeout]_vars

(* Liveness, under the fairness of the executor. *)

\* Whoever waits on a closed closer returns.
ClosedReleases ==
    \A w \in Coro :
        (pc[w] # "idle" /\ sig[on[w]].closed) ~> (pc[w] = "done")

\* A timeout that is not stopped closes its closer.
TimeoutCloses ==
    \A n \in Node :
        (n \in made /\ tm[n].clock # "none" /\ tm[n].timeout # 0)
            ~> (sig[n].closed \/ sig[n].stop)
=============================================================================
