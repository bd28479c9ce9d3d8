------------------------- MODULE CloseSignalProofs -------------------------
(***************************************************************************)
(* Theorems about the closer tree, for any set of closers, threads and     *)
(* coroutines: the tree itself, what close reaches, who is woken, and what *)
(* stop holds.                                                             *)
(***************************************************************************)
EXTENDS CloseSignal, TLAPS

----------------------------------------------------------------------------
(* Call stacks. *)

\* Putting a frame on a stack.
LEMMA ConsStack ==
    ASSUME NEW s \in Seq(Frame), NEW f \in Frame
    PROVE  /\ <<f>> \o s \in Seq(Frame)
           /\ \A op, k : InStack(op, k, <<f>> \o s)
                            <=> (f.op = op /\ k \in f.kids) \/ InStack(op, k, s)
<1> DEFINE c == <<f>> \o s
<1>1. c \in Seq(Frame) /\ Len(c) = Len(s) + 1
  OBVIOUS
<1>2. c[1] = f /\ \A i \in 1..Len(s) : c[i + 1] = s[i]
  OBVIOUS
<1>3. ASSUME NEW op, NEW k, InStack(op, k, c)
      PROVE  (f.op = op /\ k \in f.kids) \/ InStack(op, k, s)
  <2>1. PICK i \in 1..Len(c) : c[i].op = op /\ k \in c[i].kids
    BY <1>1, <1>3 DEF InStack
  <2>2. CASE i = 1
    BY <2>1, <2>2, <1>2
  <2>3. CASE i # 1
    <3>1. i - 1 \in 1..Len(s) /\ c[i] = s[i - 1]
      BY <2>3, <1>1, <1>2
    <3>2. QED BY <3>1, <2>1 DEF InStack
  <2>4. QED BY <2>2, <2>3
<1>4. ASSUME NEW op, NEW k, (f.op = op /\ k \in f.kids) \/ InStack(op, k, s)
      PROVE  InStack(op, k, c)
  <2>1. CASE f.op = op /\ k \in f.kids
    <3>1. 1 \in DOMAIN c BY <1>1
    <3>2. QED BY <3>1, <2>1, <1>2 DEF InStack
  <2>2. CASE InStack(op, k, s)
    <3>1. PICK i \in 1..Len(s) : s[i].op = op /\ k \in s[i].kids
      BY <2>2 DEF InStack
    <3>2. i + 1 \in DOMAIN c /\ c[i + 1] = s[i]
      BY <1>1, <1>2
    <3>3. QED BY <3>1, <3>2 DEF InStack
  <2>3. QED BY <1>4, <2>1, <2>2
<1>5. QED BY <1>1, <1>3, <1>4

\* Taking the frame of a thread off its stack.
LEMMA TailStack ==
    ASSUME NEW s \in Seq(Frame), s # <<>>
    PROVE  /\ Head(s) \in Frame /\ Tail(s) \in Seq(Frame)
           /\ \A op, k : InStack(op, k, s)
                 <=> (Head(s).op = op /\ k \in Head(s).kids)
                        \/ InStack(op, k, Tail(s))
<1>1. Head(s) \in Frame /\ Tail(s) \in Seq(Frame)
  OBVIOUS
<1>2. s = <<Head(s)>> \o Tail(s)
  OBVIOUS
<1>3. QED BY <1>1, <1>2, ConsStack

\* Push leaves out a frame that calls nobody, which no InStack sees.
LEMMA PushStack ==
    ASSUME NEW s \in Seq(Frame), NEW f \in Frame
    PROVE  /\ Push(f, s) \in Seq(Frame)
           /\ \A op, k : InStack(op, k, Push(f, s))
                            <=> (f.op = op /\ k \in f.kids) \/ InStack(op, k, s)
BY ConsStack DEF Push

\* The frame of a thread that has called k: k is the only call that is gone.
LEMMA WithoutStack ==
    ASSUME TypeOK, NEW t \in Thread, NEW op, NEW k \in Node, Runs(t, op, k)
    PROVE  /\ todo[t] \in Seq(Frame) /\ todo[t] # <<>>
           /\ Head(todo[t]) \in Frame /\ Tail(todo[t]) \in Seq(Frame)
           /\ Without(t, k) \in Seq(Frame)
           /\ \A o, n : InStack(o, n, todo[t])
                           <=> (o = op /\ n = k) \/ InStack(o, n, Without(t, k))
           /\ \A o, n : InStack(o, n, Tail(todo[t])) => InStack(o, n, todo[t])
           /\ \A o, n : o # op =>
                 (InStack(o, n, todo[t]) <=> InStack(o, n, Tail(todo[t])))
<1> DEFINE f == Head(todo[t])
           g == [f EXCEPT !.kids = @ \ {k}]
<1>1. todo[t] \in Seq(Frame) /\ todo[t] # <<>> /\ f.op = op /\ k \in f.kids
  BY DEF TypeOK, Runs
<1>2. f \in Frame /\ Tail(todo[t]) \in Seq(Frame)
  BY <1>1, TailStack
<1>3. g \in Frame /\ g.op = op /\ g.kids = f.kids \ {k}
  BY <1>1, <1>2 DEF Frame
<1>4. /\ Without(t, k) \in Seq(Frame)
      /\ \A o, n : InStack(o, n, Without(t, k))
            <=> (op = o /\ n \in f.kids \ {k}) \/ InStack(o, n, Tail(todo[t]))
  BY <1>2, <1>3, PushStack DEF Without
<1>5. \A o, n : InStack(o, n, todo[t])
                   <=> (op = o /\ n \in f.kids) \/ InStack(o, n, Tail(todo[t]))
  BY <1>1, TailStack
<1>6. QED BY <1>1, <1>2, <1>4, <1>5

LEMMA CallType ==
    ASSUME NEW op \in FrameOp, NEW kids \in SUBSET Node, NEW flag \in BOOLEAN
    PROVE  /\ Call(op, kids, flag) \in Frame
           /\ Call(op, kids, flag).op = op
           /\ Call(op, kids, flag).kids = kids
BY DEF Call, Frame

LEMMA OneFrame ==
    /\ <<>> \in Seq(Frame)
    /\ \A f \in Frame : <<f>> \in Seq(Frame)
OBVIOUS

----------------------------------------------------------------------------
(* Types. *)

LEMMA TodoType ==
    ASSUME TypeOK, NEW t \in Thread, NEW s \in Seq(Frame),
           todo' = [todo EXCEPT ![t] = s]
    PROVE  todo' \in [Thread -> Seq(Frame)]
BY DEF TypeOK

\* One closer of the tree gets another state.
LEMMA SigType ==
    ASSUME TypeOK, NEW n \in Node, NEW s \in State,
           sig' = [sig EXCEPT ![n] = s]
    PROVE  sig' \in [Node -> State]
BY DEF TypeOK

\* _set_timeout keeps a timer a timer.
LEMMA SetTimerType ==
    ASSUME NEW r \in Timer, NEW d \in Nat
    PROVE  SetTimer(r, d) \subseteq Timer
<1> SUFFICES ASSUME NEW q \in SetTimer(r, d) PROVE q \in Timer
  OBVIOUS
<1>1. r.spawned \in Nat /\ r.spawned + 1 \in Nat
  BY DEF Timer
<1>2. [r EXCEPT !.timeout = d] \in Timer
  BY DEF Timer
<1>3. [r EXCEPT !.timeout = 0, !.waiting = 0] \in Timer
  BY DEF Timer
<1>4. [r EXCEPT !.timeout = d, !.clock = "future", !.waiting = 0,
                !.spawned = @ + 1] \in Timer
  BY <1>1 DEF Timer, Clock
<1>5. \A c \in {"future", "past"} :
          [r EXCEPT !.timeout = d, !.clock = c, !.waiting = 0] \in Timer
  BY DEF Timer, Clock
<1>6. QED BY <1>2, <1>3, <1>4, <1>5 DEF SetTimer

LEMMA StopTimerType ==
    ASSUME NEW r \in Timer
    PROVE  StopTimer(r) \subseteq Timer
<1>1. Duration \subseteq Nat
  BY SignalAssumption
<1>2. \A d \in Nat : [r EXCEPT !.stopTimeout = d] \in Timer
  BY DEF Timer
<1>3. r.timeout \in Nat
  BY DEF Timer
<1>4. \A d \in Nat : SetTimer([r EXCEPT !.stopTimeout = d], 0) \subseteq Timer
  BY <1>2, SetTimerType
<1>5. QED BY <1>1, <1>3, <1>4 DEF StopTimer

LEMMA ResumeTimerType ==
    ASSUME NEW r \in Timer
    PROVE  ResumeTimer(r) \subseteq Timer
<1>1. r.stopTimeout \in Nat
  BY DEF Timer
<1>2. SetTimer(r, r.stopTimeout) \subseteq Timer
  BY <1>1, SetTimerType
<1>3. \A q \in Timer : [q EXCEPT !.stopTimeout = 0] \in Timer
  BY DEF Timer
<1>4. QED BY <1>2, <1>3 DEF ResumeTimer

LEMMA NewStateType ==
    ASSUME NEW p \in Node \cup {NoNode} PROVE NewState(p) \in State
BY DEF NewState, State

LEMMA InitType == Init => TypeOK
<1> SUFFICES ASSUME Init PROVE TypeOK
  OBVIOUS
<1>1. NewTimer \in Timer
  BY DEF NewTimer, Timer, Clock
<1>2. NewState(NoNode) \in State
  BY NewStateType
<1>3. <<>> \in Seq(Frame)
  OBVIOUS
<1>4. Root \in Node
  BY SignalAssumption
<1>5. QED BY <1>1, <1>2, <1>3, <1>4 DEF Init, TypeOK, PC, Result

\* The calls of callers.
LEMMA CallsType ==
    ASSUME TypeOK, NEW c \in Caller, Calls(c) PROVE TypeOK'
<1> USE DEF treeVars, coroVars
<1>0. c \in Thread /\ Duration \cup {0} \subseteq Nat
  BY SignalAssumption DEF Thread
<1>1. PICK n \in made \cap Handles[c] :
          \/ BeginClose(c, n)
          \/ \E b \in BOOLEAN : BeginStop(c, n, b)
          \/ BeginResume(c, n)
          \/ \E d \in Duration \cup {0} : SetTimeout(c, n, d)
          \/ \E m \in Node : CreateChild(c, n, m)
  BY DEF Calls
<1>2. n \in made /\ n \in Node
  BY <1>1 DEF TypeOK
<1>3. ASSUME NEW f \in Frame PROVE <<f>> \in Seq(Frame)
  OBVIOUS
<1>4. CASE BeginClose(c, n)
  <2>1. <<Call("close", {n}, FALSE)>> \in Seq(Frame)
    <3>1. "close" \in FrameOp /\ {n} \in SUBSET Node /\ FALSE \in BOOLEAN
      BY <1>2 DEF FrameOp
    <3>2. Call("close", {n}, FALSE) \in Frame
      BY <3>1, CallType
    <3>3. QED BY <3>2, <1>3
  <2>2. todo' \in [Thread -> Seq(Frame)]
    BY <1>0, <1>4, <2>1, TodoType DEF BeginClose
  <2>3. /\ Begins(c, "close")
        /\ UNCHANGED <<treeVars, sig, tm, coroVars>>
    BY <1>4 DEF BeginClose
  <2>4. QED BY <2>2, <2>3 DEF Begins, TypeOK
<1>5. ASSUME NEW b \in BOOLEAN, BeginStop(c, n, b) PROVE TypeOK'
  <2>1. <<Call("stop", {n}, b)>> \in Seq(Frame)
    <3>1. "stop" \in FrameOp /\ {n} \in SUBSET Node /\ b \in BOOLEAN
      BY <1>2 DEF FrameOp
    <3>2. Call("stop", {n}, b) \in Frame
      BY <3>1, CallType
    <3>3. QED BY <3>2, <1>3
  <2>2. QED BY <1>0, <1>5, <2>1 DEF BeginStop, Begins, TypeOK
<1>6. CASE BeginResume(c, n)
  <2>1. <<Call("resume", {n}, FALSE)>> \in Seq(Frame)
    <3>1. "resume" \in FrameOp /\ {n} \in SUBSET Node /\ FALSE \in BOOLEAN
      BY <1>2 DEF FrameOp
    <3>2. Call("resume", {n}, FALSE) \in Frame
      BY <3>1, CallType
    <3>3. QED BY <3>2, <1>3
  <2>2. todo' \in [Thread -> Seq(Frame)]
    BY <1>0, <1>6, <2>1, TodoType DEF BeginResume
  <2>3. /\ Begins(c, "resume")
        /\ UNCHANGED <<treeVars, sig, tm, coroVars>>
    BY <1>6 DEF BeginResume
  <2>4. QED BY <2>2, <2>3 DEF Begins, TypeOK
<1>7. ASSUME NEW d \in Duration \cup {0}, SetTimeout(c, n, d) PROVE TypeOK'
  <2>1. d \in Nat /\ tm[n] \in Timer
    BY <1>0, <1>2 DEF TypeOK
  <2>2. SetTimer(tm[n], d) \subseteq Timer
    BY <2>1, SetTimerType
  <2>3. QED BY <1>2, <1>7, <2>2 DEF SetTimeout, Begins, TypeOK
<1>8. ASSUME NEW m \in Node, CreateChild(c, n, m) PROVE TypeOK'
  <2>1. sig' \in [Node -> State]
    <3>1. CASE /\ sig[n].closed
               /\ sig' = [sig EXCEPT ![m].closed = TRUE,
                                     ![m].isTimeout = sig[n].isTimeout]
      <4>1. sig[m] \in State /\ sig[n].isTimeout \in BOOLEAN
        BY <1>2 DEF TypeOK, State
      <4>2. [sig[m] EXCEPT !.closed = TRUE, !.isTimeout = sig[n].isTimeout]
                \in State
        BY <4>1 DEF State
      <4>3. sig' = [sig EXCEPT ![m] = [sig[m] EXCEPT !.closed = TRUE,
                                          !.isTimeout = sig[n].isTimeout]]
        BY <3>1, <1>8 DEF TypeOK, CreateChild
      <4>4. QED BY <4>2, <4>3 DEF TypeOK
    <3>2. CASE /\ ~ sig[n].closed
               /\ sig' = [sig EXCEPT ![m].parent = n,
                                     ![n].children = @ \cup {m}]
      <4>1. m # n /\ sig[m] \in State /\ sig[n] \in State
        BY <1>2, <1>8 DEF TypeOK, CreateChild
      <4>2. [sig[m] EXCEPT !.parent = n] \in State
        BY <4>1, <1>2 DEF State
      <4>3. [sig[n] EXCEPT !.children = @ \cup {m}] \in State
        BY <4>1 DEF State
      <4>4. sig' = [sig EXCEPT ![m] = [sig[m] EXCEPT !.parent = n],
                               ![n] = [sig[n] EXCEPT !.children = @ \cup {m}]]
        BY <4>1, <3>2 DEF TypeOK
      <4>5. QED BY <4>2, <4>3, <4>4 DEF TypeOK
    <3>3. QED BY <1>8, <3>1, <3>2 DEF CreateChild
  <2>2. made' \subseteq Node /\ Root \in made' /\ origin' \in [Node -> made' \cup {NoNode}]
    BY <1>2, <1>8 DEF CreateChild, TypeOK
  <2>3. QED BY <1>8, <2>1, <2>2 DEF CreateChild, Begins, TypeOK
<1>9. QED BY <1>1, <1>4, <1>5, <1>6, <1>7, <1>8

\* The frames of a call under way, one lemma for the actions of Works.
LEMMA WorksType ==
    ASSUME TypeOK, NEW t \in Thread, NEW k \in Node,
           \/ CloseClosed(t, k) \/ CloseOpen(t, k) \/ Seal(t, k) \/ Unlink(t, k)
           \/ StopSkips(t, k) \/ StopOpen(t, k)
           \/ ResumeSkips(t, k) \/ ResumeStopped(t, k)
           \/ InitTimerSkips(t, k) \/ InitTimer(t, k) \/ InitParent(t, k)
    PROVE  TypeOK'
<1> USE DEF treeVars, coroVars
<1> DEFINE f == Head(todo[t])
<1>a. sig[k] \in State /\ tm[k] \in Timer
  BY DEF TypeOK
<1>b. /\ sig[k].children \in SUBSET Node
      /\ sig[k].parent \in Node \cup {NoNode}
      /\ sig[k].waiters \in SUBSET Coro
      /\ sig[k].stopWaiters \in SUBSET Coro
  BY <1>a DEF State
<1>c. ASSUME NEW op, Runs(t, op, k)
      PROVE  f \in Frame /\ f.flag \in BOOLEAN /\ f.up \in Node \cup {NoNode}
  BY <1>c, WithoutStack DEF Frame
<1>1. CASE CloseClosed(t, k)
  <2>1. Runs(t, "close", k) /\ todo' = [todo EXCEPT ![t] = Without(t, k)]
    BY <1>1 DEF CloseClosed
  <2>2. todo' \in [Thread -> Seq(Frame)]
    BY <2>1, WithoutStack, TodoType
  <2>3. UNCHANGED <<treeVars, sig, tm, calls, coroVars>>
    BY <1>1 DEF CloseClosed
  <2>4. QED BY <2>2, <2>3 DEF TypeOK
<1>2. CASE CloseOpen(t, k)
  <2>1. Runs(t, "close", k)
    BY <1>2 DEF CloseOpen
  <2>2. Call("seal", {k}, f.flag) \in Frame
    BY <2>1, <1>c, CallType DEF FrameOp
  <2>3. <<Call("seal", {k}, f.flag)>> \o Without(t, k) \in Seq(Frame)
    BY <2>1, <2>2, WithoutStack, ConsStack
  <2>4. todo' \in [Thread -> Seq(Frame)]
    BY <2>3, <1>2, TodoType DEF CloseOpen
  <2>5. sig' \in [Node -> State]
    <3>1. [sig[k] EXCEPT !.closed = TRUE, !.sealing = TRUE, !.stop = FALSE]
              \in State
      BY <1>a DEF State
    <3>2. sig' = [sig EXCEPT ![k] = [sig[k] EXCEPT !.closed = TRUE,
                                       !.sealing = TRUE, !.stop = FALSE]]
      BY <1>2 DEF CloseOpen, TypeOK
    <3>3. QED BY <3>1, <3>2, SigType
  <2>6. UNCHANGED <<treeVars, tm, calls, coroVars>>
    BY <1>2 DEF CloseOpen
  <2>7. QED BY <2>4, <2>5, <2>6 DEF TypeOK
<1>3. CASE Seal(t, k)
  <2> DEFINE s == [sig[k] EXCEPT !.sealing = FALSE, !.isTimeout = f.flag,
                       !.parent = NoNode, !.children = {}, !.waiters = {},
                       !.stopWaiters = {}]
             kids == Push(Call("close", sig[k].children, f.flag),
                          Tail(todo[t]))
             up == [Call("unlink", {k}, FALSE) EXCEPT !.up = sig[k].parent]
  <2>1. Runs(t, "seal", k) /\ f.flag \in BOOLEAN
    BY <1>3, <1>c DEF Seal
  <2>2. s \in State
    BY <1>a, <2>1 DEF State
  <2>3. sig' = [sig EXCEPT ![k] = s]
    BY <1>3 DEF Seal, TypeOK
  <2>4. sig' \in [Node -> State]
    BY <2>2, <2>3, SigType
  <2>5. kids \in Seq(Frame)
    <3>1. Call("close", sig[k].children, f.flag) \in Frame
      BY <1>b, <2>1, CallType DEF FrameOp
    <3>2. QED BY <3>1, <2>1, WithoutStack, PushStack
  <2>6. <<up>> \o kids \in Seq(Frame)
    <3>1. up \in Frame
      <4>1. Call("unlink", {k}, FALSE) \in Frame
        BY CallType DEF FrameOp
      <4>2. QED BY <4>1, <1>b DEF Frame
    <3>2. QED BY <3>1, <2>5, ConsStack
  <2>7. todo' \in [Thread -> Seq(Frame)]
    <3>1. todo' = [todo EXCEPT ![t] = IF sig[k].parent = NoNode THEN kids
                                      ELSE <<up>> \o kids]
      BY <1>3 DEF Seal, Taken
    <3>2. QED BY <3>1, <2>5, <2>6, TodoType
  <2>8. tm' \in [Node -> Timer]
    <3>1. [tm[k] EXCEPT !.timeout = 0, !.waiting = 0] \in Timer
      BY <1>a DEF Timer
    <3>2. tm' = [tm EXCEPT ![k] = [tm[k] EXCEPT !.timeout = 0, !.waiting = 0]]
      BY <1>3 DEF Seal, TypeOK
    <3>3. QED BY <3>1, <3>2 DEF TypeOK
  <2>9. pc' \in [Coro -> PC] /\ token' \in [Coro -> BOOLEAN]
    <3>1. \A w \in Coro : AfterClose(w, sig[k]) \in PC
      BY DEF AfterClose, TypeOK, PC
    <3>2. pc' = [w \in Coro |-> AfterClose(w, sig[k])]
      BY <1>3 DEF Seal
    <3>3. token' = [w \in Coro |-> token[w]
                        \/ (w \in sig[k].waiters /\ pc[w] = "submit")]
      BY <1>3 DEF Seal
    <3>4. QED BY <3>1, <3>2, <3>3 DEF TypeOK
  <2>10. UNCHANGED <<treeVars, calls, on, kind, res, data, sent>>
    BY <1>3 DEF Seal
  <2>11. QED BY <2>4, <2>7, <2>8, <2>9, <2>10 DEF TypeOK
<1>4. CASE Unlink(t, k)
  <2>1. Runs(t, "unlink", k) /\ todo' = [todo EXCEPT ![t] = Tail(todo[t])]
    BY <1>4 DEF Unlink
  <2>2. todo' \in [Thread -> Seq(Frame)]
    BY <2>1, WithoutStack, TodoType
  <2>3. sig' \in [Node -> State]
    <3>1. CASE sig' = sig
      BY <3>1 DEF TypeOK
    <3>2. CASE sig' # sig
      <4>1. sig' = [sig EXCEPT ![f.up] = [sig[f.up] EXCEPT !.children = @ \ {k}]]
        BY <3>2, <1>4 DEF Unlink, TypeOK
      <4>2. CASE f.up \in Node
        <5>1. sig[f.up] \in State
          BY <4>2 DEF TypeOK
        <5>2. [sig[f.up] EXCEPT !.children = @ \ {k}] \in State
          BY <5>1 DEF State
        <5>3. QED BY <4>1, <4>2, <5>2, SigType
      <4>3. CASE f.up \notin Node
        BY <4>1, <4>3, <3>2 DEF TypeOK
      <4>4. QED BY <4>2, <4>3
    <3>3. QED BY <3>1, <3>2
  <2>4. UNCHANGED <<treeVars, tm, calls, coroVars>>
    BY <1>4 DEF Unlink
  <2>5. QED BY <2>2, <2>3, <2>4 DEF TypeOK
<1>5. CASE StopSkips(t, k)
  <2>1. Runs(t, "stop", k) /\ todo' = [todo EXCEPT ![t] = Without(t, k)]
    BY <1>5 DEF StopSkips
  <2>2. todo' \in [Thread -> Seq(Frame)]
    BY <2>1, WithoutStack, TodoType
  <2>3. UNCHANGED <<treeVars, sig, tm, calls, coroVars>>
    BY <1>5 DEF StopSkips
  <2>4. QED BY <2>2, <2>3 DEF TypeOK
<1>6. CASE StopOpen(t, k)
  <2>1. Runs(t, "stop", k)
    BY <1>6 DEF StopOpen
  <2>2. Call("stop", sig[k].children, f.flag) \in Frame
    BY <2>1, <1>b, <1>c, CallType DEF FrameOp
  <2>3. Push(Call("stop", sig[k].children, f.flag), Without(t, k)) \in Seq(Frame)
    BY <2>1, <2>2, WithoutStack, PushStack
  <2>4. todo' \in [Thread -> Seq(Frame)]
    BY <2>3, <1>6, TodoType DEF StopOpen
  <2>5. sig' \in [Node -> State]
    <3>1. [sig[k] EXCEPT !.stop = TRUE] \in State
      BY <1>a DEF State
    <3>2. sig' = [sig EXCEPT ![k] = [sig[k] EXCEPT !.stop = TRUE]]
      BY <1>6 DEF StopOpen, TypeOK
    <3>3. QED BY <3>1, <3>2, SigType
  <2>6. tm' \in [Node -> Timer]
    <3>1. PICK r \in (IF f.flag THEN StopTimer(tm[k]) ELSE {tm[k]}) :
              tm' = [tm EXCEPT ![k] = r]
      BY <1>6 DEF StopOpen
    <3>2. r \in Timer
      BY <3>1, <1>a, StopTimerType
    <3>3. QED BY <3>1, <3>2 DEF TypeOK
  <2>7. UNCHANGED <<treeVars, calls, coroVars>>
    BY <1>6 DEF StopOpen
  <2>8. QED BY <2>4, <2>5, <2>6, <2>7 DEF TypeOK
<1>7. CASE ResumeSkips(t, k)
  <2>1. Runs(t, "resume", k) /\ todo' = [todo EXCEPT ![t] = Without(t, k)]
    BY <1>7 DEF ResumeSkips
  <2>2. todo' \in [Thread -> Seq(Frame)]
    BY <2>1, WithoutStack, TodoType
  <2>3. UNCHANGED <<treeVars, sig, tm, calls, coroVars>>
    BY <1>7 DEF ResumeSkips
  <2>4. QED BY <2>2, <2>3 DEF TypeOK
<1>8. CASE ResumeStopped(t, k)
  <2>1. Runs(t, "resume", k)
    BY <1>8 DEF ResumeStopped
  <2>2. Call("resume", sig[k].children, FALSE) \in Frame
    BY <1>b, CallType DEF FrameOp
  <2>3. Push(Call("resume", sig[k].children, FALSE), Without(t, k)) \in Seq(Frame)
    BY <2>1, <2>2, WithoutStack, PushStack
  <2>4. todo' \in [Thread -> Seq(Frame)]
    BY <2>3, <1>8, TodoType DEF ResumeStopped
  <2>5. sig' \in [Node -> State]
    <3>1. [sig[k] EXCEPT !.stop = FALSE, !.stopWaiters = {}] \in State
      BY <1>a DEF State
    <3>2. sig' = [sig EXCEPT ![k] = [sig[k] EXCEPT !.stop = FALSE,
                                                   !.stopWaiters = {}]]
      BY <1>8 DEF ResumeStopped, TypeOK
    <3>3. QED BY <3>1, <3>2, SigType
  <2>6. tm' \in [Node -> Timer]
    <3>1. PICK r \in ResumeTimer(tm[k]) : tm' = [tm EXCEPT ![k] = r]
      BY <1>8 DEF ResumeStopped
    <3>2. r \in Timer
      BY <3>1, <1>a, ResumeTimerType
    <3>3. QED BY <3>1, <3>2 DEF TypeOK
  <2>7. pc' \in [Coro -> PC]
    <3>1. pc' = [w \in Coro |->
                    IF w \in sig[k].stopWaiters /\ pc[w] = "stopwait"
                    THEN "check" ELSE pc[w]]
      BY <1>8 DEF ResumeStopped
    <3>2. QED BY <3>1 DEF TypeOK, PC
  <2>8. UNCHANGED <<treeVars, calls, on, kind, token, res, data, sent>>
    BY <1>8 DEF ResumeStopped
  <2>9. QED BY <2>4, <2>5, <2>6, <2>7, <2>8 DEF TypeOK
<1>9. CASE InitTimerSkips(t, k)
  <2>1. Runs(t, "initTimer", k) /\ todo' = [todo EXCEPT ![t] = Without(t, k)]
    BY <1>9 DEF InitTimerSkips
  <2>2. todo' \in [Thread -> Seq(Frame)]
    BY <2>1, WithoutStack, TodoType
  <2>3. UNCHANGED <<treeVars, sig, tm, calls, coroVars>>
    BY <1>9 DEF InitTimerSkips
  <2>4. QED BY <2>2, <2>3 DEF TypeOK
<1>10. CASE InitTimer(t, k)
  <2>1. Runs(t, "initTimer", k)
    BY <1>10 DEF InitTimer
  <2>2. Call("initParent", {k}, FALSE) \in Frame
    BY CallType DEF FrameOp
  <2>3. <<Call("initParent", {k}, FALSE)>> \o Without(t, k) \in Seq(Frame)
    BY <2>1, <2>2, WithoutStack, ConsStack
  <2>4. todo' \in [Thread -> Seq(Frame)]
    BY <2>3, <1>10, TodoType DEF InitTimer
  <2>5. tm' \in [Node -> Timer]
    <3>1. [tm[k] EXCEPT !.clock = "past"] \in Timer
      BY <1>a DEF Timer, Clock
    <3>2. [tm[k] EXCEPT !.clock = "future", !.spawned = @ + 1] \in Timer
      <4>1. tm[k].spawned + 1 \in Nat
        BY <1>a DEF Timer
      <4>2. QED BY <4>1, <1>a DEF Timer, Clock
    <3>3. \/ tm' = [tm EXCEPT ![k] = [tm[k] EXCEPT !.clock = "past"]]
          \/ tm' = [tm EXCEPT ![k] = [tm[k] EXCEPT !.clock = "future",
                                                   !.spawned = @ + 1]]
      BY <1>10 DEF InitTimer, TypeOK
    <3>4. \A x \in Timer : [tm EXCEPT ![k] = x] \in [Node -> Timer]
      BY DEF TypeOK
    <3>5. QED BY <3>1, <3>2, <3>3, <3>4
  <2>6. UNCHANGED <<treeVars, sig, calls, coroVars>>
    BY <1>10 DEF InitTimer
  <2>7. QED BY <2>4, <2>5, <2>6 DEF TypeOK
<1>11. CASE InitParent(t, k)
  <2> DEFINE up == <<Call("initTimer", {sig[k].parent}, FALSE)>> \o Tail(todo[t])
  <2>1. Runs(t, "initParent", k)
    BY <1>11 DEF InitParent
  <2>2. sig[k].parent # NoNode => up \in Seq(Frame)
    <3>1. SUFFICES ASSUME sig[k].parent # NoNode PROVE up \in Seq(Frame)
      OBVIOUS
    <3>2. {sig[k].parent} \in SUBSET Node
      BY <3>1, <1>b
    <3>3. Call("initTimer", {sig[k].parent}, FALSE) \in Frame
      BY <3>2, CallType DEF FrameOp
    <3>4. QED BY <3>3, <2>1, WithoutStack, ConsStack
  <2>3. todo' = [todo EXCEPT ![t] = IF sig[k].parent = NoNode
                                    THEN Tail(todo[t]) ELSE up]
    BY <1>11 DEF InitParent
  <2>4. todo' \in [Thread -> Seq(Frame)]
    BY <2>1, <2>2, <2>3, WithoutStack, TodoType
  <2>5. UNCHANGED <<treeVars, sig, tm, calls, coroVars>>
    BY <1>11 DEF InitParent
  <2>6. QED BY <2>4, <2>5 DEF TypeOK
<1>12. QED
  BY <1>1, <1>2, <1>3, <1>4, <1>5, <1>6, <1>7, <1>8, <1>9, <1>10, <1>11
\* The timers.
LEMMA TimersType ==
    ASSUME TypeOK, NEW n \in Node, Timers(n) PROVE TypeOK'
<1> USE DEF treeVars, coroVars
<1>1. tm[n] \in Timer /\ n \in Thread
  BY DEF TypeOK, Thread
<1>2. /\ tm[n].spawned \in Nat /\ tm[n].waiting \in Nat /\ tm[n].fired \in Nat
      /\ tm[n].waiting + 1 \in Nat /\ tm[n].fired + 1 \in Nat
      /\ (tm[n].spawned > 0 => tm[n].spawned - 1 \in Nat)
      /\ (tm[n].waiting > 0 => tm[n].waiting - 1 \in Nat)
      /\ (tm[n].fired > 0 => tm[n].fired - 1 \in Nat)
  BY <1>1 DEF Timer
<1>3. \A x \in Timer : [tm EXCEPT ![n] = x] \in [Node -> Timer]
  BY DEF TypeOK
<1>4. CASE Elapse(n)
  <2>1. [tm[n] EXCEPT !.clock = "past"] \in Timer
    BY <1>1 DEF Timer, Clock
  <2>2. tm' = [tm EXCEPT ![n] = [tm[n] EXCEPT !.clock = "past"]]
    BY <1>4 DEF Elapse, TypeOK
  <2>3. tm' \in [Node -> Timer]
    BY <2>1, <2>2, <1>3
  <2>4. QED BY <2>3, <1>4 DEF Elapse, TypeOK
<1>5. CASE TaskStarts(n)
  <2> DEFINE r == [tm[n] EXCEPT !.spawned = @ - 1, !.waiting = @ + 1]
  <2>1. r \in Timer
    BY <1>1, <1>2, <1>5 DEF Timer, TaskStarts
  <2>2. tm' = [tm EXCEPT ![n] = r]
    BY <1>5 DEF TaskStarts, TypeOK
  <2>3. tm' \in [Node -> Timer]
    BY <2>1, <2>2, <1>3
  <2>4. QED BY <2>3, <1>5 DEF TaskStarts, TypeOK
<1>6. CASE TaskFires(n)
  <2> DEFINE r == [tm[n] EXCEPT !.waiting = @ - 1, !.fired = @ + 1]
  <2>1. r \in Timer
    BY <1>1, <1>2, <1>6 DEF Timer, TaskFires
  <2>2. tm' = [tm EXCEPT ![n] = r]
    BY <1>6 DEF TaskFires, TypeOK
  <2>3. tm' \in [Node -> Timer]
    BY <2>1, <2>2, <1>3
  <2>4. QED BY <2>3, <1>6 DEF TaskFires, TypeOK
<1>7. CASE TaskChecks(n)
  <2> DEFINE r == [tm[n] EXCEPT !.fired = @ - 1]
             s == IF tm[n].timeout = 0 THEN <<>>
                  ELSE <<Call("close", {n}, TRUE)>>
  <2>1. r \in Timer
    BY <1>1, <1>2, <1>7 DEF Timer, TaskChecks
  <2>2. tm' = [tm EXCEPT ![n] = r] /\ todo' = [todo EXCEPT ![n] = s]
    BY <1>7 DEF TaskChecks, TypeOK
  <2>3. tm' \in [Node -> Timer]
    BY <2>1, <2>2, <1>3
  <2>4. s \in Seq(Frame)
    <3>1. Call("close", {n}, TRUE) \in Frame
      BY CallType DEF FrameOp
    <3>2. <<Call("close", {n}, TRUE)>> \in Seq(Frame)
      BY <3>1, OneFrame
    <3>3. QED BY <3>2, OneFrame
  <2>5. todo' \in [Thread -> Seq(Frame)]
    BY <2>2, <2>4, <1>1, TodoType
  <2>6. UNCHANGED <<treeVars, sig, calls, coroVars>>
    BY <1>7 DEF TaskChecks
  <2>7. QED BY <2>3, <2>5, <2>6 DEF TypeOK
<1>8. QED BY <1>4, <1>5, <1>6, <1>7 DEF Timers

\* A coroutine joins or leaves the lists of a closer.
LEMMA WaiterType ==
    ASSUME TypeOK, NEW n \in Node, NEW w \in Coro,
           \/ sig' = [sig EXCEPT ![n].waiters = @ \cup {w}]
           \/ sig' = [sig EXCEPT ![n].waiters = @ \ {w}]
           \/ sig' = [sig EXCEPT ![n].stopWaiters = @ \cup {w}]
           \/ sig' = sig
    PROVE  sig' \in [Node -> State]
<1>1. sig[n] \in State
  BY DEF TypeOK
<1>2. [sig[n] EXCEPT !.waiters = @ \cup {w}] \in State
  BY <1>1 DEF State
<1>3. [sig[n] EXCEPT !.waiters = @ \ {w}] \in State
  BY <1>1 DEF State
<1>4. [sig[n] EXCEPT !.stopWaiters = @ \cup {w}] \in State
  BY <1>1 DEF State
<1>5. CASE sig' = sig
  BY <1>5 DEF TypeOK
<1>6. CASE sig' = [sig EXCEPT ![n].waiters = @ \cup {w}]
  <2>1. sig' = [sig EXCEPT ![n] = [sig[n] EXCEPT !.waiters = @ \cup {w}]]
    BY <1>6 DEF TypeOK
  <2>2. QED BY <2>1, <1>2, SigType
<1>7. CASE sig' = [sig EXCEPT ![n].waiters = @ \ {w}]
  <2>1. sig' = [sig EXCEPT ![n] = [sig[n] EXCEPT !.waiters = @ \ {w}]]
    BY <1>7 DEF TypeOK
  <2>2. QED BY <2>1, <1>3, SigType
<1>8. CASE sig' = [sig EXCEPT ![n].stopWaiters = @ \cup {w}]
  <2>1. sig' = [sig EXCEPT ![n] = [sig[n] EXCEPT !.stopWaiters = @ \cup {w}]]
    BY <1>8 DEF TypeOK
  <2>2. QED BY <2>1, <1>4, SigType
<1>9. QED BY <1>5, <1>6, <1>7, <1>8

\* The coroutines that wait on a closer.
LEMMA WaitsType ==
    ASSUME TypeOK, NEW w \in Coro, Waits(w) PROVE TypeOK'
<1> USE DEF treeVars, coroVars
<1>1. on[w] \in Node
  BY DEF TypeOK
<1>2. ASSUME NEW r \in Result, Finish(w, r)
      PROVE  pc' \in [Coro -> PC] /\ res' \in [Coro -> Result]
  BY <1>2 DEF Finish, TypeOK, PC
<1>3. Cancelled(w) \in Result
  BY DEF Cancelled, Result
<1>4. CASE GetWaiter(w)
  <2>1. sig' \in [Node -> State]
    BY <1>1, <1>4, WaiterType DEF GetWaiter
  <2>2. pc' \in [Coro -> PC] /\ res' \in [Coro -> Result]
    <3>1. CASE Finish(w, Cancelled(w))
      BY <3>1, <1>2, <1>3
    <3>2. CASE pc' = [pc EXCEPT ![w] = "submit"] /\ res' = res
      BY <3>2 DEF TypeOK, PC
    <3>3. QED BY <3>1, <3>2, <1>4 DEF GetWaiter
  <2>3. QED BY <2>1, <2>2, <1>4 DEF GetWaiter, TypeOK
<1>5. CASE Submit(w)
  <2>1. sig' \in [Node -> State]
    BY <1>1, <1>5, WaiterType DEF Submit
  <2>2. pc' \in [Coro -> PC]
    BY <1>5 DEF Submit, TypeOK, PC
  <2>3. data' \in Nat
    BY <1>5 DEF Submit, TypeOK
  <2>4. QED BY <2>1, <2>2, <2>3, <1>5 DEF Submit, TypeOK
<1>6. CASE CloserRead(w)
  <2>1. pc' \in [Coro -> PC] /\ res' \in [Coro -> Result]
    BY <1>2, <1>3, <1>6 DEF CloserRead
  <2>2. QED BY <2>1, <1>6 DEF CloserRead, TypeOK
<1>7. CASE GetStopWaiter(w)
  <2>1. sig' \in [Node -> State]
    BY <1>1, <1>7, WaiterType DEF GetStopWaiter
  <2>2. pc' \in [Coro -> PC]
    BY <1>7 DEF GetStopWaiter, TypeOK, PC
  <2>3. QED BY <2>1, <2>2, <1>7 DEF GetStopWaiter, TypeOK
<1>8. CASE Deliver(w)
  <2>1. PICK r \in Result : Finish(w, r)
    BY <1>8 DEF Deliver, Result
  <2>2. pc' \in [Coro -> PC] /\ res' \in [Coro -> Result]
    BY <2>1, <1>2
  <2>3. UNCHANGED <<treeVars, sig, tm, todo, calls, on, kind, token, data, sent>>
    BY <1>8 DEF Deliver
  <2>4. QED BY <2>2, <2>3 DEF TypeOK
<1>9. QED BY <1>4, <1>5, <1>6, <1>7, <1>8 DEF Waits

LEMMA EnterType ==
    ASSUME TypeOK, NEW w \in Coro, NEW n \in Node, NEW k \in Kinds,
           Enter(w, n, k)
    PROVE  TypeOK'
<1> USE DEF treeVars, coroVars
<1>1. w \in Thread /\ k \in {"await", "select", "throw"}
  BY SignalAssumption DEF Thread
<1>2. Call("initTimer", {n}, FALSE) \in Frame
  BY CallType DEF FrameOp
<1>3. <<Call("initTimer", {n}, FALSE)>> \in Seq(Frame)
  BY <1>2, OneFrame
<1>4. todo' = [todo EXCEPT ![w] = <<Call("initTimer", {n}, FALSE)>>]
  BY DEF Enter
<1>5. todo' \in [Thread -> Seq(Frame)]
  BY <1>1, <1>3, <1>4, TodoType
<1>6. /\ pc' = [pc EXCEPT ![w] = "init"]
      /\ on' = [on EXCEPT ![w] = n]
      /\ kind' = [kind EXCEPT ![w] = k]
      /\ UNCHANGED <<treeVars, sig, tm, calls, token, res, data, sent>>
  BY DEF Enter
<1>7. QED BY <1>1, <1>5, <1>6 DEF TypeOK, PC

LEMMA ProduceType == ASSUME TypeOK, Produce PROVE TypeOK'
<1> USE DEF treeVars, coroVars
<1>1. sent' \in Nat
  BY DEF Produce, TypeOK
<1>2. sig' \in [Node -> State] /\ pc' \in [Coro -> PC] /\ data' \in Nat
  <2>1. CASE /\ data' = data + 1
             /\ UNCHANGED <<pc, sig>>
    BY <2>1 DEF TypeOK
  <2>2. ASSUME NEW w \in Coro,
               pc' = [pc EXCEPT ![w] = "value"],
               sig' = [sig EXCEPT ![on[w]].waiters = @ \ {w}],
               data' = data
        PROVE  sig' \in [Node -> State] /\ pc' \in [Coro -> PC] /\ data' \in Nat
    <3>1. on[w] \in Node
      BY DEF TypeOK
    <3>2. sig' \in [Node -> State]
      BY <3>1, <2>2, WaiterType
    <3>3. QED BY <3>2, <2>2 DEF TypeOK, PC
  <2>3. QED BY <2>1, <2>2 DEF Produce
<1>3. QED BY <1>1, <1>2 DEF Produce, TypeOK

LEMMA NextType == ASSUME TypeOK, [Next]_vars PROVE TypeOK'
<1>1. CASE UNCHANGED vars
  BY <1>1 DEF vars, TypeOK
<1>2. ASSUME NEW n \in made, Timers(n) PROVE TypeOK'
  BY <1>2, TimersType DEF TypeOK
<1>3. ASSUME NEW w \in Coro, NEW n \in made, NEW k \in Kinds, Enter(w, n, k)
      PROVE  TypeOK'
  BY <1>3, EnterType DEF TypeOK
<1>4. ASSUME NEW t \in Thread, Works(t) PROVE TypeOK'
  BY <1>4, WorksType DEF Works
<1>5. QED
  BY <1>1, <1>2, <1>3, <1>4, CallsType, WaitsType, ProduceType DEF Next

\* Every field of every closer, every frame and every counter keeps its type in
\* every behaviour, however many closers and threads there are.
THEOREM TypeCorrect == Spec => []TypeOK
<1>1. Init => TypeOK
  BY InitType
<1>2. TypeOK /\ [Next]_vars => TypeOK'
  BY NextType
<1>3. QED BY <1>1, <1>2, PTL DEF Spec

----------------------------------------------------------------------------
(* No orphans. *)

LEMMA InitTree == Init => TreeInv
<1>1. ASSUME Init PROVE \A t \in Thread : \A op, k : ~ InStack(op, k, todo[t])
  BY <1>1 DEF Init, InStack
<1>2. QED BY <1>1 DEF Init, TreeInv, OpenChildListed, NewState

\* The step leaves what TreeInv says of a state alone.
SameTree ==
    \A n \in Node : /\ sig'[n].closed = sig[n].closed
                    /\ sig'[n].sealing = sig[n].sealing
                    /\ sig'[n].children = sig[n].children

\* A step that only changes stacks keeps TreeInv if it forgets no closer that is
\* still to be closed and dooms only closers that are closed.
LEMMA StacksKeepTree ==
    ASSUME TypeOK, TreeInv, made' = made, origin' = origin, SameTree,
           \A k \in Node : ClosePending(k) => ClosePending(k)' \/ sig[k].closed,
           \A t \in Thread, k \in Node :
               InStack("seal", k, todo'[t]) \/ InStack("unlink", k, todo'[t])
                   => sig[k].closed
    PROVE  TreeInv'
<1>1. \A n \in made \ {Root} : n \in Node /\ origin[n] \in Node
  BY DEF TypeOK, TreeInv
<1>2. OpenChildListed'
  BY <1>1 DEF OpenChildListed, TreeInv, SameTree
<1>3. \A n \in made' \ {Root} :
          /\ origin'[n] \in made'
          /\ sig'[n].closed \/ n \in sig'[origin'[n]].children \/ ClosePending(n)'
  BY <1>1 DEF TreeInv, SameTree
<1>4. \A n \in Node :
          (n \notin made' \/ (sig'[n].closed /\ ~ sig'[n].sealing))
              => sig'[n].children = {}
  BY DEF TreeInv, SameTree
<1>5. \A t \in Thread, k \in Node :
          InStack("seal", k, todo'[t]) \/ InStack("unlink", k, todo'[t])
              => sig'[k].closed
  BY DEF SameTree
<1>6. QED BY <1>2, <1>3, <1>4, <1>5 DEF TreeInv

\* The same for a step of one thread.
LEMMA StepKeepsTree ==
    ASSUME TypeOK, TreeInv, made' = made, origin' = origin,
           SameTree \/ sig' = sig,
           NEW t \in Thread, NEW s, todo' = [todo EXCEPT ![t] = s],
           \A k \in Node : InStack("close", k, todo[t])
                              => InStack("close", k, s) \/ sig[k].closed,
           \A k \in Node : InStack("seal", k, s)
                              => InStack("seal", k, todo[t]) \/ sig[k].closed,
           \A k \in Node : InStack("unlink", k, s)
                              => InStack("unlink", k, todo[t]) \/ sig[k].closed
    PROVE  TreeInv'
<1>1. todo'[t] = s /\ \A x \in Thread \ {t} : todo'[x] = todo[x]
  BY DEF TypeOK
<1>2. \A k \in Node : ClosePending(k) => ClosePending(k)' \/ sig[k].closed
  BY <1>1 DEF ClosePending
<1>3. \A x \in Thread, k \in Node :
          InStack("seal", k, todo'[x]) \/ InStack("unlink", k, todo'[x])
              => sig[k].closed
  BY <1>1 DEF TreeInv
<1>4. SameTree
  BY DEF SameTree
<1>5. QED BY <1>2, <1>3, <1>4, StacksKeepTree

\* The same for a step that leaves the stacks alone.
LEMMA QuietKeepsTree ==
    ASSUME TypeOK, TreeInv, made' = made, origin' = origin, SameTree,
           todo' = todo
    PROVE  TreeInv'
<1>1. \A k \in Node : ClosePending(k) => ClosePending(k)'
  BY DEF ClosePending
<1>2. \A x \in Thread, k \in Node :
          InStack("seal", k, todo'[x]) \/ InStack("unlink", k, todo'[x])
              => sig[k].closed
  BY DEF TreeInv
<1>3. QED BY <1>1, <1>2, StacksKeepTree

\* A stack of one frame, for a thread that had nothing to do.
LEMMA FirstFrame ==
    ASSUME NEW f \in Frame
    PROVE  \A o, k : /\ InStack(o, k, <<f>>) <=> f.op = o /\ k \in f.kids
                     /\ ~ InStack(o, k, <<>>)
BY DEF InStack

LEMMA BeginsTree ==
    ASSUME TypeOK, TreeInv, NEW t \in Thread, NEW f \in Frame,
           todo[t] = <<>>, todo' = [todo EXCEPT ![t] = <<f>>],
           f.op \notin {"seal", "unlink"}, UNCHANGED <<made, origin, sig>>
    PROVE  TreeInv'
<1>1. \A o, k : /\ InStack(o, k, <<f>>) <=> f.op = o /\ k \in f.kids
                /\ ~ InStack(o, k, todo[t])
  BY FirstFrame
<1>2. QED BY <1>1, StepKeepsTree

LEMMA CallsTree ==
    ASSUME TypeOK, TreeInv, NEW c \in Caller, Calls(c) PROVE TreeInv'
<1> USE DEF treeVars
<1>0. c \in Thread
  BY DEF Thread
<1>1. PICK n \in made \cap Handles[c] :
          \/ BeginClose(c, n)
          \/ \E b \in BOOLEAN : BeginStop(c, n, b)
          \/ BeginResume(c, n)
          \/ \E d \in Duration \cup {0} : SetTimeout(c, n, d)
          \/ \E m \in Node : CreateChild(c, n, m)
  BY DEF Calls
<1>2. n \in made /\ n \in Node
  BY <1>1 DEF TypeOK
<1>3. CASE BeginClose(c, n)
  <2> DEFINE f == Call("close", {n}, FALSE)
  <2>1. f \in Frame /\ f.op = "close"
    <3>1. "close" \in FrameOp /\ {n} \in SUBSET Node /\ FALSE \in BOOLEAN
      BY <1>2 DEF FrameOp
    <3>2. QED BY <3>1, CallType
  <2>2. /\ todo[c] = <<>> /\ todo' = [todo EXCEPT ![c] = <<f>>]
        /\ UNCHANGED <<made, origin, sig>>
    BY <1>3 DEF BeginClose, Begins
  <2> HIDE DEF f
  <2>3. QED BY <1>0, <2>1, <2>2, BeginsTree
<1>4. ASSUME NEW b \in BOOLEAN, BeginStop(c, n, b) PROVE TreeInv'
  <2> DEFINE f == Call("stop", {n}, b)
  <2>1. f \in Frame /\ f.op = "stop"
    <3>1. "stop" \in FrameOp /\ {n} \in SUBSET Node /\ b \in BOOLEAN
      BY <1>2 DEF FrameOp
    <3>2. QED BY <3>1, CallType
  <2>2. /\ todo[c] = <<>> /\ todo' = [todo EXCEPT ![c] = <<f>>]
        /\ UNCHANGED <<made, origin, sig>>
    BY <1>4 DEF BeginStop, Begins
  <2> HIDE DEF f
  <2>3. QED BY <1>0, <2>1, <2>2, BeginsTree
<1>5. CASE BeginResume(c, n)
  <2> DEFINE f == Call("resume", {n}, FALSE)
  <2>1. f \in Frame /\ f.op = "resume"
    <3>1. "resume" \in FrameOp /\ {n} \in SUBSET Node /\ FALSE \in BOOLEAN
      BY <1>2 DEF FrameOp
    <3>2. QED BY <3>1, CallType
  <2>2. /\ todo[c] = <<>> /\ todo' = [todo EXCEPT ![c] = <<f>>]
        /\ UNCHANGED <<made, origin, sig>>
    BY <1>5 DEF BeginResume, Begins
  <2> HIDE DEF f
  <2>3. QED BY <1>0, <2>1, <2>2, BeginsTree
<1>6. ASSUME NEW d \in Duration \cup {0}, SetTimeout(c, n, d) PROVE TreeInv'
  BY <1>6, QuietKeepsTree DEF SetTimeout, SameTree
<1>7. ASSUME NEW m \in Node, CreateChild(c, n, m) PROVE TreeInv'
  <2>1. /\ m \notin made /\ m # n /\ made' = made \cup {m}
        /\ origin' = [origin EXCEPT ![m] = n] /\ todo' = todo
        /\ ~ sig[n].sealing
    BY <1>2, <1>7 DEF CreateChild
  <2>2. /\ origin'[m] = n
        /\ \A x \in made \ {Root} : /\ x \in Node /\ x # m
                                    /\ origin'[x] = origin[x] /\ origin[x] \in made
    BY <2>1 DEF TypeOK, TreeInv
  <2>3. \A x \in Thread, k \in Node :
            InStack("seal", k, todo'[x]) \/ InStack("unlink", k, todo'[x])
                => sig[k].closed
    BY <2>1 DEF TreeInv
  <2>4. \A k : ClosePending(k)' <=> ClosePending(k)
    BY <2>1 DEF ClosePending
  <2>5. sig[m] \in State /\ sig[n] \in State /\ sig[m].children = {}
    BY <1>2, <2>1 DEF TypeOK, TreeInv
  <2>6. CASE /\ sig[n].closed
             /\ sig' = [sig EXCEPT ![m].closed = TRUE,
                                   ![m].isTimeout = sig[n].isTimeout]
    <3>1. /\ sig'[m].closed /\ sig'[m].children = sig[m].children
          /\ \A x \in Node \ {m} : sig'[x] = sig[x]
          /\ \A x \in Node : sig'[x].children = sig[x].children
                             /\ sig'[x].sealing = sig[x].sealing
                             /\ (sig[x].closed => sig'[x].closed)
      BY <2>5, <2>6 DEF TypeOK, State
    <3>2. \A x \in made' \ {Root} :
              /\ origin'[x] \in made'
              /\ sig'[x].closed \/ x \in sig'[origin'[x]].children
                    \/ ClosePending(x)'
      <4>1. ASSUME NEW x \in made \ {Root}
            PROVE  /\ origin'[x] \in made'
                   /\ sig'[x].closed \/ x \in sig'[origin'[x]].children
                         \/ ClosePending(x)'
        <5>1. x \in Node /\ origin'[x] = origin[x] /\ origin[x] \in made
              /\ origin[x] \in Node
          BY <2>2 DEF TypeOK
        <5>2. sig[x].closed \/ x \in sig[origin[x]].children
                 \/ ClosePending(x)
          BY DEF TreeInv
        <5>3. QED BY <5>1, <5>2, <3>1, <2>1, <2>4
      <4>2. origin'[m] \in made' /\ sig'[m].closed
        BY <2>1, <2>2, <3>1, <1>2
      <4>3. QED BY <4>1, <4>2, <2>1
    <3>3. OpenChildListed'
      <4>1. ASSUME NEW x \in made' \ {Root}, x # m,
                   ~ sig'[x].closed, ~ sig'[origin'[x]].closed
            PROVE  x \in sig'[origin'[x]].children
        <5>1. x \in made \ {Root} /\ x \in Node /\ origin'[x] = origin[x]
              /\ origin[x] \in Node
          BY <4>1, <2>1, <2>2 DEF TypeOK
        <5>2. ~ sig[x].closed /\ ~ sig[origin[x]].closed
          BY <4>1, <5>1, <3>1
        <5>3. x \in sig[origin[x]].children
          BY <5>1, <5>2 DEF TreeInv, OpenChildListed
        <5>4. QED BY <5>1, <5>3, <3>1
      <4>2. sig'[m].closed
        BY <3>1
      <4>3. QED BY <4>1, <4>2 DEF OpenChildListed
    <3>4. \A x \in Node :
              (x \notin made' \/ (sig'[x].closed /\ ~ sig'[x].sealing))
                  => sig'[x].children = {}
      BY <3>1, <2>1, <2>5 DEF TreeInv
    <3>5. \A x \in Thread, k \in Node :
            InStack("seal", k, todo'[x]) \/ InStack("unlink", k, todo'[x])
                => sig'[k].closed
      BY <3>1, <2>3
    <3>6. QED BY <3>2, <3>3, <3>4, <3>5 DEF TreeInv
  <2>7. CASE /\ ~ sig[n].closed
             /\ sig' = [sig EXCEPT ![m].parent = n, ![n].children = @ \cup {m}]
    <3>1. /\ sig'[n].children = sig[n].children \cup {m}
          /\ \A x \in Node \ {n} : sig'[x].children = sig[x].children
          /\ \A x \in Node : /\ sig'[x].closed = sig[x].closed
                             /\ sig'[x].sealing = sig[x].sealing
      BY <1>2, <2>1, <2>5, <2>7 DEF TypeOK, State
    <3>2. \A x \in made' \ {Root} :
              /\ origin'[x] \in made'
              /\ sig'[x].closed \/ x \in sig'[origin'[x]].children
                    \/ ClosePending(x)'
      <4>1. ASSUME NEW x \in made \ {Root}
            PROVE  /\ origin'[x] \in made'
                   /\ sig'[x].closed \/ x \in sig'[origin'[x]].children
                         \/ ClosePending(x)'
        <5>1. x \in Node /\ origin'[x] = origin[x] /\ origin[x] \in made
              /\ origin[x] \in Node
          BY <2>2 DEF TypeOK
        <5>2. sig[x].closed \/ x \in sig[origin[x]].children
                 \/ ClosePending(x)
          BY DEF TreeInv
        <5>3. sig[origin[x]].children \subseteq sig'[origin[x]].children
          BY <5>1, <3>1
        <5>4. QED BY <5>1, <5>2, <5>3, <3>1, <2>1, <2>4
      <4>2. origin'[m] \in made' /\ m \in sig'[origin'[m]].children
        BY <2>1, <2>2, <3>1, <1>2
      <4>3. QED BY <4>1, <4>2, <2>1
    <3>3. OpenChildListed'
      <4>1. ASSUME NEW x \in made' \ {Root}, x # m,
                   ~ sig'[x].closed, ~ sig'[origin'[x]].closed
            PROVE  x \in sig'[origin'[x]].children
        <5>1. x \in made \ {Root} /\ x \in Node /\ origin'[x] = origin[x]
              /\ origin[x] \in Node
          BY <4>1, <2>1, <2>2 DEF TypeOK
        <5>2. ~ sig[x].closed /\ ~ sig[origin[x]].closed
          BY <4>1, <5>1, <3>1
        <5>3. x \in sig[origin[x]].children
          BY <5>1, <5>2 DEF TreeInv, OpenChildListed
        <5>4. QED BY <5>1, <5>3, <3>1
      <4>2. m \in sig'[origin'[m]].children
        BY <2>2, <3>1, <1>2
      <4>3. QED BY <4>1, <4>2 DEF OpenChildListed
    <3>4. \A x \in Node :
              (x \notin made' \/ (sig'[x].closed /\ ~ sig'[x].sealing))
                  => sig'[x].children = {}
      BY <3>1, <2>1, <2>7, <1>2 DEF TreeInv
    <3>5. \A x \in Thread, k \in Node :
            InStack("seal", k, todo'[x]) \/ InStack("unlink", k, todo'[x])
                => sig'[k].closed
      BY <3>1, <2>3
    <3>6. QED BY <3>2, <3>3, <3>4, <3>5 DEF TreeInv
  <2>8. QED BY <1>7, <2>6, <2>7 DEF CreateChild
<1>8. QED BY <1>1, <1>3, <1>4, <1>5, <1>6, <1>7

\* A call on k that ends at once, or goes on with the calls of one more frame.
LEMMA SkipTree ==
    ASSUME TypeOK, TreeInv, UNCHANGED <<made, origin>>, SameTree,
           NEW t \in Thread, NEW op, NEW k \in Node, Runs(t, op, k),
           op = "close" => sig[k].closed,
           todo' = [todo EXCEPT ![t] = Without(t, k)]
    PROVE  TreeInv'
<1>1. \A o, n : InStack(o, n, todo[t])
                   <=> (o = op /\ n = k) \/ InStack(o, n, Without(t, k))
  BY WithoutStack
<1>2. QED BY <1>1, StepKeepsTree

LEMMA GoOnTree ==
    ASSUME TypeOK, TreeInv, UNCHANGED <<made, origin>>, SameTree,
           NEW t \in Thread, NEW op, NEW k \in Node, Runs(t, op, k),
           op # "close",
           NEW f \in Frame, f.op \notin {"seal", "unlink"},
           NEW s, s \in {Push(f, Without(t, k)), <<f>> \o Without(t, k)},
           todo' = [todo EXCEPT ![t] = s]
    PROVE  TreeInv'
<1>1. /\ Without(t, k) \in Seq(Frame)
      /\ \A o, n : InStack(o, n, todo[t])
                      <=> (o = op /\ n = k) \/ InStack(o, n, Without(t, k))
  BY WithoutStack
<1>2. \A o, n : InStack(o, n, s)
                   <=> (f.op = o /\ n \in f.kids) \/ InStack(o, n, Without(t, k))
  <2>1. CASE s = Push(f, Without(t, k))
    BY <1>1, <2>1, PushStack
  <2>2. CASE s = <<f>> \o Without(t, k)
    BY <1>1, <2>2, ConsStack
  <2>3. QED BY <2>1, <2>2
<1>3. QED BY <1>1, <1>2, StepKeepsTree

\* The locked section of a close begins: k is closed, and its list is kept until
\* the section ends.
LEMMA CloseOpenTree ==
    ASSUME TypeOK, TreeInv, NEW t \in Thread, NEW k \in Node, CloseOpen(t, k)
    PROVE  TreeInv'
<1> USE DEF treeVars
<1> DEFINE f == Call("seal", {k}, Head(todo[t]).flag)
           s == <<f>> \o Without(t, k)
<1>1. Runs(t, "close", k) /\ UNCHANGED <<made, origin>>
      /\ todo' = [todo EXCEPT ![t] = s]
  BY DEF CloseOpen
<1>2. f \in Frame /\ f.op = "seal" /\ f.kids = {k}
  <2>1. Head(todo[t]).flag \in BOOLEAN
    BY <1>1, WithoutStack DEF Frame
  <2>2. QED BY <2>1, CallType DEF FrameOp
<1> HIDE DEF f
<1>3. /\ Without(t, k) \in Seq(Frame)
      /\ \A o, n : InStack(o, n, todo[t])
                      <=> (o = "close" /\ n = k) \/ InStack(o, n, Without(t, k))
  BY <1>1, WithoutStack
<1>4. \A o, n : InStack(o, n, s)
                   <=> (o = "seal" /\ n = k) \/ InStack(o, n, Without(t, k))
  BY <1>2, <1>3, ConsStack
<1> HIDE DEF s
<1>5. /\ \A n \in Node : n # k => sig'[n] = sig[n]
      /\ sig'[k].closed /\ sig'[k].sealing
      /\ sig'[k].children = sig[k].children
  BY DEF CloseOpen, TypeOK, State
<1>6. todo'[t] = s /\ \A x \in Thread : x # t => todo'[x] = todo[x]
  BY <1>1 DEF TypeOK
<1>7. \A n \in made \ {Root} : n \in Node /\ origin[n] \in made /\ origin[n] \in Node
  BY DEF TypeOK, TreeInv
<1>8. \A n \in Node : ClosePending(n) => ClosePending(n)' \/ sig'[n].closed
  BY <1>3, <1>4, <1>5, <1>6 DEF ClosePending
<1>9. \A n \in made' \ {Root} :
          /\ origin'[n] \in made'
          /\ sig'[n].closed \/ n \in sig'[origin'[n]].children \/ ClosePending(n)'
  BY <1>1, <1>5, <1>7, <1>8 DEF TreeInv
<1>10. OpenChildListed'
  BY <1>1, <1>5, <1>7 DEF OpenChildListed, TreeInv
<1>11. \A n \in Node :
           (n \notin made' \/ (sig'[n].closed /\ ~ sig'[n].sealing))
               => sig'[n].children = {}
  BY <1>1, <1>5 DEF TreeInv
<1>12. \A x \in Thread, n \in Node :
           InStack("seal", n, todo'[x]) \/ InStack("unlink", n, todo'[x])
               => sig'[n].closed
  BY <1>3, <1>4, <1>5, <1>6 DEF TreeInv
<1>13. QED BY <1>9, <1>10, <1>11, <1>12 DEF TreeInv

\* The section ends: every child it takes out of the list is on the stack.
LEMMA SealTree ==
    ASSUME TypeOK, TreeInv, NEW t \in Thread, NEW k \in Node, Seal(t, k)
    PROVE  TreeInv'
<1> USE DEF treeVars
<1> DEFINE f == Call("close", sig[k].children, Head(todo[t]).flag)
           kids == Push(f, Tail(todo[t]))
           up == [Call("unlink", {k}, FALSE) EXCEPT !.up = sig[k].parent]
           s == IF sig[k].parent = NoNode THEN kids ELSE <<up>> \o kids
<1>1. Runs(t, "seal", k) /\ UNCHANGED <<made, origin>>
      /\ todo' = [todo EXCEPT ![t] = s]
  BY DEF Seal, Taken
<1>2. /\ sig[k] \in State /\ sig[k].children \in SUBSET Node
      /\ sig[k].parent \in Node \cup {NoNode}
  BY DEF TypeOK, State
<1>3. /\ todo[t] \in Seq(Frame) /\ Tail(todo[t]) \in Seq(Frame)
      /\ Head(todo[t]).flag \in BOOLEAN
      /\ InStack("seal", k, todo[t])
      /\ \A o, n : InStack(o, n, Tail(todo[t])) => InStack(o, n, todo[t])
      /\ \A n : InStack("close", n, todo[t])
                   <=> InStack("close", n, Tail(todo[t]))
  BY <1>1, WithoutStack DEF Frame
<1>4. f \in Frame /\ f.op = "close" /\ f.kids = sig[k].children
  BY <1>2, <1>3, CallType DEF FrameOp
<1>5. up \in Frame /\ up.op = "unlink" /\ up.kids = {k}
  <2>1. Call("unlink", {k}, FALSE) \in Frame
    BY CallType DEF FrameOp
  <2>2. QED BY <2>1, <1>2 DEF Frame, Call
<1> HIDE DEF f, up
<1>6. /\ kids \in Seq(Frame)
      /\ \A o, n : InStack(o, n, kids)
            <=> (o = "close" /\ n \in sig[k].children)
                   \/ InStack(o, n, Tail(todo[t]))
  BY <1>3, <1>4, PushStack
<1> HIDE DEF kids
<1>7. \A o, n : InStack(o, n, <<up>> \o kids)
                   <=> (o = "unlink" /\ n = k) \/ InStack(o, n, kids)
  BY <1>5, <1>6, ConsStack
<1>8. \A o, n :
          /\ InStack(o, n, s) =>
                \/ o = "unlink" /\ n = k
                \/ o = "close" /\ n \in sig[k].children
                \/ InStack(o, n, todo[t])
          /\ n \in sig[k].children => InStack("close", n, s)
          /\ InStack("close", n, todo[t]) => InStack("close", n, s)
  BY <1>3, <1>6, <1>7
<1> HIDE DEF s
<1>9. /\ \A n \in Node : n # k => sig'[n] = sig[n]
      /\ sig'[k].closed = sig[k].closed /\ sig'[k].children = {}
  BY <1>2 DEF Seal, TypeOK, State
<1>10. todo'[t] = s /\ \A x \in Thread : x # t => todo'[x] = todo[x]
  BY <1>1 DEF TypeOK
<1>11. sig[k].closed
  BY <1>3 DEF TreeInv
<1>12. \A n \in made \ {Root} : n \in Node /\ origin[n] \in made /\ origin[n] \in Node
  BY DEF TypeOK, TreeInv
<1>13. \A n : ClosePending(n) \/ n \in sig[k].children => ClosePending(n)'
  BY <1>8, <1>10 DEF ClosePending
<1>14. \A n \in made' \ {Root} :
           /\ origin'[n] \in made'
           /\ sig'[n].closed \/ n \in sig'[origin'[n]].children
                 \/ ClosePending(n)'
  <2> SUFFICES ASSUME NEW n \in made \ {Root}
               PROVE  /\ origin[n] \in made
                      /\ sig'[n].closed \/ n \in sig'[origin[n]].children
                            \/ ClosePending(n)'
    BY <1>1
  <2>1. n \in Node /\ origin[n] \in made /\ origin[n] \in Node
    BY <1>12
  <2>2. sig[n].closed \/ n \in sig[origin[n]].children \/ ClosePending(n)
    BY DEF TreeInv
  <2>3. sig[n].closed => sig'[n].closed
    BY <1>9, <2>1
  <2>4. n \in sig[origin[n]].children
            => ClosePending(n)' \/ n \in sig'[origin[n]].children
    BY <1>9, <1>13, <2>1
  <2>5. QED BY <2>1, <2>2, <2>3, <2>4, <1>13
<1>15. OpenChildListed'
  BY <1>1, <1>9, <1>11, <1>12 DEF OpenChildListed, TreeInv
<1>16. \A n \in Node :
           (n \notin made' \/ (sig'[n].closed /\ ~ sig'[n].sealing))
               => sig'[n].children = {}
  BY <1>1, <1>9 DEF TreeInv
<1>17. \A x \in Thread, n \in Node :
           InStack("seal", n, todo'[x]) \/ InStack("unlink", n, todo'[x])
               => sig'[n].closed
  BY <1>8, <1>9, <1>10, <1>11 DEF TreeInv
<1>18. QED BY <1>14, <1>15, <1>16, <1>17 DEF TreeInv

\* remove_me takes k, which is closed, out of one list.
LEMMA UnlinkTree ==
    ASSUME TypeOK, TreeInv, NEW t \in Thread, NEW k \in Node, Unlink(t, k)
    PROVE  TreeInv'
<1> USE DEF treeVars
<1> DEFINE s == Tail(todo[t])
<1>1. Runs(t, "unlink", k) /\ UNCHANGED <<made, origin>>
      /\ todo' = [todo EXCEPT ![t] = s]
  BY DEF Unlink
<1>2. /\ InStack("unlink", k, todo[t])
      /\ \A o, n : InStack(o, n, s) => InStack(o, n, todo[t])
      /\ \A n : InStack("close", n, todo[t]) <=> InStack("close", n, s)
  <2>1. /\ todo[t] \in Seq(Frame) /\ todo[t] # <<>>
        /\ Head(todo[t]).op = "unlink" /\ k \in Head(todo[t]).kids
    BY <1>1 DEF TypeOK, Runs
  <2>2. \A o, n : InStack(o, n, todo[t])
                     <=> (Head(todo[t]).op = o /\ n \in Head(todo[t]).kids)
                            \/ InStack(o, n, s)
    BY <2>1, TailStack
  <2>3. QED BY <2>1, <2>2
<1> HIDE DEF s
<1>3. sig[k].closed
  BY <1>2 DEF TreeInv
<1>4. \A n \in Node : /\ sig'[n].closed = sig[n].closed
                      /\ sig'[n].sealing = sig[n].sealing
                      /\ sig'[n].children \subseteq sig[n].children
                      /\ sig[n].children \subseteq sig'[n].children \cup {k}
  <2> DEFINE p == Head(todo[t]).up
  <2>1. sig' = sig \/ sig' = [sig EXCEPT ![p].children = @ \ {k}]
    BY DEF Unlink
  <2> HIDE DEF p
  <2>2. CASE sig' = sig
    BY <2>2
  <2>3. CASE sig' = [sig EXCEPT ![p].children = @ \ {k}]
    <3>1. sig \in [Node -> State]
      BY DEF TypeOK
    <3>2. ASSUME NEW n \in Node, n # p PROVE sig'[n] = sig[n]
      BY <2>3, <3>1, <3>2
    <3>3. ASSUME p \in Node
          PROVE  /\ sig'[p].closed = sig[p].closed
                 /\ sig'[p].sealing = sig[p].sealing
                 /\ sig'[p].children = sig[p].children \ {k}
      BY <2>3, <3>1, <3>3 DEF State
    <3>4. QED BY <3>2, <3>3
  <2>4. QED BY <2>1, <2>2, <2>3
<1>5. todo'[t] = s /\ \A x \in Thread : x # t => todo'[x] = todo[x]
  BY <1>1 DEF TypeOK
<1>6. \A n \in made \ {Root} : n \in Node /\ origin[n] \in made /\ origin[n] \in Node
  BY DEF TypeOK, TreeInv
<1>7. \A n : ClosePending(n) => ClosePending(n)'
  BY <1>2, <1>5 DEF ClosePending
<1>8. \A n \in made' \ {Root} :
          /\ origin'[n] \in made'
          /\ sig'[n].closed \/ n \in sig'[origin'[n]].children \/ ClosePending(n)'
  BY <1>1, <1>3, <1>4, <1>6, <1>7 DEF TreeInv
<1>9. OpenChildListed'
  BY <1>1, <1>3, <1>4, <1>6 DEF OpenChildListed, TreeInv
<1>10. \A n \in Node :
           (n \notin made' \/ (sig'[n].closed /\ ~ sig'[n].sealing))
               => sig'[n].children = {}
  BY <1>1, <1>4 DEF TreeInv
<1>11. \A x \in Thread, n \in Node :
           InStack("seal", n, todo'[x]) \/ InStack("unlink", n, todo'[x])
               => sig'[n].closed
  BY <1>2, <1>4, <1>5 DEF TreeInv
<1>12. QED BY <1>8, <1>9, <1>10, <1>11 DEF TreeInv

LEMMA WorksTree ==
    ASSUME TypeOK, TreeInv, NEW t \in Thread, Works(t) PROVE TreeInv'
<1> USE DEF treeVars
<1>0. PICK k \in Node :
          \/ CloseClosed(t, k) \/ CloseOpen(t, k) \/ Seal(t, k) \/ Unlink(t, k)
          \/ StopSkips(t, k) \/ StopOpen(t, k)
          \/ ResumeSkips(t, k) \/ ResumeStopped(t, k)
          \/ InitTimerSkips(t, k) \/ InitTimer(t, k) \/ InitParent(t, k)
  BY DEF Works
<1>1. /\ sig[k] \in State /\ sig[k].children \in SUBSET Node
      /\ sig[k].parent \in Node \cup {NoNode}
  BY DEF TypeOK, State
<1>2. ASSUME NEW op, Runs(t, op, k) PROVE Head(todo[t]).flag \in BOOLEAN
  BY <1>2, WithoutStack DEF Frame
<1>3. CASE CloseClosed(t, k)
  <2>1. /\ Runs(t, "close", k) /\ sig[k].closed
        /\ UNCHANGED <<made, origin, sig>>
        /\ todo' = [todo EXCEPT ![t] = Without(t, k)]
    BY <1>3 DEF CloseClosed
  <2>2. QED BY <2>1, SkipTree DEF SameTree
<1>4. CASE StopSkips(t, k)
  <2>1. /\ Runs(t, "stop", k)
        /\ UNCHANGED <<made, origin, sig>>
        /\ todo' = [todo EXCEPT ![t] = Without(t, k)]
    BY <1>4 DEF StopSkips
  <2>2. QED BY <2>1, SkipTree DEF SameTree
<1>5. CASE ResumeSkips(t, k)
  <2>1. /\ Runs(t, "resume", k)
        /\ UNCHANGED <<made, origin, sig>>
        /\ todo' = [todo EXCEPT ![t] = Without(t, k)]
    BY <1>5 DEF ResumeSkips
  <2>2. QED BY <2>1, SkipTree DEF SameTree
<1>6. CASE InitTimerSkips(t, k)
  <2>1. /\ Runs(t, "initTimer", k)
        /\ UNCHANGED <<made, origin, sig>>
        /\ todo' = [todo EXCEPT ![t] = Without(t, k)]
    BY <1>6 DEF InitTimerSkips
  <2>2. QED BY <2>1, SkipTree DEF SameTree
<1>7. CASE StopOpen(t, k)
  <2> DEFINE f == Call("stop", sig[k].children, Head(todo[t]).flag)
  <2>1. Runs(t, "stop", k)
    BY <1>7 DEF StopOpen
  <2>2. f \in Frame /\ f.op = "stop"
    <3>1. "stop" \in FrameOp /\ sig[k].children \in SUBSET Node /\ Head(todo[t]).flag \in BOOLEAN
      BY <2>1, <1>1, <1>2 DEF FrameOp
    <3>2. QED BY <3>1, CallType
  <2>3. todo' = [todo EXCEPT ![t] = Push(f, Without(t, k))]
    BY <1>7 DEF StopOpen
  <2>4. UNCHANGED <<made, origin>> /\ SameTree
    BY <1>7, <1>1 DEF StopOpen, SameTree, TypeOK, State
  <2> HIDE DEF f
  <2>5. QED BY <2>1, <2>2, <2>3, <2>4, GoOnTree
<1>8. CASE ResumeStopped(t, k)
  <2> DEFINE f == Call("resume", sig[k].children, FALSE)
  <2>1. Runs(t, "resume", k)
    BY <1>8 DEF ResumeStopped
  <2>2. f \in Frame /\ f.op = "resume"
    <3>1. "resume" \in FrameOp /\ sig[k].children \in SUBSET Node /\ FALSE \in BOOLEAN
      BY <2>1, <1>1, <1>2 DEF FrameOp
    <3>2. QED BY <3>1, CallType
  <2>3. todo' = [todo EXCEPT ![t] = Push(f, Without(t, k))]
    BY <1>8 DEF ResumeStopped
  <2>4. UNCHANGED <<made, origin>> /\ SameTree
    BY <1>8, <1>1 DEF ResumeStopped, SameTree, TypeOK, State
  <2> HIDE DEF f
  <2>5. QED BY <2>1, <2>2, <2>3, <2>4, GoOnTree
<1>9. CASE InitTimer(t, k)
  <2> DEFINE f == Call("initParent", {k}, FALSE)
  <2>1. Runs(t, "initTimer", k)
    BY <1>9 DEF InitTimer
  <2>2. f \in Frame /\ f.op = "initParent"
    <3>1. "initParent" \in FrameOp /\ {k} \in SUBSET Node /\ FALSE \in BOOLEAN
      BY <2>1, <1>1, <1>2 DEF FrameOp
    <3>2. QED BY <3>1, CallType
  <2>3. todo' = [todo EXCEPT ![t] = <<f>> \o Without(t, k)]
    BY <1>9 DEF InitTimer
  <2>4. UNCHANGED <<made, origin>> /\ SameTree
    BY <1>9 DEF InitTimer, SameTree
  <2> HIDE DEF f
  <2>5. QED BY <2>1, <2>2, <2>3, <2>4, GoOnTree
<1>10. CASE InitParent(t, k)
  <2> DEFINE f == Call("initTimer", {sig[k].parent}, FALSE)
             s == IF sig[k].parent = NoNode THEN Tail(todo[t])
                  ELSE <<f>> \o Tail(todo[t])
  <2>1. /\ todo[t] \in Seq(Frame) /\ todo[t] # <<>>
        /\ Head(todo[t]).op = "initParent"
        /\ todo' = [todo EXCEPT ![t] = s]
        /\ UNCHANGED <<made, origin, sig>>
    BY <1>10 DEF InitParent, Runs, TypeOK
  <2>2. sig[k].parent # NoNode => f \in Frame /\ f.op = "initTimer"
    <3>1. ASSUME sig[k].parent # NoNode
          PROVE  /\ "initTimer" \in FrameOp /\ FALSE \in BOOLEAN
                 /\ {sig[k].parent} \in SUBSET Node
      BY <3>1, <1>1 DEF FrameOp
    <3>2. QED BY <3>1, CallType
  <2> HIDE DEF f
  <2>3. /\ Tail(todo[t]) \in Seq(Frame)
        /\ \A o, n : InStack(o, n, todo[t])
              <=> (Head(todo[t]).op = o /\ n \in Head(todo[t]).kids)
                     \/ InStack(o, n, Tail(todo[t]))
    BY <2>1, TailStack
  <2>4. \A o, n : o # "initTimer" =>
            (InStack(o, n, s) <=> InStack(o, n, Tail(todo[t])))
    BY <2>2, <2>3, ConsStack
  <2> HIDE DEF s
  <2>5. QED BY <2>1, <2>3, <2>4, StepKeepsTree
<1>11. QED
  BY <1>0, <1>3, <1>4, <1>5, <1>6, <1>7, <1>8, <1>9, <1>10,
     CloseOpenTree, SealTree, UnlinkTree

LEMMA TimersTree ==
    ASSUME TypeOK, TreeInv, NEW n \in Node, Timers(n) PROVE TreeInv'
<1> USE DEF treeVars
<1>0. n \in Thread
  BY DEF Thread
<1>1. CASE Elapse(n) \/ TaskStarts(n) \/ TaskFires(n)
  <2>1. UNCHANGED <<made, origin, sig, todo>>
    BY <1>1 DEF Elapse, TaskStarts, TaskFires
  <2>2. QED BY <2>1, QuietKeepsTree DEF SameTree
<1>2. CASE TaskChecks(n)
  <2> DEFINE f == Call("close", {n}, TRUE)
  <2>1. f \in Frame /\ f.op = "close"
    <3>1. "close" \in FrameOp /\ {n} \in SUBSET Node /\ TRUE \in BOOLEAN
      BY DEF FrameOp
    <3>2. QED BY <3>1, CallType
  <2>2. /\ todo[n] = <<>> /\ UNCHANGED <<made, origin, sig>>
        /\ \/ todo' = [todo EXCEPT ![n] = <<>>]
           \/ todo' = [todo EXCEPT ![n] = <<f>>]
    BY <1>2 DEF TaskChecks
  <2> HIDE DEF f
  <2>3. CASE todo' = [todo EXCEPT ![n] = <<>>]
    <3>1. todo' = todo
      BY <2>2, <2>3, <1>0 DEF TypeOK
    <3>2. QED BY <2>2, <3>1, QuietKeepsTree DEF SameTree
  <2>4. CASE todo' = [todo EXCEPT ![n] = <<f>>]
    BY <2>1, <2>2, <2>4, <1>0, BeginsTree
  <2>5. QED BY <2>2, <2>3, <2>4
<1>3. QED BY <1>1, <1>2 DEF Timers

\* The coroutines only touch the lists of waiters.
LEMMA WaitsTree ==
    ASSUME TypeOK, TreeInv, (\E w \in Coro : Waits(w)) \/ Produce
    PROVE  TreeInv'
<1> USE DEF treeVars
<1>1. UNCHANGED <<made, origin, todo>>
  BY DEF Waits, GetWaiter, Submit, CloserRead, GetStopWaiter, Deliver, Produce
<1>2. ASSUME NEW w \in Coro,
             \/ sig' = sig
             \/ sig' = [sig EXCEPT ![on[w]].waiters = @ \cup {w}]
             \/ sig' = [sig EXCEPT ![on[w]].waiters = @ \ {w}]
             \/ sig' = [sig EXCEPT ![on[w]].stopWaiters = @ \cup {w}]
      PROVE  SameTree
  <2>1. /\ on[w] \in Node /\ sig[on[w]] \in State
    BY DEF TypeOK
  <2>2. ASSUME NEW q, \/ sig' = [sig EXCEPT ![on[w]] = [sig[on[w]] EXCEPT !.waiters = q]]
                      \/ sig' = [sig EXCEPT ![on[w]] =
                                       [sig[on[w]] EXCEPT !.stopWaiters = q]]
        PROVE  SameTree
    <3>1. \A n \in Node : n # on[w] => sig'[n] = sig[n]
      BY <2>2 DEF TypeOK
    <3>2. CASE sig' = [sig EXCEPT ![on[w]] = [sig[on[w]] EXCEPT !.waiters = q]]
      <4>1. sig'[on[w]] = [sig[on[w]] EXCEPT !.waiters = q]
        BY <3>2, <2>1 DEF TypeOK
      <4>2. QED BY <3>1, <4>1, <2>1 DEF SameTree, State
    <3>3. CASE sig' = [sig EXCEPT ![on[w]] =
                           [sig[on[w]] EXCEPT !.stopWaiters = q]]
      <4>1. sig'[on[w]] = [sig[on[w]] EXCEPT !.stopWaiters = q]
        BY <3>3, <2>1 DEF TypeOK
      <4>2. QED BY <3>1, <4>1, <2>1 DEF SameTree, State
    <3>4. QED BY <2>2, <3>2, <3>3
  <2>3. CASE sig' = sig
    BY <2>3 DEF SameTree
  <2>4. CASE sig' = [sig EXCEPT ![on[w]].waiters = @ \cup {w}]
    BY <2>4, <2>2
  <2>5. CASE sig' = [sig EXCEPT ![on[w]].waiters = @ \ {w}]
    BY <2>5, <2>2
  <2>6. CASE sig' = [sig EXCEPT ![on[w]].stopWaiters = @ \cup {w}]
    BY <2>6, <2>2
  <2>7. QED BY <1>2, <2>3, <2>4, <2>5, <2>6
<1>3. sig' = sig => SameTree
  BY DEF SameTree
<1>4. SameTree
  <2>1. CASE \E w \in Coro : Waits(w)
    <3>1. PICK w \in Coro : Waits(w)
      BY <2>1
    <3>2. \/ sig' = sig
          \/ sig' = [sig EXCEPT ![on[w]].waiters = @ \cup {w}]
          \/ sig' = [sig EXCEPT ![on[w]].waiters = @ \ {w}]
          \/ sig' = [sig EXCEPT ![on[w]].stopWaiters = @ \cup {w}]
      BY <3>1 DEF Waits, GetWaiter, Submit, CloserRead, GetStopWaiter, Deliver
    <3>3. QED BY <3>2, <1>2
  <2>2. CASE Produce
    <3>1. \/ sig' = sig
          \/ \E w \in Coro : sig' = [sig EXCEPT ![on[w]].waiters = @ \ {w}]
      BY <2>2 DEF Produce
    <3>2. QED BY <3>1, <1>2, <1>3
  <2>3. QED BY <2>1, <2>2
<1>5. QED BY <1>1, <1>4, QuietKeepsTree

LEMMA EnterTree ==
    ASSUME TypeOK, TreeInv, NEW w \in Coro, NEW n \in Node, NEW k \in Kinds,
           Enter(w, n, k)
    PROVE  TreeInv'
<1> USE DEF treeVars
<1> DEFINE f == Call("initTimer", {n}, FALSE)
<1>1. f \in Frame /\ f.op = "initTimer"
  <2>1. "initTimer" \in FrameOp /\ {n} \in SUBSET Node /\ FALSE \in BOOLEAN
    BY DEF FrameOp
  <2>2. QED BY <2>1, CallType
<1>2. /\ todo[w] = <<>> /\ todo' = [todo EXCEPT ![w] = <<f>>]
      /\ UNCHANGED <<made, origin, sig>>
  BY DEF Enter
<1> HIDE DEF f
<1>3. w \in Thread
  BY DEF Thread
<1>4. QED BY <1>1, <1>2, <1>3, BeginsTree

LEMMA NextTree == ASSUME TypeOK, TreeInv, [Next]_vars PROVE TreeInv'
<1>1. CASE UNCHANGED vars
  <2>1. UNCHANGED <<made, origin, sig, todo>>
    BY <1>1 DEF vars
  <2>2. QED BY <2>1, QuietKeepsTree DEF SameTree
<1>2. ASSUME NEW n \in made, Timers(n) PROVE TreeInv'
  BY <1>2, TimersTree DEF TypeOK
<1>3. ASSUME NEW w \in Coro, NEW n \in made, NEW k \in Kinds, Enter(w, n, k)
      PROVE  TreeInv'
  BY <1>3, EnterTree DEF TypeOK
<1>4. QED
  BY <1>1, <1>2, <1>3, CallsTree, WorksTree, WaitsTree DEF Next

\* Whatever the interleaving of close, create_child, stop, resume and the timers
\* of any number of closers: TreeInv is inductive, given the types.
THEOREM TreeCorrect == Spec => []TreeInv
<1>1. Init => TreeInv
  BY InitTree
<1>2. TypeOK /\ TreeInv /\ [Next]_vars => TreeInv'
  BY NextTree
<1>3. QED BY <1>1, <1>2, TypeCorrect, PTL DEF Spec

\* A closer created from a closed one is closed, or some thread is on its way to
\* close it.
THEOREM NoOrphanEver == Spec => []NoOrphan
<1>1. ASSUME TypeOK, TreeInv PROVE NoOrphan
  <2> SUFFICES ASSUME NEW n \in made \ {Root},
                      sig[origin[n]].closed, ~ sig[origin[n]].sealing
               PROVE  sig[n].closed \/ ClosePending(n)
    BY DEF NoOrphan
  <2>1. origin[n] \in Node
    BY <1>1 DEF TypeOK, TreeInv
  <2>2. sig[origin[n]].children = {}
    BY <1>1, <2>1 DEF TreeInv
  <2>3. QED BY <1>1, <2>2 DEF TreeInv
<1>2. TypeOK /\ TreeInv => NoOrphan
  BY <1>1
<1>3. QED BY <1>2, TypeCorrect, TreeCorrect, PTL

\* The list that close walks holds every open closer created from an open one.
THEOREM OpenChildListedEver == Spec => []OpenChildListed
<1>1. TreeInv => OpenChildListed
  BY DEF TreeInv
<1>2. QED BY <1>1, TreeCorrect, PTL
----------------------------------------------------------------------------
(* Waiters. *)

\* NoLostWakeup, for one coroutine on a closer that exists.
Awaited(w) ==
    /\ on[w] \in made
    /\ pc[w] = "wait"
          => /\ w \in sig[on[w]].waiters
             /\ sig[on[w]].closed => sig[on[w]].sealing
    /\ pc[w] = "submit"
          => \/ token[w]
             \/ /\ w \in sig[on[w]].waiters
                /\ sig[on[w]].closed => sig[on[w]].sealing
    /\ pc[w] = "stopwait"
          => /\ w \in sig[on[w]].stopWaiters
             /\ sig[on[w]].stop \/ sig[on[w]].sealing

\* Every coroutine waits where the next close or resume will find it.
WakeInv == \A w \in Coro : Awaited(w)

\* The step forgets no waiter, ends no close and resumes no closer.
KeepsWaiters ==
    /\ made \subseteq made'
    /\ \A n \in made :
          /\ sig[n].waiters \subseteq sig'[n].waiters
          /\ sig[n].stopWaiters \subseteq sig'[n].stopWaiters
          /\ sig'[n].closed /\ ~ sig'[n].sealing
                => sig[n].closed /\ ~ sig[n].sealing
          /\ sig[n].stop \/ sig[n].sealing => sig'[n].stop \/ sig'[n].sealing

LEMMA QuietKeepsWake ==
    ASSUME WakeInv, KeepsWaiters, UNCHANGED <<pc, on, token>>
    PROVE  WakeInv'
BY DEF WakeInv, Awaited, KeepsWaiters

LEMMA SameKeepsWaiters ==
    ASSUME UNCHANGED <<made, sig>> PROVE KeepsWaiters
BY DEF KeepsWaiters

\* One closer of the tree gets another state.
LEMMA SigAt ==
    ASSUME TypeOK, NEW n \in Node, NEW s, sig' = [sig EXCEPT ![n] = s]
    PROVE  sig'[n] = s /\ \A m \in Node : m # n => sig'[m] = sig[m]
BY DEF TypeOK

LEMMA InitWake == Init => WakeInv
BY DEF Init, WakeInv, Awaited

LEMMA CallsWake ==
    ASSUME TypeOK, WakeInv, NEW c \in Caller, Calls(c) PROVE WakeInv'
<1> USE DEF treeVars, coroVars
<1>1. PICK n \in made \cap Handles[c] :
          \/ BeginClose(c, n)
          \/ \E b \in BOOLEAN : BeginStop(c, n, b)
          \/ BeginResume(c, n)
          \/ \E d \in Duration \cup {0} : SetTimeout(c, n, d)
          \/ \E m \in Node : CreateChild(c, n, m)
  BY DEF Calls
<1>2. n \in Node /\ n \in made /\ made \subseteq Node
  BY DEF TypeOK
<1>3. CASE UNCHANGED <<made, sig, pc, on, token>>
  BY <1>3, SameKeepsWaiters, QuietKeepsWake
<1>4. ASSUME NEW m \in Node, CreateChild(c, n, m) PROVE WakeInv'
  <2>1. /\ m \notin made /\ made' = made \cup {m}
        /\ UNCHANGED <<pc, on, token>>
    BY <1>4 DEF CreateChild
  <2>2. \A x \in made :
            /\ sig'[x].waiters = sig[x].waiters
            /\ sig'[x].stopWaiters = sig[x].stopWaiters
            /\ sig'[x].closed = sig[x].closed
            /\ sig'[x].sealing = sig[x].sealing
            /\ sig'[x].stop = sig[x].stop
    <3>1. CASE sig' = [sig EXCEPT ![m].closed = TRUE,
                                  ![m].isTimeout = sig[n].isTimeout]
      BY <3>1, <2>1, <1>2 DEF TypeOK
    <3>2. CASE sig' = [sig EXCEPT ![m].parent = n,
                                  ![n].children = @ \cup {m}]
      <4>1. \A x \in made \ {n} : sig'[x] = sig[x]
        BY <3>2, <2>1, <1>2 DEF TypeOK
      <4>2. sig'[n] = [sig[n] EXCEPT !.children = @ \cup {m}]
        BY <3>2, <2>1, <1>2 DEF TypeOK
      <4>3. sig[n] \in State
        BY <1>2 DEF TypeOK
      <4>4. QED BY <4>1, <4>2, <4>3 DEF State
    <3>3. QED BY <1>4, <3>1, <3>2 DEF CreateChild
  <2>3. KeepsWaiters
    BY <2>1, <2>2 DEF KeepsWaiters
  <2>4. QED BY <2>1, <2>3, QuietKeepsWake
<1>5. QED
  BY <1>1, <1>3, <1>4 DEF BeginClose, BeginStop, BeginResume, SetTimeout

\* A locked section that leaves the lists of waiters alone.
LEMMA StateKeepsWake ==
    ASSUME TypeOK, WakeInv, NEW k \in Node, NEW s,
           sig' = [sig EXCEPT ![k] = s],
           s.waiters = sig[k].waiters, s.stopWaiters = sig[k].stopWaiters,
           s.closed /\ ~ s.sealing => sig[k].closed /\ ~ sig[k].sealing,
           sig[k].stop \/ sig[k].sealing => s.stop \/ s.sealing,
           UNCHANGED <<made, pc, on, token>>
    PROVE  WakeInv'
<1>1. sig'[k] = s /\ \A m \in Node : m # k => sig'[m] = sig[m]
  BY SigAt
<1>2. made \subseteq Node
  BY DEF TypeOK
<1>3. KeepsWaiters
  BY <1>1, <1>2 DEF KeepsWaiters
<1>4. QED BY <1>3, QuietKeepsWake

\* Whoever waits on k leaves with the state that the locked section of its close
\* ends with.
LEMMA SealWake ==
    ASSUME TypeOK, WakeInv, NEW t \in Thread, NEW k \in Node, Seal(t, k)
    PROVE  WakeInv'
<1> USE DEF treeVars
<1>1. /\ pc' = [w \in Coro |-> AfterClose(w, sig[k])]
      /\ token' = [w \in Coro |->
                      token[w] \/ (w \in sig[k].waiters /\ pc[w] = "submit")]
      /\ UNCHANGED <<made, on>>
  BY DEF Seal
<1>2. \A m \in Node : m # k => sig'[m] = sig[m]
  BY DEF Seal, TypeOK
<1> SUFFICES ASSUME NEW w \in Coro PROVE Awaited(w)'
  BY DEF WakeInv
<1>3. on[w] \in made /\ on[w] \in Node /\ on'[w] = on[w] /\ made' = made
  BY <1>1 DEF WakeInv, Awaited, TypeOK
<1>4. pc'[w] = AfterClose(w, sig[k]) /\ (token[w] => token'[w])
  BY <1>1
<1>5. pc'[w] = pc[w] \/ pc'[w] = "closer" \/ pc'[w] = "check"
  BY <1>4 DEF AfterClose
<1>6. CASE on[w] # k
  <2>1. sig'[on[w]] = sig[on[w]]
    BY <1>2, <1>3, <1>6
  <2>2. QED BY <2>1, <1>3, <1>4, <1>5 DEF WakeInv, Awaited
<1>7. CASE on[w] = k
  <2>1. pc'[w] # "wait"
    BY <1>4, <1>7 DEF WakeInv, Awaited, AfterClose
  <2>2. pc'[w] # "stopwait"
    BY <1>4, <1>7 DEF WakeInv, Awaited, AfterClose
  <2>3. pc'[w] = "submit" => token'[w]
    BY <1>1, <1>5, <1>7 DEF WakeInv, Awaited
  <2>4. QED BY <2>1, <2>2, <2>3, <1>3 DEF Awaited
<1>8. QED BY <1>6, <1>7

LEMMA ResumeWake ==
    ASSUME TypeOK, WakeInv, NEW t \in Thread, NEW k \in Node,
           ResumeStopped(t, k)
    PROVE  WakeInv'
<1> USE DEF treeVars
<1>1. /\ pc' = [w \in Coro |->
                   IF w \in sig[k].stopWaiters /\ pc[w] = "stopwait"
                   THEN "check" ELSE pc[w]]
      /\ UNCHANGED <<made, on, token>>
  BY DEF ResumeStopped
<1>2. sig' = [sig EXCEPT ![k] = [sig[k] EXCEPT !.stop = FALSE,
                                               !.stopWaiters = {}]]
  BY DEF ResumeStopped, TypeOK
<1>3. sig'[k] = [sig[k] EXCEPT !.stop = FALSE, !.stopWaiters = {}]
      /\ \A m \in Node : m # k => sig'[m] = sig[m]
  BY <1>2, SigAt
<1>4. /\ sig'[k].waiters = sig[k].waiters /\ sig'[k].closed = sig[k].closed
      /\ sig'[k].sealing = sig[k].sealing
  BY <1>3 DEF TypeOK, State
<1> SUFFICES ASSUME NEW w \in Coro PROVE Awaited(w)'
  BY DEF WakeInv
<1>5. on[w] \in made /\ on[w] \in Node /\ on'[w] = on[w] /\ made' = made
      /\ token'[w] = token[w]
  BY <1>1 DEF WakeInv, Awaited, TypeOK
<1>6. pc'[w] = IF w \in sig[k].stopWaiters /\ pc[w] = "stopwait"
               THEN "check" ELSE pc[w]
  BY <1>1
<1>7. CASE on[w] # k
  <2>1. sig'[on[w]] = sig[on[w]]
    BY <1>3, <1>5, <1>7
  <2>2. QED BY <2>1, <1>5, <1>6 DEF WakeInv, Awaited
<1>8. CASE on[w] = k
  BY <1>4, <1>5, <1>6, <1>8 DEF WakeInv, Awaited
<1>9. QED BY <1>7, <1>8

LEMMA WorksWake ==
    ASSUME TypeOK, WakeInv, NEW t \in Thread, Works(t) PROVE WakeInv'
<1> USE DEF treeVars, coroVars
<1>1. PICK k \in Node :
          \/ CloseClosed(t, k) \/ CloseOpen(t, k) \/ Seal(t, k) \/ Unlink(t, k)
          \/ StopSkips(t, k) \/ StopOpen(t, k)
          \/ ResumeSkips(t, k) \/ ResumeStopped(t, k)
          \/ InitTimerSkips(t, k) \/ InitTimer(t, k) \/ InitParent(t, k)
  BY DEF Works
<1>2. sig[k] \in State /\ sig \in [Node -> State]
  BY DEF TypeOK
<1>3. CASE UNCHANGED <<made, sig, pc, on, token>>
  BY <1>3, SameKeepsWaiters, QuietKeepsWake
<1>4. CASE CloseOpen(t, k)
  <2> DEFINE s == [sig[k] EXCEPT !.closed = TRUE, !.sealing = TRUE,
                                 !.stop = FALSE]
  <2>1. sig' = [sig EXCEPT ![k] = s] /\ UNCHANGED <<made, pc, on, token>>
    BY <1>2, <1>4 DEF CloseOpen
  <2>2. /\ s.waiters = sig[k].waiters /\ s.stopWaiters = sig[k].stopWaiters
        /\ s.sealing
    BY <1>2 DEF State
  <2> HIDE DEF s
  <2>3. QED BY <2>1, <2>2, StateKeepsWake
<1>5. CASE StopOpen(t, k)
  <2> DEFINE s == [sig[k] EXCEPT !.stop = TRUE]
  <2>1. sig' = [sig EXCEPT ![k] = s] /\ UNCHANGED <<made, pc, on, token>>
    BY <1>2, <1>5 DEF StopOpen
  <2>2. /\ s.waiters = sig[k].waiters /\ s.stopWaiters = sig[k].stopWaiters
        /\ s.closed = sig[k].closed /\ s.sealing = sig[k].sealing /\ s.stop
    BY <1>2 DEF State
  <2> HIDE DEF s
  <2>3. QED BY <2>1, <2>2, StateKeepsWake
<1>6. CASE Unlink(t, k)
  <2> DEFINE p == Head(todo[t]).up
             s == [sig[p] EXCEPT !.children = @ \ {k}]
  <2>1. UNCHANGED <<made, pc, on, token>>
        /\ (sig' = sig \/ sig' = [sig EXCEPT ![p].children = @ \ {k}])
    BY <1>6 DEF Unlink
  <2> HIDE DEF p
  <2>2. CASE p \in Node /\ sig' = [sig EXCEPT ![p].children = @ \ {k}]
    <3>1. sig' = [sig EXCEPT ![p] = s]
      BY <1>2, <2>2
    <3>2. /\ s.waiters = sig[p].waiters /\ s.stopWaiters = sig[p].stopWaiters
          /\ s.closed = sig[p].closed /\ s.sealing = sig[p].sealing
          /\ s.stop = sig[p].stop
      BY <1>2, <2>2 DEF State
    <3> HIDE DEF s
    <3>3. QED BY <2>1, <2>2, <3>1, <3>2, StateKeepsWake
  <2>3. CASE p \notin Node /\ sig' = [sig EXCEPT ![p].children = @ \ {k}]
    <3>1. sig' = sig
      BY <1>2, <2>3
    <3>2. QED BY <2>1, <3>1, <1>3
  <2>4. QED BY <2>1, <2>2, <2>3, <1>3
<1>7. QED
  BY <1>1, <1>3, <1>4, <1>5, <1>6, SealWake, ResumeWake
     DEF CloseClosed, StopSkips, ResumeSkips, InitTimerSkips, InitTimer,
         InitParent

\* The state of one coroutine and the closer it waits on.
LEMMA OneCoroWake ==
    ASSUME TypeOK, WakeInv, NEW w \in Coro, NEW x,
           pc' = [pc EXCEPT ![w] = x], UNCHANGED <<made, on, token>>,
           \A n \in Node :
               /\ sig[n].waiters \ {w} \subseteq sig'[n].waiters
               /\ sig[n].stopWaiters \subseteq sig'[n].stopWaiters
               /\ sig'[n].closed = sig[n].closed
               /\ sig'[n].sealing = sig[n].sealing
               /\ sig'[n].stop = sig[n].stop,
           Awaited(w)'
    PROVE  WakeInv'
<1> SUFFICES ASSUME NEW v \in Coro, v # w PROVE Awaited(v)'
  BY DEF WakeInv
<1>1. pc'[v] = pc[v] /\ on'[v] = on[v] /\ on[v] \in Node
  BY DEF TypeOK
<1>2. QED BY <1>1 DEF WakeInv, Awaited

\* A list of waiters of one closer changes.
LEMMA WaitersAt ==
    ASSUME TypeOK, NEW n \in Node, NEW w \in Coro,
           \/ sig' = sig
           \/ sig' = [sig EXCEPT ![n].waiters = @ \cup {w}]
           \/ sig' = [sig EXCEPT ![n].waiters = @ \ {w}]
           \/ sig' = [sig EXCEPT ![n].stopWaiters = @ \cup {w}]
    PROVE  \A m \in Node :
               /\ sig[m].waiters \ {w} \subseteq sig'[m].waiters
               /\ sig[m].stopWaiters \subseteq sig'[m].stopWaiters
               /\ sig'[m].closed = sig[m].closed
               /\ sig'[m].sealing = sig[m].sealing
               /\ sig'[m].stop = sig[m].stop
<1>1. sig[n] \in State /\ sig \in [Node -> State]
  BY DEF TypeOK
<1>2. CASE sig' = [sig EXCEPT ![n].waiters = @ \cup {w}]
  <2>1. sig' = [sig EXCEPT ![n] = [sig[n] EXCEPT !.waiters = @ \cup {w}]]
    BY <1>1, <1>2
  <2>2. sig'[n] = [sig[n] EXCEPT !.waiters = @ \cup {w}]
        /\ \A m \in Node : m # n => sig'[m] = sig[m]
    BY <2>1, SigAt
  <2>3. QED BY <2>2, <1>1 DEF State
<1>3. CASE sig' = [sig EXCEPT ![n].waiters = @ \ {w}]
  <2>1. sig' = [sig EXCEPT ![n] = [sig[n] EXCEPT !.waiters = @ \ {w}]]
    BY <1>1, <1>3
  <2>2. sig'[n] = [sig[n] EXCEPT !.waiters = @ \ {w}]
        /\ \A m \in Node : m # n => sig'[m] = sig[m]
    BY <2>1, SigAt
  <2>3. QED BY <2>2, <1>1 DEF State
<1>4. CASE sig' = [sig EXCEPT ![n].stopWaiters = @ \cup {w}]
  <2>1. sig' = [sig EXCEPT ![n] = [sig[n] EXCEPT !.stopWaiters = @ \cup {w}]]
    BY <1>1, <1>4
  <2>2. sig'[n] = [sig[n] EXCEPT !.stopWaiters = @ \cup {w}]
        /\ \A m \in Node : m # n => sig'[m] = sig[m]
    BY <2>1, SigAt
  <2>3. QED BY <2>2, <1>1 DEF State
<1>5. QED BY <1>2, <1>3, <1>4

LEMMA WaitsWake ==
    ASSUME TypeOK, WakeInv, NEW w \in Coro, Waits(w) PROVE WakeInv'
<1> USE DEF treeVars
<1> DEFINE n == on[w]
<1>1. n \in Node /\ n \in made /\ sig[n] \in State /\ Awaited(w)
  BY DEF TypeOK, WakeInv, Awaited
<1>2. UNCHANGED <<made, on, token>>
  BY DEF Waits, GetWaiter, Submit, CloserRead, GetStopWaiter, Deliver
<1>3. \/ sig' = sig
      \/ sig' = [sig EXCEPT ![n].waiters = @ \cup {w}]
      \/ sig' = [sig EXCEPT ![n].waiters = @ \ {w}]
      \/ sig' = [sig EXCEPT ![n].stopWaiters = @ \cup {w}]
  BY DEF Waits, GetWaiter, Submit, CloserRead, GetStopWaiter, Deliver
<1> HIDE DEF n
<1>4. \A m \in Node :
          /\ sig[m].waiters \ {w} \subseteq sig'[m].waiters
          /\ sig[m].stopWaiters \subseteq sig'[m].stopWaiters
          /\ sig'[m].closed = sig[m].closed
          /\ sig'[m].sealing = sig[m].sealing
          /\ sig'[m].stop = sig[m].stop
  BY <1>1, <1>3, WaitersAt
<1>5. ASSUME NEW x, pc' = [pc EXCEPT ![w] = x],
             x \notin {"wait", "submit", "stopwait"}
      PROVE  WakeInv'
  <2>1. pc'[w] = x /\ on'[w] = n /\ n \in made'
    BY <1>1, <1>2, <1>5 DEF TypeOK, n
  <2>2. Awaited(w)'
    BY <1>5, <2>1 DEF Awaited
  <2>3. QED BY <1>2, <1>4, <1>5, <2>2, OneCoroWake
<1>6. CASE GetWaiter(w)
  <2>1. CASE pc' = [pc EXCEPT ![w] = "done"]
    BY <2>1, <1>5
  <2>2. CASE /\ ~ sig[n].closed
             /\ sig' = [sig EXCEPT ![n].waiters = @ \cup {w}]
             /\ pc' = [pc EXCEPT ![w] = "submit"]
    <3>1. sig'[n] = [sig[n] EXCEPT !.waiters = @ \cup {w}]
      BY <2>2, <1>1 DEF TypeOK
    <3>2. w \in sig'[n].waiters /\ ~ sig'[n].closed
      BY <2>2, <3>1, <1>1 DEF State
    <3>3. pc'[w] = "submit" /\ on'[w] = n /\ n \in made'
      BY <1>1, <1>2, <2>2 DEF TypeOK, n
    <3>4. Awaited(w)'
      BY <3>2, <3>3 DEF Awaited
    <3>5. QED BY <1>2, <1>4, <2>2, <3>4, OneCoroWake
  <2>3. QED BY <1>6, <2>1, <2>2 DEF GetWaiter, Finish, n
<1>7. CASE Submit(w)
  <2>1. CASE pc' = [pc EXCEPT ![w] = "closer"] \/ pc' = [pc EXCEPT ![w] = "value"]
    BY <2>1, <1>5
  <2>2. CASE /\ pc[w] = "submit" /\ ~ token[w]
             /\ pc' = [pc EXCEPT ![w] = "wait"]
             /\ sig' = sig
    <3>1. pc'[w] = "wait" /\ on'[w] = n /\ n \in made'
      BY <1>1, <1>2, <2>2 DEF TypeOK, n
    <3>2. Awaited(w)'
      BY <1>1, <2>2, <3>1 DEF Awaited, n
    <3>3. QED BY <1>2, <1>4, <2>2, <3>2, OneCoroWake
  <2>3. QED BY <1>7, <2>1, <2>2 DEF Submit
<1>8. CASE GetStopWaiter(w)
  <2>1. CASE pc' = [pc EXCEPT ![w] = "check"]
    BY <2>1, <1>5
  <2>2. CASE /\ sig[n].stop
             /\ sig' = [sig EXCEPT ![n].stopWaiters = @ \cup {w}]
             /\ pc' = [pc EXCEPT ![w] = "stopwait"]
    <3>1. sig'[n] = [sig[n] EXCEPT !.stopWaiters = @ \cup {w}]
      BY <2>2, <1>1 DEF TypeOK
    <3>2. w \in sig'[n].stopWaiters /\ sig'[n].stop
      BY <2>2, <3>1, <1>1 DEF State
    <3>3. pc'[w] = "stopwait" /\ on'[w] = n /\ n \in made'
      BY <1>1, <1>2, <2>2 DEF TypeOK, n
    <3>4. Awaited(w)'
      BY <3>2, <3>3 DEF Awaited
    <3>5. QED BY <1>2, <1>4, <2>2, <3>4, OneCoroWake
  <2>3. QED BY <1>8, <2>1, <2>2 DEF GetStopWaiter, n
<1>9. CASE CloserRead(w) \/ Deliver(w)
  BY <1>9, <1>5 DEF CloserRead, Deliver, Finish
<1>10. QED BY <1>6, <1>7, <1>8, <1>9 DEF Waits

LEMMA ProduceWake == ASSUME TypeOK, WakeInv, Produce PROVE WakeInv'
<1> USE DEF treeVars
<1>1. UNCHANGED <<made, on, token>>
  BY DEF Produce
<1>2. CASE UNCHANGED <<pc, sig>>
  BY <1>1, <1>2, SameKeepsWaiters, QuietKeepsWake
<1>3. ASSUME NEW w \in Coro, pc' = [pc EXCEPT ![w] = "value"],
             sig' = [sig EXCEPT ![on[w]].waiters = @ \ {w}]
      PROVE  WakeInv'
  <2>1. on[w] \in Node /\ on[w] \in made
    BY DEF TypeOK, WakeInv, Awaited
  <2>2. \A m \in Node :
            /\ sig[m].waiters \ {w} \subseteq sig'[m].waiters
            /\ sig[m].stopWaiters \subseteq sig'[m].stopWaiters
            /\ sig'[m].closed = sig[m].closed
            /\ sig'[m].sealing = sig[m].sealing
            /\ sig'[m].stop = sig[m].stop
    BY <1>3, <2>1, WaitersAt
  <2>3. Awaited(w)'
    BY <1>1, <1>3, <2>1 DEF Awaited, TypeOK
  <2>4. QED BY <1>1, <1>3, <2>2, <2>3, OneCoroWake
<1>4. QED BY <1>2, <1>3 DEF Produce

LEMMA EnterWake ==
    ASSUME TypeOK, WakeInv, NEW w \in Coro, NEW n \in made, NEW k \in Kinds,
           Enter(w, n, k)
    PROVE  WakeInv'
<1> USE DEF treeVars
<1>1. /\ pc' = [pc EXCEPT ![w] = "init"] /\ on' = [on EXCEPT ![w] = n]
      /\ UNCHANGED <<made, sig, token>>
  BY DEF Enter
<1>2. pc'[w] = "init" /\ on'[w] = n
      /\ \A v \in Coro \ {w} : pc'[v] = pc[v] /\ on'[v] = on[v]
  BY <1>1 DEF TypeOK
<1>3. QED BY <1>1, <1>2 DEF WakeInv, Awaited

LEMMA NextWake == ASSUME TypeOK, WakeInv, [Next]_vars PROVE WakeInv'
<1> USE DEF treeVars, coroVars
<1>1. CASE UNCHANGED vars
  BY <1>1, SameKeepsWaiters, QuietKeepsWake DEF vars
<1>2. ASSUME NEW n \in made, Timers(n) PROVE WakeInv'
  <2>1. UNCHANGED <<made, sig, pc, on, token>>
    BY <1>2 DEF Timers, Elapse, TaskStarts, TaskFires, TaskChecks
  <2>2. QED BY <2>1, SameKeepsWaiters, QuietKeepsWake
<1>3. QED
  BY <1>1, <1>2, CallsWake, WorksWake, WaitsWake, EnterWake, ProduceWake
     DEF Next

\* No wakeup is lost between the registration of a waiter and its read: whoever
\* await or select has suspended is in the list that the next close or resume of
\* its closer empties, and that event is still to come (or its token was written).
THEOREM NoLostWakeupEver == Spec => []NoLostWakeup
<1>1. Init => WakeInv
  BY InitWake
<1>2. TypeOK /\ WakeInv /\ [Next]_vars => WakeInv'
  BY NextWake
<1>3. WakeInv => NoLostWakeup
  BY DEF WakeInv, Awaited, NoLostWakeup
<1>4. QED BY <1>1, <1>2, <1>3, TypeCorrect, PTL DEF Spec
----------------------------------------------------------------------------
(* Closing is final. *)

SealFree(s) == \A k \in Node : ~ InStack("seal", k, s)

\* Only closers that exist are in a list, stopped or closed; none is both.
NodesInv ==
    \A n \in Node :
        /\ sig[n].children \subseteq made
        /\ sig[n].closed \/ sig[n].stop => n \in made
        /\ sig[n].closed => ~ sig[n].stop

\* At most one thread is in the locked section of the close of a closer, with
\* nothing above it on its stack: m_closed is tested and set in one section.
CloseInv ==
    /\ NodesInv
    /\ \A t \in Thread, k \in Node :
          InStack("close", k, todo[t]) \/ InStack("stop", k, todo[t])
              => k \in made
    /\ \A t \in Thread : todo[t] # <<>> => SealFree(Tail(todo[t]))
    /\ \A t \in Thread, k \in Node :
          InStack("seal", k, todo[t]) => sig[k].sealing
    /\ \A t, x \in Thread, k \in Node :
          InStack("seal", k, todo[t]) /\ InStack("seal", k, todo[x]) => t = x

LEMMA InitClose == Init => CloseInv
<1> SUFFICES ASSUME Init PROVE CloseInv
  OBVIOUS
<1>1. NodesInv
  BY DEF Init, NodesInv, NewState
<1>2. \A t \in Thread : todo[t] = <<>> /\ \A op, k : ~ InStack(op, k, todo[t])
  BY DEF Init, InStack
<1>3. QED BY <1>1, <1>2 DEF CloseInv

\* A step of one thread, whose new stack is s.
LEMMA StepKeepsClose ==
    ASSUME TypeOK, CloseInv, NodesInv', made \subseteq made',
           NEW t \in Thread, NEW s, todo' = [todo EXCEPT ![t] = s],
           \A k \in Node : InStack("close", k, s) \/ InStack("stop", k, s)
                              => k \in made',
           s # <<>> => SealFree(Tail(s)),
           \A k \in Node, x \in Thread :
               x # t /\ InStack("seal", k, todo[x])
                  => sig'[k].sealing /\ ~ InStack("seal", k, s),
           \A k \in Node : InStack("seal", k, s) => sig'[k].sealing
    PROVE  CloseInv'
<1>1. todo'[t] = s /\ \A x \in Thread : x # t => todo'[x] = todo[x]
  BY DEF TypeOK
<1>2. \A x \in Thread, k \in Node :
          InStack("close", k, todo'[x]) \/ InStack("stop", k, todo'[x])
              => k \in made'
  BY <1>1 DEF CloseInv
<1>3. \A x \in Thread : todo'[x] # <<>> => SealFree(Tail(todo'[x]))
  BY <1>1 DEF CloseInv
<1>4. \A x \in Thread, k \in Node :
          InStack("seal", k, todo'[x]) => sig'[k].sealing
  BY <1>1
<1>5. \A x, y \in Thread, k \in Node :
          InStack("seal", k, todo'[x]) /\ InStack("seal", k, todo'[y]) => x = y
  BY <1>1 DEF CloseInv
<1>6. QED BY <1>2, <1>3, <1>4, <1>5 DEF CloseInv, SealFree

\* The same for a step that leaves the stacks alone.
LEMMA QuietKeepsClose ==
    ASSUME CloseInv, NodesInv', made \subseteq made', todo' = todo,
           \A n \in Node : sig[n].sealing => sig'[n].sealing
    PROVE  CloseInv'
BY DEF CloseInv, SealFree

\* A closer that is not being closed by thread t has no seal frame on its stack.
LEMMA NoSeal ==
    ASSUME TypeOK, CloseInv, NEW t \in Thread, NEW op, NEW k \in Node,
           Runs(t, op, k), op # "seal"
    PROVE  SealFree(todo[t]) /\ SealFree(Tail(todo[t])) /\ SealFree(Without(t, k))
<1>1. SealFree(Tail(todo[t]))
  BY DEF CloseInv, Runs
<1>2. \A o, n : o # op =>
          (InStack(o, n, todo[t]) <=> InStack(o, n, Tail(todo[t])))
  BY WithoutStack
<1>3. \A o, n : InStack(o, n, Without(t, k)) => InStack(o, n, todo[t])
  BY WithoutStack
<1>4. QED BY <1>1, <1>2, <1>3 DEF SealFree

LEMMA SealFreeTail ==
    ASSUME NEW s \in Seq(Frame), s # <<>>, SealFree(s)
    PROVE  SealFree(Tail(s))
BY TailStack DEF SealFree

\* A call on k that takes no lock of a close ends, or goes on with the calls of
\* one more frame.
LEMMA StackKeepsClose ==
    ASSUME TypeOK, CloseInv, NodesInv', made' = made,
           \A n \in Node : sig'[n].sealing = sig[n].sealing,
           NEW t \in Thread, NEW s \in Seq(Frame),
           todo' = [todo EXCEPT ![t] = s],
           SealFree(s),
           \A k \in Node : InStack("close", k, s) \/ InStack("stop", k, s)
                              => k \in made
    PROVE  CloseInv'
<1>1. s # <<>> => SealFree(Tail(s))
  BY SealFreeTail
<1>2. \A k \in Node, x \in Thread :
          x # t /\ InStack("seal", k, todo[x])
             => sig'[k].sealing /\ ~ InStack("seal", k, s)
  BY DEF CloseInv, SealFree
<1>3. \A k \in Node : InStack("seal", k, s) => sig'[k].sealing
  BY DEF SealFree
<1>4. QED BY <1>1, <1>2, <1>3, StepKeepsClose

LEMMA SkipClose ==
    ASSUME TypeOK, CloseInv, UNCHANGED <<made, sig>>,
           NEW t \in Thread, NEW op, NEW k \in Node, Runs(t, op, k),
           op # "seal",
           todo' = [todo EXCEPT ![t] = Without(t, k)]
    PROVE  CloseInv'
<1>1. SealFree(Without(t, k))
  BY NoSeal
<1>2. /\ Without(t, k) \in Seq(Frame)
      /\ \A o, n : InStack(o, n, Without(t, k)) => InStack(o, n, todo[t])
  BY WithoutStack
<1>3. \A n \in Node : InStack("close", n, Without(t, k))
                         \/ InStack("stop", n, Without(t, k)) => n \in made
  BY <1>2 DEF CloseInv
<1>4. NodesInv'
  BY DEF CloseInv, NodesInv
<1>5. QED BY <1>1, <1>2, <1>3, <1>4, StackKeepsClose

LEMMA GoOnClose ==
    ASSUME TypeOK, CloseInv, NodesInv', made' = made,
           \A n \in Node : sig'[n].sealing = sig[n].sealing,
           NEW t \in Thread, NEW op, NEW k \in Node, Runs(t, op, k),
           op # "seal",
           NEW f \in Frame, f.op # "seal",
           f.op \in {"close", "stop"} => f.kids \subseteq made,
           NEW s, s \in {Push(f, Without(t, k)), <<f>> \o Without(t, k),
                         <<f>> \o Tail(todo[t]), Tail(todo[t])},
           todo' = [todo EXCEPT ![t] = s]
    PROVE  CloseInv'
<1>1. SealFree(Without(t, k)) /\ SealFree(Tail(todo[t]))
  BY NoSeal
<1>2. /\ Without(t, k) \in Seq(Frame) /\ Tail(todo[t]) \in Seq(Frame)
      /\ \A o, n : InStack(o, n, Without(t, k)) => InStack(o, n, todo[t])
      /\ \A o, n : InStack(o, n, Tail(todo[t])) => InStack(o, n, todo[t])
  BY WithoutStack
<1>3. \A r \in Seq(Frame) :
          /\ Push(f, r) \in Seq(Frame) /\ <<f>> \o r \in Seq(Frame)
          /\ \A o, n : InStack(o, n, Push(f, r)) \/ InStack(o, n, <<f>> \o r)
                          => (f.op = o /\ n \in f.kids) \/ InStack(o, n, r)
  BY ConsStack, PushStack
<1>4. /\ s \in Seq(Frame)
      /\ \A o, n : InStack(o, n, s)
            => \/ f.op = o /\ n \in f.kids
               \/ InStack(o, n, Without(t, k)) \/ InStack(o, n, Tail(todo[t]))
  <2>1. CASE s = Push(f, Without(t, k))
    BY <1>2, <1>3, <2>1
  <2>2. CASE s = <<f>> \o Without(t, k)
    BY <1>2, <1>3, <2>2
  <2>3. CASE s = <<f>> \o Tail(todo[t])
    BY <1>2, <1>3, <2>3
  <2>4. CASE s = Tail(todo[t])
    BY <1>2, <2>4
  <2>5. QED BY <2>1, <2>2, <2>3, <2>4
<1>5. SealFree(s)
  BY <1>1, <1>4 DEF SealFree
<1>6. \A n \in Node : InStack("close", n, s) \/ InStack("stop", n, s)
                         => n \in made
  BY <1>2, <1>4 DEF CloseInv
<1>7. QED BY <1>4, <1>5, <1>6, StackKeepsClose

\* A thread that had nothing to do begins a call.
LEMMA BeginsClose ==
    ASSUME TypeOK, CloseInv, NEW t \in Thread, NEW f \in Frame,
           todo[t] = <<>>, todo' = [todo EXCEPT ![t] = <<f>>],
           f.op # "seal", f.op \in {"close", "stop"} => f.kids \subseteq made,
           UNCHANGED <<made, sig>>
    PROVE  CloseInv'
<1>1. \A o, k : InStack(o, k, <<f>>) <=> f.op = o /\ k \in f.kids
  BY FirstFrame
<1>2. SealFree(<<f>>) /\ <<f>> \in Seq(Frame)
  BY <1>1, OneFrame DEF SealFree
<1>3. \A k \in Node : InStack("close", k, <<f>>) \/ InStack("stop", k, <<f>>)
                         => k \in made
  BY <1>1
<1>4. NodesInv'
  BY DEF CloseInv, NodesInv
<1>5. QED BY <1>2, <1>3, <1>4, StackKeepsClose

\* The step takes back no close, closes nothing twice, and changes how it was made
\* in no closer that is closed for good.
KeepsClosed ==
    \A n \in Node :
        sig[n].closed =>
            /\ sig'[n].closed
            /\ ~ sig[n].sealing =>
                  ~ sig'[n].sealing /\ sig'[n].isTimeout = sig[n].isTimeout

\* What a step of the tree shows: the invariant, and what never changes.
Final == CloseInv' /\ KeepsClosed

LEMMA QuietFinal ==
    ASSUME CloseInv, UNCHANGED <<made, sig, todo>> PROVE Final
BY DEF Final, KeepsClosed, CloseInv, NodesInv, SealFree

LEMMA CreateFinal ==
    ASSUME TypeOK, CloseInv, NEW c \in Caller, NEW n \in made, NEW m \in Node,
           CreateChild(c, n, m)
    PROVE  Final
<1>1. /\ m \notin made /\ made' = made \cup {m} /\ todo' = todo
      /\ m # n /\ n \in Node
  BY DEF CreateChild, TypeOK
<1>2. sig \in [Node -> State] /\ sig[m] \in State /\ sig[n] \in State
  BY <1>1 DEF TypeOK
<1>3. ~ sig[m].closed /\ ~ sig[m].stop
  BY <1>1 DEF CloseInv, NodesInv
<1>4. CASE sig' = [sig EXCEPT ![m].closed = TRUE,
                              ![m].isTimeout = sig[n].isTimeout]
  <2>1. sig' = [sig EXCEPT ![m] = [sig[m] EXCEPT !.closed = TRUE,
                                     !.isTimeout = sig[n].isTimeout]]
    BY <1>2, <1>4
  <2>2. sig'[m] = [sig[m] EXCEPT !.closed = TRUE,
                                 !.isTimeout = sig[n].isTimeout]
        /\ \A x \in Node : x # m => sig'[x] = sig[x]
    BY <2>1, SigAt
  <2>3. /\ sig'[m].children = sig[m].children /\ sig'[m].stop = sig[m].stop
        /\ sig'[m].sealing = sig[m].sealing
    BY <1>2, <2>2 DEF State
  <2>4. NodesInv'
    BY <1>1, <1>3, <2>2, <2>3 DEF CloseInv, NodesInv
  <2>5. CloseInv'
    BY <1>1, <2>2, <2>3, <2>4, QuietKeepsClose
  <2>6. QED BY <1>3, <2>2, <2>5 DEF Final, KeepsClosed
<1>5. CASE sig' = [sig EXCEPT ![m].parent = n, ![n].children = @ \cup {m}]
  <2>1. sig' = [sig EXCEPT ![m] = [sig[m] EXCEPT !.parent = n],
                           ![n] = [sig[n] EXCEPT !.children = @ \cup {m}]]
    BY <1>1, <1>2, <1>5
  <2>2. /\ sig'[m] = [sig[m] EXCEPT !.parent = n]
        /\ sig'[n] = [sig[n] EXCEPT !.children = @ \cup {m}]
        /\ \A x \in Node : x # m /\ x # n => sig'[x] = sig[x]
    BY <1>1, <1>2, <2>1
  <2>3. \A x \in Node :
            /\ sig'[x].closed = sig[x].closed
            /\ sig'[x].stop = sig[x].stop
            /\ sig'[x].sealing = sig[x].sealing
            /\ sig'[x].isTimeout = sig[x].isTimeout
            /\ sig'[x].children \subseteq sig[x].children \cup {m}
    BY <1>2, <2>2 DEF State
  <2>4. NodesInv'
    BY <1>1, <2>3 DEF CloseInv, NodesInv
  <2>5. CloseInv'
    BY <1>1, <2>3, <2>4, QuietKeepsClose
  <2>6. QED BY <2>3, <2>5 DEF Final, KeepsClosed
<1>6. QED BY <1>4, <1>5 DEF CreateChild

LEMMA CallsFinal ==
    ASSUME TypeOK, CloseInv, NEW c \in Caller, Calls(c) PROVE Final
<1> USE DEF treeVars
<1>0. c \in Thread
  BY DEF Thread
<1>1. PICK n \in made \cap Handles[c] :
          \/ BeginClose(c, n)
          \/ \E b \in BOOLEAN : BeginStop(c, n, b)
          \/ BeginResume(c, n)
          \/ \E d \in Duration \cup {0} : SetTimeout(c, n, d)
          \/ \E m \in Node : CreateChild(c, n, m)
  BY DEF Calls
<1>2. n \in made /\ n \in Node
  BY <1>1 DEF TypeOK
<1>3. ASSUME NEW op \in FrameOp, op # "seal", NEW b \in BOOLEAN,
             todo[c] = <<>>, todo' = [todo EXCEPT ![c] = <<Call(op, {n}, b)>>],
             UNCHANGED <<made, sig>>
      PROVE  Final
  <2>1. {n} \in SUBSET Node
    BY <1>2
  <2>2. /\ Call(op, {n}, b) \in Frame /\ Call(op, {n}, b).op = op
        /\ Call(op, {n}, b).kids = {n}
    BY <2>1, CallType
  <2>3. CloseInv'
    BY <1>0, <1>2, <1>3, <2>2, BeginsClose
  <2>4. QED BY <1>3, <2>3 DEF Final, KeepsClosed
<1>4. CASE BeginClose(c, n)
  BY <1>3, <1>4 DEF BeginClose, Begins, FrameOp
<1>5. ASSUME NEW b \in BOOLEAN, BeginStop(c, n, b) PROVE Final
  BY <1>3, <1>5 DEF BeginStop, Begins, FrameOp
<1>6. CASE BeginResume(c, n)
  BY <1>3, <1>6 DEF BeginResume, Begins, FrameOp
<1>7. ASSUME NEW d \in Duration \cup {0}, SetTimeout(c, n, d) PROVE Final
  BY <1>7, QuietFinal DEF SetTimeout
<1>8. QED BY <1>1, <1>2, <1>4, <1>5, <1>6, <1>7, CreateFinal

LEMMA CloseOpenFinal ==
    ASSUME TypeOK, TreeInv, CloseInv, NEW t \in Thread, NEW k \in Node,
           CloseOpen(t, k)
    PROVE  Final
<1> USE DEF treeVars
<1> DEFINE f == Call("seal", {k}, Head(todo[t]).flag)
           s == <<f>> \o Without(t, k)
<1>1. /\ Runs(t, "close", k) /\ ~ sig[k].closed
      /\ UNCHANGED made /\ todo' = [todo EXCEPT ![t] = s]
  BY DEF CloseOpen
<1>2. sig[k] \in State /\ k \in made
  <2>1. InStack("close", k, todo[t])
    BY <1>1, WithoutStack
  <2>2. QED BY <2>1 DEF CloseInv, TypeOK
<1>3. sig' = [sig EXCEPT ![k] = [sig[k] EXCEPT !.closed = TRUE,
                                   !.sealing = TRUE, !.stop = FALSE]]
  BY DEF CloseOpen, TypeOK
<1>4. sig'[k] = [sig[k] EXCEPT !.closed = TRUE, !.sealing = TRUE, !.stop = FALSE]
      /\ \A n \in Node : n # k => sig'[n] = sig[n]
  BY <1>3, SigAt
<1>5. /\ sig'[k].closed /\ sig'[k].sealing /\ ~ sig'[k].stop
      /\ sig'[k].children = sig[k].children
  BY <1>2, <1>4 DEF State
<1>6. NodesInv'
  BY <1>1, <1>2, <1>4, <1>5 DEF CloseInv, NodesInv
<1>7. /\ Without(t, k) \in Seq(Frame) /\ SealFree(Without(t, k))
      /\ \A o, n : InStack(o, n, Without(t, k)) => InStack(o, n, todo[t])
      /\ Head(todo[t]).flag \in BOOLEAN
  BY <1>1, WithoutStack, NoSeal DEF Frame
<1>8. f \in Frame /\ f.op = "seal" /\ f.kids = {k}
  <2>1. "seal" \in FrameOp /\ {k} \in SUBSET Node
    BY DEF FrameOp
  <2>2. QED BY <1>7, <2>1, CallType
<1> HIDE DEF f
<1>9. /\ s \in Seq(Frame) /\ Tail(s) = Without(t, k)
      /\ \A o, n : InStack(o, n, s)
            <=> (o = "seal" /\ n = k) \/ InStack(o, n, Without(t, k))
  <2>1. Tail(s) = Without(t, k)
    BY <1>7, <1>8
  <2>2. QED BY <1>7, <1>8, <2>1, ConsStack
<1> HIDE DEF s
<1>10. \A x \in Thread : ~ InStack("seal", k, todo[x])
  BY <1>1 DEF TreeInv
<1>11. \A n \in Node : InStack("close", n, s) \/ InStack("stop", n, s)
                          => n \in made'
  BY <1>1, <1>7, <1>9 DEF CloseInv
<1>12. \A n \in Node, x \in Thread :
           x # t /\ InStack("seal", n, todo[x])
              => sig'[n].sealing /\ ~ InStack("seal", n, s)
  BY <1>4, <1>7, <1>9, <1>10 DEF CloseInv, SealFree
<1>13. \A n \in Node : InStack("seal", n, s) => sig'[n].sealing
  BY <1>5, <1>7, <1>9 DEF SealFree
<1>14. SealFree(Tail(s)) /\ made \subseteq made'
  BY <1>1, <1>7, <1>9
<1>15. CloseInv'
  BY <1>1, <1>6, <1>11, <1>12, <1>13, <1>14, StepKeepsClose
<1>16. QED BY <1>1, <1>4, <1>15 DEF Final, KeepsClosed

LEMMA SealFinal ==
    ASSUME TypeOK, TreeInv, CloseInv, NEW t \in Thread, NEW k \in Node,
           Seal(t, k)
    PROVE  Final
<1> USE DEF treeVars
<1> DEFINE f == Call("close", sig[k].children, Head(todo[t]).flag)
           kids == Push(f, Tail(todo[t]))
           up == [Call("unlink", {k}, FALSE) EXCEPT !.up = sig[k].parent]
           s == IF sig[k].parent = NoNode THEN kids ELSE <<up>> \o kids
           q == [sig[k] EXCEPT !.sealing = FALSE,
                               !.isTimeout = Head(todo[t]).flag,
                               !.parent = NoNode, !.children = {},
                               !.waiters = {}, !.stopWaiters = {}]
<1>1. /\ Runs(t, "seal", k) /\ UNCHANGED made
      /\ todo' = [todo EXCEPT ![t] = s]
  BY DEF Seal, Taken
<1>2. sig[k] \in State
  BY DEF TypeOK
<1>3. sig' = [sig EXCEPT ![k] = q]
  BY DEF Seal, TypeOK
<1>4. sig'[k] = q /\ \A n \in Node : n # k => sig'[n] = sig[n]
  BY <1>3, SigAt
<1>5. /\ sig'[k].closed = sig[k].closed /\ sig'[k].stop = sig[k].stop
      /\ sig'[k].children = {}
  BY <1>2, <1>4 DEF State
<1> HIDE DEF q
<1>6. /\ Tail(todo[t]) \in Seq(Frame) /\ Head(todo[t]) \in Frame
      /\ \A o, n : InStack(o, n, Tail(todo[t])) => InStack(o, n, todo[t])
      /\ InStack("seal", k, todo[t])
  BY <1>1, WithoutStack
<1>7. f \in Frame /\ f.op = "close" /\ f.kids = sig[k].children
  <2>1. /\ "close" \in FrameOp /\ sig[k].children \in SUBSET Node
        /\ Head(todo[t]).flag \in BOOLEAN
    BY <1>2, <1>6 DEF FrameOp, State, Frame
  <2>2. QED BY <2>1, CallType
<1>8. up \in Frame /\ up.op = "unlink"
  <2>1. "unlink" \in FrameOp /\ {k} \in SUBSET Node /\ FALSE \in BOOLEAN
    BY DEF FrameOp
  <2>2. /\ Call("unlink", {k}, FALSE) \in Frame
        /\ Call("unlink", {k}, FALSE).op = "unlink"
    BY <2>1, CallType
  <2>3. sig[k].parent \in Node \cup {NoNode}
    BY <1>2 DEF State
  <2>4. QED BY <2>2, <2>3 DEF Frame
<1> HIDE DEF f, up
<1>9. /\ kids \in Seq(Frame)
      /\ \A o, n : InStack(o, n, kids)
            <=> (o = "close" /\ n \in sig[k].children)
                   \/ InStack(o, n, Tail(todo[t]))
  BY <1>6, <1>7, PushStack
<1> HIDE DEF kids
<1>10. /\ s \in Seq(Frame)
       /\ \A o, n : o # "unlink" => (InStack(o, n, s) <=> InStack(o, n, kids))
  BY <1>8, <1>9, ConsStack
<1> HIDE DEF s
<1>11. SealFree(s)
  <2>1. SealFree(Tail(todo[t]))
    BY <1>1 DEF CloseInv, Runs
  <2>2. QED BY <1>9, <1>10, <2>1 DEF SealFree
<1>12. s # <<>> => SealFree(Tail(s))
  BY <1>10, <1>11, SealFreeTail
<1>13. NodesInv'
  BY <1>1, <1>4, <1>5 DEF CloseInv, NodesInv
<1>14. \A n \in Node : InStack("close", n, s) \/ InStack("stop", n, s)
                          => n \in made'
  BY <1>1, <1>6, <1>9, <1>10 DEF CloseInv, NodesInv
<1>15. \A n \in Node, x \in Thread :
           x # t /\ InStack("seal", n, todo[x])
              => sig'[n].sealing /\ ~ InStack("seal", n, s)
  BY <1>4, <1>6, <1>11 DEF CloseInv, SealFree
<1>16. CloseInv'
  BY <1>1, <1>11, <1>12, <1>13, <1>14, <1>15, StepKeepsClose DEF SealFree
<1>17. sig[k].sealing
  BY <1>6 DEF CloseInv
<1>18. QED BY <1>4, <1>5, <1>16, <1>17 DEF Final, KeepsClosed

\* A closer gets another state, but for what a close writes.
LEMMA StateFinal ==
    ASSUME TypeOK, CloseInv, NEW k \in Node, NEW q, sig' = [sig EXCEPT ![k] = q],
           made' = made,
           q.closed = sig[k].closed, q.sealing = sig[k].sealing,
           q.isTimeout = sig[k].isTimeout, q.children \subseteq sig[k].children,
           q.stop => sig[k].stop \/ (~ sig[k].closed /\ k \in made)
    PROVE  /\ NodesInv' /\ KeepsClosed
           /\ \A n \in Node : sig'[n].sealing = sig[n].sealing
<1>1. sig'[k] = q /\ \A n \in Node : n # k => sig'[n] = sig[n]
  BY SigAt
<1>2. NodesInv'
  BY <1>1 DEF CloseInv, NodesInv
<1>3. QED BY <1>1, <1>2 DEF KeepsClosed

LEMMA WorksFinal ==
    ASSUME TypeOK, TreeInv, CloseInv, NEW t \in Thread, Works(t) PROVE Final
<1> USE DEF treeVars
<1>0. PICK k \in Node :
          \/ CloseClosed(t, k) \/ CloseOpen(t, k) \/ Seal(t, k) \/ Unlink(t, k)
          \/ StopSkips(t, k) \/ StopOpen(t, k)
          \/ ResumeSkips(t, k) \/ ResumeStopped(t, k)
          \/ InitTimerSkips(t, k) \/ InitTimer(t, k) \/ InitParent(t, k)
  BY DEF Works
<1>1. /\ sig[k] \in State /\ sig[k].children \in SUBSET Node
      /\ sig[k].parent \in Node \cup {NoNode}
      /\ sig[k].children \subseteq made
  BY DEF TypeOK, State, CloseInv, NodesInv
<1>2. ASSUME NEW op, Runs(t, op, k)
      PROVE  /\ Head(todo[t]).flag \in BOOLEAN
             /\ InStack(op, k, todo[t])
  BY <1>2, WithoutStack DEF Frame
<1>3. ASSUME UNCHANGED sig
      PROVE  KeepsClosed
  BY <1>3 DEF KeepsClosed
<1>4. ASSUME NEW op, op # "seal", Runs(t, op, k), UNCHANGED <<made, sig>>,
             todo' = [todo EXCEPT ![t] = Without(t, k)]
      PROVE  Final
  BY <1>3, <1>4, SkipClose DEF Final
<1>5. CASE CloseClosed(t, k)
  BY <1>4, <1>5 DEF CloseClosed
<1>6. CASE StopSkips(t, k)
  BY <1>4, <1>6 DEF StopSkips
<1>7. CASE ResumeSkips(t, k)
  BY <1>4, <1>7 DEF ResumeSkips
<1>8. CASE InitTimerSkips(t, k)
  BY <1>4, <1>8 DEF InitTimerSkips
<1>9. CASE StopOpen(t, k)
  <2> DEFINE f == Call("stop", sig[k].children, Head(todo[t]).flag)
             q == [sig[k] EXCEPT !.stop = TRUE]
  <2>1. Runs(t, "stop", k) /\ ~ sig[k].closed /\ made' = made
        /\ todo' = [todo EXCEPT ![t] = Push(f, Without(t, k))]
    BY <1>9 DEF StopOpen
  <2>2. k \in made
    BY <1>2, <2>1 DEF CloseInv
  <2>3. sig' = [sig EXCEPT ![k] = q]
    BY <1>9 DEF StopOpen, TypeOK
  <2>4. /\ q.closed = sig[k].closed /\ q.sealing = sig[k].sealing
        /\ q.isTimeout = sig[k].isTimeout /\ q.children = sig[k].children
    BY <1>1 DEF State
  <2>5. f \in Frame /\ f.op = "stop" /\ f.kids = sig[k].children
    <3>1. "stop" \in FrameOp /\ Head(todo[t]).flag \in BOOLEAN
      BY <1>2, <2>1 DEF FrameOp
    <3>2. QED BY <1>1, <3>1, CallType
  <2> HIDE DEF f, q
  <2>6. /\ NodesInv' /\ KeepsClosed
        /\ \A n \in Node : sig'[n].sealing = sig[n].sealing
    BY <2>1, <2>2, <2>3, <2>4, StateFinal
  <2>7. CloseInv'
    BY <1>1, <2>1, <2>5, <2>6, GoOnClose
  <2>8. QED BY <2>6, <2>7 DEF Final
<1>10. CASE ResumeStopped(t, k)
  <2> DEFINE f == Call("resume", sig[k].children, FALSE)
             q == [sig[k] EXCEPT !.stop = FALSE, !.stopWaiters = {}]
  <2>1. Runs(t, "resume", k) /\ made' = made
        /\ todo' = [todo EXCEPT ![t] = Push(f, Without(t, k))]
    BY <1>10 DEF ResumeStopped
  <2>2. sig' = [sig EXCEPT ![k] = q]
    BY <1>10 DEF ResumeStopped, TypeOK
  <2>3. /\ q.closed = sig[k].closed /\ q.sealing = sig[k].sealing /\ ~ q.stop
        /\ q.isTimeout = sig[k].isTimeout /\ q.children = sig[k].children
    BY <1>1 DEF State
  <2>4. f \in Frame /\ f.op = "resume"
    <3>1. "resume" \in FrameOp /\ FALSE \in BOOLEAN
      BY DEF FrameOp
    <3>2. QED BY <1>1, <3>1, CallType
  <2> HIDE DEF f, q
  <2>5. /\ NodesInv' /\ KeepsClosed
        /\ \A n \in Node : sig'[n].sealing = sig[n].sealing
    BY <2>1, <2>2, <2>3, StateFinal
  <2>6. CloseInv'
    BY <2>1, <2>4, <2>5, GoOnClose
  <2>7. QED BY <2>5, <2>6 DEF Final
<1>11. CASE InitTimer(t, k)
  <2> DEFINE f == Call("initParent", {k}, FALSE)
  <2>1. /\ Runs(t, "initTimer", k) /\ UNCHANGED <<made, sig>>
        /\ todo' = [todo EXCEPT ![t] = <<f>> \o Without(t, k)]
    BY <1>11 DEF InitTimer
  <2>2. f \in Frame /\ f.op = "initParent"
    <3>1. "initParent" \in FrameOp /\ FALSE \in BOOLEAN /\ {k} \in SUBSET Node
      BY DEF FrameOp
    <3>2. QED BY <3>1, CallType
  <2> HIDE DEF f
  <2>3. NodesInv'
    BY <2>1 DEF CloseInv, NodesInv
  <2>4. CloseInv'
    BY <2>1, <2>2, <2>3, GoOnClose
  <2>5. QED BY <1>3, <2>1, <2>4 DEF Final
<1>12. CASE InitParent(t, k)
  <2> DEFINE p == IF sig[k].parent = NoNode THEN k ELSE sig[k].parent
             f == Call("initTimer", {p}, FALSE)
  <2>1. /\ Runs(t, "initParent", k) /\ UNCHANGED <<made, sig>>
        /\ \/ todo' = [todo EXCEPT ![t] = Tail(todo[t])]
           \/ todo' = [todo EXCEPT ![t] = <<f>> \o Tail(todo[t])]
    BY <1>12 DEF InitParent
  <2>2. f \in Frame /\ f.op = "initTimer"
    <3>1. "initTimer" \in FrameOp /\ FALSE \in BOOLEAN /\ {p} \in SUBSET Node
      BY <1>1 DEF FrameOp
    <3>2. QED BY <3>1, CallType
  <2> HIDE DEF f
  <2>3. NodesInv'
    BY <2>1 DEF CloseInv, NodesInv
  <2>4. CloseInv'
    BY <2>1, <2>2, <2>3, GoOnClose
  <2>5. QED BY <1>3, <2>1, <2>4 DEF Final
<1>13. CASE Unlink(t, k)
  <2> DEFINE p == Head(todo[t]).up
             q == [sig[p] EXCEPT !.children = @ \ {k}]
  <2>1. /\ Runs(t, "unlink", k) /\ made' = made
        /\ todo' = [todo EXCEPT ![t] = Tail(todo[t])]
        /\ (sig' = sig \/ sig' = [sig EXCEPT ![p].children = @ \ {k}])
    BY <1>13 DEF Unlink
  <2> HIDE DEF p
  <2>2. /\ NodesInv' /\ KeepsClosed
        /\ \A n \in Node : sig'[n].sealing = sig[n].sealing
    <3>1. CASE sig' = sig
      BY <2>1, <3>1 DEF CloseInv, NodesInv, KeepsClosed
    <3>2. CASE p \notin Node /\ sig' # sig
      BY <2>1, <3>2 DEF TypeOK
    <3>3. CASE p \in Node /\ sig' # sig
      <4>1. sig' = [sig EXCEPT ![p] = q] /\ sig[p] \in State
        BY <2>1, <3>3 DEF TypeOK
      <4>2. /\ q.closed = sig[p].closed /\ q.sealing = sig[p].sealing
            /\ q.isTimeout = sig[p].isTimeout /\ q.stop = sig[p].stop
            /\ q.children \subseteq sig[p].children
        BY <4>1 DEF State
      <4> HIDE DEF q
      <4>3. QED BY <2>1, <3>3, <4>1, <4>2, StateFinal
    <3>4. QED BY <3>1, <3>2, <3>3
  <2>3. Head(todo[t]) \in Frame /\ Head(todo[t]).op = "unlink"
    BY <2>1, WithoutStack DEF Runs
  <2>4. CloseInv'
    BY <2>1, <2>2, <2>3, GoOnClose
  <2>5. QED BY <2>2, <2>4 DEF Final
<1>14. QED
  BY <1>0, <1>5, <1>6, <1>7, <1>8, <1>9, <1>10, <1>11, <1>12, <1>13,
     CloseOpenFinal, SealFinal

LEMMA TimersFinal ==
    ASSUME TypeOK, CloseInv, NEW n \in made, Timers(n) PROVE Final
<1> USE DEF treeVars
<1>0. n \in Thread /\ n \in Node
  BY DEF Thread, TypeOK
<1>1. CASE Elapse(n) \/ TaskStarts(n) \/ TaskFires(n)
  BY <1>1, QuietFinal DEF Elapse, TaskStarts, TaskFires
<1>2. CASE TaskChecks(n)
  <2> DEFINE f == Call("close", {n}, TRUE)
  <2>1. f \in Frame /\ f.op = "close" /\ f.kids = {n}
    <3>1. "close" \in FrameOp /\ {n} \in SUBSET Node /\ TRUE \in BOOLEAN
      BY <1>0 DEF FrameOp
    <3>2. QED BY <3>1, CallType
  <2>2. /\ todo[n] = <<>> /\ UNCHANGED <<made, sig>>
        /\ \/ todo' = [todo EXCEPT ![n] = <<>>]
           \/ todo' = [todo EXCEPT ![n] = <<f>>]
    BY <1>2 DEF TaskChecks
  <2> HIDE DEF f
  <2>3. CASE todo' = [todo EXCEPT ![n] = <<>>]
    <3>1. todo' = todo
      BY <2>2, <2>3, <1>0 DEF TypeOK
    <3>2. QED BY <2>2, <3>1, QuietFinal
  <2>4. CASE todo' = [todo EXCEPT ![n] = <<f>>]
    <3>1. CloseInv'
      BY <1>0, <2>1, <2>2, <2>4, BeginsClose
    <3>2. QED BY <2>2, <3>1 DEF Final, KeepsClosed
  <2>5. QED BY <2>2, <2>3, <2>4
<1>3. QED BY <1>1, <1>2 DEF Timers

\* The coroutines only touch the lists of waiters.
LEMMA WaitersFinal ==
    ASSUME TypeOK, CloseInv, (\E w \in Coro : Waits(w)) \/ Produce
    PROVE  Final
<1> USE DEF treeVars
<1>1. UNCHANGED <<made, todo>>
  BY DEF Waits, GetWaiter, Submit, CloserRead, GetStopWaiter, Deliver, Produce
<1>2. \/ sig' = sig
      \/ \E w \in Coro :
            \/ sig' = [sig EXCEPT ![on[w]].waiters = @ \cup {w}]
            \/ sig' = [sig EXCEPT ![on[w]].waiters = @ \ {w}]
            \/ sig' = [sig EXCEPT ![on[w]].stopWaiters = @ \cup {w}]
  BY DEF Waits, GetWaiter, Submit, CloserRead, GetStopWaiter, Deliver, Produce
<1>3. ASSUME NEW w \in Coro, NEW x,
             \/ sig' = [sig EXCEPT ![on[w]] = [sig[on[w]] EXCEPT !.waiters = x]]
             \/ sig' = [sig EXCEPT ![on[w]] =
                                     [sig[on[w]] EXCEPT !.stopWaiters = x]]
      PROVE  Final
  <2>1. on[w] \in Node /\ sig[on[w]] \in State
    BY DEF TypeOK
  <2>2. PICK q : /\ sig' = [sig EXCEPT ![on[w]] = q]
                 /\ \/ q = [sig[on[w]] EXCEPT !.waiters = x]
                    \/ q = [sig[on[w]] EXCEPT !.stopWaiters = x]
    BY <1>3
  <2>3. /\ q.closed = sig[on[w]].closed /\ q.sealing = sig[on[w]].sealing
        /\ q.isTimeout = sig[on[w]].isTimeout
        /\ q.children = sig[on[w]].children /\ q.stop = sig[on[w]].stop
    BY <2>1, <2>2 DEF State
  <2>4. /\ NodesInv' /\ KeepsClosed
        /\ \A n \in Node : sig'[n].sealing = sig[n].sealing
    BY <1>1, <2>1, <2>2, <2>3, StateFinal
  <2>5. CloseInv'
    BY <1>1, <2>4, QuietKeepsClose
  <2>6. QED BY <2>4, <2>5 DEF Final
<1>4. CASE sig' = sig
  BY <1>1, <1>4, QuietFinal
<1>5. QED BY <1>2, <1>3, <1>4

LEMMA EnterFinal ==
    ASSUME TypeOK, CloseInv, NEW w \in Coro, NEW n \in Node, NEW k \in Kinds,
           Enter(w, n, k)
    PROVE  Final
<1> USE DEF treeVars
<1> DEFINE f == Call("initTimer", {n}, FALSE)
<1>1. f \in Frame /\ f.op = "initTimer"
  <2>1. "initTimer" \in FrameOp /\ {n} \in SUBSET Node /\ FALSE \in BOOLEAN
    BY DEF FrameOp
  <2>2. QED BY <2>1, CallType
<1>2. /\ todo[w] = <<>> /\ todo' = [todo EXCEPT ![w] = <<f>>]
      /\ UNCHANGED <<made, sig>>
  BY DEF Enter
<1> HIDE DEF f
<1>3. w \in Thread
  BY DEF Thread
<1>4. CloseInv'
  BY <1>1, <1>2, <1>3, BeginsClose
<1>5. QED BY <1>2, <1>4 DEF Final, KeepsClosed

LEMMA NextFinal ==
    ASSUME TypeOK, TreeInv, CloseInv, [Next]_vars PROVE Final
<1>1. CASE UNCHANGED vars
  BY <1>1, QuietFinal DEF vars
<1>2. ASSUME NEW w \in Coro, NEW n \in made, NEW k \in Kinds, Enter(w, n, k)
      PROVE  Final
  BY <1>2, EnterFinal DEF TypeOK
<1>3. QED
  BY <1>1, <1>2, CallsFinal, WorksFinal, TimersFinal, WaitersFinal DEF Next

\* m_closed is tested and set in one locked section, which only one thread enters,
\* and only closers that exist are closed or stopped: CloseInv is inductive.
THEOREM CloseCorrect == Spec => []CloseInv
<1>1. Init => CloseInv
  BY InitClose
<1>2. TypeOK /\ TreeInv /\ CloseInv /\ [Next]_vars => CloseInv'
  BY NextFinal DEF Final
<1>3. QED BY <1>1, <1>2, TypeCorrect, TreeCorrect, PTL DEF Spec

\* Closing is final, and so is the way it was closed: whatever closes, stops and
\* resumes race, a closed closer stays closed and running, and once the locked
\* section of its close is over no other closes it again, so that whether it timed
\* out never changes.
THEOREM CloseIsFinalEver == Spec => CloseIsFinal
<1> DEFINE Keeps ==
        \A n \in Node :
            sig[n].closed =>
               /\ sig'[n].closed /\ ~ sig'[n].stop
               /\ ~ sig[n].sealing =>
                     ~ sig'[n].sealing /\ sig'[n].isTimeout = sig[n].isTimeout
<1>1. ASSUME TypeOK, TreeInv, CloseInv, [Next]_vars PROVE [Keeps]_vars
  BY <1>1, NextFinal DEF Final, KeepsClosed, CloseInv, NodesInv
<1>2. TypeOK /\ TreeInv /\ CloseInv /\ [Next]_vars => [Keeps]_vars
  BY <1>1
<1>3. QED
  BY <1>2, TypeCorrect, TreeCorrect, CloseCorrect, PTL
     DEF Spec, CloseIsFinal
----------------------------------------------------------------------------
(* Timers of stopped closers. *)

\* The callers stop a closer with its timer, and set a timeout before anything
\* waits on the closer: all that the code of cfgo itself does.
TimersKept ==
    \A c \in Caller : Ops[c] \cap {"stopNoTimer", "moveTimeout"} = {}

\* The timeout of timer r is not running down.
Held(r) == r.timeout = 0 \/ r.clock = "past"

\* Every stop on stack s is a stop(true).
TimedStops(s) == \A i \in DOMAIN s : s[i].op = "stop" => s[i].flag

HoldInv ==
    /\ TimersKept
    /\ \A n \in Node : sig[n].stop => Held(tm[n])
    /\ \A t \in Thread : TimedStops(todo[t])

LEMMA TimedCons ==
    ASSUME NEW s \in Seq(Frame), NEW f \in Frame, TimedStops(s),
           f.op = "stop" => f.flag
    PROVE  TimedStops(<<f>> \o s) /\ TimedStops(Push(f, s))
<1>1. ASSUME NEW i \in DOMAIN (<<f>> \o s)
      PROVE  (<<f>> \o s)[i] = f \/ \E j \in DOMAIN s : (<<f>> \o s)[i] = s[j]
  <2>1. CASE i = 1
    BY <2>1
  <2>2. CASE i # 1
    <3>1. i - 1 \in DOMAIN s /\ (<<f>> \o s)[i] = s[i - 1]
      BY <2>2
    <3>2. QED BY <3>1
  <2>3. QED BY <2>1, <2>2
<1>2. TimedStops(<<f>> \o s)
  BY <1>1 DEF TimedStops
<1>3. QED BY <1>2 DEF Push

LEMMA TimedTail ==
    ASSUME NEW s \in Seq(Frame), s # <<>>, TimedStops(s)
    PROVE  TimedStops(Tail(s)) /\ (Head(s).op = "stop" => Head(s).flag)
<1>1. Head(s) = s[1] /\ 1 \in DOMAIN s
  OBVIOUS
<1>2. \A i \in DOMAIN Tail(s) : i + 1 \in DOMAIN s /\ Tail(s)[i] = s[i + 1]
  OBVIOUS
<1>3. QED BY <1>1, <1>2 DEF TimedStops

LEMMA TimedFirst ==
    /\ TimedStops(<<>>)
    /\ \A f \in Frame : (f.op = "stop" => f.flag) => TimedStops(<<f>>)
BY DEF TimedStops

LEMMA TimedWithout ==
    ASSUME TypeOK, HoldInv, NEW t \in Thread, NEW op, NEW k \in Node,
           Runs(t, op, k)
    PROVE  /\ TimedStops(Without(t, k)) /\ TimedStops(Tail(todo[t]))
           /\ op = "stop" => Head(todo[t]).flag
<1> DEFINE f == Head(todo[t])
           g == [f EXCEPT !.kids = @ \ {k}]
<1>1. todo[t] \in Seq(Frame) /\ todo[t] # <<>> /\ f.op = op
  BY DEF TypeOK, Runs
<1>2. f \in Frame /\ Tail(todo[t]) \in Seq(Frame)
  BY <1>1, TailStack
<1>3. TimedStops(Tail(todo[t])) /\ (f.op = "stop" => f.flag)
  BY <1>1, TimedTail DEF HoldInv
<1>4. g \in Frame /\ g.op = f.op /\ g.flag = f.flag
  BY <1>2 DEF Frame
<1>5. TimedStops(Push(g, Tail(todo[t])))
  BY <1>2, <1>3, <1>4, TimedCons
<1>6. QED BY <1>1, <1>3, <1>5 DEF Without

LEMMA CallFlag ==
    ASSUME NEW op, NEW kids, NEW flag PROVE Call(op, kids, flag).flag = flag
BY DEF Call

\* Whatever stop(true) finds, the timeout is saved away or has expired.
LEMMA SetTimerZero ==
    ASSUME NEW r \in Timer, NEW q \in SetTimer(r, 0) PROVE q.timeout = 0
BY DEF SetTimer, Timer

LEMMA StopTimerHolds ==
    ASSUME NEW r \in Timer, NEW q \in StopTimer(r) PROVE Held(q)
<1>1. \A d \in Nat : [r EXCEPT !.stopTimeout = d] \in Timer
  BY DEF Timer
<1>2. r.timeout \in Nat /\ r.clock \in Clock /\ Duration \subseteq Nat
  BY SignalAssumption DEF Timer
<1>3. CASE r.clock = "none" \/ r.timeout = 0
  <2>1. q \in SetTimer([r EXCEPT !.stopTimeout = r.timeout], 0)
    BY <1>3 DEF StopTimer
  <2>2. QED BY <1>1, <1>2, <2>1, SetTimerZero DEF Held
<1>4. CASE ~ (r.clock = "none" \/ r.timeout = 0) /\ r.clock = "future"
  <2>1. \E d \in Nat : q \in SetTimer([r EXCEPT !.stopTimeout = d], 0)
    BY <1>2, <1>4 DEF StopTimer
  <2>2. QED BY <1>1, <2>1, SetTimerZero DEF Held
<1>5. CASE r.clock = "past"
  BY <1>1, <1>2, <1>3, <1>5 DEF StopTimer, Held
<1>6. QED BY <1>2, <1>3, <1>4, <1>5 DEF Clock

LEMMA InitHold == TimersKept /\ Init => HoldInv
BY TimedFirst DEF Init, HoldInv, NewState

LEMMA StepKeepsHold ==
    ASSUME TypeOK, HoldInv, NEW t \in Thread, NEW s,
           todo' = [todo EXCEPT ![t] = s], TimedStops(s),
           \A n \in Node : sig'[n].stop => Held(tm'[n])
    PROVE  HoldInv'
<1>1. \A x \in Thread : todo'[x] = s \/ todo'[x] = todo[x]
  BY DEF TypeOK
<1>2. \A x \in Thread : TimedStops(todo'[x])
  BY <1>1 DEF HoldInv
<1>3. (\A x \in Thread : TimedStops(todo[x]))'
  BY <1>2 DEF TimedStops
<1>4. (\A n \in Node : sig[n].stop => Held(tm[n]))'
  BY DEF Held
<1>5. QED BY <1>3, <1>4 DEF HoldInv, TimersKept

LEMMA QuietKeepsHold ==
    ASSUME TypeOK, HoldInv, todo' = todo,
           \A n \in Node : sig'[n].stop => Held(tm'[n])
    PROVE  HoldInv'
BY DEF HoldInv, TimersKept, TimedStops, Held

\* A step that stops nothing and leaves the timers alone.
LEMMA SameHeld ==
    ASSUME HoldInv, tm' = tm, \A n \in Node : sig'[n].stop => sig[n].stop
    PROVE  \A n \in Node : sig'[n].stop => Held(tm'[n])
BY DEF HoldInv

LEMMA BeginsHold ==
    ASSUME TypeOK, HoldInv, NEW t \in Thread, NEW op \in FrameOp,
           NEW n \in Node, NEW b \in BOOLEAN, op = "stop" => b,
           todo' = [todo EXCEPT ![t] = <<Call(op, {n}, b)>>],
           UNCHANGED <<sig, tm>>
    PROVE  HoldInv'
<1>1. /\ Call(op, {n}, b) \in Frame /\ Call(op, {n}, b).op = op
      /\ Call(op, {n}, b).flag = b
  BY CallType, CallFlag
<1>2. TimedStops(<<Call(op, {n}, b)>>)
  BY <1>1, TimedFirst
<1>3. \A m \in Node : sig'[m].stop => Held(tm'[m])
  BY SameHeld
<1>4. QED BY <1>2, <1>3, StepKeepsHold

LEMMA CallsHold ==
    ASSUME TypeOK, HoldInv, NEW c \in Caller, Calls(c) PROVE HoldInv'
<1> USE DEF treeVars
<1>0. c \in Thread /\ Duration \subseteq Nat \ {0}
  BY SignalAssumption DEF Thread
<1>1. PICK n \in made \cap Handles[c] :
          \/ BeginClose(c, n)
          \/ \E b \in BOOLEAN : BeginStop(c, n, b)
          \/ BeginResume(c, n)
          \/ \E d \in Duration \cup {0} : SetTimeout(c, n, d)
          \/ \E m \in Node : CreateChild(c, n, m)
  BY DEF Calls
<1>2. n \in Node /\ tm[n] \in Timer
  BY DEF TypeOK
<1>3. \A op : Begins(c, op) => op \notin {"stopNoTimer", "moveTimeout"}
  BY DEF Begins, HoldInv, TimersKept
<1>4. CASE BeginClose(c, n)
  BY <1>0, <1>2, <1>4, BeginsHold DEF BeginClose, FrameOp
<1>5. ASSUME NEW b \in BOOLEAN, BeginStop(c, n, b) PROVE HoldInv'
  BY <1>0, <1>2, <1>3, <1>5, BeginsHold DEF BeginStop, FrameOp
<1>6. CASE BeginResume(c, n)
  BY <1>0, <1>2, <1>6, BeginsHold DEF BeginResume, FrameOp
<1>7. ASSUME NEW d \in Duration \cup {0}, SetTimeout(c, n, d) PROVE HoldInv'
  <2>1. PICK r \in SetTimer(tm[n], d) : tm' = [tm EXCEPT ![n] = r]
    BY <1>7 DEF SetTimeout
  <2>2. sig' = sig /\ todo' = todo
    BY <1>7 DEF SetTimeout
  <2>3. tm'[n] = r /\ \A m \in Node : m # n => tm'[m] = tm[m]
    BY <1>2, <2>1 DEF TypeOK
  <2>4. sig[n].stop => Held(r)
    <3>1. CASE d = 0
      BY <1>2, <2>1, <3>1, SetTimerZero DEF Held
    <3>2. CASE d # 0
      <4>1. ~ sig[n].stop
        BY <1>3, <1>7, <3>2 DEF SetTimeout
      <4>2. QED BY <4>1
    <3>3. QED BY <3>1, <3>2
  <2>5. \A m \in Node : sig'[m].stop => Held(tm'[m])
    BY <2>2, <2>3, <2>4 DEF HoldInv
  <2>6. QED BY <2>2, <2>5, QuietKeepsHold
<1>8. ASSUME NEW m \in Node, CreateChild(c, n, m) PROVE HoldInv'
  <2>1. tm' = tm /\ todo' = todo
    BY <1>8 DEF CreateChild
  <2>2. \A x \in Node : sig'[x].stop = sig[x].stop
    <3>1. sig \in [Node -> State] /\ n # m
      BY <1>1, <1>8 DEF TypeOK, CreateChild
    <3>2. CASE sig' = [sig EXCEPT ![m].closed = TRUE,
                                  ![m].isTimeout = sig[n].isTimeout]
      BY <3>1, <3>2 DEF State
    <3>3. CASE sig' = [sig EXCEPT ![m].parent = n,
                                  ![n].children = @ \cup {m}]
      BY <3>1, <3>3 DEF State
    <3>4. QED BY <1>8, <3>2, <3>3 DEF CreateChild
  <2>3. QED BY <2>1, <2>2, SameHeld, QuietKeepsHold
<1>9. QED BY <1>1, <1>4, <1>5, <1>6, <1>7, <1>8

\* A call on k that stops nothing ends, or goes on with one more frame.
LEMMA GoOnHold ==
    ASSUME TypeOK, HoldInv, NEW t \in Thread, NEW op, NEW k \in Node,
           Runs(t, op, k), NEW f \in Frame, f.op = "stop" => f.flag,
           NEW s, s \in {Without(t, k), Tail(todo[t]), Push(f, Without(t, k)),
                         <<f>> \o Without(t, k), Push(f, Tail(todo[t])),
                         <<f>> \o Tail(todo[t])},
           todo' = [todo EXCEPT ![t] = s],
           \A n \in Node : sig'[n].stop => Held(tm'[n])
    PROVE  HoldInv'
<1>1. /\ TimedStops(Without(t, k)) /\ Without(t, k) \in Seq(Frame)
      /\ TimedStops(Tail(todo[t])) /\ Tail(todo[t]) \in Seq(Frame)
  BY TimedWithout, WithoutStack
<1>2. TimedStops(s)
  BY <1>1, TimedCons
<1>3. QED BY <1>2, StepKeepsHold

LEMMA SealHold ==
    ASSUME TypeOK, HoldInv, NEW t \in Thread, NEW k \in Node, Seal(t, k)
    PROVE  HoldInv'
<1> DEFINE f == Call("close", sig[k].children, Head(todo[t]).flag)
           kids == Push(f, Tail(todo[t]))
           up == [Call("unlink", {k}, FALSE) EXCEPT !.up = sig[k].parent]
           s == IF sig[k].parent = NoNode THEN kids ELSE <<up>> \o kids
<1>1. Runs(t, "seal", k) /\ todo' = [todo EXCEPT ![t] = s]
  BY DEF Seal, Taken
<1>2. sig \in [Node -> State] /\ tm \in [Node -> Timer]
  BY DEF TypeOK
<1>3. \A n \in Node : sig'[n].stop => Held(tm'[n])
  <2>1. \A n \in Node : sig'[n].stop = sig[n].stop
    BY <1>2 DEF Seal, State
  <2>2. tm'[k].timeout = 0 /\ \A n \in Node : n # k => tm'[n] = tm[n]
    BY <1>2 DEF Seal, Timer
  <2>3. QED BY <2>1, <2>2 DEF HoldInv, Held
<1>4. /\ TimedStops(Tail(todo[t])) /\ Tail(todo[t]) \in Seq(Frame)
      /\ Head(todo[t]).flag \in BOOLEAN
  BY <1>1, TimedWithout, WithoutStack DEF Frame
<1>5. f \in Frame /\ f.op = "close"
  <2>1. "close" \in FrameOp /\ sig[k].children \in SUBSET Node
    BY <1>2 DEF FrameOp, State
  <2>2. QED BY <1>4, <2>1, CallType
<1>6. up \in Frame /\ up.op = "unlink"
  <2>1. "unlink" \in FrameOp /\ {k} \in SUBSET Node /\ FALSE \in BOOLEAN
    BY DEF FrameOp
  <2>2. /\ Call("unlink", {k}, FALSE) \in Frame
        /\ Call("unlink", {k}, FALSE).op = "unlink"
    BY <2>1, CallType
  <2>3. sig[k].parent \in Node \cup {NoNode}
    BY <1>2 DEF State
  <2>4. QED BY <2>2, <2>3 DEF Frame
<1> HIDE DEF f, up
<1>7. kids \in Seq(Frame) /\ TimedStops(kids)
  BY <1>4, <1>5, PushStack, TimedCons
<1> HIDE DEF kids
<1>8. TimedStops(s)
  BY <1>6, <1>7, TimedCons
<1> HIDE DEF s
<1>9. QED BY <1>1, <1>3, <1>8, StepKeepsHold

LEMMA WorksHold ==
    ASSUME TypeOK, HoldInv, NEW t \in Thread, Works(t) PROVE HoldInv'
<1>0. PICK k \in Node :
          \/ CloseClosed(t, k) \/ CloseOpen(t, k) \/ Seal(t, k) \/ Unlink(t, k)
          \/ StopSkips(t, k) \/ StopOpen(t, k)
          \/ ResumeSkips(t, k) \/ ResumeStopped(t, k)
          \/ InitTimerSkips(t, k) \/ InitTimer(t, k) \/ InitParent(t, k)
  BY DEF Works
<1>1. /\ sig[k].children \in SUBSET Node /\ {k} \in SUBSET Node
      /\ sig[k].parent \in Node \cup {NoNode}
      /\ sig \in [Node -> State] /\ tm \in [Node -> Timer]
  BY DEF TypeOK, State
<1>2. ASSUME NEW op, Runs(t, op, k) PROVE Head(todo[t]).flag \in BOOLEAN
  BY <1>2, WithoutStack DEF Frame
<1>3. ASSUME NEW op \in FrameOp, NEW kids \in SUBSET Node, NEW b \in BOOLEAN,
             op = "stop" => b
      PROVE  /\ Call(op, kids, b) \in Frame
             /\ Call(op, kids, b).op = "stop" => Call(op, kids, b).flag
  BY <1>3, CallType, CallFlag
<1>4. ASSUME NEW op, Runs(t, op, k), UNCHANGED <<sig, tm>>,
             todo' = [todo EXCEPT ![t] = Without(t, k)]
      PROVE  HoldInv'
  <2>1. TimedStops(Without(t, k))
    BY <1>4, TimedWithout
  <2>2. \A n \in Node : sig'[n].stop => Held(tm'[n])
    BY <1>4, SameHeld
  <2>3. QED BY <1>4, <2>1, <2>2, StepKeepsHold
<1>5. CASE CloseClosed(t, k)
  BY <1>4, <1>5 DEF CloseClosed
<1>6. CASE StopSkips(t, k)
  BY <1>4, <1>6 DEF StopSkips
<1>7. CASE ResumeSkips(t, k)
  BY <1>4, <1>7 DEF ResumeSkips
<1>8. CASE InitTimerSkips(t, k)
  BY <1>4, <1>8 DEF InitTimerSkips
<1>9. CASE CloseOpen(t, k)
  <2> DEFINE f == Call("seal", {k}, Head(todo[t]).flag)
  <2>1. /\ Runs(t, "close", k) /\ tm' = tm
        /\ todo' = [todo EXCEPT ![t] = <<f>> \o Without(t, k)]
    BY <1>9 DEF CloseOpen
  <2>2. \A n \in Node : sig'[n].stop => sig[n].stop
    BY <1>1, <1>9 DEF CloseOpen, State
  <2>3. \A n \in Node : sig'[n].stop => Held(tm'[n])
    BY <2>1, <2>2, SameHeld
  <2>4. f \in Frame /\ (f.op = "stop" => f.flag)
    BY <1>1, <1>2, <1>3, <2>1 DEF FrameOp
  <2> HIDE DEF f
  <2>5. QED BY <2>1, <2>3, <2>4, GoOnHold
<1>10. CASE Unlink(t, k)
  <2>1. /\ Runs(t, "unlink", k) /\ tm' = tm
        /\ todo' = [todo EXCEPT ![t] = Tail(todo[t])]
    BY <1>10 DEF Unlink
  <2>2. \A n \in Node : sig'[n].stop => sig[n].stop
    <3> DEFINE p == Head(todo[t]).up
    <3>1. sig' = sig \/ sig' = [sig EXCEPT ![p].children = @ \ {k}]
      BY <1>10 DEF Unlink
    <3> HIDE DEF p
    <3>2. QED BY <1>1, <3>1 DEF State
  <2>3. \A n \in Node : sig'[n].stop => Held(tm'[n])
    BY <2>1, <2>2, SameHeld
  <2>4. TimedStops(Tail(todo[t]))
    BY <2>1, TimedWithout
  <2>5. QED BY <2>1, <2>3, <2>4, StepKeepsHold
<1>11. CASE StopOpen(t, k)
  <2> DEFINE f == Call("stop", sig[k].children, Head(todo[t]).flag)
  <2>1. /\ Runs(t, "stop", k)
        /\ todo' = [todo EXCEPT ![t] = Push(f, Without(t, k))]
    BY <1>11 DEF StopOpen
  <2>2. Head(todo[t]).flag
    BY <2>1, TimedWithout
  <2>3. PICK r \in StopTimer(tm[k]) : tm' = [tm EXCEPT ![k] = r]
    BY <1>11, <2>2 DEF StopOpen
  <2>4. Held(r)
    BY <1>1, <2>3, StopTimerHolds
  <2>5. /\ tm'[k] = r
        /\ \A n \in Node : n # k => tm'[n] = tm[n] /\ sig'[n] = sig[n]
    BY <1>1, <1>11, <2>3 DEF StopOpen
  <2>6. \A n \in Node : sig'[n].stop => Held(tm'[n])
    BY <2>4, <2>5 DEF HoldInv
  <2>7. f \in Frame /\ (f.op = "stop" => f.flag)
    BY <1>1, <1>2, <1>3, <2>1, <2>2 DEF FrameOp
  <2> HIDE DEF f
  <2>8. QED BY <2>1, <2>6, <2>7, GoOnHold
<1>12. CASE ResumeStopped(t, k)
  <2> DEFINE f == Call("resume", sig[k].children, FALSE)
  <2>1. /\ Runs(t, "resume", k)
        /\ todo' = [todo EXCEPT ![t] = Push(f, Without(t, k))]
    BY <1>12 DEF ResumeStopped
  <2>2. ~ sig'[k].stop /\ \A n \in Node : n # k => sig'[n] = sig[n]
    BY <1>1, <1>12 DEF ResumeStopped, State
  <2>3. \A n \in Node : n # k => tm'[n] = tm[n]
    BY <1>1, <1>12 DEF ResumeStopped
  <2>4. \A n \in Node : sig'[n].stop => Held(tm'[n])
    BY <2>2, <2>3 DEF HoldInv
  <2>5. f \in Frame /\ (f.op = "stop" => f.flag)
    BY <1>1, <1>3 DEF FrameOp
  <2> HIDE DEF f
  <2>6. QED BY <2>1, <2>4, <2>5, GoOnHold
<1>13. CASE InitTimer(t, k)
  <2> DEFINE f == Call("initParent", {k}, FALSE)
  <2>1. /\ Runs(t, "initTimer", k) /\ sig' = sig
        /\ todo' = [todo EXCEPT ![t] = <<f>> \o Without(t, k)]
    BY <1>13 DEF InitTimer
  <2>2. sig[k].stop => Held(tm'[k])
    <3>1. ASSUME sig[k].stop PROVE tm[k].timeout = 0
      <4>1. Held(tm[k]) /\ tm[k].clock = "none"
        BY <3>1, <1>13 DEF HoldInv, InitTimer
      <4>2. QED BY <4>1 DEF Held
    <3>2. ASSUME sig[k].stop PROVE tm' = [tm EXCEPT ![k].clock = "past"]
      BY <3>1, <3>2, <1>13 DEF InitTimer
    <3>3. QED BY <1>1, <3>2 DEF Held, Timer
  <2>3. \A n \in Node : n # k => tm'[n] = tm[n]
    BY <1>1, <1>13 DEF InitTimer
  <2>4. \A n \in Node : sig'[n].stop => Held(tm'[n])
    BY <2>1, <2>2, <2>3 DEF HoldInv
  <2>5. f \in Frame /\ (f.op = "stop" => f.flag)
    BY <1>1, <1>3 DEF FrameOp
  <2> HIDE DEF f
  <2>6. QED BY <2>1, <2>4, <2>5, GoOnHold
<1>14. CASE InitParent(t, k)
  <2> DEFINE p == IF sig[k].parent = NoNode THEN k ELSE sig[k].parent
             f == Call("initTimer", {p}, FALSE)
  <2>1. /\ Runs(t, "initParent", k) /\ UNCHANGED <<sig, tm>>
        /\ \/ todo' = [todo EXCEPT ![t] = Tail(todo[t])]
           \/ todo' = [todo EXCEPT ![t] = <<f>> \o Tail(todo[t])]
    BY <1>14 DEF InitParent
  <2>2. \A n \in Node : sig'[n].stop => Held(tm'[n])
    BY <2>1, SameHeld
  <2>3. f \in Frame /\ (f.op = "stop" => f.flag)
    <3>1. {p} \in SUBSET Node
      BY <1>1
    <3>2. QED BY <3>1, <1>3 DEF FrameOp
  <2> HIDE DEF f
  <2>4. QED BY <2>1, <2>2, <2>3, GoOnHold
<1>15. QED
  BY <1>0, <1>5, <1>6, <1>7, <1>8, <1>9, <1>10, <1>11, <1>12, <1>13, <1>14,
     SealHold

LEMMA TimersHold ==
    ASSUME TypeOK, HoldInv, NEW n \in Node, Timers(n) PROVE HoldInv'
<1> USE DEF treeVars
<1>0. n \in Thread /\ tm \in [Node -> Timer]
  BY DEF Thread, TypeOK
<1>1. sig' = sig
  BY DEF Timers, Elapse, TaskStarts, TaskFires, TaskChecks
<1>2. \A m \in Node : Held(tm[m]) => Held(tm'[m])
  <2>1. \A m \in Node : m # n => tm'[m] = tm[m]
    BY <1>0 DEF Timers, Elapse, TaskStarts, TaskFires, TaskChecks
  <2>2. /\ tm'[n].timeout = tm[n].timeout
        /\ tm'[n].clock = tm[n].clock \/ tm'[n].clock = "past"
    <3>1. CASE Elapse(n)
      BY <1>0, <3>1 DEF Elapse, Timer
    <3>2. CASE TaskStarts(n)
      BY <1>0, <3>2 DEF TaskStarts, Timer
    <3>3. CASE TaskFires(n)
      BY <1>0, <3>3 DEF TaskFires, Timer
    <3>4. CASE TaskChecks(n)
      BY <1>0, <3>4 DEF TaskChecks, Timer
    <3>5. QED BY <3>1, <3>2, <3>3, <3>4 DEF Timers
  <2>3. QED BY <2>1, <2>2 DEF Held
<1>3. \A m \in Node : sig'[m].stop => Held(tm'[m])
  BY <1>1, <1>2 DEF HoldInv
<1>4. CASE todo' = todo
  BY <1>3, <1>4, QuietKeepsHold
<1>5. CASE TaskChecks(n)
  <2> DEFINE f == Call("close", {n}, TRUE)
  <2>1. \/ todo' = [todo EXCEPT ![n] = <<>>]
        \/ todo' = [todo EXCEPT ![n] = <<f>>]
    BY <1>5 DEF TaskChecks
  <2>2. f \in Frame /\ f.op = "close"
    <3>1. "close" \in FrameOp /\ {n} \in SUBSET Node /\ TRUE \in BOOLEAN
      BY DEF FrameOp
    <3>2. QED BY <3>1, CallType
  <2> HIDE DEF f
  <2>3. TimedStops(<<>>) /\ TimedStops(<<f>>)
    BY <2>2, TimedFirst
  <2>4. QED BY <1>0, <1>3, <2>1, <2>3, StepKeepsHold
<1>6. QED BY <1>4, <1>5 DEF Timers, Elapse, TaskStarts, TaskFires

LEMMA WaitersHold ==
    ASSUME TypeOK, HoldInv, (\E w \in Coro : Waits(w)) \/ Produce
    PROVE  HoldInv'
<1> USE DEF treeVars
<1>1. UNCHANGED <<tm, todo>>
  BY DEF Waits, GetWaiter, Submit, CloserRead, GetStopWaiter, Deliver, Produce
<1>2. \/ sig' = sig
      \/ \E w \in Coro :
            \/ sig' = [sig EXCEPT ![on[w]].waiters = @ \cup {w}]
            \/ sig' = [sig EXCEPT ![on[w]].waiters = @ \ {w}]
            \/ sig' = [sig EXCEPT ![on[w]].stopWaiters = @ \cup {w}]
  BY DEF Waits, GetWaiter, Submit, CloserRead, GetStopWaiter, Deliver, Produce
<1>3. \A n \in Node : sig'[n].stop = sig[n].stop
  <2>1. ASSUME NEW w \in Coro,
               \/ sig' = [sig EXCEPT ![on[w]].waiters = @ \cup {w}]
               \/ sig' = [sig EXCEPT ![on[w]].waiters = @ \ {w}]
               \/ sig' = [sig EXCEPT ![on[w]].stopWaiters = @ \cup {w}]
        PROVE  \A n \in Node : sig'[n].stop = sig[n].stop
    <3>1. on[w] \in Node
      BY DEF TypeOK
    <3>2. QED BY <2>1, <3>1, WaitersAt
  <2>2. QED BY <1>2, <2>1
<1>4. QED BY <1>1, <1>3, SameHeld, QuietKeepsHold

LEMMA NextHold == ASSUME TypeOK, HoldInv, [Next]_vars PROVE HoldInv'
<1>1. CASE UNCHANGED vars
  BY <1>1, SameHeld, QuietKeepsHold DEF vars
<1>2. ASSUME NEW n \in made, Timers(n) PROVE HoldInv'
  BY <1>2, TimersHold DEF TypeOK
<1>3. ASSUME NEW w \in Coro, NEW n \in made, NEW k \in Kinds, Enter(w, n, k)
      PROVE  HoldInv'
  <2>1. /\ w \in Thread /\ n \in Node /\ "initTimer" \in FrameOp
        /\ FALSE \in BOOLEAN
    BY DEF Thread, TypeOK, FrameOp
  <2>2. /\ todo' = [todo EXCEPT ![w] = <<Call("initTimer", {n}, FALSE)>>]
        /\ UNCHANGED <<sig, tm>>
    BY <1>3 DEF Enter
  <2>3. QED BY <2>1, <2>2, BeginsHold
<1>4. QED
  BY <1>1, <1>2, <1>3, CallsHold, WorksHold, WaitersHold DEF Next

\* stop() holds the timeout: as long as every stop takes the timer along and
\* timeouts are set before anything waits (TimersKept), no closer runs down its timeout while
\* it is stopped, be the timer running, expired or made only later.
THEOREM StopHoldsTimeoutEver == TimersKept /\ Spec => []StopHoldsTimeout
<1>1. TimersKept /\ Init => HoldInv
  BY InitHold
<1>2. TypeOK /\ HoldInv /\ [Next]_vars => HoldInv'
  BY NextHold
<1>3. TypeOK /\ HoldInv => StopHoldsTimeout
  BY DEF HoldInv, Held, StopHoldsTimeout, TypeOK
<1>4. QED BY <1>1, <1>2, <1>3, TypeCorrect, PTL DEF Spec
----------------------------------------------------------------------------
(* stop and resume reach the whole tree. *)

\* u is the only caller that stops and resumes, and only has the root in hand:
\* the way CfgoSrc uses its closer, under its own mutex.
Stopper(u) ==
    /\ u \in Caller
    /\ Handles[u] \subseteq {Root}
    /\ \A c \in Caller :
          c # u => Ops[c] \cap {"stop", "stopNoTimer", "resume"} = {}

OneStopper == \E u \in Caller : Stopper(u)

\* The creator of closer n is stopped, or closed.
Under(n) == sig[origin[n]].stop \/ sig[origin[n]].closed

\* The walk of a stop only goes down below stopped closers, and what is stopped
\* below a running one is where the walk of a resume is still to come.
Walk(u) ==
    /\ Stopper(u)
    /\ \A t \in Thread, k \in Node :
          t # u => ~ InStack("stop", k, todo[t]) /\ ~ InStack("resume", k, todo[t])
    /\ \A k, m \in Node :
          ~ (InStack("stop", k, todo[u]) /\ InStack("resume", m, todo[u]))
    /\ \A k \in Node : InStack("stop", k, todo[u]) => k = Root \/ Under(k)
    /\ \A n \in made \ {Root} :
          sig[n].stop => Under(n) \/ InStack("resume", n, todo[u])
    /\ \A p \in Node : \A n \in sig[p].children : origin[n] = p

WalkInv == \E u \in Caller : Walk(u)

LEMMA InitWalk == OneStopper /\ Init => WalkInv
<1> SUFFICES ASSUME OneStopper, Init PROVE WalkInv
  OBVIOUS
<1>1. PICK u \in Caller : Stopper(u)
  BY DEF OneStopper
<1>2. \A t \in Thread : \A op, k : ~ InStack(op, k, todo[t])
  BY DEF Init, InStack
<1>3. u \in Thread
  BY DEF Thread
<1>4. \A n \in Node : ~ sig[n].stop /\ sig[n].children = {}
  BY DEF Init, NewState
<1>5. made \subseteq Node
  BY SignalAssumption DEF Init
<1>6. Walk(u)
  BY <1>1, <1>2, <1>3, <1>4, <1>5 DEF Walk
<1>7. QED BY <1>6 DEF WalkInv

\* A step of thread t, whose new stack is s, that resumes nobody; what it stops
\* is where the walk of the stop has come.
LEMMA StepKeepsWalk ==
    ASSUME TypeOK, TreeInv, CloseInv, NEW u \in Caller, Walk(u),
           UNCHANGED <<made, origin>>,
           NEW t \in Thread, NEW s, todo' = [todo EXCEPT ![t] = s],
           \A n \in Node : sig[n].stop \/ sig[n].closed
                              => sig'[n].stop \/ sig'[n].closed,
           \A n \in Node : sig'[n].stop
                              => sig[n].stop \/ InStack("stop", n, todo[t]),
           \A n \in Node : sig'[n].children \subseteq sig[n].children,
           \A k \in Node : InStack("stop", k, s)
                              => \/ InStack("stop", k, todo[t])
                                 \/ /\ \E m \in Node : InStack("stop", m, todo[t])
                                    /\ origin[k] \in Node
                                    /\ sig'[origin[k]].stop,
           \A k \in Node : InStack("resume", k, s)
                              => InStack("resume", k, todo[t]),
           \A k \in Node : InStack("resume", k, todo[t])
                              => InStack("resume", k, s) \/ ~ sig'[k].stop
    PROVE  WalkInv'
<1>1. todo'[t] = s /\ \A x \in Thread : x # t => todo'[x] = todo[x]
  BY DEF TypeOK
<1>2. u \in Thread
  BY DEF Thread
<1>3. \A n \in made \ {Root} : n \in Node /\ origin[n] \in Node
  BY DEF TypeOK, TreeInv
<1>4. \A k \in made \ {Root} : Under(k) => Under(k)'
  BY <1>3 DEF Under
<1>5. \A x \in Thread, k \in Node :
          x # u => ~ InStack("stop", k, todo'[x])
                      /\ ~ InStack("resume", k, todo'[x])
  BY <1>1 DEF Walk
<1>6. \A k, m \in Node :
          ~ (InStack("stop", k, todo'[u]) /\ InStack("resume", m, todo'[u]))
  BY <1>1, <1>2 DEF Walk
<1>7. \A k \in Node : InStack("stop", k, todo'[u]) => k = Root \/ Under(k)'
  <2> SUFFICES ASSUME NEW k \in Node, InStack("stop", k, todo'[u]), k # Root
               PROVE  Under(k)'
    OBVIOUS
  <2>1. CASE InStack("stop", k, todo[u])
    <3>1. k \in made \ {Root} /\ Under(k)
      BY <1>2, <2>1 DEF CloseInv, Walk
    <3>2. QED BY <3>1, <1>4
  <2>2. CASE ~ InStack("stop", k, todo[u])
    <3>1. sig'[origin[k]].stop
      BY <1>1, <1>2, <2>2
    <3>2. QED BY <3>1 DEF Under
  <2>3. QED BY <2>1, <2>2
<1>8. \A n \in made' \ {Root} :
          sig'[n].stop => Under(n)' \/ InStack("resume", n, todo'[u])
  <2> SUFFICES ASSUME NEW n \in made \ {Root}, sig'[n].stop
               PROVE  Under(n)' \/ InStack("resume", n, todo'[u])
    OBVIOUS
  <2>1. n \in Node
    BY <1>3
  <2>2. CASE InStack("stop", n, todo[t])
    <3>1. t = u
      BY <2>1, <2>2 DEF Walk
    <3>2. Under(n)
      BY <2>1, <2>2, <3>1 DEF Walk
    <3>3. QED BY <3>2, <1>4
  <2>3. CASE sig[n].stop
    <3>1. Under(n) \/ InStack("resume", n, todo[u])
      BY <2>3 DEF Walk
    <3>2. QED BY <1>1, <1>2, <1>4, <2>1, <3>1
  <2>4. QED BY <2>1, <2>2, <2>3
<1>9. \A p \in Node : \A n \in sig'[p].children : origin'[n] = p
  BY DEF Walk
<1>10. Stopper(u)'
  BY DEF Walk, Stopper
<1>11. Walk(u)'
  BY <1>5, <1>6, <1>7, <1>8, <1>9, <1>10 DEF Walk
<1>12. QED BY <1>11 DEF WalkInv

\* A step that leaves the walks alone.
LEMMA AsideKeepsWalk ==
    ASSUME TypeOK, TreeInv, CloseInv, WalkInv, UNCHANGED <<made, origin>>,
           NEW t \in Thread, NEW s, todo' = [todo EXCEPT ![t] = s],
           \A k \in Node :
               /\ InStack("stop", k, s) <=> InStack("stop", k, todo[t])
               /\ InStack("resume", k, s) <=> InStack("resume", k, todo[t]),
           \A n \in Node :
               /\ sig[n].stop \/ sig[n].closed => sig'[n].stop \/ sig'[n].closed
               /\ sig'[n].stop => sig[n].stop
               /\ sig'[n].children \subseteq sig[n].children
    PROVE  WalkInv'
<1>1. PICK u \in Caller : Walk(u)
  BY DEF WalkInv
<1>2. QED BY <1>1, StepKeepsWalk

LEMMA QuietKeepsWalk ==
    ASSUME TypeOK, TreeInv, CloseInv, WalkInv, UNCHANGED <<made, origin, todo>>,
           \A n \in Node : /\ sig'[n].stop = sig[n].stop
                           /\ sig'[n].closed = sig[n].closed
                           /\ sig'[n].children = sig[n].children
    PROVE  WalkInv'
<1>1. PICK u \in Caller : Walk(u)
  BY DEF WalkInv
<1>2. u \in Thread
  BY DEF Thread
<1>3. todo' = [todo EXCEPT ![u] = todo[u]]
  BY <1>2 DEF TypeOK
<1>4. QED BY <1>2, <1>3, AsideKeepsWalk

\* A thread that had nothing to do begins a call that neither stops nor resumes.
LEMMA BeginsWalk ==
    ASSUME TypeOK, TreeInv, CloseInv, WalkInv, UNCHANGED <<made, origin, sig>>,
           NEW t \in Thread, NEW f \in Frame, f.op \notin {"stop", "resume"},
           todo[t] = <<>>, todo' = [todo EXCEPT ![t] = <<f>>]
    PROVE  WalkInv'
<1>1. \A o, k : /\ InStack(o, k, <<f>>) <=> f.op = o /\ k \in f.kids
                /\ ~ InStack(o, k, todo[t])
  BY FirstFrame
<1>2. QED BY <1>1, AsideKeepsWalk

\* The stopper starts a walk from the root.
LEMMA StopperWalk ==
    ASSUME TypeOK, WalkInv, UNCHANGED <<made, origin, sig>>,
           NEW c \in Caller, NEW op \in {"stop", "stopNoTimer", "resume"},
           op \in Ops[c], NEW n \in made \cap Handles[c], NEW f \in Frame,
           f.op \in {"stop", "resume"}, f.kids = {n},
           todo[c] = <<>>, todo' = [todo EXCEPT ![c] = <<f>>]
    PROVE  WalkInv'
<1>1. PICK u \in Caller : Walk(u)
  BY DEF WalkInv
<1>2. c = u /\ n = Root /\ c \in Thread
  BY <1>1 DEF Walk, Stopper, Thread
<1>3. \A o, k : /\ InStack(o, k, <<f>>) <=> f.op = o /\ k = n
                /\ ~ InStack(o, k, todo[c])
  BY FirstFrame
<1>4. todo'[c] = <<f>> /\ \A x \in Thread : x # c => todo'[x] = todo[x]
  BY <1>2 DEF TypeOK
<1>5. \A t \in Thread, k \in Node :
          t # u => ~ InStack("stop", k, todo'[t])
                      /\ ~ InStack("resume", k, todo'[t])
  BY <1>1, <1>2, <1>4 DEF Walk
<1>6. \A k, m \in Node :
          ~ (InStack("stop", k, todo'[u]) /\ InStack("resume", m, todo'[u]))
  BY <1>2, <1>3, <1>4
<1>7. \A k \in Node : InStack("stop", k, todo'[u]) => k = Root \/ Under(k)'
  BY <1>2, <1>3, <1>4
<1>8. \A x \in made' \ {Root} :
          sig'[x].stop => Under(x)' \/ InStack("resume", x, todo'[u])
  <2>1. made \subseteq Node
    BY DEF TypeOK
  <2>2. \A x \in made \ {Root} : sig[x].stop => Under(x)
    BY <1>1, <1>2, <1>3, <2>1 DEF Walk
  <2>3. QED BY <2>2 DEF Under
<1>9. /\ \A p \in Node : \A x \in sig'[p].children : origin'[x] = p
      /\ Stopper(u)'
  BY <1>1 DEF Walk, Stopper
<1>10. Walk(u)'
  BY <1>5, <1>6, <1>7, <1>8, <1>9 DEF Walk
<1>11. QED BY <1>10 DEF WalkInv

\* A new closer is running, and no walk has come to it.
LEMMA CreateWalk ==
    ASSUME TypeOK, TreeInv, CloseInv, WalkInv, NEW c \in Caller,
           NEW n \in made, NEW m \in Node, CreateChild(c, n, m)
    PROVE  WalkInv'
<1>1. PICK u \in Caller : Walk(u)
  BY DEF WalkInv
<1>2. /\ m \notin made /\ made' = made \cup {m} /\ todo' = todo
      /\ origin' = [origin EXCEPT ![m] = n] /\ m # n /\ n \in Node
      /\ made \subseteq Node
  BY DEF CreateChild, TypeOK
<1>3. \A x \in Node : x # m => origin'[x] = origin[x]
  BY <1>2 DEF TypeOK
<1>4. origin'[m] = n
  BY <1>2 DEF TypeOK
<1>5. sig \in [Node -> State]
  BY DEF TypeOK
<1>6. \A x \in Node :
          /\ sig'[x].stop = sig[x].stop
          /\ sig[x].closed => sig'[x].closed
          /\ sig'[x].children
                \subseteq sig[x].children \cup (IF x = n THEN {m} ELSE {})
  <2>1. CASE sig' = [sig EXCEPT ![m].closed = TRUE,
                                ![m].isTimeout = sig[n].isTimeout]
    <3>1. sig' = [sig EXCEPT ![m] = [sig[m] EXCEPT !.closed = TRUE,
                                       !.isTimeout = sig[n].isTimeout]]
      BY <1>5, <2>1
    <3>2. sig'[m] = [sig[m] EXCEPT !.closed = TRUE,
                                   !.isTimeout = sig[n].isTimeout]
          /\ \A x \in Node : x # m => sig'[x] = sig[x]
      BY <3>1, SigAt
    <3>3. /\ sig'[m].stop = sig[m].stop /\ sig'[m].closed
          /\ sig'[m].children = sig[m].children
      BY <1>5, <3>2 DEF State
    <3>4. QED BY <3>2, <3>3
  <2>2. CASE sig' = [sig EXCEPT ![m].parent = n, ![n].children = @ \cup {m}]
    <3>1. sig' = [sig EXCEPT ![m] = [sig[m] EXCEPT !.parent = n],
                             ![n] = [sig[n] EXCEPT !.children = @ \cup {m}]]
      BY <1>2, <1>5, <2>2
    <3>2. /\ sig'[m] = [sig[m] EXCEPT !.parent = n]
          /\ sig'[n] = [sig[n] EXCEPT !.children = @ \cup {m}]
          /\ \A x \in Node : x # m /\ x # n => sig'[x] = sig[x]
      BY <1>2, <1>5, <3>1
    <3>3. QED BY <1>2, <1>5, <3>2 DEF State
  <2>3. QED BY <2>1, <2>2 DEF CreateChild
<1>7. \A x \in made \ {Root} : x \in Node /\ origin[x] \in Node
  BY DEF TypeOK, TreeInv
<1>8. \A x \in made \ {Root} : Under(x) => Under(x)'
  <2> SUFFICES ASSUME NEW x \in made \ {Root}, Under(x) PROVE Under(x)'
    OBVIOUS
  <2>1. origin'[x] = origin[x] /\ origin[x] \in Node
    BY <1>2, <1>3, <1>7
  <2>2. QED BY <1>6, <2>1 DEF Under
<1>9. \A t \in Thread, k \in Node :
          t # u => ~ InStack("stop", k, todo'[t])
                      /\ ~ InStack("resume", k, todo'[t])
  BY <1>1, <1>2 DEF Walk
<1>10. \A k, x \in Node :
           ~ (InStack("stop", k, todo'[u]) /\ InStack("resume", x, todo'[u]))
  BY <1>1, <1>2 DEF Walk
<1>11. \A k \in Node : InStack("stop", k, todo'[u]) => k = Root \/ Under(k)'
  <2> SUFFICES ASSUME NEW k \in Node, InStack("stop", k, todo[u]), k # Root
               PROVE  Under(k)'
    BY <1>2
  <2>1. k \in made /\ Under(k)
    BY <1>1 DEF CloseInv, Walk, Thread
  <2>2. QED BY <1>8, <2>1
<1>12. \A x \in made' \ {Root} :
           sig'[x].stop => Under(x)' \/ InStack("resume", x, todo'[u])
  <2> SUFFICES ASSUME NEW x \in made' \ {Root}, sig'[x].stop
               PROVE  Under(x)' \/ InStack("resume", x, todo'[u])
    OBVIOUS
  <2>1. sig[x].stop /\ x \in Node
    BY <1>2, <1>6
  <2>2. x \in made
    BY <2>1 DEF CloseInv, NodesInv
  <2>3. QED BY <1>1, <1>2, <1>8, <2>1, <2>2 DEF Walk
<1>13. \A p \in Node : \A x \in sig'[p].children : origin'[x] = p
  <2> SUFFICES ASSUME NEW p \in Node, NEW x \in sig'[p].children
               PROVE  origin'[x] = p
    OBVIOUS
  <2>1. CASE x \in sig[p].children
    <3>1. x \in made /\ x # m /\ x \in Node
      BY <1>2, <2>1 DEF CloseInv, NodesInv
    <3>2. QED BY <1>1, <1>3, <2>1, <3>1 DEF Walk
  <2>2. CASE x \notin sig[p].children
    BY <1>4, <1>6, <2>2
  <2>3. QED BY <2>1, <2>2
<1>14. Stopper(u)'
  BY <1>1 DEF Walk, Stopper
<1>15. Walk(u)'
  BY <1>9, <1>10, <1>11, <1>12, <1>13, <1>14 DEF Walk
<1>16. QED BY <1>15 DEF WalkInv

LEMMA CallsWalk ==
    ASSUME TypeOK, TreeInv, CloseInv, WalkInv, NEW c \in Caller, Calls(c)
    PROVE  WalkInv'
<1> USE DEF treeVars
<1>0. c \in Thread
  BY DEF Thread
<1>1. PICK n \in made \cap Handles[c] :
          \/ BeginClose(c, n)
          \/ \E b \in BOOLEAN : BeginStop(c, n, b)
          \/ BeginResume(c, n)
          \/ \E d \in Duration \cup {0} : SetTimeout(c, n, d)
          \/ \E m \in Node : CreateChild(c, n, m)
  BY DEF Calls
<1>2. n \in made /\ n \in Node /\ {n} \in SUBSET Node
  BY <1>1 DEF TypeOK
<1>3. ASSUME NEW op \in FrameOp, NEW b \in BOOLEAN
      PROVE  /\ Call(op, {n}, b) \in Frame /\ Call(op, {n}, b).op = op
             /\ Call(op, {n}, b).kids = {n}
  BY <1>2, CallType
<1>4. CASE BeginClose(c, n)
  <2> DEFINE f == Call("close", {n}, FALSE)
  <2>1. f \in Frame /\ f.op = "close"
    BY <1>3 DEF FrameOp
  <2>2. /\ todo[c] = <<>> /\ todo' = [todo EXCEPT ![c] = <<f>>]
        /\ UNCHANGED <<made, origin, sig>>
    BY <1>4 DEF BeginClose, Begins
  <2> HIDE DEF f
  <2>3. QED BY <1>0, <2>1, <2>2, BeginsWalk
<1>5. ASSUME NEW b \in BOOLEAN, BeginStop(c, n, b) PROVE WalkInv'
  <2> DEFINE f == Call("stop", {n}, b)
             op == IF b THEN "stop" ELSE "stopNoTimer"
  <2>1. f \in Frame /\ f.op = "stop" /\ f.kids = {n}
    BY <1>3 DEF FrameOp
  <2>2. /\ todo[c] = <<>> /\ todo' = [todo EXCEPT ![c] = <<f>>]
        /\ op \in Ops[c] /\ UNCHANGED <<made, origin, sig>>
    BY <1>5 DEF BeginStop, Begins
  <2>3. op \in {"stop", "stopNoTimer", "resume"}
    OBVIOUS
  <2> HIDE DEF f, op
  <2>4. QED BY <2>1, <2>2, <2>3, StopperWalk
<1>6. CASE BeginResume(c, n)
  <2> DEFINE f == Call("resume", {n}, FALSE)
  <2>1. f \in Frame /\ f.op = "resume" /\ f.kids = {n}
    BY <1>3 DEF FrameOp
  <2>2. /\ todo[c] = <<>> /\ todo' = [todo EXCEPT ![c] = <<f>>]
        /\ "resume" \in Ops[c] /\ UNCHANGED <<made, origin, sig>>
    BY <1>6 DEF BeginResume, Begins
  <2> HIDE DEF f
  <2>3. QED BY <2>1, <2>2, StopperWalk
<1>7. ASSUME NEW d \in Duration \cup {0}, SetTimeout(c, n, d) PROVE WalkInv'
  BY <1>7, QuietKeepsWalk DEF SetTimeout
<1>8. QED BY <1>1, <1>2, <1>4, <1>5, <1>6, <1>7, CreateWalk

\* What the frames of other calls say of the walks: nothing.
LEMMA AsideStack ==
    ASSUME TypeOK, NEW t \in Thread, NEW op, NEW k \in Node, Runs(t, op, k),
           op \notin {"stop", "resume"},
           NEW f \in Frame, f.op \notin {"stop", "resume"}, NEW s,
           s \in {Without(t, k), Tail(todo[t]), <<f>> \o Without(t, k),
                  <<f>> \o Tail(todo[t]), Push(f, Tail(todo[t]))}
    PROVE  \A n \in Node :
               /\ InStack("stop", n, s) <=> InStack("stop", n, todo[t])
               /\ InStack("resume", n, s) <=> InStack("resume", n, todo[t])
<1>1. Without(t, k) \in Seq(Frame) /\ Tail(todo[t]) \in Seq(Frame)
  BY WithoutStack
<1>2. ASSUME NEW o \in {"stop", "resume"}, NEW n
      PROVE  /\ InStack(o, n, Without(t, k)) <=> InStack(o, n, todo[t])
             /\ InStack(o, n, Tail(todo[t])) <=> InStack(o, n, todo[t])
  <2>1. o # op
    OBVIOUS
  <2>2. InStack(o, n, Tail(todo[t])) <=> InStack(o, n, todo[t])
    BY <2>1, WithoutStack
  <2>3. InStack(o, n, Without(t, k)) <=> InStack(o, n, todo[t])
    BY <2>1, WithoutStack
  <2>4. QED BY <2>2, <2>3
<1>3. ASSUME NEW r \in Seq(Frame), NEW o \in {"stop", "resume"}, NEW n
      PROVE  /\ InStack(o, n, <<f>> \o r) <=> InStack(o, n, r)
             /\ InStack(o, n, Push(f, r)) <=> InStack(o, n, r)
  <2>1. o # f.op
    OBVIOUS
  <2>2. InStack(o, n, <<f>> \o r) <=> InStack(o, n, r)
    BY <2>1, ConsStack
  <2>3. InStack(o, n, Push(f, r)) <=> InStack(o, n, r)
    BY <2>1, PushStack
  <2>4. QED BY <2>2, <2>3
<1>4. CASE s \in {Without(t, k), Tail(todo[t])}
  BY <1>2, <1>4
<1>5. CASE s = <<f>> \o Without(t, k)
  BY <1>1, <1>2, <1>3, <1>5
<1>6. CASE s = <<f>> \o Tail(todo[t])
  BY <1>1, <1>2, <1>3, <1>6
<1>7. CASE s = Push(f, Tail(todo[t]))
  BY <1>1, <1>2, <1>3, <1>7
<1>8. QED BY <1>4, <1>5, <1>6, <1>7

LEMMA SealWalk ==
    ASSUME TypeOK, TreeInv, CloseInv, WalkInv, NEW t \in Thread, NEW k \in Node,
           Seal(t, k)
    PROVE  WalkInv'
<1> USE DEF treeVars
<1> DEFINE f == Call("close", sig[k].children, Head(todo[t]).flag)
           kids == Push(f, Tail(todo[t]))
           up == [Call("unlink", {k}, FALSE) EXCEPT !.up = sig[k].parent]
           s == IF sig[k].parent = NoNode THEN kids ELSE <<up>> \o kids
<1>1. /\ Runs(t, "seal", k) /\ UNCHANGED <<made, origin>>
      /\ todo' = [todo EXCEPT ![t] = s]
  BY DEF Seal, Taken
<1>2. sig \in [Node -> State]
  BY DEF TypeOK
<1>3. \A n \in Node : /\ sig'[n].stop = sig[n].stop
                      /\ sig'[n].closed = sig[n].closed
                      /\ sig'[n].children \subseteq sig[n].children
  <2> DEFINE q == [sig[k] EXCEPT !.sealing = FALSE,
                                 !.isTimeout = Head(todo[t]).flag,
                                 !.parent = NoNode, !.children = {},
                                 !.waiters = {}, !.stopWaiters = {}]
  <2>1. sig' = [sig EXCEPT ![k] = q]
    BY <1>2 DEF Seal
  <2>2. sig'[k] = q /\ \A n \in Node : n # k => sig'[n] = sig[n]
    BY <2>1, SigAt
  <2>3. q.stop = sig[k].stop /\ q.closed = sig[k].closed /\ q.children = {}
    BY <1>2 DEF State
  <2> HIDE DEF q
  <2>4. QED BY <2>2, <2>3
<1>4. Tail(todo[t]) \in Seq(Frame) /\ Head(todo[t]).flag \in BOOLEAN
  BY <1>1, WithoutStack DEF Frame
<1>5. f \in Frame /\ f.op = "close"
  <2>1. "close" \in FrameOp /\ sig[k].children \in SUBSET Node
    BY <1>2 DEF FrameOp, State
  <2>2. QED BY <1>4, <2>1, CallType
<1>6. up \in Frame /\ up.op = "unlink"
  <2>1. "unlink" \in FrameOp /\ {k} \in SUBSET Node /\ FALSE \in BOOLEAN
    BY DEF FrameOp
  <2>2. /\ Call("unlink", {k}, FALSE) \in Frame
        /\ Call("unlink", {k}, FALSE).op = "unlink"
    BY <2>1, CallType
  <2>3. sig[k].parent \in Node \cup {NoNode}
    BY <1>2 DEF State
  <2>4. QED BY <2>2, <2>3 DEF Frame
<1> HIDE DEF f, up
<1>7. kids \in Seq(Frame)
  BY <1>4, <1>5, PushStack
<1>8. \A n \in Node :
          /\ InStack("stop", n, kids) <=> InStack("stop", n, todo[t])
          /\ InStack("resume", n, kids) <=> InStack("resume", n, todo[t])
  BY <1>1, <1>5, AsideStack
<1> HIDE DEF kids
<1>9. \A n \in Node :
          /\ InStack("stop", n, s) <=> InStack("stop", n, todo[t])
          /\ InStack("resume", n, s) <=> InStack("resume", n, todo[t])
  BY <1>6, <1>7, <1>8, ConsStack
<1> HIDE DEF s
<1>10. QED BY <1>1, <1>3, <1>9, AsideKeepsWalk

\* A stop that comes to k: what it goes on with lies below k.
LEMMA StopWalk ==
    ASSUME TypeOK, TreeInv, CloseInv, WalkInv, NEW t \in Thread, NEW k \in Node,
           StopOpen(t, k)
    PROVE  WalkInv'
<1> USE DEF treeVars
<1> DEFINE f == Call("stop", sig[k].children, Head(todo[t]).flag)
           s == Push(f, Without(t, k))
<1>1. /\ Runs(t, "stop", k) /\ UNCHANGED <<made, origin>>
      /\ todo' = [todo EXCEPT ![t] = s]
  BY DEF StopOpen
<1>2. sig \in [Node -> State] /\ sig[k].children \in SUBSET Node
  BY DEF TypeOK, State
<1>3. sig' = [sig EXCEPT ![k] = [sig[k] EXCEPT !.stop = TRUE]]
  BY <1>2 DEF StopOpen
<1>4. sig'[k] = [sig[k] EXCEPT !.stop = TRUE]
      /\ \A n \in Node : n # k => sig'[n] = sig[n]
  BY <1>3, SigAt
<1>5. /\ sig'[k].stop /\ sig'[k].closed = sig[k].closed
      /\ sig'[k].children = sig[k].children
  BY <1>2, <1>4 DEF State
<1>6. /\ Without(t, k) \in Seq(Frame) /\ Head(todo[t]).flag \in BOOLEAN
      /\ InStack("stop", k, todo[t])
      /\ \A o, n : InStack(o, n, Without(t, k)) => InStack(o, n, todo[t])
      /\ \A n : InStack("resume", n, Without(t, k))
                   <=> InStack("resume", n, todo[t])
  <2>1. /\ Without(t, k) \in Seq(Frame) /\ Head(todo[t]) \in Frame
        /\ \A o, n : InStack(o, n, todo[t])
              <=> (o = "stop" /\ n = k) \/ InStack(o, n, Without(t, k))
    BY <1>1, WithoutStack
  <2>2. Head(todo[t]).flag \in BOOLEAN
    BY <2>1 DEF Frame
  <2>3. QED BY <2>1, <2>2
<1>7. f \in Frame /\ f.op = "stop" /\ f.kids = sig[k].children
  <2>1. "stop" \in FrameOp
    BY DEF FrameOp
  <2>2. QED BY <1>2, <1>6, <2>1, CallType
<1> HIDE DEF f
<1>8. \A o, n : InStack(o, n, s)
                   <=> (o = "stop" /\ n \in sig[k].children)
                          \/ InStack(o, n, Without(t, k))
  BY <1>6, <1>7, PushStack
<1> HIDE DEF s
<1>9. PICK u \in Caller : Walk(u)
  BY DEF WalkInv
<1>10. \A n \in sig[k].children : origin[n] = k
  BY <1>9 DEF Walk
<1>11. /\ \A n \in Node : sig[n].stop \/ sig[n].closed
                             => sig'[n].stop \/ sig'[n].closed
       /\ \A n \in Node : sig'[n].stop
                             => sig[n].stop \/ InStack("stop", n, todo[t])
       /\ \A n \in Node : sig'[n].children \subseteq sig[n].children
  BY <1>4, <1>5, <1>6
<1>12. \A n \in Node : InStack("stop", n, s)
           => \/ InStack("stop", n, todo[t])
              \/ /\ \E m \in Node : InStack("stop", m, todo[t])
                 /\ origin[n] \in Node
                 /\ sig'[origin[n]].stop
  BY <1>5, <1>6, <1>8, <1>10
<1>13. \A n \in Node : InStack("resume", n, s) <=> InStack("resume", n, todo[t])
  BY <1>6, <1>8
<1>14. QED BY <1>1, <1>9, <1>11, <1>12, <1>13, StepKeepsWalk

\* A resume that comes to k: every closer stopped below k is one it goes on with.
LEMMA ResumeWalk ==
    ASSUME TypeOK, TreeInv, CloseInv, WalkInv, NEW t \in Thread, NEW k \in Node,
           ResumeStopped(t, k)
    PROVE  WalkInv'
<1> USE DEF treeVars
<1> DEFINE f == Call("resume", sig[k].children, FALSE)
           s == Push(f, Without(t, k))
<1>1. /\ Runs(t, "resume", k) /\ UNCHANGED <<made, origin>> /\ sig[k].stop
      /\ todo' = [todo EXCEPT ![t] = s]
  BY DEF ResumeStopped
<1>2. sig \in [Node -> State] /\ sig[k].children \in SUBSET Node
  BY DEF TypeOK, State
<1>3. sig' = [sig EXCEPT ![k] = [sig[k] EXCEPT !.stop = FALSE,
                                               !.stopWaiters = {}]]
  BY <1>2 DEF ResumeStopped
<1>4. sig'[k] = [sig[k] EXCEPT !.stop = FALSE, !.stopWaiters = {}]
      /\ \A n \in Node : n # k => sig'[n] = sig[n]
  BY <1>3, SigAt
<1>5. /\ ~ sig'[k].stop /\ sig'[k].closed = sig[k].closed
      /\ sig'[k].children = sig[k].children
  BY <1>2, <1>4 DEF State
<1>6. /\ Without(t, k) \in Seq(Frame)
      /\ InStack("resume", k, todo[t])
      /\ \A n : InStack("stop", n, Without(t, k))
                   <=> InStack("stop", n, todo[t])
      /\ \A n : InStack("resume", n, todo[t])
                   => n = k \/ InStack("resume", n, Without(t, k))
  BY <1>1, WithoutStack
<1>7. f \in Frame /\ f.op = "resume" /\ f.kids = sig[k].children
  <2>1. "resume" \in FrameOp /\ FALSE \in BOOLEAN
    BY DEF FrameOp
  <2>2. QED BY <1>2, <2>1, CallType
<1> HIDE DEF f
<1>8. \A o, n : InStack(o, n, s)
                   <=> (o = "resume" /\ n \in sig[k].children)
                          \/ InStack(o, n, Without(t, k))
  BY <1>6, <1>7, PushStack
<1> HIDE DEF s
<1>9. PICK u \in Caller : Walk(u)
  BY DEF WalkInv
<1>10. t = u
  BY <1>6, <1>9 DEF Walk
<1>11. todo'[t] = s /\ \A x \in Thread : x # t => todo'[x] = todo[x]
  BY <1>1 DEF TypeOK
<1>12. \A n \in Node : ~ InStack("stop", n, todo'[u])
  <2>1. \A n \in Node : ~ InStack("stop", n, todo[u])
    BY <1>6, <1>9, <1>10 DEF Walk
  <2>2. QED BY <1>6, <1>8, <1>10, <1>11, <2>1
<1>13. \A x \in Thread, n \in Node :
           x # u => ~ InStack("stop", n, todo'[x])
                       /\ ~ InStack("resume", n, todo'[x])
  BY <1>9, <1>10, <1>11 DEF Walk
<1>14. \A n \in made' \ {Root} :
           sig'[n].stop => Under(n)' \/ InStack("resume", n, todo'[u])
  <2> SUFFICES ASSUME NEW n \in made \ {Root}, sig'[n].stop
               PROVE  Under(n)' \/ InStack("resume", n, todo'[u])
    BY <1>1
  <2>1. n \in Node /\ origin[n] \in Node /\ n # k /\ sig[n].stop
        /\ ~ sig[n].closed
    BY <1>4, <1>5 DEF TypeOK, TreeInv, CloseInv, NodesInv
  <2>2. CASE InStack("resume", n, todo[u])
    BY <1>6, <1>8, <1>10, <1>11, <2>1, <2>2
  <2>3. CASE Under(n) /\ origin[n] # k
    <3>1. sig'[origin[n]] = sig[origin[n]] /\ origin' = origin
      BY <1>1, <1>4, <2>1, <2>3
    <3>2. QED BY <2>3, <3>1 DEF Under
  <2>4. CASE origin[n] = k
    <3>1. ~ sig[k].closed
      BY <1>1 DEF CloseInv, NodesInv
    <3>2. n \in sig[k].children
      BY <2>1, <2>4, <3>1 DEF TreeInv, OpenChildListed
    <3>3. QED BY <1>8, <1>10, <1>11, <3>2
  <2>5. QED BY <1>9, <2>1, <2>2, <2>3, <2>4 DEF Walk
<1>15. \A p \in Node : \A n \in sig'[p].children : origin'[n] = p
  <2> SUFFICES ASSUME NEW p \in Node, NEW n \in sig'[p].children
               PROVE  origin'[n] = p
    OBVIOUS
  <2>1. sig'[p].children = sig[p].children
    BY <1>4, <1>5
  <2>2. origin' = origin
    BY <1>1
  <2>3. origin[n] = p
    BY <1>9, <2>1 DEF Walk
  <2>4. QED BY <2>2, <2>3
<1>16. Stopper(u)'
  BY <1>9 DEF Walk, Stopper
<1>17. Walk(u)'
  BY <1>12, <1>13, <1>14, <1>15, <1>16 DEF Walk
<1>18. QED BY <1>17 DEF WalkInv

LEMMA WorksWalk ==
    ASSUME TypeOK, TreeInv, CloseInv, WalkInv, NEW t \in Thread, Works(t)
    PROVE  WalkInv'
<1> USE DEF treeVars
<1>0. PICK k \in Node :
          \/ CloseClosed(t, k) \/ CloseOpen(t, k) \/ Seal(t, k) \/ Unlink(t, k)
          \/ StopSkips(t, k) \/ StopOpen(t, k)
          \/ ResumeSkips(t, k) \/ ResumeStopped(t, k)
          \/ InitTimerSkips(t, k) \/ InitTimer(t, k) \/ InitParent(t, k)
  BY DEF Works
<1>1. /\ sig[k].parent \in Node \cup {NoNode} /\ sig \in [Node -> State]
      /\ {k} \in SUBSET Node
  BY DEF TypeOK, State
<1>2. ASSUME NEW op \in FrameOp, NEW n \in Node, NEW b \in BOOLEAN
      PROVE  Call(op, {n}, b) \in Frame /\ Call(op, {n}, b).op = op
  <2>1. {n} \in SUBSET Node
    BY <1>2
  <2>2. QED BY <2>1, CallType
<1>3. PICK g \in Frame : g.op = "close"
  <2>1. "close" \in FrameOp /\ TRUE \in BOOLEAN
    BY DEF FrameOp
  <2>2. /\ Call("close", {k}, TRUE) \in Frame
        /\ Call("close", {k}, TRUE).op = "close"
    BY <1>2, <2>1
  <2>3. QED BY <2>2
<1>4. ASSUME NEW op, op \notin {"stop", "resume"}, Runs(t, op, k),
             UNCHANGED <<made, origin, sig>>,
             todo' = [todo EXCEPT ![t] = Without(t, k)]
      PROVE  WalkInv'
  <2>1. \A n \in Node :
            /\ InStack("stop", n, Without(t, k)) <=> InStack("stop", n, todo[t])
            /\ InStack("resume", n, Without(t, k))
                  <=> InStack("resume", n, todo[t])
    BY <1>3, <1>4, AsideStack
  <2>2. QED BY <1>4, <2>1, AsideKeepsWalk
<1>5. CASE CloseClosed(t, k)
  BY <1>4, <1>5 DEF CloseClosed
<1>6. CASE InitTimerSkips(t, k)
  BY <1>4, <1>6 DEF InitTimerSkips
<1>7. CASE StopSkips(t, k)
  <2>1. /\ Runs(t, "stop", k) /\ UNCHANGED <<made, origin, sig>>
        /\ todo' = [todo EXCEPT ![t] = Without(t, k)]
    BY <1>7 DEF StopSkips
  <2>2. /\ \A n : InStack("stop", n, Without(t, k)) => InStack("stop", n, todo[t])
        /\ \A n : InStack("resume", n, Without(t, k))
                     <=> InStack("resume", n, todo[t])
    BY <2>1, WithoutStack
  <2>3. PICK u \in Caller : Walk(u)
    BY DEF WalkInv
  <2>4. QED BY <2>1, <2>2, <2>3, StepKeepsWalk
<1>8. CASE ResumeSkips(t, k)
  <2>1. /\ Runs(t, "resume", k) /\ UNCHANGED <<made, origin, sig>>
        /\ ~ sig[k].stop /\ todo' = [todo EXCEPT ![t] = Without(t, k)]
    BY <1>8 DEF ResumeSkips
  <2>2. /\ \A o, n : InStack(o, n, Without(t, k)) => InStack(o, n, todo[t])
        /\ \A n : InStack("resume", n, todo[t])
                     => n = k \/ InStack("resume", n, Without(t, k))
    BY <2>1, WithoutStack
  <2>3. PICK u \in Caller : Walk(u)
    BY DEF WalkInv
  <2>4. QED BY <2>1, <2>2, <2>3, StepKeepsWalk
<1>9. CASE CloseOpen(t, k)
  <2> DEFINE f == Call("seal", {k}, Head(todo[t]).flag)
             s == <<f>> \o Without(t, k)
  <2>1. /\ Runs(t, "close", k) /\ UNCHANGED <<made, origin>>
        /\ todo' = [todo EXCEPT ![t] = s]
    BY <1>9 DEF CloseOpen
  <2>2. Head(todo[t]).flag \in BOOLEAN
    BY <2>1, WithoutStack DEF Frame
  <2>3. f \in Frame /\ f.op = "seal"
    BY <1>2, <2>2 DEF FrameOp
  <2> HIDE DEF f
  <2>4. \A n \in Node :
            /\ InStack("stop", n, s) <=> InStack("stop", n, todo[t])
            /\ InStack("resume", n, s) <=> InStack("resume", n, todo[t])
    BY <2>1, <2>3, AsideStack
  <2> HIDE DEF s
  <2>5. sig' = [sig EXCEPT ![k] = [sig[k] EXCEPT !.closed = TRUE,
                                     !.sealing = TRUE, !.stop = FALSE]]
    BY <1>1, <1>9 DEF CloseOpen
  <2>6. sig'[k] = [sig[k] EXCEPT !.closed = TRUE, !.sealing = TRUE,
                                 !.stop = FALSE]
        /\ \A n \in Node : n # k => sig'[n] = sig[n]
    BY <2>5, SigAt
  <2>7. sig'[k].closed /\ ~ sig'[k].stop /\ sig'[k].children = sig[k].children
    BY <1>1, <2>6 DEF State
  <2>8. QED BY <2>1, <2>4, <2>6, <2>7, AsideKeepsWalk
<1>10. CASE Unlink(t, k)
  <2> DEFINE p == Head(todo[t]).up
  <2>1. /\ Runs(t, "unlink", k) /\ UNCHANGED <<made, origin>>
        /\ todo' = [todo EXCEPT ![t] = Tail(todo[t])]
        /\ (sig' = sig \/ sig' = [sig EXCEPT ![p].children = @ \ {k}])
    BY <1>10 DEF Unlink
  <2> HIDE DEF p
  <2>2. \A n \in Node :
            /\ InStack("stop", n, Tail(todo[t])) <=> InStack("stop", n, todo[t])
            /\ InStack("resume", n, Tail(todo[t]))
                  <=> InStack("resume", n, todo[t])
    BY <1>3, <2>1, AsideStack
  <2>3. \A n \in Node : /\ sig'[n].stop = sig[n].stop
                        /\ sig'[n].closed = sig[n].closed
                        /\ sig'[n].children \subseteq sig[n].children
    BY <1>1, <2>1 DEF State
  <2>4. QED BY <2>1, <2>2, <2>3, AsideKeepsWalk
<1>11. CASE InitTimer(t, k)
  <2> DEFINE f == Call("initParent", {k}, FALSE)
             s == <<f>> \o Without(t, k)
  <2>1. /\ Runs(t, "initTimer", k) /\ UNCHANGED <<made, origin, sig>>
        /\ todo' = [todo EXCEPT ![t] = s]
    BY <1>11 DEF InitTimer
  <2>2. f \in Frame /\ f.op = "initParent"
    BY <1>2 DEF FrameOp
  <2> HIDE DEF f
  <2>3. \A n \in Node :
            /\ InStack("stop", n, s) <=> InStack("stop", n, todo[t])
            /\ InStack("resume", n, s) <=> InStack("resume", n, todo[t])
    BY <2>1, <2>2, AsideStack
  <2> HIDE DEF s
  <2>4. QED BY <2>1, <2>3, AsideKeepsWalk
<1>12. CASE InitParent(t, k)
  <2> DEFINE p == IF sig[k].parent = NoNode THEN k ELSE sig[k].parent
             f == Call("initTimer", {p}, FALSE)
             s == IF sig[k].parent = NoNode THEN Tail(todo[t])
                  ELSE <<f>> \o Tail(todo[t])
  <2>1. /\ Runs(t, "initParent", k) /\ UNCHANGED <<made, origin, sig>>
        /\ todo' = [todo EXCEPT ![t] = s]
    BY <1>12 DEF InitParent
  <2>2. f \in Frame /\ f.op = "initTimer"
    <3>1. p \in Node
      BY <1>1
    <3>2. "initTimer" \in FrameOp /\ FALSE \in BOOLEAN
      BY DEF FrameOp
    <3> HIDE DEF p
    <3>3. QED BY <1>2, <3>1, <3>2
  <2> HIDE DEF f
  <2>3. s \in {Tail(todo[t]), <<f>> \o Tail(todo[t])}
    OBVIOUS
  <2> HIDE DEF s
  <2>4. \A n \in Node :
            /\ InStack("stop", n, s) <=> InStack("stop", n, todo[t])
            /\ InStack("resume", n, s) <=> InStack("resume", n, todo[t])
    BY <2>1, <2>2, <2>3, AsideStack
  <2>5. QED BY <2>1, <2>4, AsideKeepsWalk
<1>13. QED
  BY <1>0, <1>5, <1>6, <1>7, <1>8, <1>9, <1>10, <1>11, <1>12,
     SealWalk, StopWalk, ResumeWalk

LEMMA TimersWalk ==
    ASSUME TypeOK, TreeInv, CloseInv, WalkInv, NEW n \in made, Timers(n)
    PROVE  WalkInv'
<1> USE DEF treeVars
<1>0. n \in Thread /\ n \in Node /\ {n} \in SUBSET Node
  BY DEF Thread, TypeOK
<1>1. UNCHANGED <<made, origin, sig>>
  BY DEF Timers, Elapse, TaskStarts, TaskFires, TaskChecks
<1>2. CASE todo' = todo
  BY <1>1, <1>2, QuietKeepsWalk
<1>3. CASE TaskChecks(n) /\ todo' # todo
  <2> DEFINE f == Call("close", {n}, TRUE)
  <2>1. f \in Frame /\ f.op = "close"
    <3>1. "close" \in FrameOp /\ TRUE \in BOOLEAN
      BY DEF FrameOp
    <3>2. QED BY <1>0, <3>1, CallType
  <2>2. /\ todo[n] = <<>>
        /\ \/ todo' = [todo EXCEPT ![n] = <<>>]
           \/ todo' = [todo EXCEPT ![n] = <<f>>]
    BY <1>3 DEF TaskChecks
  <2> HIDE DEF f
  <2>3. todo' = [todo EXCEPT ![n] = <<f>>]
    BY <1>0, <1>3, <2>2 DEF TypeOK
  <2>4. QED BY <1>0, <1>1, <2>1, <2>2, <2>3, BeginsWalk
<1>4. QED BY <1>2, <1>3 DEF Timers, Elapse, TaskStarts, TaskFires

LEMMA WaitersWalk ==
    ASSUME TypeOK, TreeInv, CloseInv, WalkInv,
           (\E w \in Coro : Waits(w)) \/ Produce
    PROVE  WalkInv'
<1> USE DEF treeVars
<1>1. UNCHANGED <<made, origin, todo>>
  BY DEF Waits, GetWaiter, Submit, CloserRead, GetStopWaiter, Deliver, Produce
<1>2. sig \in [Node -> State] /\ on \in [Coro -> Node]
  BY DEF TypeOK
<1> DEFINE Same == \A n \in Node : /\ sig'[n].stop = sig[n].stop
                                   /\ sig'[n].closed = sig[n].closed
                                   /\ sig'[n].children = sig[n].children
<1>3. ASSUME NEW w \in Coro, NEW q,
             \/ sig' = [sig EXCEPT ![on[w]] = [sig[on[w]] EXCEPT !.waiters = q]]
             \/ sig' = [sig EXCEPT ![on[w]] =
                              [sig[on[w]] EXCEPT !.stopWaiters = q]]
      PROVE  Same
  <2>1. \A n \in Node : n # on[w] => sig'[n] = sig[n]
    BY <1>2, <1>3
  <2>2. /\ on[w] \in Node /\ sig[on[w]] \in State
    BY <1>2
  <2>3. \/ sig'[on[w]] = [sig[on[w]] EXCEPT !.waiters = q]
        \/ sig'[on[w]] = [sig[on[w]] EXCEPT !.stopWaiters = q]
    BY <1>2, <1>3, <2>2
  <2>4. /\ sig'[on[w]].stop = sig[on[w]].stop
        /\ sig'[on[w]].closed = sig[on[w]].closed
        /\ sig'[on[w]].children = sig[on[w]].children
    BY <2>2, <2>3 DEF State
  <2>5. QED BY <2>1, <2>4
<1>4. ASSUME NEW w \in Coro,
             \/ sig' = sig
             \/ sig' = [sig EXCEPT ![on[w]].waiters = @ \cup {w}]
             \/ sig' = [sig EXCEPT ![on[w]].waiters = @ \ {w}]
             \/ sig' = [sig EXCEPT ![on[w]].stopWaiters = @ \cup {w}]
      PROVE  Same
  <2>1. CASE sig' = sig
    BY <2>1
  <2> HIDE DEF Same
  <2>2. CASE sig' = [sig EXCEPT ![on[w]].waiters = @ \cup {w}]
    BY <2>2, <1>3
  <2>3. CASE sig' = [sig EXCEPT ![on[w]].waiters = @ \ {w}]
    BY <2>3, <1>3
  <2>4. CASE sig' = [sig EXCEPT ![on[w]].stopWaiters = @ \cup {w}]
    BY <2>4, <1>3
  <2>5. QED BY <1>4, <2>1, <2>2, <2>3, <2>4
<1>5. Same
  <2>1. CASE \E w \in Coro : Waits(w)
    <3>1. PICK w \in Coro : Waits(w)
      BY <2>1
    <3>2. \/ sig' = sig
          \/ sig' = [sig EXCEPT ![on[w]].waiters = @ \cup {w}]
          \/ sig' = [sig EXCEPT ![on[w]].waiters = @ \ {w}]
          \/ sig' = [sig EXCEPT ![on[w]].stopWaiters = @ \cup {w}]
      BY <3>1 DEF Waits, GetWaiter, Submit, CloserRead, GetStopWaiter, Deliver
    <3>3. QED BY <3>2, <1>4
  <2>2. CASE Produce
    <3>1. \/ sig' = sig
          \/ \E w \in Coro : sig' = [sig EXCEPT ![on[w]].waiters = @ \ {w}]
      BY <2>2 DEF Produce
    <3>2. QED BY <3>1, <1>4
  <2>3. QED BY <2>1, <2>2
<1>6. QED BY <1>1, <1>5, QuietKeepsWalk

LEMMA NextWalk ==
    ASSUME TypeOK, TreeInv, CloseInv, WalkInv, [Next]_vars PROVE WalkInv'
<1> USE DEF treeVars
<1>1. CASE UNCHANGED vars
  BY <1>1, QuietKeepsWalk DEF vars
<1>2. ASSUME NEW w \in Coro, NEW n \in made, NEW k \in Kinds, Enter(w, n, k)
      PROVE  WalkInv'
  <2> DEFINE f == Call("initTimer", {n}, FALSE)
  <2>1. f \in Frame /\ f.op = "initTimer"
    <3>1. "initTimer" \in FrameOp /\ FALSE \in BOOLEAN /\ {n} \in SUBSET Node
      BY DEF FrameOp, TypeOK
    <3>2. QED BY <3>1, CallType
  <2>2. /\ todo[w] = <<>> /\ todo' = [todo EXCEPT ![w] = <<f>>]
        /\ UNCHANGED <<made, origin, sig>> /\ w \in Thread
    BY <1>2 DEF Enter, Thread
  <2> HIDE DEF f
  <2>3. QED BY <2>1, <2>2, BeginsWalk
<1>3. QED
  BY <1>1, <1>2, CallsWalk, WorksWalk, TimersWalk, WaitersWalk DEF Next

\* stop and resume reach the whole tree: with one caller that stops and resumes,
\* at the root (OneStopper), whatever is created and closed meanwhile, no closer is left
\* stopped under a running one once no call is under way.
THEOREM NoStoppedUnderRunningEver ==
    OneStopper /\ Spec => []NoStoppedUnderRunning
<1>1. OneStopper /\ Init => WalkInv
  BY InitWalk
<1>2. TypeOK /\ TreeInv /\ CloseInv /\ WalkInv /\ [Next]_vars => WalkInv'
  BY NextWalk
<1>3. TypeOK /\ WalkInv => NoStoppedUnderRunning
  <2> SUFFICES ASSUME TypeOK, WalkInv, \A t \in Thread : todo[t] = <<>>,
                      NEW n \in made \ {Root}, sig[n].stop
               PROVE  sig[origin[n]].stop \/ sig[origin[n]].closed
    BY DEF NoStoppedUnderRunning
  <2>1. PICK u \in Caller : Walk(u)
    BY DEF WalkInv
  <2>2. u \in Thread
    BY DEF Thread
  <2>3. ~ InStack("resume", n, todo[u])
    BY <2>2 DEF InStack
  <2>4. QED BY <2>1, <2>3 DEF Walk, Under
<1>4. QED
  BY <1>1, <1>2, <1>3, TypeCorrect, TreeCorrect, CloseCorrect, PTL DEF Spec
=============================================================================
