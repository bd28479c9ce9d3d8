------------------------- MODULE AsyncBlockerManager -------------------------
(***************************************************************************)
(* AsyncBlockerManager and AsyncBlocker (async_locker.cpp).  The owner of  *)
(* a blocker calls wait_blocker now and then; lock asks a batch of the     *)
(* blockers to block, and returns when they have, or have not answered in  *)
(* time, so that their owners stay in wait_blocker until unlock.           *)
(***************************************************************************)
EXTENDS Integers, FiniteSets

CONSTANTS
    Owner,      \* the coroutines that add blockers
    Locker,     \* the coroutines that call lock
    Priority,   \* the priorities blockers are added with
    Target,     \* m_conf.target_batch
    MinBatch,   \* m_conf.min_batch
    MaxId,      \* bound: how many blockers are added
    MaxRounds,  \* bound: how often lock is called
    Cancels,    \* whether the closers of lock and add_blocker may be closed
    Leaves      \* whether the closers of wait_blocker may be closed

\* Configure::validate.
ASSUME BlockerAssumption ==
    /\ Target \in Int /\ MinBatch \in Nat \ {0}
    /\ Target > 0 => Target >= MinBatch
    /\ Priority \subseteq Int /\ MaxId \in Nat /\ MaxRounds \in Nat
    /\ Cancels \in BOOLEAN /\ Leaves \in BOOLEAN

Id == 0 .. MaxId - 1
Round == 1 .. MaxRounds
None == -1

VARIABLES
    block,      \* m_block of each blocker
    blocked,    \* m_blocked of each blocker
    request,    \* the token in each blocker's m_request_chan
    response,   \* the token in each blocker's m_response_chan
    blockers,   \* the blockers in m_blockers
    epoch, prio, valid,  \* m_epoch, m_priority and m_valid of each of them
    requests,   \* m_blocker_requests: the blockers to come, by id
    nextId, nextEpoch,
    locked,     \* m_locked
    ready,      \* the token in m_ready_ch
    thrown,     \* whether chan_must_write has thrown in add_blocker
    owner,      \* where each owner is
    mine,       \* the id of each owner's blocker
    locker,     \* where each locker is
    round,      \* which call of lock each locker is in
    rounds,     \* how often lock was called
    closed,     \* the calls of lock whose closer is closed
    batch, idx, seen,   \* batch, the loop index and n_blocked of the lock call
    task        \* where the tasks of each call of lock are, by blocker

handshake == <<block, blocked, request, response>>
list == <<blockers, epoch, prio, valid, requests, nextId, nextEpoch>>
lockers == <<locker, round, rounds, closed, batch, idx, seen>>

vars == <<handshake, list, locked, ready, thrown, owner, mine, lockers, task>>

OwnerPC == {"out", "queued", "own", "check", "read"}
LockerPC == {"idle", "try", "ready", "tasks", "sync1", "read1", "extra",
             "sync2", "read2", "held"}
TaskPC == {"none", "start", "sync", "read", "undo"}

\* Types: the state keeps its types; ids are given out in order, the owner of
\* each is one coroutine, and only a call of lock that goes on is in the middle
\* of one.
TypeOK ==
    /\ block \in [Id -> BOOLEAN] /\ blocked \in [Id -> BOOLEAN]
    /\ request \in [Id -> BOOLEAN] /\ response \in [Id -> BOOLEAN]
    /\ blockers \subseteq 0 .. nextId - 1
    /\ requests \subseteq (0 .. nextId - 1) \ blockers
    /\ epoch \in [Id -> Nat]
    /\ prio \in [Id -> Priority]
    /\ valid \in [Id -> BOOLEAN]
    /\ nextId \in 0 .. MaxId /\ nextEpoch \in Nat
    /\ locked \in BOOLEAN /\ ready \in BOOLEAN /\ thrown \in BOOLEAN
    /\ owner \in [Owner -> OwnerPC]
    /\ mine \in [Owner -> Id \cup {None}]
    /\ locker \in [Locker -> LockerPC]
    /\ round \in [Locker -> Round \cup {0}]
    /\ rounds \in Nat
    /\ closed \subseteq Round
    /\ batch \in Nat /\ idx \in Nat /\ seen \in Nat
    /\ task \in [Round -> [Id -> TaskPC]]

Init ==
    /\ block = [b \in Id |-> FALSE] /\ blocked = [b \in Id |-> FALSE]
    /\ request = [b \in Id |-> FALSE] /\ response = [b \in Id |-> FALSE]
    /\ blockers = {} /\ requests = {}
    /\ epoch = [b \in Id |-> 0]
    /\ prio \in [Id -> Priority]
    /\ valid = [b \in Id |-> TRUE]
    /\ nextId = 0 /\ nextEpoch = 0
    /\ locked = FALSE /\ ready = FALSE /\ thrown = FALSE
    /\ owner = [c \in Owner |-> "out"] /\ mine = [c \in Owner |-> None]
    /\ locker = [l \in Locker |-> "idle"] /\ round = [l \in Locker |-> 0]
    /\ rounds = 0 /\ closed = {}
    /\ batch = 0 /\ idx = 0 /\ seen = 0
    /\ task = [r \in Round |-> [b \in Id |-> "none"]]

Larger(a, b) == IF a > b THEN a ELSE b

\* _calc_batch, for s blockers.
Batch(s) ==
    IF Target > s THEN Larger(MinBatch, s)
    ELSE IF Target > 0 THEN Target
    ELSE IF Target < 0 THEN Larger(Target + s, MinBatch)
    ELSE MinBatch

Size == Cardinality(blockers)

GoOwner(c, p) == owner' = [owner EXCEPT ![c] = p]
Forget(c) == GoOwner(c, "out") /\ mine' = [mine EXCEPT ![c] = None]
GoLocker(l, p) == locker' = [locker EXCEPT ![l] = p]
LeaveLock(l) ==   \* the locals of the call are gone
    GoLocker(l, "idle") /\ round' = [round EXCEPT ![l] = 0]
ForgetBatch == batch' = 0 /\ idx' = 0 /\ seen' = 0
GoTask(r, b, p) == task' = [task EXCEPT ![r][b] = p]

\* request_block and request_unblock: only a change writes to m_request_chan,
\* which has room for one token.
Asks(b, v) ==
    /\ block' = [block EXCEPT ![b] = v]
    /\ request' = [request EXCEPT ![b] = @ \/ block[b] # v]

----------------------------------------------------------------------------
(* The owners of the blockers. *)

\* m_next_id++.
NewId == nextId < MaxId /\ nextId' = nextId + 1

\* Mutation: off by one.
CompletesLate == Batch(Size) > Size /\ Batch(Size + 1) < Size + 1

\* One more blocker makes the batch complete.
Completes == Batch(Size) > Size /\ Batch(Size + 1) <= Size + 1

\* add_blocker when the manager is not locked.  The blocker that makes the batch
\* complete writes to m_ready_ch; if the token of an earlier time is still there
\* chan_must_write throws, with the blocker in the list already.
Add(c) ==
    /\ owner[c] = "out"
    /\ ~ locked
    /\ NewId
    /\ nextEpoch' = nextEpoch + 1
    /\ blockers' = blockers \cup {nextId}
    /\ epoch' = [epoch EXCEPT ![nextId] = nextEpoch]
    /\ ready' = (ready \/ Completes)
    /\ thrown' = (thrown \/ (Completes /\ ready))
    /\ IF Completes /\ ready
         THEN UNCHANGED <<owner, mine>>
         ELSE /\ GoOwner(c, "own")
              /\ mine' = [mine EXCEPT ![c] = nextId]
    /\ UNCHANGED <<handshake, prio, valid, requests, locked, lockers, task>>

\* add_blocker when it is locked.
Queue(c) ==
    /\ owner[c] = "out"
    /\ locked
    /\ NewId
    /\ requests' = requests \cup {nextId}
    /\ mine' = [mine EXCEPT ![c] = nextId]
    /\ GoOwner(c, "queued")
    /\ UNCHANGED <<handshake, blockers, epoch, prio, valid, nextEpoch, locked,
                   ready, thrown, lockers, task>>

\* chan_read gives it the blocker unlock has made.
Receive(c) ==
    /\ owner[c] = "queued"
    /\ mine[c] \in blockers
    /\ GoOwner(c, "own")
    /\ UNCHANGED <<handshake, list, locked, ready, thrown, mine, lockers, task>>

\* Mutation: the request stays in the list.
CancelAddKeeps(c) ==
    /\ Cancels
    /\ owner[c] = "queued"
    /\ mine[c] \in requests
    /\ Forget(c)
    /\ UNCHANGED <<handshake, list, locked, ready, thrown, lockers, task>>

\* chan_read is cancelled: the request is taken back.  If unlock has served it
\* in the meantime the blocker is taken all the same, which is Receive.
CancelAdd(c) ==
    /\ Cancels
    /\ owner[c] = "queued"
    /\ mine[c] \in requests
    /\ requests' = requests \ {mine[c]}
    /\ Forget(c)
    /\ UNCHANGED <<handshake, blockers, epoch, prio, valid, nextId, nextEpoch,
                   locked, ready, thrown, lockers, task>>

\* remove_blocker, of a blocker whose add_blocker has returned.
Remove(c) ==
    /\ owner[c] = "own"
    /\ IF locked
         THEN valid' = [valid EXCEPT ![mine[c]] = FALSE] /\ UNCHANGED blockers
         ELSE blockers' = blockers \ {mine[c]} /\ UNCHANGED valid
    /\ Forget(c)
    /\ UNCHANGED <<handshake, epoch, prio, requests, nextId, nextEpoch, locked,
                   ready, thrown, lockers, task>>

\* wait_blocker.
Wait(c) ==
    /\ owner[c] = "own"
    /\ GoOwner(c, "check")
    /\ UNCHANGED <<handshake, list, locked, ready, thrown, mine, lockers, task>>

\* Mutation: a blocker that is blocked does not look at m_block again.
CheckForgets(c) ==
    LET b == mine[c]
    IN  /\ owner[c] = "check"
        /\ blocked' = [blocked EXCEPT ![b] = ~ @]
        /\ response' = [response EXCEPT ![b] = TRUE]
        /\ GoOwner(c, IF blocked[b] THEN "own" ELSE "read")
        /\ UNCHANGED <<block, request, list, locked, ready, thrown, mine, lockers, task>>

\* await_unblock, one look at m_block: the blocker follows what is asked of it,
\* and its owner waits as long as it is blocked.
Check(c) ==
    LET b == mine[c]
    IN  /\ owner[c] = "check"
        /\ blocked' = [blocked EXCEPT ![b] = block[b]]
        /\ response' = [response EXCEPT ![b] = @ \/ (blocked[b] # block[b])]
        /\ GoOwner(c, IF block[b] THEN "read" ELSE "own")
        /\ UNCHANGED <<block, request, list, locked, ready, thrown, mine, lockers, task>>

\* chan_read of m_request_chan.
ReadRequest(c) ==
    /\ owner[c] = "read"
    /\ request[mine[c]]
    /\ request' = [request EXCEPT ![mine[c]] = FALSE]
    /\ GoOwner(c, "check")
    /\ UNCHANGED <<block, blocked, response, list, locked, ready, thrown, mine,
                   lockers, task>>

\* It is cancelled, before or after it has taken the token, and the blocker stays
\* blocked.
Leave(c) ==
    /\ Leaves
    /\ owner[c] = "read"
    /\ \E keep \in BOOLEAN : request' = [request EXCEPT ![mine[c]] = @ /\ keep]
    /\ GoOwner(c, "own")
    /\ UNCHANGED <<block, blocked, response, list, locked, ready, thrown, mine,
                   lockers, task>>

----------------------------------------------------------------------------
(* lock and unlock. *)

\* lock, which throws "Already locked." when it is.
Call(l) ==
    /\ locker[l] = "idle"
    /\ rounds < MaxRounds
    /\ ~ locked
    /\ rounds' = rounds + 1
    /\ round' = [round EXCEPT ![l] = rounds + 1]
    /\ GoLocker(l, "try")
    /\ UNCHANGED <<handshake, list, locked, ready, thrown, owner, mine, closed,
                   batch, idx, seen, task>>

Enough == Batch(Size) <= Size

\* The locked section: too few blockers, so lock waits for m_ready_ch.
NotReady(l) ==
    /\ locker[l] = "try"
    /\ ~ Enough
    /\ GoLocker(l, "ready")
    /\ UNCHANGED <<handshake, list, locked, ready, thrown, owner, mine, round,
                   rounds, closed, batch, idx, seen, task>>

\* Another call was faster: "Already locked."
Already(l) ==
    /\ locker[l] = "try"
    /\ Enough
    /\ locked
    /\ LeaveLock(l)
    /\ UNCHANGED <<handshake, list, locked, ready, thrown, owner, mine,
                   rounds, closed, batch, idx, seen, task>>

\* The order in which the blockers are asked.
Before(a, b) ==
    \/ epoch[a] < epoch[b]
    \/ /\ epoch[a] = epoch[b]
       /\ prio[a] > prio[b] \/ (prio[a] = prio[b] /\ a < b)

MaxEpoch(b) == \A a \in blockers : epoch[a] <= epoch[b]

\* The blockers that get a task: all before the latest epoch, and of that one as
\* many as the batch.
Selects ==
    {b \in blockers :
        MaxEpoch(b) => Cardinality({a \in blockers : MaxEpoch(a) /\ Before(a, b)}) < Batch(Size)}

\* The blocker at index i of selects, which holds every blocker in that order.
At(i) == CHOOSE b \in blockers : Cardinality({a \in blockers : Before(a, b)}) = i

\* The locked section: m_locked is set, and nothing changes m_blockers any more
\* until unlock.  It adds a task for each of Selects and starts them.
Take(l) ==
    /\ locker[l] = "try"
    /\ Enough
    /\ ~ locked
    /\ locked' = TRUE
    /\ batch' = Batch(Size)
    /\ task' = [task EXCEPT ![round[l]] =
                    [b \in Id |-> IF b \in Selects THEN "start" ELSE "none"]]
    /\ GoLocker(l, "tasks")
    /\ UNCHANGED <<handshake, list, ready, thrown, owner, mine, round, rounds,
                   closed, idx, seen>>

\* chan_read of m_ready_ch; if the closer is closed the token is lost.
Ready(l) ==
    /\ locker[l] = "ready"
    /\ ready
    /\ ready' = FALSE
    /\ IF round[l] \in closed THEN LeaveLock(l) ELSE GoLocker(l, "try") /\ UNCHANGED round
    /\ UNCHANGED <<handshake, list, locked, thrown, owner, mine, rounds,
                   closed, batch, idx, seen, task>>

\* request_block, the start of a task.
TaskStarts(r, b) ==
    /\ task[r][b] = "start"
    /\ Asks(b, TRUE)
    /\ GoTask(r, b, "sync")
    /\ UNCHANGED <<blocked, response, list, locked, ready, thrown, owner, mine, lockers>>

\* sync, one look at m_block and m_blocked.
TaskSyncs(r, b) ==
    /\ task[r][b] = "sync"
    /\ GoTask(r, b, IF block[b] = blocked[b] THEN "none" ELSE "read")
    /\ UNCHANGED <<handshake, list, locked, ready, thrown, owner, mine, lockers>>

\* chan_read of m_response_chan; if the closer of lock is closed it has read for
\* nothing.
TaskReads(r, b) ==
    /\ task[r][b] = "read"
    /\ response[b]
    /\ response' = [response EXCEPT ![b] = FALSE]
    /\ GoTask(r, b, IF r \in closed THEN "undo" ELSE "sync")
    /\ UNCHANGED <<block, blocked, request, list, locked, ready, thrown, owner,
                   mine, lockers>>

\* block_timeout has passed, or the closer of lock is closed.
TaskTimesOut(r, b) ==
    /\ task[r][b] = "read"
    /\ GoTask(r, b, "undo")
    /\ UNCHANGED <<handshake, list, locked, ready, thrown, owner, mine, lockers>>

\* Mutation: a blocker that did not answer in time is left asked to block.
TaskGivesUp(r, b) ==
    /\ task[r][b] = "undo"
    /\ GoTask(r, b, "none")
    /\ UNCHANGED <<handshake, list, locked, ready, thrown, owner, mine, lockers>>

\* request_unblock, the end of a task that was not answered.
TaskUndoes(r, b) ==
    /\ task[r][b] = "undo"
    /\ Asks(b, FALSE)
    /\ GoTask(r, b, "none")
    /\ UNCHANGED <<blocked, response, list, locked, ready, thrown, owner, mine, lockers>>

\* tasks.await returns.
TasksDone(l) ==
    /\ locker[l] = "tasks"
    /\ \A b \in Id : task[round[l]][b] = "none"
    /\ idx' = 0
    /\ GoLocker(l, "sync1")
    /\ UNCHANGED <<handshake, list, locked, ready, thrown, owner, mine, round,
                   rounds, closed, batch, seen, task>>

\* What follows when a loop over selects, in its pass p, has done with one.
Step(l, p) ==
    IF idx + 1 < Size
      THEN idx' = idx + 1 /\ GoLocker(l, p) /\ UNCHANGED seen
      ELSE /\ idx' = 0
           /\ seen' = 0
           /\ GoLocker(l, CASE p = "sync1" -> "extra"
                            [] p = "extra" -> "sync2"
                            [] p = "sync2" -> "held")

\* Mutation: the second pass does not wait.
SyncSkips(l) ==
    /\ locker[l] \in {"sync1", "sync2"}
    /\ \/ /\ block[At(idx)] = blocked[At(idx)] \/ locker[l] = "sync2"
          /\ Step(l, locker[l])
       \/ /\ block[At(idx)] # blocked[At(idx)] /\ locker[l] = "sync1"
          /\ GoLocker(l, "read1")
          /\ UNCHANGED <<idx, seen>>
    /\ UNCHANGED <<handshake, list, locked, ready, thrown, owner, mine, round,
                   rounds, closed, batch, task>>

\* sync with the closer of lock, one look.
Sync(l) ==
    /\ locker[l] \in {"sync1", "sync2"}
    /\ IF block[At(idx)] = blocked[At(idx)]
         THEN Step(l, locker[l])
         ELSE /\ GoLocker(l, IF locker[l] = "sync1" THEN "read1" ELSE "read2")
              /\ UNCHANGED <<idx, seen>>
    /\ UNCHANGED <<handshake, list, locked, ready, thrown, owner, mine, round,
                   rounds, closed, batch, task>>

\* chan_read of m_response_chan; if the closer is closed it has read for nothing,
\* and CancelLock follows.
SyncReads(l) ==
    /\ locker[l] \in {"read1", "read2"}
    /\ response[At(idx)]
    /\ response' = [response EXCEPT ![At(idx)] = FALSE]
    /\ GoLocker(l, IF round[l] \in closed THEN locker[l]
                   ELSE IF locker[l] = "read1" THEN "sync1" ELSE "sync2")
    /\ UNCHANGED <<block, blocked, request, list, locked, ready, thrown, owner,
                   mine, round, rounds, closed, batch, idx, seen, task>>

\* Mutation: one more than the batch stays blocked.
ExtraOne(l) ==
    LET b == At(idx)
    IN  /\ locker[l] = "extra"
        /\ IF blocked[b] /\ seen > batch
             THEN Asks(b, FALSE)
             ELSE UNCHANGED <<block, request>>
        /\ \/ /\ idx + 1 < Size /\ idx' = idx + 1
              /\ seen' = seen + (IF blocked[b] THEN 1 ELSE 0)
              /\ UNCHANGED locker
           \/ idx + 1 >= Size /\ Step(l, "extra")
        /\ UNCHANGED <<blocked, response, list, locked, ready, thrown, owner,
                       mine, round, rounds, closed, batch, task>>

\* Those that have blocked beyond the batch are asked to unblock.
Extra(l) ==
    LET b == At(idx)
    IN  /\ locker[l] = "extra"
        /\ IF blocked[b] /\ seen >= batch
             THEN Asks(b, FALSE)
             ELSE UNCHANGED <<block, request>>
        /\ \/ /\ idx + 1 < Size /\ idx' = idx + 1
              /\ seen' = seen + (IF blocked[b] THEN 1 ELSE 0)
              /\ UNCHANGED locker
           \/ idx + 1 >= Size /\ Step(l, "extra")
        /\ UNCHANGED <<blocked, response, list, locked, ready, thrown, owner,
                       mine, round, rounds, closed, batch, task>>

----------------------------------------------------------------------------
\* m_request_chan of each blocker, when those that were asked to block are asked
\* to unblock.
Told == [b \in Id |-> request[b] \/ (b \in blockers /\ block[b])]

\* unlock: every blocker that was asked to block is asked to unblock and comes
\* later next time, the removed ones are erased, and the queued ones are made.
Unlocks ==
    LET stay == {b \in blockers : valid[b]}
        place(b) == Cardinality({a \in requests : a < b})
    IN  /\ locked' = FALSE
        /\ block' = [b \in Id |-> IF b \in blockers THEN FALSE ELSE block[b]]
        /\ request' = Told
        /\ epoch' = [b \in Id |->
                        IF b \in requests THEN nextEpoch + place(b)
                        ELSE IF b \in blockers /\ block[b] THEN epoch[b] + 1
                        ELSE epoch[b]]
        /\ blockers' = stay \cup requests
        /\ nextEpoch' = nextEpoch + Cardinality(requests)
        /\ requests' = {}
        /\ UNCHANGED <<blocked, response, prio, valid, nextId>>

\* unlock, by the coroutine that lock has returned to.
Unlock(l) ==
    /\ locker[l] = "held"
    /\ Unlocks
    /\ LeaveLock(l)
    /\ ForgetBatch
    /\ UNCHANGED <<ready, thrown, owner, mine, rounds, closed, task>>

Waiting == {"tasks", "read1", "read2"}

\* The closer of lock is closed; if lock does not wait then, the wait that follows
\* tells it, as if it were closed there.
CloseLock(l) ==
    /\ Cancels
    /\ locker[l] \in Waiting \cup {"ready"}
    /\ closed' = closed \cup {round[l]}
    /\ round[l] \notin closed
    /\ UNCHANGED <<handshake, list, locked, ready, thrown, owner, mine, locker,
                   round, rounds, batch, idx, seen, task>>

\* The wait for m_ready_ch is cancelled.
CancelReady(l) ==
    /\ locker[l] = "ready"
    /\ round[l] \in closed
    /\ LeaveLock(l)
    /\ UNCHANGED <<handshake, list, locked, ready, thrown, owner, mine, rounds,
                   closed, batch, idx, seen, task>>

\* Mutation: a lock that is cancelled does not unlock.
CancelLockHolds(l) ==
    /\ locker[l] \in Waiting
    /\ round[l] \in closed
    /\ LeaveLock(l)
    /\ ForgetBatch
    /\ UNCHANGED <<handshake, list, locked, ready, thrown, owner, mine, rounds,
                   closed, task>>

\* A wait of the locked part is cancelled: it unlocks and throws.  The tasks that
\* were started go on.
CancelLock(l) ==
    /\ locker[l] \in Waiting
    /\ round[l] \in closed
    /\ Unlocks
    /\ LeaveLock(l)
    /\ ForgetBatch
    /\ UNCHANGED <<ready, thrown, owner, mine, rounds, closed, task>>

----------------------------------------------------------------------------
OwnerWaits(c) == Receive(c) \/ Check(c) \/ ReadRequest(c)

OwnerCalls(c) ==
    Add(c) \/ Queue(c) \/ CancelAdd(c) \/ Remove(c) \/ Wait(c) \/ Leave(c)

LockerWaits(l) ==
    \/ NotReady(l) \/ Already(l) \/ Take(l) \/ Ready(l) \/ TasksDone(l)
    \/ Sync(l) \/ SyncReads(l) \/ Extra(l) \/ CancelReady(l) \/ CancelLock(l)

LockerCalls(l) == Call(l) \/ Unlock(l) \/ CloseLock(l)

TaskSteps(r, b) ==
    \/ TaskStarts(r, b) \/ TaskSyncs(r, b) \/ TaskReads(r, b)
    \/ TaskTimesOut(r, b) \/ TaskUndoes(r, b)

Next ==
    \/ \E c \in Owner : OwnerWaits(c) \/ OwnerCalls(c)
    \/ \E l \in Locker : LockerWaits(l) \/ LockerCalls(l)
    \/ \E r \in Round, b \in Id : TaskSteps(r, b)

Spec == Init /\ [][Next]_vars

\* The executor runs every ready coroutine and the timers of the tasks fire; an
\* owner need not call wait_blocker again, nor a locker unlock.
FairSpec ==
    /\ Spec
    /\ \A c \in Owner : WF_vars(OwnerWaits(c))
    /\ \A l \in Locker : WF_vars(LockerWaits(l))
    /\ \A r \in Round, b \in Id : WF_vars(TaskSteps(r, b))

----------------------------------------------------------------------------
Held == \E l \in Locker : locker[l] = "held"

\* While lock is held no more than a batch of blockers are blocked, of all that
\* collect_locked_blocker looks at.
BatchHeld == Held => Cardinality({b \in blockers : blocked[b]}) <= batch

\* While lock is held the set of blocked blockers is settled: none is on its way
\* in or out, whatever the timeouts of the tasks have undone.
Settled == Held => \A b \in blockers : block[b] = blocked[b]

\* The owner of a blocked blocker does not get past wait_blocker, and no blocker
\* comes or goes, while lock is held.
HeldStill ==
    [][Held /\ Held' => UNCHANGED <<blockers, blocked>>]_vars

\* A call of add_blocker that waits is served or still in the list, so a
\* cancelled one finds itself in either; and the list holds nobody else's.
NoLimbo ==
    /\ \A c \in Owner : owner[c] = "queued" => mine[c] \in requests \cup blockers
    /\ \A b \in requests : \E c \in Owner : owner[c] = "queued" /\ mine[c] = b

\* Only one call of lock is past its locked section, and m_locked says so.
OneLocked ==
    /\ locked <=> \E l \in Locker : locker[l] \notin {"idle", "try", "ready"}
    /\ \A l, k \in Locker :
        {locker[l], locker[k]} \cap {"idle", "try", "ready"} = {} => l = k

\* A single locker that waits for the batch finds the token when it is complete.
NoLostReady ==
    \A l \in Locker : locker[l] = "ready" /\ Enough => ready

\* Some owner has left wait_blocker while its blocker is blocked.
Absent ==
    \E b \in blockers :
        blocked[b] /\ \A c \in Owner : mine[c] = b => owner[c] \notin {"check", "read"}

\* A call of lock comes to an end, or waits for blockers to be added; only an owner
\* that has left its blocker blocked can keep it waiting.
LockReturns ==
    \A l \in Locker :
        locker[l] \notin {"idle", "held", "ready"}
            ~> (locker[l] \in {"idle", "held", "ready"} \/ Absent)

\* The owner of a blocker that is not locked any more gets past wait_blocker.
OwnerReturns ==
    \A c \in Owner : owner[c] \in {"check", "read"} ~> (owner[c] = "own" \/ locked)

\* Nobody is left waiting, on either side of the lock.
CallsReturn == LockReturns /\ OwnerReturns
=============================================================================
