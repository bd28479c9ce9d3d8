# Verification of cfgo (conference-go-client)

cfgo is a C++20 client of a conference server: it signs in over socket.io,
subscribes to tracks of an SFU, receives RTP over WebRTC and feeds it into
GStreamer pipelines. Its coroutines run on an asio executor with several
threads, on top of a small library of asynchronous primitives that the project
wrote itself. These modules model that program, in TLA+; TLC checks them on small
instances and TLAPS proves the theorems listed below for all instances.

## 1. Inventory

Paths are relative to the repository root. `PROJECT.json` lists every component with
its modules, says exactly what of it is modelled, and maps each definition to lines.

| Component | Source | State | Operations | Talks to | Here |
|---|---|---|---|---|---|
| CloseSignal | `src/src/async.cpp`, `src/src/public/cfgo/async.hpp` | a tree of closers, each with a mutex, flags (closed, timeout, stop), a timer, waiters, stop waiters, children | close, stop, resume, set_timeout, create_child, await, select, select_or_throw | everything that waits uses it | modelled |
| AsyncMutex | the same files | busy flag, list of waiting channels | accquire, release | Client | modelled |
| AsyncTasks (All, Any, Some) | `async.hpp` | list of tasks, data channel, child closer | add_task, await | AsyncBlockerManager, applications | modelled |
| async_retry | `async.hpp` | tries left | one call | CfgoSrc | modelled, as CfgoSrc uses it |
| AsyncBlocker, AsyncBlockerManager | `src/src/async_locker.cpp` | blockers with epoch, priority and validity, queued requests, lock flag, ready token | lock, unlock, add_blocker, remove_blocker, wait_blocker | applications that batch work | modelled |
| Track | `src/src/impl/track.cpp` | RTP and RTCP ring buffers, a shared sequence number, a notify token, open and closed tokens | on_track_msg, receive_msg, await_msg, await_open_or_closed | Client, CfgoSrc | partly |
| CfgoSrc | `src/src/gst/cfgosrc.cpp` | run state, closer, sessions with channels and processors, need and enough tokens, mode | start, pause, resume, stop, switch_mode, attach, detach, the loop, the posters | Client, Track, CloseSignal, GstCfgoSrc | partly |
| GstCfgoSrc | `src/src/gst/gstcfgosrc.cpp` | properties, the current task, ghost pads | set_property, change_state, prepare, dispose | CfgoSrc, C API | partly |
| Handle tables of the C API | `src/src/capi.cpp` | per type a map from handle to object and one from handle to reference count | wrap, ref, unref | C callers, GstCfgoSrc | modelled |
| Client | `src/src/impl/client.cpp` | socket, peer, message callbacks, subscribe lock; per call its channels and caches | subscribe, unsubscribe, custom messages, callbacks, acks | Track, AsyncMutex | partly |
| Pipeline, AsyncLink | `src/src/impl/pipeline.cpp`, `src/src/impl/link.cpp` | pads, pending and made links, waiters | link_async, await_pad, pad-added handler, await of a link | applications | partly |
| CoEvent | `src/src/coevent.cpp` | a countdown, one waiting handler, an exception, a timer | trigger, await | its own tests | no |
| AppSink | `src/src/gst/appsink.cpp` | ring buffer of samples with sequence numbers | on_sample, pull | applications | no |
| Leaves | `log.cpp`, `defer.hpp`, `cothread.hpp`, `gst/error.cpp`, `gst/buffer_pool.cpp`, `sio_helper.cpp`, configuration | nothing that outlives a call, or pure I/O | | | no |

How they interact: the closer tree is the control plane (a parent's close, stop
and timeout reach whatever waits below it); channels of asiochan, with room for
zero or one token, are the wake-ups; mutexes guard the state of one object each;
libdatachannel, socket.io and GStreamer call back on threads of their own.

What is hard in it:

* wake-ups are tokens, and state is examined before or after the token is taken,
  so lost and stale wake-ups are the first thing to look for;
* one operation on a tree, a batch or a pad is many locked sections, with other
  threads in between;
* cancellation leaves work behind: tasks that go on after their group has thrown,
  channels that stay in lists, callbacks that stay registered, subscriptions that
  the server keeps;
* timeouts race with the answers they wait for, and late answers meet the next call;
* sequence numbers and reference counts reach their limits;
* an element is torn down while coroutines and GStreamer threads still use it.

What makes each component correct is said with its module in section 3; the hazards,
each at its line with the properties that cover it, are in `PROJECT.json`.

## 2. Plan

In order, most important first. A module named `MC...` gives another one
its instances for TLC; a module named `...Proofs` holds its theorems.

1. `CloseSignal` with `CloseSignalProofs` (everything else waits through it).
2. `AsyncMutex` with the abstract `Lock` it implements, and `AsyncMutexProofs`.
3. `AsyncTasks` with `AsyncTasksProofs`: groups of tasks on a child closer.
4. `AsyncBlockerManager` with `AsyncBlockerManagerProofs`: the batch lock, built on
   groups of tasks.
5. `Track`, and `PostBuffer` that composes it with the posters of `CfgoSrc` and
   async_retry; `PostBufferProofs`.
6. `CfgoSrc` and `HandleTable`, and `GstCfgoSrc` that composes them with the element;
   `GstCfgoSrcProofs`.
7. `Client` with `ClientProofs`: the exchange with the server.
8. `Pipeline` with `PipelineProofs`: links that are made while pads appear.

These exist. What is left, in this order:

9. The request pads of `link_async` and the links of two elements in `Pipeline`.
10. `init` of `Client`, that is the signing in.
11. `CoEvent` (every awaiter returns once, with the outcome) and `AppSink` (the order of
    arrival as in `Track`, and the end of the stream after the last sample), small and
    by themselves.
12. The statistics of `Track`, if anything comes to depend on them.

## 3. Modules

All actions are sections that nobody can come between: what happens under a mutex,
or between two suspension points when the state is the coroutine's own. A
coroutine is a program counter; its suspension points are values of it. A closed
or written channel is a flag or a count. A `CONSTANT` whose comment begins with
"bound" limits an otherwise unbounded number of calls; nothing else is cut.
Definitions preceded by a comment that begins with "Mutation" are not part of a
model: each is the form a plausible mistake would give the definition after it,
and serves to show that a property can fail.

### CloseSignal

`async.cpp` 116–630, `async.hpp` 640–800: the tree of closers.

* `sig[n]` is a `CloseSignalState` with its flags, children and waiters, `tm[n]`
  its timeout, timer and timer_tasks; `made` and `origin` are the tree.
* One locked section is one action. The calls a section makes after it has
  unlocked (close on each child, remove_me on the parent, stop, resume and
  init_timer down the tree) are frames on the stack `todo` of the calling thread,
  and every other thread may run between two of them. `close` sets `m_closed`
  before the other flags, and those are read without the mutex, so the section is
  cut in two (`sealing`).
* `Enter` to `Deliver` are `await`, `select` and `select_or_throw` up to what they
  return in `res`.
* Time is not counted: `clock` says whether an expiry is in the past, and `Tick`
  makes it so at any moment. A timer that is moved or cancelled ends the
  timer_task that waits on it.

What makes it correct: nobody who waits misses the event (`NoLostWakeup`,
`ClosedReleases`), close reaches every child however late it was created
(`NoOrphan`), a stopped timeout does not run (`StopHoldsTimeout`) and one that runs
closes its closer (`TimeoutCloses`), stop does not outlive the parent's
(`NoStoppedUnderRunning`), and a closed closer stays as it was closed
(`CloseIsFinal`).

### AsyncMutex and Lock

`async.cpp` and `async.hpp`, class `AsyncMutex`. A task tries, lists a channel
of its own and reads it; `Release` writes to every listed channel. Each task has a
closer in one of four states, which others change at any moment: that is what
`CloseSignal` gives a single waiter. `Lock` is the abstract lock, and `AsyncMutex!L`
maps the holder and the tasks between call and return to it.

### AsyncTasks

`async.hpp` 1001–1480: the three classes and both versions of each. `AddTask`,
`Start` and `Join` are what a caller does, `TaskEnds`, `Deliver`, `WriteEnds` and
`WriteCancelled` the coroutine of a task, and `Collect`, `CollectCancel`, `Signal`,
`CloseGroup` and `Return` the first await. What distinguishes the classes is
`AllVerdict`, `AnyVerdict` and `SomeVerdict`. A result is the task it is of.

What makes it correct: the answer is true of the tasks (`VerdictSound`) and final
(`AnswerFinal`, by proof only), a collector that waits has something to wait for (`NothingLost`),
await returns and the coroutines of the tasks drain (`GroupEnds`).

### AsyncBlockerManager

`async_locker.cpp` 30–580: the handshake of a blocker (`block` and `blocked`, with a
token each way), the list of blockers, the queued requests and the lock. The owner
of a blocker is in `owner`, a caller of lock in `locker`; `lock` is `Call`, `NotReady`,
`Take`, the tasks, and two passes `sync1`, `sync2` with `extra` between. Its tasks are
`task[r]`, of the r-th call: a lock that is cancelled leaves them running, as
`AsyncTasks` allows. The locals of a call are reset when it returns. The owners of
closers are `CloseLock`, `CancelAdd` and `Leave`.

What makes it correct: while lock is held the blocked blockers are at most the batch
(`BatchHeld`), settled (`Settled`) and stay so (`HeldStill`); the lock is held once
and is not leaked by a cancellation (`OneLocked`); a request to add is served, taken
back or in the list (`NoLimbo`); a waiting lock finds the token of a complete batch
(`NoLostReady`); lock and wait_blocker return (`CallsReturn`).

### Track and PostBuffer

`impl/track.cpp`: `Track` is the two ring buffers with their common numbering, the
tokens `m_msg_notify`, `m_open_notify` and `m_closed_notify`, and `await_msg` of any
number of readers. A message is its place in the order of arrival; `seq` is the number
the code keeps beside it, which `OnTrackMsg` moves down when the counter is at `MaxSeq`,
with arithmetic that wraps as `uint32_t` does. `Begin` to `Last` are the suspension
points of `await_msg` and of `await_open_or_closed`, `Cancelled` and `Dropped` what
select does when the closer is closed, before or after it has read.

`PostBuffer` composes it with `_post_buffer` of `gst/cfgosrc.cpp`: an RTP and an RTCP
poster read the same track through async_retry, each attempt with a closer of its own
(`Attempt`, `ReadTimeout`, `Answer`, `Delayed`), push to their appsrc (`Post`, `Enough`,
`Fed`, `Drain`), and follow `m_close_ch` through pause, resume and stop. In other initial
states an application reads the track with closers it moves itself. A closer is one of
four states, as in `AsyncMutex`.

What makes it correct: messages come out in the order of arrival across both buffers
(`ArrivalOrder`), a token that is put back finds its channel empty (`OneToken`: the write
throws otherwise), a single reader is never left waiting beside a message or a closed
track (`NoLostWakeup`), one token ends both posters (`PostersEnd`), and a poster whose
appsrc was full goes on (`HungryGoesOn`).

What the model has, since the code does it:

* A select whose closer is closed while it holds the token of `m_closed_notify` drops
  it (`lost`); a later await_msg with a new closer on that closed track has only
  `isClosed` to go by, and waits if it has looked already.
* RTP and RTCP readers share one token for messages: one may take it for the other, and
  the other then wakes at the next message only. `NoLostWakeup` is of a reader that is
  alone.
* async_retry leaves its loop at the end of the first turn that did not succeed
  (`async.hpp` 995), so that -1, which the property of the element documents as "forever"
  (`gstcfgosrc.cpp` 394), means one read: a poster whose read times out ends after the
  delay, as if the track had ended.

### HandleTable, CfgoSrc and GstCfgoSrc

`HandleTable` (`capi.cpp`) is one table of handles with its counts. `CfgoSrc`
(`gst/cfgosrc.cpp`) is what a source does: its life (`st`, `owned`), the loop that
subscribes, makes the session and stops at the end (`Moves`, `Subscribed`,
`CreateSession`, `Posted`, `LoopEnds`), and the pads of rtpbin and of the processors,
with a channel for each stream and a ghost pad on the element (`Pads`). The closer of a
source is that of its client. `GstCfgoSrc` (`gst/gstcfgosrc.cpp`) composes both with the
element: `SetClient`, `SetPattern`, `SetMode`, `Plays`, `Pauses` and `Finalize` come in any
order, against the coroutines, the pads, and an application that refs and unrefs.
`Prepare` is `_gst_cfgosrc_prepare`, whole, with the destruction of what it replaces.
What subscribe and the posters do is left to `Client` and `PostBuffer`: here they end,
or do not.

What makes it correct: the ghost pads are those of the mode and of a source that is
attached (`GhostsMatchMode`), a paused element is quiet (`PausedIsQuiet`), no source that
uses its owner outlives it (`OwnerLives`), counts are the holders (`HandleCounts`), and a
source whose closer is closed ends and is destroyed when nobody has it (`ClosedEnds`).

What the model has, since the code does it:

* A property that replaces a source while its loop runs neither detaches nor stops
  it: it runs on beside the new one, which is attached but not started, and its end takes
  away the callbacks that the new one has installed on appsrc. `PausedIsQuiet` and `OwnerLives` are claimed
  until then only (`replaced`).
* The second track of a subscription finds the pads of rtpsrc linked: its session
  fails, and its pad of rtpbin stays requested.
* The removal of a pad of rtpbin leaves its channel and processor behind.
* A handle whose count is 0 stays in the map of counts (`capi.cpp` 67), and may be
  ref'd again there, without an object.

Seen on the way, and not in the model: `rtpsrc_need_data` casts a weak holder to a
shared one (`cfgosrc.cpp` 730), and prepare gives a running source its `read_timeout` through
`set_sub_timeout` (`gstcfgosrc.cpp` 498).

### Client

`impl/client.cpp`: the calls that talk to the server under `m_a_mutex` (`holder`, with the
promise of `Lock`), each in the steps between its waits: `Locks`, the request, `ReadsAck`,
`ReadsSubscribed`, `ReadsSdp`, `Flush`, `ReadsState`, `ReadsTracks`, `BindsTracks`; shorter for
unsubscribe and a custom message with ack. A message without ack (`SendNoAck`) is one step, at
any moment: it does not take the mutex, and waits for nothing. `loc` holds the locals of the subscribe that runs,
which the callbacks share: handlers, what its channels hold, cached candidates, states,
and tracks. `Hears` and `Delivers` are the thread of the socket, `PeerChanges` and
`TrackComes` the callbacks of the peer connection, `Answers` the receiving side of a
custom message. The server (`Serves`) answers each request, in any order, late or never;
the socket closes at any moment; a closer is closed at any wait (`Canceled`).

What makes it correct: a candidate is added once, after the remote description,
and none is forgotten (`CandidatesOnce`), a subscription is made of its own answers
(`OwnAnswers`), a custom message is taken for acked at its own ack, or at that of a later
message without ack (`CustomAcked`), no answer is lost (`NoAnswerLost`), the server keeps no subscription of a call that
failed, as far as that can know it (`NoOrphan`), and whoever is cancelled or cut off ends
(`StoppedEnds`).

What the model has, since the code does it:

* A second subscribe on a connected peer hears of no change of state, and waits for its
  closer. unsubscribe neither connects nor listens for the closing of the socket.
* The closing of the socket during a custom message closes the closer that the
  user passed, or the client's own.
* An ack of a custom message always carries the id 0, so that of those with an ack only
  the one that has the first id can be acked; a cancelled one leaves its callback in the list.
* Messages without ack take their ids from the same counter and are acked too, since
  `on_custom_message` hands every receiver an ack function and does not look at the
  message's `ack` (827-845). So while the message with the id 0 waits for its ack, that of
  a message without ack sent meanwhile is taken for it: `send_custom_message_with_ack` returns
  although nobody has had its message. `MayAck` says which acks these are, and `CustomAcked`
  that there are no others: never the ack of another message with ack.
* Ids are taken to be fewer than 2^32; the counter (`m_custom_msg_next_id`) is not made to wrap.
* The rtc tracks of a subscription are given to the wrong entries: swapped with two, and
  with three one is given none (`TrackIsSet`, below).

Message callbacks are called under the mutex of their list; one that registers or
removes a callback would wait for itself. No callback of the library does.

### Pipeline

`impl/pipeline.cpp`, `impl/link.cpp`: `PadAdded`, `Store`, `Wake` and `LinkPad` are the
handler of pad-added with its three locked sections; `LinkChecks`, `LinkLooks` and
`LinkPuts` are `link_async`, which looks for the pads outside the mutex; `WaitsLinked`,
`IsTold`, `Cancels` and `Removes` the await of a link; `Finds`, `FindsStatic`, `PutsWaiter`,
`ReadsPad` and `GetCancels` are `await_pad`. A name is a sequence of words, so that
`Matches` is `match_pad_name` with its numbers and "%u".

What makes it correct: a link that counts as made is linked and not pending
(`LinkTables`), one that is cancelled is nowhere (`CanceledIsGone`), a pad that is
handled while someone is listed for it is not missed (`PadSeen`), and an await whose link
is ready ends (`ReadyEnds`).

What the model has, since the code does it:

* A pad that comes between the look-up and the listing is missed (`blind`), by a link
  and by a waiter.
* Two calls of link_async of one name can both pass the check for an existing link.
* `CleanPending` takes out the first pending link that fits the name: with names that
  overlap, that of someone else. With two such linkers `CanceledIsGone` and `PadSeen`
  fail, and `LinkTables` too unless their sources are the same, so the linkers of the
  run have distinct sources, and the theorems say so (`SourcesApart`).
* A link that has both pads when its await begins is returned although gst_pad_link
  has failed for it.
* `await_pad` can be given an excluded pad through its waiter.
* A second pad that fits the name makes `set_src_pad` throw out of the handler
  (`dead`): `pipeline.cpp` 142 calls it without a check, and `link.cpp` 70 says "Unable to set
  src pad, it has been set."

Not in the model: the watch of the bus is given an empty weak holder, so that
messages of the bus never reach the pipeline.

## 4. Runs

`X.cfg` goes with the module named; each run is complete within its bounds.

| Run | Module, cfg | Instance | Shows |
|---|---|---|---|
| close_cascade | MCCloseSignal, CloseCascade | 3 closers, 2 threads and 1 coroutine, 3 calls each | create and close at the same time leave no orphan, nor a stopped child under a running parent; no lost wake-up in await, select and select_or_throw |
| close_live | MCCloseSignal, CloseLive | 2 closers, timeouts 1 and 2, all operations but changing a timeout that runs, 2 calls each | waiters return, timeouts close, and stop holds a timeout that resume gives back, whether the timer exists, runs or has expired; closing is final, however two closes, the timer, stop and resume race |
| mutex | MCAsyncMutex, Mutex | 3 tasks, 2 calls each | no lost wake-up, the refinement of `Lock` (with it, mutual exclusion), and a free mutex is taken |
| task_group | MCAsyncTasks, TaskGroup | up to 3 tasks, 2 awaiters, every kind, every target 0..4 | the answer is true of the tasks, none is lost; await returns and the coroutines of tasks drain |
| blockers | MCAsyncBlockerManager, Blockers | 2 owners, 2 blockers in all, batch of 1, 1 locker with 2 calls | the batch that lock promises, with one blocker beyond it, or one that is queued meanwhile; lock and wait_blocker return |
| blockers_cancel | MCAsyncBlockerManager, BlockersCancel | 1 owner, 2 lockers with 2 calls in all, every wait cancelled | one lock at a time, none leaked; no request forgotten |
| media | MCPostBuffer, Media | buffers of 2, numbers up to 2, 2 messages for the two posters or 4 for one application, an appsrc full with 1 buffer, tries -1 and 0 | order over a renumbering, tokens, no lost wake-up; posters end and go on |
| element | MCGstCfgoSrc, Element | 2 handles, 2 sources, modes raw and parse, 2 streams, 2 channels, 1 reference of the application to each handle | ghost pads, pause, the life of sources and handles; sources end |
| client | MCClient, Client | 2 calls, 2 tracks, 1 candidate | candidates, own answers, custom messages acked by what may ack them, none lost, no orphan; calls end |
| pipeline | MCPipeline, Pipeline | 3 pads, 2 linkers that want one pad, 1 await_pad | the tables of links, cancellation, pads that come at any time; awaits end |

`CHECK_DEADLOCK FALSE` is said everywhere: once the bounded calls are made and the
bounded tasks have ended the system rests, and a stopped closer that nobody resumes
is a legal end. What must not rest is stated by the liveness properties.

Why the bounds are enough: the hazards are between two threads on one object, or
one object and its child; the third closer, task or pad is there for those that
need an order among the others (a fork in the tree, a result that comes after the
answer, two linkers that want one pad). Twice is enough calls for whatever an earlier
call leaves behind (a token, a listed channel, a timer_task, a late answer, a replaced
source) to meet the next one. The largest number of `media` is 2, so that every third
message renumbers what is left in full, half-full and empty buffers. What two pads of one
name do to a link (`dead`) needs a fourth pad, which takes TLC beyond the time a
run should have, and is not reached.

Symmetry is used where closers, coroutines or owners are interchangeable, and never
with liveness.

### Fairness

Weak fairness of each step of a coroutine that is ready, and of each timer: asio runs
every handler that is posted, and the mutexes are held for a bounded time. No
fairness is assumed of what users do: close, stop, resume, adding a task, calling
wait_blocker, setting a property. `AsyncMutex` also assumes that a holder releases,
which its users do with `DEFER`; `AsyncTasks` that the body of a task ends, without
which no group could; `AsyncBlockerManager` that block_timeout is not zero, so that a task
ends (and a lock whose own closer is closed notices it). `PostBuffer` assumes that the
pipeline takes what is in an appsrc, and that libdatachannel calls onOpen and onClosed
once the track is open or closed; not that messages or timeouts come. `GstCfgoSrc`, `Client` and
`Pipeline` assume of their coroutines that while one can go on, one does, and of
the threads of GStreamer that a handler which has begun goes on; nothing of the network,
of the server, or of who closes closers. A
property that could fail because a closer is stopped and never resumed says so.
`LockReturns` says that only an owner that has left wait_blocker while its blocker is
blocked (`Absent`) can keep lock waiting: lock then waits until it comes back or the
closer of lock is closed.

### Disagreements

Each of these runs checks one property that the repository's own text states, and
finds it violated by what the code does. `PROJECT.json` quotes the lines.

| Run | Property | Instance | What happens |
|---|---|---|---|
| lost_timeout | TimeoutCloses | 1 closer, 1 thread, 1 coroutine, timeouts 1 and 2, with changes of a timeout that runs | changing a running timeout ends the only timer_task |
| tracks_unset | TrackIsSet | 2 calls, 3 tracks | the rtc track goes to an entry with another mid; the subscription counts as complete when one entry has none |

The models show others, for which no run is kept:

* `select_or_throw` that has read a value when a user closes its closer throws an error that
  says timeout (`async.hpp` 761; the test at `src/src/test/async.cpp` 187 has the other case).
* A cancelled Any throws the error of task 0 rather than that it was cancelled
  (`async.hpp` 1263; `src/src/test/async.cpp` 417).
* The tasks of a cancelled lock block blockers during the next one (`async_locker.cpp` 461 and
  500): `BatchHeld` fails there, and its run has no cancelled lock.
* Two lockers may wait for the one token of a batch (`async_locker.cpp` 415); `NoLostReady`
  is of a single locker.
* A batch that is complete, loses a blocker and is completed again finds its old token in
  `m_ready_ch` if no lock has taken it: `add_blocker` throws "Write chan failed. This should not
  happened." (`async_locker.cpp` 319, `async.hpp` 916), with the blocker in the list already and
  without an owner (`thrown`). `NoLostReady` is of a token that is missing, and holds then.
* A pad that comes between the look-up and the listing of a link or a waiter is missed
  (`pipeline.cpp` 584); `PadSeen` is of those that are listed.
* `await` can see `m_closed` before `m_is_timeout` and return true after a timeout
  (`async.cpp` 248), and a timer_task that has not begun to wait survives a stop and
  fires at resume (`async.cpp` 433).
* Those listed with the modules of section 3.

## 5. Theorems

For any sets of closers, threads, coroutines, tasks, owners, readers, sources and calls;
the constants are only assumed to be of their kind (`SignalAssumption`,
`MutexAssumption`, `TasksAssumption`, `BlockerAssumption`, `TrackAssumption`,
`PostAssumption`, `CfgoSrcAssumption`, `HandleAssumption`, `GstCfgoSrcAssumption`,
`ClientAssumption`, `PipelineAssumption`). A theorem with a further hypothesis names it in its
statement, before `Spec`: it is about who calls, never about what the code does, and the
instances of the runs satisfy it.

* `CloseSignalProofs`: `TypeCorrect`; `TreeCorrect`, `NoOrphanEver` and
  `OpenChildListedEver`. `NoOrphan` is not inductive: a closer that is open must be
  in its creator's list or on some stack even while the creator is open, since a
  close takes the list in one step, and the list may lose only closers that are
  closed. `TreeInv` adds that, and that a closed and sealed closer has an empty list.
  The lemmas about stacks say what pushing and popping a frame does to the set of
  calls that are pending; the rest is one step for each action. `OpenChildListed` is
  a part of it that is worth stating: no run repeats it.
  - `NoLostWakeupEver`. `WakeInv` says it of every coroutine: who waits is in the list of its
    closer, and the close or resume that empties this list has not been there. A step either
    leaves waiters and flags such that this stands (`KeepsWaiters`), or is the one section that
    empties a list, and then writes the token of everybody in it.
  - `CloseCorrect` and `CloseIsFinalEver`. `CloseInv` says that one thread at most is in the
    section of the close of a closer (frame "seal"), with nothing above it on its stack: so
    the second half of a close meets the flags its first half left, and no second close comes in
    between. It holds of a step and of its end together (`Final`), with one step for each action.
  - `StopHoldsTimeoutEver`, from `HoldInv`: every stop that is on a stack takes the timer along.
    Its hypothesis `TimersKept` is that nobody calls stop(false) nor changes a timeout that
    runs or under a stopped closer. It is how cfgo calls them (`cfgosrc.cpp` 649 stops with
    the default; the timeouts of `async.cpp` 48 and 56, `async.hpp` 963 and
    `async_locker.cpp` 460 are of a closer just made), and without it a stopped closer
    runs down the timeout by what the methods say.
  - `NoStoppedUnderRunningEver`, from `WalkInv`: what the walk of a stop still has to visit is
    below a stopped or closed closer, and what is stopped below a running one is still to be
    visited by the walk of a resume. Its hypothesis `OneStopper` is that one caller stops and
    resumes, and at the root: `CfgoSrc` does both under its mutex, on the closer it made
    (`cfgosrc.cpp` 649 and 659). With two callers a resume can overtake the walk of
    a stop, which then stops the children of a closer that runs; and who stops an inner
    closer alone wants it stopped under a running one.
* `AsyncMutexProofs`: types, mutual exclusion, no lost wake-up (`MutexInv` adds that
  whoever reads is listed, so that release writes to him), and that every step is a
  step of `Lock` or a stutter.
* `AsyncTasksProofs`: types; `GroupCorrect`, from which `VerdictSoundEver` and
  `NothingLostEver` follow; `AnswerFinalEver`. `GroupInv` ties the collector to the
  coroutines (`Stage`, `Results`) and says that what has been taken in so far leaves
  the group undecided (`Undecided`): with it the answer that one more result decides
  is true, and a group that waits has something to wait for. The counting lemmas are
  those of finite sets.
* `AsyncBlockerManagerProofs`: `OneLockedEver` (inductive once the lockers are typed) and
  `NoLimboEver`. `IdInv` adds what that rests on: an id is new when it is given, no two
  owners wait for the same one, and only an owner that has its blocker makes it
  invalid, so nothing can remove a blocker its owner has not been told of yet.
  Then the batch that lock holds: `SettledEver`, `BatchHeldEver` and `HeldStillEver`, as long as
  no lock is cancelled, and `NoLostReadyEver`, as long as one coroutine calls lock (without
  these `BatchHeld` and `NoLostReady` fail, section 4). The three passes of lock walk over
  the blockers in the order of their epochs and priorities, which is total
  (`BeforeOrder`), so that the index of a pass meets each blocker once (`AtRank`). `Pass`
  says what a pass leaves behind its index: that the blockers have answered, and in the second
  that those still asked to block are no more than it has counted, nor than a batch.
  Nothing disturbs that: only tasks and the lock ask for anything, tasks are over when the
  passes begin (`TasksOfLock`), and an owner that looks does what is asked.
  `NoLostReady` is inductive, because whatever the configuration says a batch is
  complete from min_batch blockers on (`BatchOf`).
* `PostBufferProofs`: `ArrivalOrderEver` and `OneTokenEver`. At a renumbering the messages
  numbered 0 have been dropped, so the numbers that are left are all at least the offset
  (`OffsetSound`): the subtraction does not wrap, keeps the order, and the counter stays
  above them. `TokenInv` adds that nothing says open or closed before it has happened, and
  that a reader holds a token only between the select and putting it back.
  `NoLostWakeupEver` from `WakeInv`: a reader who is alone and has looked in the cache
  (`Looked`) has a token for messages before it as soon as there is one it asks for
  (`Mine`), and once the track is closed the token that says so is in its channel, in a hand,
  or lost with a select that was cancelled (`ClosedKept`). Two more say what that order is
  for, and no run repeats them: `HandedOnceEver`, that a message goes to one reader, once, and
  `OldestFirstEver`, an action property, that it is the oldest in both buffers of those its
  reader asks for. `receive_msg` compares numbers, not arrivals: `OldestTaken` is where
  `ArrivalOrder` makes them the same.
* `GstCfgoSrcProofs`: `HandleCountsEver` (with the types of the counts); `TypeCorrect`,
  `OwnerLivesEver` and `PausedIsQuietEver` from `LifeInv`: until a property replaces a source,
  the element's source is the only one that is owned, it runs while the element runs,
  and its closer is not open while it is paused. `GhostsMatchModeEver` from `GhostInv`: each
  ghost pad is of a pad that some channel of its source still knows, channels know pads
  of their own source only, and a source that is not made is not owned. So a mode switch
  or a detachment, which go through the channels, reach every ghost pad.
* `ClientProofs`: all the safety properties of the client. `OwnAnswersEver` and
  `CustomAckedEver` from `OwnInv`: only the one who has the mutex is past it, acks in a
  channel are his, and a custom message which waits has an id that was given, and its callback
  or an ack it may have (`Acked`). Every ack is for the id 0. If the waiting message has it, no
  other with an ack does, for ids are given once; so any ack on its way, and any message that
  will be acked, is its own or was sent without ack after it (`FirstIs`). If it has
  another id, it is not acked at all.
  `NoAnswerLostEver` and `NoOrphanEver` from `SentInv`: a request of a call that is under way
  is its own, what the call expects has a handler and is on its way or in the channel
  (`Answered`); the ack of a subscribe comes after the server has had the request, so that
  the unsubscribe of a failed call cannot overtake it, and a call past its ack knows its
  id (`Subscribed`). `CandidatesOnceEver` from `CandInv`: a candidate is in one place, to
  be asked for, on its way, in the cache or added (`Once`), and the flush empties the
  cache for good once there is a description (`Staged`).
* `PipelineProofs`: `LinkTablesEver` and `CanceledIsGoneEver` from `LinksInv`, `PadSeenEver` with
  `SeenLinks` and `SeenGets`. The two table properties are not inductive together: a
  pending link must be listed once and its call must still go on or have been told of its link
  (`PendingFacts`), one that is made has both pads and has not been given up (`MadeFacts`),
  and the source of a link fits its name (`LinkFacts`), or two links could share the pads
  that one of them unlinks. All the actions of a call, and the handler when it finds a
  link, are shown to be one kind of step (`CallStep`), which keeps `LinksInv` and
  `SeenLinks`: it changes one link, keeps the pads of it, and lists it only with the pads
  that it has not seen. The lemmas on lists say what `RemoveAt` and `Append` leave of one
  without repetitions, and that `FindPending` finds when there is something to find.
  The hypothesis `SourcesApart` is on the names: no pad fits the sources of two links, and each
  link goes from one node to another. The lists are searched by the name of the
  source, so with names that overlap a call takes the link of someone else out of them; TLC
  finds each of the three properties violated then (section 3).

## 6. What is only model-checked

Liveness: `ClosedReleases`, `TimeoutCloses`, and the other leads-to properties and the fairness
they rest on; neither the prover nor its temporal backend reasons about them. Every
invariant and every action property that a passing run checks is also the statement of a
theorem.

## 7. What is not modelled

* `CoEvent` and `AppSink`: in the plan; nothing else in the system uses them.
* Of the components that are modelled partly: the statistics of a track with their
  callbacks; the setters and getters of numbers and caps in CfgoSrc and GstCfgoSrc;
  `init` of the client with the signing in, and `off_custom_message`; the
  request pads, the links of two elements, the bus and the running of a pipeline. They
  are on no path of the properties above, except that a link which asks for a request pad
  finds it as one that is there.
* Text: logs, reasons of closing, names of errors; user data of blockers; values of
  results and messages; JSON, SDP, RTP and caps.
* The helpers of coroutines, of socket.io and of GStreamer: adapters without a state
  of their own, or with a state that is the library's.
* Data races are modelled where a property depends on them (`m_closed` and
  `m_is_timeout`); `is_blocked` is taken to be atomic.
* Running out of memory, and what the libraries do beyond what `src/` relies on:
  asio runs what is posted, an asiochan of capacity one holds one token, and
  `try_write` to a full one does nothing.
* Lists that only grow (waiters of a long-lived closer or of a pipeline, channels of
  cancelled `accquire` calls): the models drop entries nobody reads.
