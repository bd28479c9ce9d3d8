----------------------------- MODULE PostBuffer -----------------------------
(***************************************************************************)
(* The media path of the element: for each track of a subscription two     *)
(* coroutines (CfgoSrc::_post_buffer) read the RTP and the RTCP messages   *)
(* through async_retry and push them to an appsrc each, until the track or *)
(* m_close_ch is closed; _loop sends EOS when they have ended.  Track is   *)
(* the track they share.  In the other initial states an application reads *)
(* the track alone, with the public await_msg.                             *)
(***************************************************************************)
EXTENDS Track

CONSTANTS
    App,        \* the reader that is the application
    Tries,      \* what read-tries may be: -1, 0 or more
    Limit,      \* how many buffers fill an appsrc
    PosterMsgs  \* bound: how many messages arrive while posters run

ASSUME PostAssumption ==
    /\ App \in Reader
    /\ Limit \in Nat \ {0}
    /\ PosterMsgs \in Nat

VARIABLES
    active,     \* the coroutines that run: the posters, or the application
    stage,      \* where each is in _post_buffer, outside of await_msg
    mclose,     \* m_close_ch
    queued,     \* how many buffers each appsrc holds
    need,       \* the posters whose need_data channel holds its token
    loop        \* _loop: "run", or "ended" once it has sent EOS and called stop()

postVars == <<active, stage, mclose, queued, need, loop>>
vars == <<trackVars, postVars>>

Poster == Reader \ {App}

\* "failed": ended by an error, which cfgo_error_submit reports, or without an
\* owner.  "done": ended otherwise.
Stage == {"off", "read", "await", "delay", "post", "enough", "hungry", "done", "failed"}

TypeOK ==
    /\ TrackTypeOK
    /\ active \subseteq Reader
    /\ stage \in [Reader -> Stage]
    /\ mclose \in {"open", "stopped", "closed"}
    /\ queued \in [Reader -> 0..MaxMsgs]
    /\ need \subseteq Poster
    /\ loop \in {"run", "ended"}

Init ==
    /\ TrackInit
    /\ active \in {Poster, {App}}
    /\ stage = [r \in Reader |-> IF r \in active THEN "read" ELSE "off"]
    /\ mclose = "open"
    /\ queued = [r \in Reader |-> 0]
    /\ need = {}
    /\ loop = "run"

At(r, from, to) == stage[r] = from /\ stage' = [stage EXCEPT ![r] = to]

----------------------------------------------------------------------------
(* Reading *)

\* async_retry gives every attempt a new child of m_close_ch, with the timeout.
Attempt(r) ==
    /\ At(r, "read", "await")
    /\ Begin(r)
    /\ closer' = [closer EXCEPT ![r] = mclose]
    /\ UNCHANGED <<active, mclose, queued, need, loop>>

\* The timeout of the attempt ends; its time does not run while it is stopped.
ReadTimeout(r) ==
    /\ stage[r] = "await" /\ closer[r] = "open"
    /\ closer' = [closer EXCEPT ![r] = "timeout"]
    /\ UNCHANGED <<cacheVars, lifeVars, token, lost, readVars, postVars>>

\* The closer of the attempt is gone.
Forget(r) ==
    /\ Goto(r, "idle")
    /\ got' = [got EXCEPT ![r] = 0]
    /\ closer' = [closer EXCEPT ![r] = "open"]

\* The attempt is over.  One that timed out is reported when no try is left, and
\* followed by the delay of the next try otherwise.
Answer(r) ==
    /\ r \in Poster /\ stage[r] = "await" /\ pc[r] = "ret"
    /\ \/ got[r] # 0 /\ At(r, "await", IF mclose = "closed" THEN "done" ELSE "post")
       \/ got[r] = 0 /\ closer[r] # "timeout" /\ At(r, "await", "done")
       \/ /\ got[r] = 0 /\ closer[r] = "timeout"
          /\ \E tries \in Tries :
                At(r, "await", IF tries # 0 THEN "delay"
                               ELSE IF mclose = "closed" THEN "done" ELSE "failed")
    /\ Forget(r)
    /\ UNCHANGED <<cacheVars, lifeVars, token, lost, held, active, mclose, queued, need, loop>>

\* After the delay async_retry does not turn back: it returns the empty result,
\* and _post_buffer takes it for the end of the track.
Delayed(r) ==
    /\ At(r, "delay", "done")
    /\ mclose # "stopped"
    /\ UNCHANGED <<trackVars, active, mclose, queued, need, loop>>

\* The application looks at its answer and calls again, with a new closer.
AppReads ==
    \/ /\ stage[App] = "read" /\ At(App, "read", "await")
       /\ Begin(App)
       /\ \E c \in {"open", "closed"} : closer' = [closer EXCEPT ![App] = c]
       /\ UNCHANGED <<active, mclose, queued, need, loop>>
    \/ /\ pc[App] = "ret" /\ At(App, "await", "read")
       /\ Forget(App)
       /\ UNCHANGED <<cacheVars, lifeVars, token, lost, held, active, mclose, queued, need, loop>>

\* The owner of the application's closer stops, resumes or closes it.
MoveCloser ==
    /\ stage[App] = "await" /\ ~ Closed(App)
    /\ \E c \in {"open", "stopped", "closed"} \ {closer[App]} :
          closer' = [closer EXCEPT ![App] = c]
    /\ UNCHANGED <<cacheVars, lifeVars, token, lost, readVars, postVars>>

----------------------------------------------------------------------------
(* Posting *)

\* There is no owner, or no buffer can be mapped; the message is too large for
\* its buffer and is skipped; or the buffer is pushed.  appsrc says enough, on
\* this thread, when it is full already; the poster reads that only afterwards.
Post(r) ==
    /\ stage[r] = "post"
    /\ \/ At(r, "post", "failed") /\ UNCHANGED queued
       \/ At(r, "post", "read") /\ UNCHANGED queued
       \/ /\ At(r, "post", IF queued[r] >= Limit THEN "enough" ELSE "read")
          /\ queued' = [queued EXCEPT ![r] = @ + 1]
    /\ UNCHANGED <<trackVars, active, mclose, need, loop>>

Enough(r) ==
    /\ At(r, "enough", "hungry")
    /\ UNCHANGED <<trackVars, active, mclose, queued, need, loop>>

\* chan_read_or_throw: the exception ends the poster as its return does.
Fed(r) ==
    /\ stage[r] = "hungry"
    /\ \/ mclose = "open" /\ r \in need /\ At(r, "hungry", "read") /\ need' = need \ {r}
       \/ mclose = "closed" /\ At(r, "hungry", "done") /\ UNCHANGED need
    /\ UNCHANGED <<trackVars, active, mclose, queued, loop>>

\* Mutation: the need is told only to a poster that waits for it.
DrainUnheard(r) ==
    /\ queued[r] > 0
    /\ queued' = [queued EXCEPT ![r] = @ - 1]
    /\ need' = IF queued[r] = 1 /\ stage[r] = "hungry" THEN need \cup {r} ELSE need
    /\ UNCHANGED <<trackVars, active, stage, mclose, loop>>

\* Downstream takes a buffer; an appsrc that is empty asks for data.
Drain(r) ==
    /\ queued[r] > 0
    /\ queued' = [queued EXCEPT ![r] = @ - 1]
    /\ need' = IF queued[r] = 1 THEN need \cup {r} ELSE need
    /\ UNCHANGED <<trackVars, active, stage, mclose, loop>>

----------------------------------------------------------------------------
(* The rest of the element *)

\* The children of m_close_ch follow it.
SetClose(c) ==
    /\ mclose' = c
    /\ closer' = [r \in Reader |->
                     IF stage[r] = "await" /\ ~ Closed(r) THEN c ELSE closer[r]]

Pause == mclose = "open" /\ SetClose("stopped") /\ UNCHANGED loop
Resume == mclose = "stopped" /\ SetClose("open") /\ UNCHANGED loop
Stop == mclose # "closed" /\ SetClose("closed") /\ UNCHANGED loop

\* tasks.await() returns when all have ended and throws when m_close_ch is closed;
\* then EOS goes to the owner and the source stops itself.
LoopEnds ==
    /\ loop = "run"
    /\ (\A r \in Poster : stage[r] \in {"done", "failed"}) \/ mclose = "closed"
    /\ loop' = "ended"
    /\ SetClose("closed")

Element ==
    /\ active = Poster
    /\ Pause \/ Resume \/ Stop \/ LoopEnds
    /\ UNCHANGED <<cacheVars, lifeVars, token, lost, readVars, active, stage, queued, need>>

\* A step of the coroutine of poster r.
PosterStep(r) ==
    \/ Attempt(r) \/ Answer(r) \/ Delayed(r) \/ Post(r) \/ Enough(r) \/ Fed(r)
    \/ Await(r) /\ UNCHANGED postVars

Next ==
    \/ \E r \in Poster : PosterStep(r) \/ ReadTimeout(r) \/ Drain(r)
    \/ AppReads \/ MoveCloser \/ (Await(App) /\ UNCHANGED postVars)
    \/ Rtc /\ (active = Poster => arrived' <= PosterMsgs) /\ UNCHANGED postVars
    \/ Element

Spec == Init /\ [][Next]_vars

\* The coroutines and the callbacks run; the pipeline takes what is queued.
\* Nothing says that a message, a timeout, a pause or a resume comes.
Fairness ==
    /\ \A r \in Poster : WF_vars(PosterStep(r)) /\ WF_vars(Drain(r))
    /\ WF_vars((OnTrackOpen \/ OnTrackClosed) /\ UNCHANGED postVars)
    /\ WF_vars(Element /\ LoopEnds)

FairSpec == Spec /\ Fairness

----------------------------------------------------------------------------
(* Properties *)

\* The messages reader r asks for.
Mine(r) ==
    (IF Kinds[r] = "rtcp" THEN {} ELSE rtp) \cup (IF Kinds[r] = "rtp" THEN {} ELSE rtcp)

\* Safety: a reader who is the only one never waits with a message for it in
\* the cache and no token to wake it, nor beside a closed track with nothing to
\* tell it (m_msg_notify, m_closed_notify), unless a select that was cancelled
\* with the token in its hand has lost that.
NoLostWakeup ==
    \A r \in active :
        pc[r] = "wait" /\ active = {r} =>
            /\ Mine(r) # {} => "msg" \in token
            /\ life = "closed" => lost \/ "closed" \in news \cup token

\* Liveness: when the track is closed both posters end, though one token tells
\* them, and EOS is sent; they end too when m_close_ch is closed, wherever they
\* wait.
PostersEnd ==
    active = Poster /\ (life = "closed" \/ mclose = "closed") ~>
        \/ loop = "ended" /\ \A r \in Poster : stage[r] \in {"done", "failed"}
        \/ mclose = "stopped"

\* Liveness: a poster that stopped because its appsrc was full goes on when that
\* has run dry, even if it ran dry before the poster began to wait.
HungryGoesOn ==
    \A r \in Poster : stage[r] = "hungry" ~> stage[r] # "hungry" \/ mclose = "stopped"
=============================================================================
