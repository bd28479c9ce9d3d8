------------------------------- MODULE Track -------------------------------
(***************************************************************************)
(* A track (impl/track.cpp): the RTP and the RTCP messages of one remote   *)
(* track are cached in two circular buffers, numbered together by m_seq,   *)
(* and await_msg hands them out.  A message is named by its place in the   *)
(* order of arrival, so the front of a buffer is the least name in it.     *)
(***************************************************************************)
EXTENDS Naturals, FiniteSets

CONSTANTS
    Reader,     \* the coroutines that call await_msg
    Kinds,      \* Kinds[r]: the MsgType reader r asks for
    Capacity,   \* cache_capicity
    MaxSeq,     \* the largest value of m_seq: 0xffffffff in the code
    MaxMsgs     \* bound: how many messages arrive

ASSUME TrackAssumption ==
    /\ Kinds \in [Reader -> {"rtp", "rtcp", "all"}]
    /\ Capacity \in Nat \ {0}
    /\ MaxSeq \in Nat \ {0}
    /\ MaxMsgs \in Nat

VARIABLES
    arrived,    \* how many messages have come
    rtp, rtcp,  \* m_rtp_cache, m_rtcp_cache: the messages they hold
    seq,        \* the number kept beside each message (0 once it is gone)
    mseq,       \* m_seq
    life,       \* what isOpen and isClosed of the rtc::Track say
    news,       \* the onOpen and onClosed callbacks still to come
    token,      \* the channels m_msg_notify, m_open_notify, m_closed_notify
                \* that hold their token
    lost,       \* history: a cancelled select has lost the token of onClosed
    closer,     \* the closer each reader passed
    pc,         \* where each reader is in await_msg
    held,       \* the token a reader has read
    got         \* what await_msg returns, 0 for nullptr

cacheVars == <<arrived, rtp, rtcp, seq, mseq>>
lifeVars == <<life, news>>
readVars == <<pc, held, got>>
trackVars == <<cacheVars, lifeVars, token, lost, closer, readVars>>

Msg == 1..MaxMsgs

Token == {"msg", "open", "closed"}

\* "check" .. "last": inside await_msg.  "gate": in the select of
\* await_open_or_closed.  "wait": in the select of the loop.  "gated", "woken":
\* the select has read held[r].  "ret": returned, the caller has not looked yet.
PC == {"idle", "check", "gate", "gated", "wait", "woken", "last", "ret"}

Closer == {"open", "stopped", "closed", "timeout"}

Closed(r) == closer[r] \in {"closed", "timeout"}

TrackTypeOK ==
    /\ arrived \in 0..MaxMsgs
    /\ rtp \subseteq 1..arrived /\ rtcp \subseteq 1..arrived
    /\ rtp \cap rtcp = {}
    /\ seq \in [Msg -> 0..MaxSeq]
    /\ mseq \in 0..MaxSeq
    /\ life \in {"new", "open", "closed"}
    /\ news \subseteq {"open", "closed"}
    /\ token \subseteq Token /\ lost \in BOOLEAN
    /\ closer \in [Reader -> Closer]
    /\ pc \in [Reader -> PC]
    /\ held \in [Reader -> Token \cup {"none"}]
    /\ got \in [Reader -> 0..MaxMsgs]

TrackInit ==
    /\ arrived = 0
    /\ rtp = {} /\ rtcp = {}
    /\ seq = [m \in Msg |-> 0]
    /\ mseq = 0
    /\ life = "new" /\ news = {}
    /\ token = {} /\ lost = FALSE
    /\ closer = [r \in Reader |-> "open"]
    /\ pc = [r \in Reader |-> "idle"]
    /\ held = [r \in Reader |-> "none"]
    /\ got = [r \in Reader |-> 0]

----------------------------------------------------------------------------
(* The buffers. *)

IsFront(m, cache) == m \in cache /\ \A n \in cache : m <= n

\* uint32_t: subtraction and increment wrap.
Minus(a, b) == IF b <= a THEN a - b ELSE a + MaxSeq + 1 - b
Succ(a) == IF a = MaxSeq THEN 0 ELSE a + 1

\* Mutation: messages that are numbered 0 already are kept.
NothingAged == {}

\* makesure_min_seq throws away the messages at the front of either buffer that
\* are numbered 0 already,
Aged == {m \in rtp \cup rtcp :
            \A n \in (IF m \in rtp THEN rtp ELSE rtcp) : n <= m => seq[n] = 0}

\* and returns the smaller number of the two fronts that are left.
MinSeq(off) ==
    LET fronts == {m \in Msg : IsFront(m, rtp \ Aged) \/ IsFront(m, rtcp \ Aged)}
    IN  IF fronts = {} THEN off = MaxSeq
        ELSE /\ \E m \in fronts : seq[m] = off
             /\ \A m \in fronts : off <= seq[m]

\* push_back on a circular buffer: the front of a full one is overwritten.
PushBack(cache, m) ==
    {m} \cup IF Cardinality(cache) < Capacity THEN cache
             ELSE {n \in cache : ~ IsFront(n, cache)}

\* on_track_msg: every number is moved down when the counter is at its limit.
\* The statistics and the callbacks of the application are left out.
Store(m, isRtcp, p, c, base) ==
    /\ IF isRtcp THEN rtcp' = PushBack(c, m) /\ rtp' = p
       ELSE rtp' = PushBack(p, m) /\ rtcp' = c
    /\ mseq' = Succ(base)

OnTrackMsg(isRtcp) ==
    /\ life = "open" /\ arrived < MaxMsgs
    /\ arrived' = arrived + 1
    /\ \/ /\ mseq # MaxSeq
          /\ Store(arrived', isRtcp, rtp, rtcp, mseq)
          /\ seq' = [m \in Msg |-> IF m = arrived' THEN mseq'
                                  ELSE IF m \in rtp' \cup rtcp' THEN seq[m] ELSE 0]
       \/ /\ mseq = MaxSeq
          /\ \E off \in 0..MaxSeq :
                /\ MinSeq(off)
                /\ Store(arrived', isRtcp, rtp \ Aged, rtcp \ Aged, Minus(mseq, off))
                /\ seq' = [m \in Msg |->
                              IF m = arrived' THEN mseq'
                              ELSE IF m \in rtp' \cup rtcp' THEN Minus(seq[m], off)
                              ELSE 0]
    /\ token' = token \cup {"msg"}
    /\ UNCHANGED <<lifeVars, lost, closer, readVars>>

\* receive_msg takes the message m, 0 when there is none.  With both buffers
\* filled, ALL takes the one with the smaller number.
Receives(r, m) ==
    LET k == Kinds[r]
        first == IF k = "rtp" THEN {n \in rtp : IsFront(n, rtp)}
                 ELSE IF k = "rtcp" THEN {n \in rtcp : IsFront(n, rtcp)}
                 ELSE {n \in Msg : IsFront(n, rtp) \/ IsFront(n, rtcp)}
    IN  /\ \/ first = {} /\ m = 0
           \/ m \in first /\ \A n \in first : seq[m] <= seq[n]
        /\ rtp' = rtp \ {m} /\ rtcp' = rtcp \ {m}
        /\ seq' = [n \in Msg |-> IF n = m THEN 0 ELSE seq[n]]
        /\ UNCHANGED <<arrived, mseq>>

----------------------------------------------------------------------------
(* The rtc::Track opens and closes; its callbacks come later, in order. *)

Opens ==
    /\ life = "new"
    /\ life' = "open" /\ news' = {"open"}
    /\ UNCHANGED <<cacheVars, token, lost, closer, readVars>>

Closes ==
    /\ life # "closed"
    /\ life' = "closed" /\ news' = news \cup {"closed"}
    /\ UNCHANGED <<cacheVars, token, lost, closer, readVars>>

OnTrackOpen ==
    /\ "open" \in news
    /\ news' = news \ {"open"}
    /\ token' = token \cup {"open"}
    /\ UNCHANGED <<cacheVars, life, lost, closer, readVars>>

OnTrackClosed ==
    /\ news = {"closed"}
    /\ news' = {}
    /\ token' = token \cup {"closed"}
    /\ UNCHANGED <<cacheVars, life, lost, closer, readVars>>

----------------------------------------------------------------------------
(* await_msg *)

Goto(r, l) == pc' = [pc EXCEPT ![r] = l]

Returns(r, m) == Goto(r, "ret") /\ got' = [got EXCEPT ![r] = m]

\* What came before the call is returned whatever the closer says.  The caller
\* sets the closer.
Begin(r) ==
    /\ pc[r] = "idle"
    /\ \E m \in 0..MaxMsgs :
          /\ Receives(r, m)
          /\ \/ m # 0 /\ Returns(r, m)
             \/ m = 0 /\ Goto(r, "check") /\ UNCHANGED got
    /\ UNCHANGED <<lifeVars, token, lost, held>>

Check(r) ==
    /\ pc[r] = "check"
    /\ \/ Closed(r) /\ Returns(r, 0)
       \/ ~ Closed(r) /\ life = "new" /\ Goto(r, "gate") /\ UNCHANGED got
       \/ ~ Closed(r) /\ life # "new" /\ Goto(r, "wait") /\ UNCHANGED got
    /\ UNCHANGED <<cacheVars, lifeVars, token, lost, closer, held>>

\* select reads a token, or returns nothing once the closer is closed.
Takes(r, at, ts, next) ==
    /\ pc[r] = at /\ ~ Closed(r)
    /\ \E t \in ts \cap token :
          /\ token' = token \ {t}
          /\ held' = [held EXCEPT ![r] = t]
    /\ Goto(r, next)
    /\ UNCHANGED <<cacheVars, lifeVars, lost, closer, got>>

Gate(r) == Takes(r, "gate", {"open", "closed"}, "gated")
Wait(r) == Takes(r, "wait", {"msg", "closed"}, "woken")

Cancelled(r) ==
    /\ pc[r] \in {"gate", "wait"} /\ Closed(r)
    /\ Returns(r, 0)
    /\ UNCHANGED <<cacheVars, lifeVars, token, lost, closer, held>>

\* A select that has read waits while its closer is stopped.  If that is closed
\* then, and not by a timeout, nothing is returned and the token is gone.
Dropped(r) ==
    /\ pc[r] \in {"gated", "woken"} /\ closer[r] = "closed"
    /\ held' = [held EXCEPT ![r] = "none"]
    /\ lost' = (lost \/ held[r] = "closed")
    /\ Returns(r, 0)
    /\ UNCHANGED <<cacheVars, lifeVars, token, closer>>

\* Mutation: whatever was read, the token that says closed is written.
PutsBackAny(r) ==
    /\ closer[r] \in {"open", "timeout"}
    /\ token' = token \cup {"closed"}
    /\ held' = [held EXCEPT ![r] = "none"]

\* Mutation: the token is not put back.
PutsBackNone(r) ==
    /\ closer[r] \in {"open", "timeout"}
    /\ held' = [held EXCEPT ![r] = "none"]
    /\ UNCHANGED token

\* The tokens that say open and closed are put back for the next reader.
PutsBack(r) ==
    /\ closer[r] \in {"open", "timeout"}
    /\ token' = token \cup ({held[r]} \ {"msg"})
    /\ held' = [held EXCEPT ![r] = "none"]

Gated(r) ==
    /\ pc[r] = "gated" /\ PutsBack(r)
    /\ \/ Closed(r) /\ Returns(r, 0)
       \/ ~ Closed(r) /\ Goto(r, "wait") /\ UNCHANGED got
    /\ UNCHANGED <<cacheVars, lifeVars, lost, closer>>

Woken(r) ==
    /\ pc[r] = "woken" /\ PutsBack(r)
    /\ \E m \in 0..MaxMsgs :
          /\ Receives(r, m)
          /\ \/ m # 0 /\ Returns(r, m)
             \/ m = 0 /\ Goto(r, "last") /\ UNCHANGED got
    /\ UNCHANGED <<lifeVars, lost, closer>>

Last(r) ==
    /\ pc[r] = "last"
    /\ \/ life = "closed" /\ Returns(r, 0)
       \/ life # "closed" /\ Goto(r, "wait") /\ UNCHANGED got
    /\ UNCHANGED <<cacheVars, lifeVars, token, lost, closer, held>>

\* What await_msg does after its first look.
Await(r) ==
    \/ Check(r) \/ Gate(r) \/ Wait(r) \/ Cancelled(r) \/ Dropped(r)
    \/ Gated(r) \/ Woken(r) \/ Last(r)

Rtc == (\E b \in BOOLEAN : OnTrackMsg(b)) \/ Opens \/ Closes \/ OnTrackOpen \/ OnTrackClosed

----------------------------------------------------------------------------
(* Properties *)

\* Safety: over both buffers the numbers give the order of arrival, across every
\* renumbering, so that a reader of ALL gets the oldest message first.
ArrivalOrder ==
    \A m, n \in rtp \cup rtcp :
        /\ m < n => seq[m] < seq[n]
        /\ seq[m] <= mseq

\* Safety: chan_must_write never finds its channel full: the token that says
\* open, and the one that says closed, exists once, in a channel, with a reader
\* who puts it back, or in the callback that is still to come.
OneToken ==
    \A t \in {"open", "closed"} :
        LET holders == {r \in Reader : held[r] = t}
        IN  /\ t \in news => t \notin token /\ holders = {}
            /\ t \in token => holders = {}
            /\ \A r, s \in holders : r = s
=============================================================================
