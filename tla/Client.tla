------------------------------- MODULE Client -------------------------------
(***************************************************************************)
(* The client (impl/client.cpp): the calls that talk to the signalling     *)
(* server one after another under m_a_mutex, the handlers a call has on    *)
(* the socket and on the peer connection while it runs, and the server,    *)
(* the socket and the peer connection as the calls see them.               *)
(***************************************************************************)
EXTENDS Naturals, FiniteSets

CONSTANTS
    Caller,     \* the calls
    Target,     \* the subscription every unsubscribe names, one of Caller
    MaxTracks,  \* bound: the tracks of a subscription
    MaxCands    \* bound: the candidates the server sends for a subscription

ASSUME ClientAssumption ==
    /\ Caller \subseteq Nat \ {0} /\ Target \in Caller
    /\ MaxTracks \in Nat /\ MaxCands \in Nat

VARIABLES
    call,       \* the calls
    closed,     \* the closers that are closed; 0 is m_closer
    holder,     \* who has m_a_mutex, 0 for nobody
    msgCbs,     \* m_msg_cbs: the calls whose callback is there
    nextId,     \* m_custom_msg_next_id, of fewer than 2^32 messages
    loc,        \* the locals of the subscribe that has the mutex
    peer,       \* m_peer
    net,        \* the socket, and the messages on their way
    server,     \* the calls whose subscription the server keeps
    hist        \* what happened, for the properties

vars == <<call, closed, holder, msgCbs, nextId, loc, peer, net, server, hist>>

\* pc: what the call waits for.  uses: the closer it was given, its own or that
\* of the client.  subId: the server has told its subscription id.
Call == [pc : {"idle", "lock", "ack", "subscribed", "sdp", "flush", "state", "tracks",
               "bind", "custom", "done"},
         op : {"none", "subscribe", "unsubscribe", "custom", "no-ack"},
         uses : Caller \cup {0}, subId : BOOLEAN, msgId : Nat, result : BOOLEAN]

Kind == {"ack", "subscribed", "sdp", "candidate", "custom-ack"}
Msg == [kind : Kind, call : Caller, n : Nat]

\* on: the events with a handler.  got: written to a channel of the call and not
\* read yet.  tracks, uncompleted, bound: the tracks of the subscription, those
\* in uncompleted_tracks, and the rtc track each was given (0: none).
NoLocals == [on |-> {}, got |-> {}, cands |-> {}, remoted |-> FALSE, states |-> {},
             tracks |-> 0, uncompleted |-> {}, bound |-> [u \in 1..MaxTracks |-> 0],
             ready |-> FALSE]

Init ==
    /\ call = [c \in Caller |-> [pc |-> "idle", op |-> "none", uses |-> c,
                                 subId |-> FALSE, msgId |-> 0, result |-> FALSE]]
    /\ closed = {} /\ holder = 0 /\ msgCbs = {} /\ nextId = 0
    /\ loc = NoLocals
    /\ peer = [state |-> "new", remote |-> {}, toCome |-> {},
               cands |-> [m \in [call : Caller, n : 1..MaxCands] |-> 0]]
    /\ net = [open |-> FALSE, up |-> {}, down |-> {}, listen |-> 0]
    /\ server = {}
    /\ hist = [cut |-> {}, heard |-> {}, took |-> [c \in Caller |-> {}], acked |-> {}]

TypeOK ==
    /\ call \in [Caller -> Call]
    /\ closed \subseteq Caller \cup {0} /\ holder \in Caller \cup {0}
    /\ msgCbs \subseteq Caller /\ nextId \in Nat
    /\ loc.got \subseteq Msg /\ loc.cands \subseteq Msg
    /\ peer.state \in {"new", "connected", "failed"} /\ peer.remote \subseteq Caller
    /\ net.down \subseteq Msg /\ net.listen \in Caller \cup {0}
    /\ server \subseteq Caller

\* A subscribe waits on a child of the closer, the other calls on the closer.
ClosedFor(c) == c \in closed \/ call[c].uses \in closed

Goes(c, to) == call' = [call EXCEPT ![c].pc = to]

----------------------------------------------------------------------------
(* The beginning and the end of a call *)

\* Calls are numbered as they begin.
Fresh(c) == call[c].pc = "idle" /\ \A d \in Caller : d < c => call[d].pc # "idle"

Begin(c, o, k) ==
    /\ Fresh(c)
    /\ o = "unsubscribe" => call[Target].op = "subscribe" /\ call[Target].result
    /\ call' = [call EXCEPT ![c].pc = "lock", ![c].op = o, ![c].uses = k]
    /\ UNCHANGED <<closed, holder, msgCbs, nextId, loc, peer, net, server, hist>>

\* The mutex is not given: the call ends without a word to the server.
GivesUp(c) ==
    /\ call[c].pc = "lock" /\ ClosedFor(c)
    /\ Goes(c, "done")
    /\ UNCHANGED <<closed, holder, msgCbs, nextId, loc, peer, net, server, hist>>

Locks(c, o) == call[c].pc = "lock" /\ call[c].op = o /\ holder = 0 /\ holder' = c

Request(o, c) == [op |-> o, call |-> c]

\* Mutation: a subscribe that prepares for one event only.
SubscribeLate(c) ==
    /\ Locks(c, "subscribe")
    /\ Goes(c, "ack")
    /\ loc' = [NoLocals EXCEPT !.on = {"candidate", "state", "subscribed"}]
    /\ net' = [net EXCEPT !.open = TRUE, !.listen = c,
                          !.up = @ \cup {Request("subscribe", c)}]
    /\ UNCHANGED <<closed, msgCbs, nextId, peer, server, hist>>

\* subscribe until it waits for the ack: the listeners of the socket, connect,
\* the handlers of the peer and of the socket, and only then the request.
Subscribe(c) ==
    /\ Locks(c, "subscribe")
    /\ Goes(c, "ack")
    /\ loc' = [NoLocals EXCEPT !.on = {"candidate", "state", "sdp", "subscribed"}]
    /\ net' = [net EXCEPT !.open = TRUE, !.listen = c,
                          !.up = @ \cup {Request("subscribe", c)}]
    /\ UNCHANGED <<closed, msgCbs, nextId, peer, server, hist>>

\* unsubscribe neither listens for the socket to close nor connects.
Unsubscribe(c) ==
    /\ Locks(c, "unsubscribe")
    /\ Goes(c, "ack")
    /\ net' = [net EXCEPT !.up = @ \cup {Request("unsubscribe", c)}]
    /\ UNCHANGED <<closed, msgCbs, nextId, loc, peer, server, hist>>

\* add_msg_cb
AddMsgCb(c) == msgCbs' = msgCbs \cup {c}

\* send_custom_message_with_ack
SendCustom(c) ==
    /\ Locks(c, "custom")
    /\ call' = [call EXCEPT ![c].pc = "custom", ![c].msgId = nextId]
    /\ nextId' = nextId + 1
    /\ AddMsgCb(c)
    /\ net' = [net EXCEPT !.open = TRUE, !.listen = c,
                          !.up = @ \cup {Request("custom", c)}]
    /\ UNCHANGED <<closed, loc, peer, server, hist>>

\* send_custom_message_no_ack does not take the mutex, and waits for nothing.
SendNoAck(c) ==
    /\ Fresh(c)
    /\ call' = [call EXCEPT ![c].pc = "done", ![c].op = "no-ack", ![c].msgId = nextId]
    /\ nextId' = nextId + 1
    /\ net' = [net EXCEPT !.open = TRUE, !.up = @ \cup {Request("no-ack", c)}]
    /\ UNCHANGED <<closed, holder, msgCbs, loc, peer, server, hist>>

\* The defers of a call, in reverse order; one that has a subscription it does
\* not return unsubscribes, if the socket is open, and does not wait.
Ends(c, ok) ==
    /\ call' = [call EXCEPT ![c].pc = "done", ![c].result = ok, ![c].uses = c]
    /\ loc' = NoLocals
    /\ net' = [net EXCEPT !.listen = 0,
                   !.up = IF call[c].subId /\ ~ ok /\ net.open
                          THEN @ \cup {Request("unsubscribe", c)} ELSE @]
    /\ holder' = 0
    /\ peer' = [peer EXCEPT !.toCome = {}]
    /\ hist' = [hist EXCEPT !.heard = {}]
    /\ UNCHANGED <<closed, msgCbs, nextId, server>>

\* Mutation: an emit_with_ack that reads its channel without the closer.
CanceledHalf(c) ==
    /\ call[c].pc \in {"subscribed", "sdp", "state", "tracks", "custom"}
    /\ ClosedFor(c) /\ Ends(c, FALSE)

\* A read of a channel is canceled.  The callback of a custom message stays.
Canceled(c) ==
    /\ call[c].pc \in {"ack", "subscribed", "sdp", "state", "tracks", "custom"}
    /\ ClosedFor(c) /\ Ends(c, FALSE)

----------------------------------------------------------------------------
(* The answers a call waits for *)

Took(c, m) == hist' = [hist EXCEPT !.took[c] = @ \cup {m.call}]

\* Mutation: the unsubscribe is only armed when "subscribed" has come.
ReadsAckLate(c) ==
    /\ call[c].pc = "ack"
    /\ \E m \in loc.got :
        /\ m.kind = "ack"
        /\ \/ /\ call[c].op = "subscribe"
              /\ Goes(c, "subscribed")
              /\ loc' = [loc EXCEPT !.got = @ \ {m}]
              /\ Took(c, m)
              /\ UNCHANGED <<closed, holder, msgCbs, nextId, peer, net, server>>
           \/ call[c].op = "unsubscribe" /\ Ends(c, TRUE)

\* The ack of subscribe tells the id of the subscription.
ReadsAck(c) ==
    /\ call[c].pc = "ack"
    /\ \E m \in loc.got :
        /\ m.kind = "ack"
        /\ \/ /\ call[c].op = "subscribe"
              /\ call' = [call EXCEPT ![c].pc = "subscribed", ![c].subId = TRUE]
              /\ loc' = [loc EXCEPT !.got = @ \ {m}]
              /\ Took(c, m)
              /\ UNCHANGED <<closed, holder, msgCbs, nextId, peer, net, server>>
           \/ call[c].op = "unsubscribe" /\ Ends(c, TRUE)

\* Mutation: wait_for_msg that takes the first message of the event.
OwnAny(m, c) == TRUE

\* The condition of wait_for_msg: the id of the subscription, or of the sdp that
\* the subscription told.
Own(m, c) == m.call = c

\* wait_for_msg drops what is not its own, and its handler once it has it.
Skips(c, kind) ==
    /\ call[c].pc = kind
    /\ \E m \in loc.got :
        /\ m.kind = kind /\ ~ Own(m, c)
        /\ loc' = [loc EXCEPT !.got = @ \ {m}]
    /\ UNCHANGED <<call, closed, holder, msgCbs, nextId, peer, net, server, hist>>

Released(l, kind) == [l EXCEPT !.on = @ \ {kind}, !.got = {m \in @ : m.kind # kind}]

\* "subscribed" names the tracks; with none the call is over.
ReadsSubscribed(c) ==
    /\ call[c].pc = "subscribed"
    /\ \E m \in loc.got, n \in 0..MaxTracks :
        /\ m.kind = "subscribed" /\ Own(m, c)
        /\ IF n = 0 THEN Ends(c, TRUE)
           ELSE /\ Goes(c, "sdp")
                /\ loc' = [Released(loc, "subscribed") EXCEPT
                              !.on = @ \cup {"track"}, !.tracks = n, !.uncompleted = 1..n]
                /\ Took(c, m)
                /\ UNCHANGED <<closed, holder, msgCbs, nextId, peer, net, server>>

\* setRemoteDescription; the peer connection finds the tracks in it.
ReadsSdp(c) ==
    /\ call[c].pc = "sdp"
    /\ \E m \in loc.got :
        /\ m.kind = "sdp" /\ Own(m, c)
        /\ Goes(c, "flush")
        /\ loc' = Released(loc, "sdp")
        /\ peer' = [peer EXCEPT !.remote = @ \cup {c}, !.toCome = 1..loc.tracks]
        /\ Took(c, m)
    /\ UNCHANGED <<closed, holder, msgCbs, nextId, net, server>>

AddTo(p, ms) == [p EXCEPT !.cands = [k \in DOMAIN @ |->
    @[k] + Cardinality({m \in ms : m.call = k.call /\ m.n = k.n})]]

\* Mutation: a flush that goes on caching.
FlushHalf(c) ==
    /\ call[c].pc = "flush" /\ Goes(c, "state")
    /\ peer' = AddTo(peer, loc.cands)
    /\ loc' = [loc EXCEPT !.cands = {}]
    /\ UNCHANGED <<closed, holder, msgCbs, nextId, net, server, hist>>

\* Under cand_mux: what was cached goes to the peer, and what comes from now on.
Flush(c) ==
    /\ call[c].pc = "flush" /\ Goes(c, "state")
    /\ peer' = AddTo(peer, loc.cands)
    /\ loc' = [loc EXCEPT !.cands = {}, !.remoted = TRUE]
    /\ UNCHANGED <<closed, holder, msgCbs, nextId, net, server, hist>>

ReadsState(c) ==
    /\ call[c].pc = "state"
    /\ \E s \in loc.states :
        IF s # "connected" THEN Ends(c, FALSE)
        ELSE /\ Goes(c, "tracks")
             /\ loc' = [loc EXCEPT !.states = @ \ {s}]
             /\ UNCHANGED <<closed, holder, msgCbs, nextId, peer, net, server, hist>>

ReadsTracks(c) ==
    /\ call[c].pc = "tracks" /\ loc.ready
    /\ Goes(c, "bind")
    /\ UNCHANGED <<closed, holder, msgCbs, nextId, loc, peer, net, server, hist>>

\* prepare_track throws when it has no rtc track.
Prepared(u) == loc.bound[u] # 0

BindsTracks(c) ==
    /\ call[c].pc = "bind"
    /\ Ends(c, \A u \in 1..loc.tracks : Prepared(u))

ReadsCustomAck(c) ==
    /\ call[c].pc = "custom" /\ c \notin msgCbs
    /\ Ends(c, TRUE)

----------------------------------------------------------------------------
(* Threads of the socket and of the peer connection *)

\* Mutation: a callback that any ack satisfies.
AcksAny(m, c) == TRUE

Acks(m, c) == m.n = call[c].msgId

\* process_msg_cbs: the callbacks the message acks go.
ProcessMsgCbs(m) ==
    LET gone == {c \in msgCbs : Acks(m, c)}
    IN  /\ msgCbs' = msgCbs \ gone
        /\ hist' = [hist EXCEPT !.acked = @ \cup gone \X {m.call}]

\* What a message does.  The channel of an ack lives as long as its call waits;
\* the message of an event without a handler is lost.
Hears(m) ==
    CASE m.kind = "ack" ->
            /\ loc' = IF call[m.call].pc = "ack" THEN [loc EXCEPT !.got = @ \cup {m}] ELSE loc
            /\ UNCHANGED <<peer, msgCbs, hist>>
      [] m.kind \in {"subscribed", "sdp"} ->
            /\ loc' = IF m.kind \in loc.on THEN [loc EXCEPT !.got = @ \cup {m}] ELSE loc
            /\ UNCHANGED <<peer, msgCbs, hist>>
      [] m.kind = "candidate" ->
            /\ IF "candidate" \notin loc.on THEN UNCHANGED <<loc, peer, hist>>
               ELSE /\ hist' = [hist EXCEPT !.heard = @ \cup {m}]
                    /\ IF loc.remoted
                       THEN peer' = AddTo(peer, {m}) /\ UNCHANGED loc
                       ELSE loc' = [loc EXCEPT !.cands = @ \cup {m}] /\ UNCHANGED peer
            /\ UNCHANGED msgCbs
      [] m.kind = "custom-ack" ->
            /\ ProcessMsgCbs(m)
            /\ UNCHANGED <<loc, peer>>

\* A bound: what comes after the last call is nobody's concern.
Busy == \E c \in Caller : call[c].pc # "done"

Delivers ==
    /\ net.open /\ Busy
    /\ \E m \in net.down : Hears(m) /\ net' = [net EXCEPT !.down = @ \ {m}]
    /\ UNCHANGED <<call, closed, holder, nextId, server>>

\* The close listener closes the closer of the call that has set it.
SocketCloses ==
    /\ net.open /\ Busy
    /\ net' = [net EXCEPT !.open = FALSE, !.up = {}, !.down = {}]
    /\ LET l == net.listen IN
       closed' = IF l = 0 THEN closed
                 ELSE closed \cup {IF call[l].op = "subscribe" THEN l ELSE call[l].uses}
    /\ hist' = [hist EXCEPT !.cut = @ \cup {c \in Caller : call[c].pc \notin {"idle", "lock"}}]
    /\ UNCHANGED <<call, holder, msgCbs, nextId, loc, peer, server>>

\* A timeout, or whoever has the closer.
Closes(k) ==
    /\ k \notin closed
    /\ \E c \in Caller : call[c].uses = k /\ call[c].pc \notin {"idle", "done"}
    /\ closed' = closed \cup {k}
    /\ UNCHANGED <<call, holder, msgCbs, nextId, loc, peer, net, server, hist>>

\* The peer connection connects once, when it has a description.
PeerChanges(s) ==
    /\ peer.remote # {} /\ Busy
    /\ peer.state \in (IF s = "connected" THEN {"new"} ELSE {"new", "connected"})
    /\ peer' = [peer EXCEPT !.state = s]
    /\ loc' = IF "state" \in loc.on THEN [loc EXCEPT !.states = @ \cup {s}] ELSE loc
    /\ UNCHANGED <<call, closed, holder, msgCbs, nextId, net, server, hist>>

\* onTrack.  std::partition moves the tracks with this mid to the front: the
\* first of the others is given the rtc track, and all the others are erased.
TrackComes(t) ==
    /\ t \in peer.toCome
    /\ peer' = [peer EXCEPT !.toCome = @ \ {t}]
    /\ LET others == loc.uncompleted \ {t}
           left == loc.uncompleted \ others
       IN  \/ /\ others = {}
              /\ loc' = [loc EXCEPT !.ready = @ \/ left = {}]
           \/ \E u \in others :
              loc' = [loc EXCEPT !.uncompleted = left, !.bound[u] = t, !.ready = @ \/ left = {}]
    /\ UNCHANGED <<call, closed, holder, msgCbs, nextId, net, server, hist>>

----------------------------------------------------------------------------
(* The server *)

Message(k, c, n) == [kind |-> k, call |-> c, n |-> n]

\* It answers a subscribe with an ack, "subscribed", an sdp and candidates, which
\* come in any order.  The receiver of a custom message, a client too, acks the
\* message id 0 whatever the id was, and whether an ack was asked for or not:
\* on_custom_message reads the id from "content", and does not look at "ack".
Answers(r) ==
    CASE r.op = "subscribe" ->
            {Message(k, r.call, 0) : k \in {"ack", "subscribed", "sdp"}} \cup
            {Message("candidate", r.call, n) : n \in 1..MaxCands}
      [] r.op = "unsubscribe" ->
            IF call[r.call].op = "unsubscribe" THEN {Message("ack", r.call, 0)} ELSE {}
      [] r.op \in {"custom", "no-ack"} -> {Message("custom-ack", r.call, 0)}

Serves ==
    /\ net.open /\ Busy
    /\ \E r \in net.up :
        /\ net' = [net EXCEPT !.up = @ \ {r}, !.down = @ \cup Answers(r)]
        /\ server' = CASE r.op = "subscribe" -> server \cup {r.call}
                       [] r.op = "unsubscribe" ->
                             server \ {IF call[r.call].op = "subscribe" THEN r.call ELSE Target}
                       [] r.op \in {"custom", "no-ack"} -> server
    /\ UNCHANGED <<call, closed, holder, msgCbs, nextId, loc, peer, hist>>

----------------------------------------------------------------------------

Steps(c) ==
    \/ GivesUp(c) \/ Subscribe(c) \/ Unsubscribe(c) \/ SendCustom(c)
    \/ Canceled(c) \/ ReadsAck(c) \/ ReadsSubscribed(c) \/ ReadsSdp(c) \/ Flush(c)
    \/ Skips(c, "subscribed") \/ Skips(c, "sdp")
    \/ ReadsState(c) \/ ReadsTracks(c) \/ BindsTracks(c) \/ ReadsCustomAck(c)

Next ==
    \/ \E c \in Caller : Steps(c)
    \/ \E c \in Caller, o \in {"subscribe", "unsubscribe", "custom"} :
          \E k \in {0, c} : Begin(c, o, k)
    \/ \E c \in Caller : SendNoAck(c)
    \/ \E k \in Caller \cup {0} : Closes(k)
    \/ Delivers \/ SocketCloses \/ Serves
    \/ \E s \in {"connected", "failed"} : PeerChanges(s)
    \/ \E t \in 1..MaxTracks : TrackComes(t)

Spec == Init /\ [][Next]_vars

\* While a coroutine can go on one does.  Nothing is assumed of the network, of
\* the server, or of whoever closes a closer.
FairSpec == Spec /\ WF_vars(\E c \in Caller : Steps(c))

----------------------------------------------------------------------------
(* Properties *)

\* Safety: no candidate is added twice; one of a subscription that runs is added
\* only after its description, and once the cache is flushed every candidate
\* that was heard has been added.
CandidatesOnce ==
    /\ \A k \in DOMAIN peer.cands : peer.cands[k] <= 1
    /\ \A m \in hist.heard : m.call = holder =>
        /\ peer.cands[[call |-> m.call, n |-> m.n]] = 1 => holder \in peer.remote
        /\ call[holder].pc \in {"state", "tracks", "bind"} =>
              peer.cands[[call |-> m.call, n |-> m.n]] = 1

\* Safety: a subscription is made of the answers to its own request and of no
\* others, also when those to an earlier one that timed out come late.
OwnAnswers == \A c \in Caller : hist.took[c] \subseteq {c}

\* Every ack carries the id 0, so the one of a message without ack that was sent
\* later can be taken for that of a waiting message as well.
MayAck(c, d) == d = c \/ (call[d].op = "no-ack" /\ call[c].msgId < call[d].msgId)

HasAck(c) == \E d \in Caller : <<c, d>> \in hist.acked /\ MayAck(c, d)

\* Safety: a custom message is taken for acked at the ack of its own receiver or
\* of a message without ack that was sent while it waited, never at the ack of
\* another message with ack, whatever comes late and whatever callbacks the
\* messages that were cancelled have left behind.
CustomAcked ==
    \A c \in Caller : call[c].op = "custom" /\ call[c].result => HasAck(c)

\* Safety: while the socket stays open, what a call waits for is on its way or
\* already in its channel, in whatever order the answers came.
NoAnswerLost ==
    \A c \in Caller :
        call[c].pc \in {"ack", "subscribed", "sdp"} /\ c \notin hist.cut =>
            \/ \E r \in net.up : r.call = c
            \/ Message(call[c].pc, c, 0) \in net.down \cup loc.got

\* Safety: the server keeps the subscription of a call that failed only when the
\* call never read its id, or the socket was closed meanwhile.
NoOrphan ==
    \A c \in server :
        call[c].pc = "done" /\ ~ call[c].result =>
            \/ hist.took[c] = {} \/ c \in hist.cut
            \/ Request("unsubscribe", c) \in net.up

\* Liveness: a call whose closer is closed ends, whoever has the mutex; and so
\* does a subscribe or a custom message that is under way when the socket closes.
\* (An unsubscribe waits on: it does not listen.)
StoppedEnds ==
    \A c \in Caller :
        /\ call[c].pc # "idle" /\ ClosedFor(c) ~> call[c].pc = "done"
        /\ call[c].op # "unsubscribe" /\ holder = c /\ ~ net.open ~> call[c].pc = "done"

\* "Before call receive_msg, a valid rtc::track should be set." (track.cpp:108):
\* the tracks a subscribe prepares have an rtc track.
TrackIsSet ==
    \A c \in Caller : call[c].pc = "bind" => \A u \in 1..loc.tracks : loc.bound[u] # 0
=============================================================================
