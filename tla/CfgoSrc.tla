------------------------------- MODULE CfgoSrc -------------------------------
(***************************************************************************)
(* The sources behind a cfgosrc element (gst/cfgosrc.cpp): their state,    *)
(* the closer they share with their client, the loop that subscribes and   *)
(* makes the session, and the channels, processors and ghost pads that     *)
(* come and go with the pads of rtpbin.  What the posters of a session do  *)
(* is in PostBuffer.                                                       *)
(***************************************************************************)
EXTENDS Naturals, Sequences

CONSTANTS
    Client,     \* the handles of clients
    Mode,       \* the modes the element is given
    MaxTasks,   \* bound: how many sources are made
    Ssrc,       \* the streams rtpbin finds in the session
    SrcPad,     \* the pads a parsebin or a decodebin may add
    MaxChannels \* bound: how many channels a session gets

ASSUME CfgoSrcAssumption ==
    /\ Client \subseteq Nat \ {0}
    /\ "raw" \in Mode /\ Mode \subseteq {"raw", "parse", "decode"}
    /\ MaxTasks \in Nat /\ MaxChannels \in Nat

VARIABLES
    src,        \* the sources
    closer,     \* m_close_ch of a source is the closer of its client
    el          \* what the sources have put into the element

srcVars == <<src, closer, el>>

Task == 1..MaxTasks

\* A pad of kind "raw" is one of rtpbin; the others belong to the processor of
\* their kind.
Pad == [kind : Mode, task : Task, ssrc : Ssrc, n : SrcPad \cup 1..MaxChannels]

\* proc: m_processor.  pads: m_pads.
Channel == [pad : Pad, proc : {"none"} \cup Mode, pads : SUBSET Pad]

\* st: m_state, "none" before the source is made and "dead" after.  owned: not
\* m_detached.  loop: where _loop is; "stop" is the stop() that follows it.
\* tracks: those of the subscription that have no session yet.
Source ==
    [st : {"none", "inited", "running", "paused", "stopped", "dead"},
     owned : BOOLEAN, client : Client \cup {0}, mode : Mode,
     loop : {"none", "sub", "make", "post", "stop", "end"},
     tracks : 0..2, session : BOOLEAN, channels : Seq(Channel)]

\* live: the pads rtpbin has.  ghosts: the pads that have a ghost pad on the
\* element.  fed: the source whose session the two appsrc are linked to, 0 for
\* none; callbacks: the one they call; bin: those whose rtpbin is in the element.
Element ==
    [live : SUBSET Pad, ghosts : SUBSET Pad, fed : 0..MaxTasks, callbacks : 0..MaxTasks,
     bin : SUBSET Task]

NewSource ==
    [st |-> "none", owned |-> FALSE, client |-> 0, mode |-> "raw", loop |-> "none",
     tracks |-> 0, session |-> FALSE, channels |-> <<>>]

SrcTypeOK ==
    /\ src \in [Task -> Source]
    /\ closer \in [Client -> {"open", "stopped", "closed"}]
    /\ el \in Element

SrcInit ==
    /\ src = [t \in Task |-> NewSource]
    /\ closer = [c \in Client |-> "open"]
    /\ el = [live |-> {}, ghosts |-> {}, fed |-> 0, callbacks |-> 0, bin |-> {}]

CloserOf(t) == closer[src[t].client]

\* _safe_use_owner and _safe_get_owner: nothing is done with an owner that has
\* detached the source.
HasOwner(t) == src[t].owned

----------------------------------------------------------------------------
(* Channels *)

ProcessorsIn(chs) == {<<chs[i].proc, chs[i].pad.ssrc>> : i \in DOMAIN chs}

\* Channel::init and _create_processor: two processors of one stream would have
\* one name, and the bin refuses the second.
Processor(chs, ssrc, mode) ==
    IF mode = "raw" \/ <<mode, ssrc>> \in ProcessorsIn(chs) THEN "none" ELSE mode

\* Session::create_channel
NewChannel(chs, pad, mode) ==
    Append(chs, [pad |-> pad, proc |-> Processor(chs, pad.ssrc, mode), pads |-> {}])

\* install_ghost makes a ghost pad only for a pad of the mode's kind, and keeps
\* the pad of a processor in m_pads.
Ghosts(mode, pads) == {p \in pads : p.kind = mode}

\* uninstall_ghost, for each of the pads
Unghosted(e, pads) == [e EXCEPT !.ghosts = @ \ pads]

\* find_channel(ssrc, pt): the first one that was made.
IsFirst(chs, i) == \A j \in 1..(i - 1) : chs[j].pad.ssrc # chs[i].pad.ssrc

\* pad-added of rtpbin: _install_pad makes a channel.
RtpPadAdded(t) ==
    /\ HasOwner(t) /\ src[t].session /\ el.fed = t
    /\ Len(src[t].channels) < MaxChannels
    /\ \E ssrc \in Ssrc :
        LET s == src[t]
            pad == [kind |-> "raw", task |-> t, ssrc |-> ssrc, n |-> Len(s.channels) + 1]
        IN  /\ \A p \in el.live : p.ssrc # ssrc
            /\ src' = [src EXCEPT ![t].channels = NewChannel(@, pad, s.mode)]
            /\ el' = [el EXCEPT !.live = @ \cup {pad},
                                !.ghosts = @ \cup Ghosts(s.mode, {pad})]
    /\ UNCHANGED closer

\* pad-removed of rtpbin: _uninstall_pad takes the ghost away; the channel and
\* its processor stay.
RtpPadRemoved(t) ==
    /\ HasOwner(t)
    /\ \E pad \in el.live :
          /\ pad.task = t
          /\ el' = Unghosted([el EXCEPT !.live = @ \ {pad}], {pad})
    /\ UNCHANGED <<src, closer>>

SrcPadAdded(t) ==
    /\ HasOwner(t)
    /\ \E i, j \in DOMAIN src[t].channels, n \in SrcPad :
        LET s == src[t]
            pad == [kind |-> s.channels[i].proc, task |-> t,
                    ssrc |-> s.channels[i].pad.ssrc, n |-> n]
        IN  /\ s.channels[i].proc # "none"
            /\ s.channels[j].pad.ssrc = pad.ssrc /\ IsFirst(s.channels, j)
            /\ pad \notin s.channels[j].pads
            /\ src' = [src EXCEPT ![t].channels[j].pads = @ \cup Ghosts(s.mode, {pad})]
            /\ el' = [el EXCEPT !.ghosts = @ \cup Ghosts(s.mode, {pad})]
    /\ UNCHANGED closer

SrcPadRemoved(t) ==
    /\ HasOwner(t)
    /\ \E j \in DOMAIN src[t].channels : \E pad \in src[t].channels[j].pads :
          /\ src' = [src EXCEPT ![t].channels[j].pads = @ \ {pad}]
          /\ el' = Unghosted(el, {pad})
    /\ UNCHANGED closer

PadsOf(chs) == UNION {chs[i].pads \cup {chs[i].pad} : i \in DOMAIN chs}

\* _destroy_processor of destroy_channel: no processor, and no pads of one.
Bare(c) == [c EXCEPT !.proc = "none", !.pads = {}]

\* Each channel is made again for the new mode, in order: the first one of a
\* stream gets the processor.
Reinit(chs, mode) ==
    [i \in DOMAIN chs |->
        [Bare(chs[i]) EXCEPT !.proc = IF mode = "raw" \/ ~ IsFirst(chs, i) THEN "none" ELSE mode]]

RtpPads(chs) == {chs[i].pad : i \in DOMAIN chs}

\* Mutation: a switch that forgets the pads of the processors.
SwitchModeHalf(t, mode) ==
    LET s == src[t] IN
    IF ~ s.owned \/ s.mode = mode THEN UNCHANGED <<src, el>>
    ELSE /\ src' = [src EXCEPT ![t].mode = mode, ![t].channels = Reinit(@, mode)]
         /\ el' = [Unghosted(el, RtpPads(s.channels)) EXCEPT
                      !.ghosts = @ \cup Ghosts(mode, RtpPads(s.channels))]

\* switch_mode: every ghost and every processor goes before that.
SwitchMode(t, mode) ==
    LET s == src[t] IN
    IF ~ s.owned \/ s.mode = mode THEN UNCHANGED <<src, el>>
    ELSE /\ src' = [src EXCEPT ![t].mode = mode, ![t].channels = Reinit(@, mode)]
         /\ el' = [Unghosted(el, PadsOf(s.channels)) EXCEPT
                      !.ghosts = @ \cup Ghosts(mode, RtpPads(s.channels))]

----------------------------------------------------------------------------
(* The life of a source *)

\* attach: the source takes the mode of the element.
AttachedSource(s, mode) == [s EXCEPT !.owned = TRUE, !.mode = mode]

\* _create_rtp_bin: the appsrc call the source, and its rtpbin goes into the
\* element, which takes one element of that name.
RtpBinIn(e, t) == [e EXCEPT !.callbacks = t, !.bin = IF @ = {} THEN {t} ELSE @]

\* release_rtp_pad and release_rtcp_pad of the sessions
ReleasedPads(e, t) == [e EXCEPT !.fed = IF @ = t THEN 0 ELSE @]

\* _detach: ghosts, processors, request pads, callbacks and rtpbin go.  The
\* callbacks that are removed are those the appsrc have, whoever set them.
Detached(e, t) ==
    IF ~ HasOwner(t) THEN e
    ELSE [Unghosted(ReleasedPads(e, t), PadsOf(src[t].channels)) EXCEPT
            !.live = {p \in @ : p.task # t}, !.callbacks = 0, !.bin = @ \ {t}]

Unowned(s) == [s EXCEPT !.owned = FALSE, !.session = FALSE, !.channels = <<>>,
                         !.mode = "raw"]

Dead == [NewSource EXCEPT !.st = "dead"]

\* A loop that runs keeps its source.
Held(t) == src[t].loop \notin {"none", "end"}

Start(s) ==
    IF s.st = "inited" THEN [s EXCEPT !.st = "running", !.loop = "sub"] ELSE s

\* resume() follows start().
Resumed(s) == IF s.st = "paused" THEN [s EXCEPT !.st = "running"] ELSE s
ResumedCloser(s) == [closer EXCEPT ![s.client] =
                        IF s.st = "paused" /\ @ = "stopped" THEN "open" ELSE @]

Paused(s) == IF s.st = "running" THEN [s EXCEPT !.st = "paused"] ELSE s
\* Mutation: a pause that leaves the closer alone once the posters run.
PausedCloserLate(s) == [closer EXCEPT ![s.client] =
                           IF s.st = "running" /\ @ = "open" /\ s.loop # "post"
                           THEN "stopped" ELSE @]

PausedCloser(s) == [closer EXCEPT ![s.client] =
                       IF s.st = "running" /\ @ = "open" THEN "stopped" ELSE @]

----------------------------------------------------------------------------
(* _loop *)

Moves(t, from, to) ==
    /\ src[t].loop = from
    /\ src' = [src EXCEPT ![t].loop = to]
    /\ UNCHANGED <<closer, el>>

\* The subscription comes, with its tracks; or none does and the loop is over,
\* with an error for the owner unless m_close_ch is closed.  A select that is
\* stopped waits.
Subscribed(t) ==
    \/ /\ src[t].loop = "sub" /\ CloserOf(t) = "open"
       /\ \E n \in {1, 2} :
             src' = [src EXCEPT ![t].loop = "make", ![t].tracks = n]
       /\ UNCHANGED <<closer, el>>
    \/ Moves(t, "sub", "stop") /\ CloserOf(t) # "stopped"

\* link_rtp_src and link_rtcp_src: there is one appsrc for each, which must not be
\* linked already, nor to a bin that is not in the element.
CanLink(t) == el.fed = 0 /\ t \in el.bin

\* _create_session for the next track.  A link that fails throws, which ends the
\* loop, and the posters that were added never start.
CreateSession(t) ==
    /\ src[t].loop = "make"
    /\ \/ /\ src[t].tracks > 0 /\ HasOwner(t) /\ CanLink(t)
          /\ src' = [src EXCEPT ![t].tracks = @ - 1, ![t].session = TRUE]
          /\ el' = [el EXCEPT !.fed = t]
          /\ UNCHANGED closer
       \/ /\ src[t].tracks > 0 /\ (HasOwner(t) => ~ CanLink(t))
          /\ Moves(t, "make", "stop")
       \/ src[t].tracks = 0 /\ Moves(t, "make", "post")

\* Mutation: a source without an owner does not get out of the wait for its
\* posters.
PostedOwned(t) == HasOwner(t) /\ Moves(t, "post", "stop")

\* The posters end, and EOS goes to the owner if there is one.
Posted(t) == Moves(t, "post", "stop") /\ CloserOf(t) # "stopped"

\* self->stop(); a source that the element has dropped dies with its loop, and
\* its destructor closes m_close_ch and detaches it.
LoopEnds(t, current) ==
    /\ src[t].loop = "stop"
    /\ closer' = [closer EXCEPT ![src[t].client] = "closed"]
    /\ LET s == [src[t] EXCEPT !.loop = "end", !.st = "stopped"]
       IN  \/ t = current /\ src' = [src EXCEPT ![t] = s] /\ UNCHANGED el
           \/ t # current /\ src' = [src EXCEPT ![t] = Dead] /\ el' = Detached(el, t)

Pads(t) == RtpPadAdded(t) \/ RtpPadRemoved(t) \/ SrcPadAdded(t) \/ SrcPadRemoved(t)

Loop(t, current) ==
    Subscribed(t) \/ CreateSession(t) \/ Posted(t) \/ LoopEnds(t, current)
=============================================================================
