----------------------------- MODULE GstCfgoSrc -----------------------------
(***************************************************************************)
(* The cfgosrc element (gst/gstcfgosrc.cpp): its properties and state      *)
(* changes drive the sources of CfgoSrc, and it holds a reference to the   *)
(* handle of its client in HandleTable.                                    *)
(***************************************************************************)
EXTENDS CfgoSrc, HandleTable

CONSTANT MaxRefs    \* bound: how many references the application holds

ASSUME GstCfgoSrcAssumption == Client = Handle

VARIABLES
    alive,      \* the element is not disposed of
    client,     \* the property client, 0 when unset
    pattern,    \* the property pattern is set, and not empty
    mode,       \* the property mode
    running,    \* between PAUSED_TO_PLAYING and PLAYING_TO_PAUSED
    task,       \* the source the element has, 0 for none
    replaced,   \* history: a property has replaced a source
    app         \* the references the application holds

gstVars == <<alive, client, pattern, mode, running, task, replaced, app>>
vars == <<srcVars, handleVars, gstVars>>

TypeOK ==
    /\ SrcTypeOK /\ HandleTypeOK
    /\ alive \in BOOLEAN /\ running \in BOOLEAN /\ replaced \in BOOLEAN
    /\ client \in Handle \cup {0} /\ pattern \in BOOLEAN
    /\ mode \in Mode
    /\ task \in 0..MaxTasks
    /\ app \in [Handle -> Nat]

Init ==
    /\ SrcInit /\ HandleInit
    /\ alive = TRUE
    /\ client = 0 /\ pattern = FALSE /\ mode = "raw"
    /\ running = FALSE /\ task = 0 /\ replaced = FALSE
    /\ app = [h \in Handle |-> 0]

----------------------------------------------------------------------------
(* The application's references *)

\* (A bound: while the element lives.)
AppWraps ==
    /\ alive /\ Wrap
    /\ app' = [app EXCEPT ![last'] = 1]
    /\ UNCHANGED <<srcVars, alive, client, pattern, mode, running, task, replaced>>

\* The application refs a handle that names something, and gives back what it
\* holds.
AppRefs(h) ==
    /\ alive
    /\ \/ /\ h \in object /\ app[h] < MaxRefs
          /\ Counts(Ref(count, h))
          /\ app' = [app EXCEPT ![h] = @ + 1]
       \/ /\ app[h] > 0
          /\ Counts(Unref(count, h))
          /\ app' = [app EXCEPT ![h] = @ - 1]
    /\ UNCHANGED <<srcVars, alive, client, pattern, mode, running, task, replaced>>

\* The closer of a client may be closed by its owner.  (A bound: when the element
\* is gone; before that the other source of the client does it.)
AppCloses(h) ==
    /\ ~ alive /\ \E t \in Task : Held(t) /\ src[t].client = h
    /\ closer[h] # "closed"
    /\ closer' = [closer EXCEPT ![h] = "closed"]
    /\ UNCHANGED <<src, el, handleVars, gstVars>>

----------------------------------------------------------------------------
(* The element *)

\* _gst_cfgosrc_prepare.  A new source takes the place of the old one, which
\* dies here when no loop keeps it, closing the closer of its client, before
\* the new one is attached.  A source that stays only gets its timeouts again.
Prepare(c, p, run, reset, start) ==
    LET ready == run /\ c # 0 /\ p
        makes == ready /\ (task = 0 \/ reset)
        new == CHOOSE t \in Task : src[t].st = "none"
        dies == task # 0 /\ ~ Held(task)
        made == AttachedSource([NewSource EXCEPT !.st = "inited", !.client = c], mode)
    IN  /\ replaced' = (replaced \/ (makes /\ task # 0))
        /\ IF makes
           THEN /\ \E t \in Task : src[t].st = "none"
                /\ task' = new
                /\ src' = [t \in Task |->
                              IF t = new THEN IF start THEN Start(made) ELSE made
                              ELSE IF t = task /\ dies THEN Dead ELSE src[t]]
                /\ el' = RtpBinIn(IF dies THEN Detached(el, task) ELSE el, new)
                /\ closer' = [h \in Client |-> IF dies /\ h = src[task].client
                                              THEN "closed" ELSE closer[h]]
           ELSE /\ UNCHANGED <<task, el>>
                /\ IF task = 0 THEN UNCHANGED <<src, closer>>
                   ELSE /\ src' = [src EXCEPT ![task] =
                                     IF start THEN Resumed(Start(@)) ELSE @]
                        /\ closer' = IF start THEN ResumedCloser(src[task]) ELSE closer

SetClient(h) ==
    /\ alive /\ h \in object /\ h # client
    /\ Counts(Ref(IF client > 0 THEN Unref(count, client) ELSE count, h))
    /\ client' = h
    /\ Prepare(h, pattern, running, TRUE, FALSE)
    /\ UNCHANGED <<alive, pattern, mode, running, app>>

\* A pattern, the first or another one, which is not empty; req-types is set in
\* the same way.
SetPattern ==
    /\ alive
    /\ pattern' = TRUE
    /\ Prepare(client, TRUE, running, TRUE, FALSE)
    /\ UNCHANGED <<handleVars, alive, client, mode, running, app>>

SetMode(m) ==
    /\ alive /\ m # mode
    /\ mode' = m
    /\ IF task = 0 THEN UNCHANGED <<src, el>> ELSE SwitchMode(task, m)
    /\ UNCHANGED <<closer, handleVars, alive, client, pattern, running, task, replaced, app>>

\* gst_cfgosrc_start: PAUSED_TO_PLAYING
Plays ==
    /\ alive /\ ~ running
    /\ running' = TRUE
    /\ Prepare(client, pattern, TRUE, FALSE, TRUE)
    /\ UNCHANGED <<handleVars, alive, client, pattern, mode, app>>

\* gst_cfgosrc_stop: PLAYING_TO_PAUSED
Pauses ==
    /\ alive /\ running
    /\ running' = FALSE
    /\ IF task = 0 THEN UNCHANGED <<src, closer>>
       ELSE /\ src' = [src EXCEPT ![task] = Paused(@)]
            /\ closer' = PausedCloser(src[task])
    /\ UNCHANGED <<el, handleVars, alive, client, pattern, mode, task, replaced, app>>

\* Mutation: a dispose that trusts the destructor to detach.
FinalizeLoose ==
    /\ alive /\ ~ running
    /\ alive' = FALSE /\ client' = 0 /\ pattern' = FALSE /\ mode' = "raw"
    /\ IF client > 0 THEN Counts(Unref(count, client)) ELSE UNCHANGED handleVars
    /\ task' = 0
    /\ IF task = 0 THEN UNCHANGED srcVars
       ELSE /\ el' = IF Held(task) THEN el ELSE Detached(el, task)
            /\ src' = [src EXCEPT ![task] = IF Held(task) THEN @ ELSE Dead]
            /\ closer' = [closer EXCEPT ![src[task].client] =
                             IF Held(task) THEN @ ELSE "closed"]
    /\ UNCHANGED <<running, replaced, app>>

\* dispose detaches the source and drops it; finalize gives the handle back.
Finalize ==
    /\ alive /\ ~ running
    /\ alive' = FALSE /\ client' = 0 /\ pattern' = FALSE /\ mode' = "raw"
    /\ IF client > 0 THEN Counts(Unref(count, client)) ELSE UNCHANGED handleVars
    /\ task' = 0
    /\ IF task = 0 THEN UNCHANGED srcVars
       ELSE /\ el' = Detached(el, task)
            /\ src' = [src EXCEPT ![task] = IF Held(task) THEN Unowned(@) ELSE Dead]
            /\ closer' = [closer EXCEPT ![src[task].client] =
                             IF Held(task) THEN @ ELSE "closed"]
    /\ UNCHANGED <<running, replaced, app>>

Runs(t) == Loop(t, task) /\ UNCHANGED <<handleVars, gstVars>>

Next ==
    \/ AppWraps
    \/ \E h \in Handle : AppRefs(h) \/ AppCloses(h) \/ SetClient(h)
    \/ \E m \in Mode : SetMode(m)
    \/ SetPattern \/ Plays \/ Pauses \/ Finalize
    \/ \E t \in Task : Runs(t) \/ (Pads(t) /\ UNCHANGED <<handleVars, gstVars>>)

Spec == Init /\ [][Next]_vars

\* While a coroutine can go on one does; nothing else has to happen.
FairSpec == Spec /\ WF_vars(\E t \in Task : Runs(t))

----------------------------------------------------------------------------
(* Properties *)

\* Safety: the ghost pads an element shows are those of its mode, and of a
\* source that is attached to it, through every order of pads that come and go,
\* mode switches and detachments.
GhostsMatchMode ==
    \A g \in el.ghosts :
        /\ src[g.task].owned
        /\ g.kind = src[g.task].mode

\* Safety: while the element is paused the loop of its source is not at work:
\* it has not begun, it is over or about to be, or the closer holds it.  This is
\* so only until a property replaces a source: what is replaced runs on.
PausedIsQuiet ==
    ~ running /\ task # 0 /\ ~ replaced =>
        src[task].loop \in {"none", "stop", "end"} \/ CloserOf(task) # "open"

\* Safety: no source that would still use its owner outlives the element, though
\* its loop may, and the appsrc call the source the element has; again unless one
\* was replaced, for then nobody detaches it, and its end takes the callbacks of
\* its successor away.
OwnerLives ==
    ~ replaced =>
        /\ ~ alive => \A t \in Task : ~ src[t].owned
        /\ el.callbacks = task

\* Safety: the count of a handle is the number of its holders, and it names an
\* object as long as there is one, whatever clients the element was given.
HandleCounts ==
    \A h \in Handle :
        /\ count[h] = app[h] + (IF client = h THEN 1 ELSE 0)
        /\ h \in object <=> count[h] > 0

\* Liveness: once its closer is closed the loop of a source ends, and a source
\* that nobody has is destroyed then, also when it was detached in between.
ClosedEnds ==
    \A t \in Task :
        src[t].loop # "none" /\ CloserOf(t) = "closed" ~>
            (src[t].loop = "end" /\ t = task) \/ src[t].st = "dead"
=============================================================================
