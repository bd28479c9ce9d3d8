-------------------------- MODULE GstCfgoSrcProofs --------------------------
(***************************************************************************)
(* Theorems about the element and its sources, for any set of clients,     *)
(* streams, pads and modes and any number of sources.                      *)
(***************************************************************************)
EXTENDS GstCfgoSrc, TLAPS

USE HandleAssumption, CfgoSrcAssumption, GstCfgoSrcAssumption DEF Task, Handle

----------------------------------------------------------------------------
(* The references to the handles *)

CountType ==
    /\ last \in 0..MaxHandles
    /\ object \subseteq 1..last
    /\ count \in [Handle -> Nat] /\ app \in [Handle -> Nat]
    /\ client \in Handle \cup {0}

handleState == <<handleVars, client, app>>

\* Only six operations touch the table, or the references to it.
LEMMA HandleSteps ==
    ASSUME [Next]_vars
    PROVE \/ UNCHANGED handleState
          \/ AppWraps
          \/ \E h \in Handle : AppRefs(h) \/ SetClient(h)
          \/ Finalize
<1> USE DEF handleState
<1>1. CASE UNCHANGED vars
  BY <1>1 DEF vars, gstVars
<1>2. ASSUME NEW h \in Handle, AppCloses(h) PROVE UNCHANGED handleState
  BY <1>2 DEF AppCloses, gstVars
<1>3. ASSUME NEW m \in Mode, SetMode(m) PROVE UNCHANGED handleState
  BY <1>3 DEF SetMode
<1>4. CASE SetPattern \/ Plays \/ Pauses
  BY <1>4 DEF SetPattern, Plays, Pauses
<1>5. ASSUME NEW t \in Task, Runs(t) \/ (Pads(t) /\ UNCHANGED <<handleVars, gstVars>>)
      PROVE UNCHANGED handleState
  BY <1>5 DEF Runs, gstVars
<1>6. QED BY <1>1, <1>2, <1>3, <1>4, <1>5 DEF Next

\* One more or one less reference keeps the counts of the table right.
LEMMA CountsRight ==
    ASSUME CountType, HandleCounts, NEW c \in [Handle -> Nat], Counts(c),
           app' \in [Handle -> Nat], client' \in Handle \cup {0},
           \A h \in Handle : c[h] = app'[h] + (IF client' = h THEN 1 ELSE 0),
           \A h \in Handle : h \notin object => c[h] = 0
    PROVE (CountType /\ HandleCounts)'
<1>1. last' = last /\ count' = c /\ object' = {h \in object : c[h] > 0}
  BY DEF Counts
<1>2. object' \subseteq 1..last' /\ object \subseteq Handle
  <2>1. object \subseteq 1..last /\ 1..last \subseteq Handle
    BY DEF CountType
  <2>2. QED BY <1>1, <2>1
<1>3. \A h \in Handle : h \in object' <=> c[h] > 0
  BY <1>1, <1>2
<1>4. QED BY <1>1, <1>2, <1>3 DEF CountType, HandleCounts

LEMMA HandleStep ==
    ASSUME CountType, HandleCounts, [Next]_vars
    PROVE (CountType /\ HandleCounts)'
<1>1. \A h \in Handle : /\ count[h] \in Nat /\ app[h] \in Nat
                        /\ count[h] = app[h] + (IF client = h THEN 1 ELSE 0)
                        /\ h \in object <=> count[h] > 0
  BY DEF CountType, HandleCounts
<1>2. CASE UNCHANGED handleState
  BY <1>2 DEF handleState, handleVars, CountType, HandleCounts
<1>3. CASE AppWraps
  <2>1. /\ last' = last + 1 /\ last' \in Handle /\ last' \in 0..MaxHandles /\ last' \notin 1..last
        /\ object' = object \cup {last'} /\ client' = client
        /\ count' = [count EXCEPT ![last'] = 1] /\ app' = [app EXCEPT ![last'] = 1]
    BY <1>3 DEF AppWraps, Wrap, CountType
  <2>2. object' \subseteq 1..last' /\ client # last'
    BY <2>1, <1>1 DEF CountType
  <2>3. CountType'
    BY <2>1, <2>2 DEF CountType
  <2>4. \A h \in Handle : h # last' => count'[h] = count[h] /\ app'[h] = app[h]
    BY <2>1 DEF CountType
  <2>5. count'[last'] = 1 /\ app'[last'] = 1
    BY <2>1 DEF CountType
  <2>6. QED BY <1>1, <2>1, <2>2, <2>3, <2>4, <2>5 DEF HandleCounts
<1>4. ASSUME NEW h \in Handle, AppRefs(h) PROVE (CountType /\ HandleCounts)'
  <2>1. client' = client
    BY <1>4 DEF AppRefs
  <2>2. CASE /\ h \in object /\ Counts(Ref(count, h)) /\ app' = [app EXCEPT ![h] = @ + 1]
    <3>1. Ref(count, h) \in [Handle -> Nat] /\ app' \in [Handle -> Nat]
      BY <2>2 DEF Ref, CountType
    <3>2. \A g \in Handle : Ref(count, h)[g] = app'[g] + (IF client' = g THEN 1 ELSE 0)
      BY <1>1, <2>1, <2>2 DEF Ref, CountType
    <3>3. \A g \in Handle : g \notin object => Ref(count, h)[g] = 0
      BY <1>1, <2>2 DEF Ref, CountType
    <3>4. QED BY <2>1, <2>2, <3>1, <3>2, <3>3, CountsRight DEF CountType
  <2>3. CASE app[h] > 0 /\ Counts(Unref(count, h)) /\ app' = [app EXCEPT ![h] = @ - 1]
    <3>1. Unref(count, h) \in [Handle -> Nat] /\ app' \in [Handle -> Nat]
      BY <1>1, <2>3 DEF Unref, CountType
    <3>2. \A g \in Handle : Unref(count, h)[g] = app'[g] + (IF client' = g THEN 1 ELSE 0)
      BY <1>1, <2>1, <2>3 DEF Unref, CountType
    <3>3. \A g \in Handle : g \notin object => Unref(count, h)[g] = 0
      BY <1>1, <2>3 DEF Unref, CountType
    <3>4. QED BY <2>1, <2>3, <3>1, <3>2, <3>3, CountsRight DEF CountType
  <2>4. QED BY <1>4, <2>2, <2>3 DEF AppRefs
<1>5. ASSUME NEW h \in Handle, SetClient(h) PROVE (CountType /\ HandleCounts)'
  <2> DEFINE c == Ref(IF client > 0 THEN Unref(count, client) ELSE count, h)
  <2>1. /\ h \in object /\ h # client /\ client' = h /\ app' = app /\ Counts(c)
    BY <1>5 DEF SetClient
  <2>2. CASE client = 0
    <3>1. c = Ref(count, h)
      BY <2>2
    <3>2. c \in [Handle -> Nat] /\ \A g \in Handle : c[g] = app[g] + (IF h = g THEN 1 ELSE 0)
      BY <1>1, <2>2, <3>1 DEF Ref, CountType
    <3>3. \A g \in Handle : g \notin object => c[g] = 0
      <4>1. \A g \in Handle : g \notin object => count[g] = 0 /\ g # h
        BY <1>1, <2>1
      <4>2. \A g \in Handle : g # h => c[g] = count[g]
        BY <3>1 DEF Ref, CountType
      <4> HIDE DEF c
      <4>3. QED BY <4>1, <4>2
    <3> HIDE DEF c
    <3>4. QED BY <2>1, <3>2, <3>3, CountsRight DEF CountType
  <2>3. CASE client # 0
    <3>1. client \in Handle /\ client > 0 /\ c = Ref(Unref(count, client), h)
      BY <2>3 DEF CountType
    <3>2. count[client] - 1 \in Nat
      BY <1>1, <3>1
    <3>3. /\ Unref(count, client) \in [Handle -> Nat]
          /\ \A g \in Handle : Unref(count, client)[g] = app[g]
          /\ \A g \in Handle : g \notin object => Unref(count, client)[g] = 0
      BY <1>1, <3>1, <3>2 DEF Unref, CountType
    <3>4. /\ c \in [Handle -> Nat]
          /\ \A g \in Handle : c[g] = app[g] + (IF h = g THEN 1 ELSE 0)
          /\ \A g \in Handle : g \notin object => c[g] = 0
      BY <1>1, <2>1, <3>1, <3>3 DEF Ref
    <3> HIDE DEF c
    <3>5. QED BY <2>1, <3>4, CountsRight DEF CountType
  <2>4. QED BY <2>2, <2>3
<1>6. CASE Finalize
  <2>1. client' = 0 /\ app' = app
    BY <1>6 DEF Finalize
  <2>2. CASE client = 0
    <3>1. UNCHANGED handleState
      BY <1>6, <2>1, <2>2 DEF Finalize, handleState
    <3>2. QED BY <1>2, <3>1
  <2>3. CASE client # 0
    <3>1. client \in Handle /\ client > 0 /\ Counts(Unref(count, client))
      BY <1>6, <2>3 DEF Finalize, CountType
    <3>2. count[client] - 1 \in Nat
      BY <1>1, <3>1
    <3>3. /\ Unref(count, client) \in [Handle -> Nat]
          /\ \A g \in Handle : Unref(count, client)[g] = app[g] + 0
          /\ \A g \in Handle : g \notin object => Unref(count, client)[g] = 0
      BY <1>1, <3>1, <3>2 DEF Unref, CountType
    <3>4. \A g \in Handle : Unref(count, client)[g] = app'[g] + (IF client' = g THEN 1 ELSE 0)
      BY <2>1, <3>3
    <3>5. QED BY <2>1, <3>1, <3>3, <3>4, CountsRight DEF CountType
  <2>4. QED BY <2>2, <2>3
<1>7. QED BY <1>2, <1>3, <1>4, <1>5, <1>6, HandleSteps

\* Whatever clients the element is given, in whatever order the application refs
\* and unrefs, the count of a handle is the number of its holders, and its
\* object lives as long as there is one.
THEOREM HandleCountsEver == Spec => []HandleCounts
<1>1. Init => CountType /\ HandleCounts
  BY DEF Init, HandleInit, CountType, HandleCounts
<1>2. CountType /\ HandleCounts /\ [Next]_vars => (CountType /\ HandleCounts)'
  BY HandleStep
<1>3. QED BY <1>1, <1>2, PTL DEF Spec

----------------------------------------------------------------------------
(* Types *)

LEMMA SourceTypes ==
    /\ NewSource \in Source /\ Dead \in Source
    /\ \A s \in Source : Start(s) \in Source /\ Resumed(s) \in Source
                         /\ Paused(s) \in Source /\ Unowned(s) \in Source
    /\ \A s \in Source, m \in Mode : AttachedSource(s, m) \in Source
<1>a. <<>> \in Seq(Channel)
  OBVIOUS
<1>1. NewSource \in Source
  BY <1>a DEF NewSource, Source
<1>2. Dead \in Source
  BY <1>1 DEF Dead, Source
<1>3. ASSUME NEW s \in Source
      PROVE Start(s) \in Source /\ Resumed(s) \in Source /\ Paused(s) \in Source
  BY DEF Start, Resumed, Paused, Source
<1>4. ASSUME NEW s \in Source PROVE Unowned(s) \in Source
  <2> DEFINE u == [s EXCEPT !.owned = FALSE, !.session = FALSE]
  <2>1. u \in Source
    BY DEF Source
  <2>2. \A r \in Source : [r EXCEPT !.channels = <<>>, !.mode = "raw"] \in Source
    BY <1>a DEF Source
  <2>3. Unowned(s) = [u EXCEPT !.channels = <<>>, !.mode = "raw"]
    BY DEF Unowned
  <2> HIDE DEF u
  <2>4. QED BY <2>1, <2>2, <2>3
<1>5. ASSUME NEW s \in Source, NEW m \in Mode PROVE AttachedSource(s, m) \in Source
  BY DEF AttachedSource, Source
<1>6. QED BY <1>1, <1>2, <1>3, <1>4, <1>5

\* The pads of a list of channels, one by one.
LEMMA PadsOfThem ==
    ASSUME NEW chs \in Seq(Channel)
    PROVE /\ \A p : p \in PadsOf(chs) <=>
                   \E i \in DOMAIN chs : p = chs[i].pad \/ p \in chs[i].pads
          /\ PadsOf(chs) \subseteq Pad /\ RtpPads(chs) \subseteq PadsOf(chs)
<1>1. \A p : p \in PadsOf(chs) <=>
               \E i \in DOMAIN chs : p = chs[i].pad \/ p \in chs[i].pads
  BY DEF PadsOf
<1>2. \A i \in DOMAIN chs : chs[i] \in Channel
  OBVIOUS
<1>3. \A i \in DOMAIN chs : chs[i].pad \in Pad /\ chs[i].pads \subseteq Pad
  BY <1>2 DEF Channel
<1>4. QED BY <1>1, <1>3 DEF RtpPads

\* A mode switch keeps the pads of rtpbin and drops those of the processors.
LEMMA ReinitKeeps ==
    ASSUME NEW chs \in Seq(Channel), NEW m \in Mode
    PROVE Reinit(chs, m) \in Seq(Channel) /\ PadsOf(Reinit(chs, m)) = RtpPads(chs)
<1> DEFINE new == Reinit(chs, m)
<1>1. \A i \in DOMAIN chs : chs[i] \in Channel
  OBVIOUS
<1>2. ASSUME NEW i \in DOMAIN chs
      PROVE new[i] \in Channel /\ new[i].pad = chs[i].pad /\ new[i].pads = {}
  <2>1. new[i] = [Bare(chs[i]) EXCEPT !.proc = IF m = "raw" \/ ~ IsFirst(chs, i) THEN "none" ELSE m]
    BY DEF Reinit
  <2> HIDE DEF new
  <2>2. chs[i] \in Channel
    BY <1>1
  <2>3. QED BY <2>1, <2>2 DEF Channel, Bare
<1>3. DOMAIN new = DOMAIN chs /\ DOMAIN chs = 1..Len(chs) /\ Len(chs) \in Nat
  BY DEF Reinit
<1>4. new = [i \in 1..Len(chs) |-> new[i]]
  BY <1>3 DEF Reinit
<1> HIDE DEF new
<1>5. new \in Seq(Channel)
  BY <1>2, <1>3, <1>4
<1>6. PadsOf(new) = RtpPads(chs)
  BY <1>2, <1>3 DEF PadsOf, RtpPads
<1>7. QED BY <1>5, <1>6 DEF new

LEMMA ElementTypes ==
    ASSUME SrcTypeOK, NEW e \in Element, NEW t \in Task
    PROVE /\ \A ps : Unghosted(e, ps) \in Element
          /\ RtpBinIn(e, t) \in Element /\ ReleasedPads(e, t) \in Element
          /\ Detached(e, t) \in Element
<1>1. ASSUME NEW f \in Element, NEW ps PROVE Unghosted(f, ps) \in Element
  <2>1. f.ghosts \ ps \subseteq Pad
    BY DEF Element
  <2>2. QED BY <2>1 DEF Unghosted, Element
<1>2. RtpBinIn(e, t) \in Element
  <2>1. (IF e.bin = {} THEN {t} ELSE e.bin) \subseteq Task /\ t \in 0..MaxTasks
    BY DEF Element
  <2>2. QED BY <2>1 DEF RtpBinIn, Element
<1>3. ReleasedPads(e, t) \in Element
  BY DEF ReleasedPads, Element
<1>4. Unghosted(ReleasedPads(e, t), PadsOf(src[t].channels)) \in Element
  BY <1>1, <1>3
<1>5. \A f \in Element : [f EXCEPT !.live = {p \in @ : p.task # t}, !.callbacks = 0,
                                  !.bin = @ \ {t}] \in Element
  <2> SUFFICES ASSUME NEW f \in Element
               PROVE [f EXCEPT !.live = {p \in @ : p.task # t}, !.callbacks = 0,
                               !.bin = @ \ {t}] \in Element
    OBVIOUS
  <2>1. {p \in f.live : p.task # t} \subseteq Pad /\ f.bin \ {t} \subseteq Task /\ 0 \in 0..MaxTasks
    BY DEF Element
  <2>2. QED BY <2>1 DEF Element
<1>6. Detached(e, t) \in Element
  BY <1>4, <1>5 DEF Detached
<1>7. QED BY <1>1, <1>2, <1>3, <1>6

----------------------------------------------------------------------------
(* What the operations do to the sources *)

Made(c) == AttachedSource([NewSource EXCEPT !.st = "inited", !.client = c], mode)

LEMMA MadeType ==
    ASSUME mode \in Mode, NEW c \in Client
    PROVE /\ Made(c) \in Source
          /\ Made(c).owned /\ Made(c).mode = mode /\ Made(c).channels = <<>>
          /\ Made(c).st = "inited" /\ Made(c).loop = "none" /\ Made(c).client = c
<1>1. [NewSource EXCEPT !.st = "inited", !.client = c] \in Source
  <2>1. \A s \in Source : [s EXCEPT !.st = "inited", !.client = c] \in Source
    BY DEF Source
  <2>2. QED BY <2>1, SourceTypes
<1>2. Made(c) \in Source
  BY <1>1, SourceTypes DEF Made
<1>3. QED BY <1>2 DEF Made, AttachedSource, NewSource

\* prepare makes a source that takes the place of the one there is, or starts
\* and resumes that one, or leaves it alone.
PreparedAnew(c, start, new) ==
    /\ src[new].st = "none" /\ c # 0
    /\ task' = new /\ replaced' = (replaced \/ task # 0)
    /\ src' = [t \in Task |->
                  IF t = new THEN IF start THEN Start(Made(c)) ELSE Made(c)
                  ELSE IF t = task /\ ~ Held(task) THEN Dead ELSE src[t]]
    /\ el' = RtpBinIn(IF task # 0 /\ ~ Held(task) THEN Detached(el, task) ELSE el, new)
    /\ closer' = [h \in Client |-> IF task # 0 /\ ~ Held(task) /\ h = src[task].client
                                  THEN "closed" ELSE closer[h]]

PreparedAgain(start) ==
    /\ UNCHANGED <<task, el, replaced>>
    /\ \/ task = 0 /\ UNCHANGED <<src, closer>>
       \/ /\ task # 0
          /\ src' = [src EXCEPT ![task] = IF start THEN Resumed(Start(src[task])) ELSE src[task]]
          /\ closer' = IF start THEN ResumedCloser(src[task]) ELSE closer

LEMMA PrepareEffect ==
    ASSUME TypeOK, NEW c, NEW p \in BOOLEAN, NEW run \in BOOLEAN, NEW reset \in BOOLEAN,
           NEW start \in BOOLEAN, Prepare(c, p, run, reset, start)
    PROVE (run /\ \E new \in Task : PreparedAnew(c, start, new)) \/ PreparedAgain(start)
<1> DEFINE ready == run /\ c # 0 /\ p
           makes == ready /\ (task = 0 \/ reset)
           new == CHOOSE t \in Task : src[t].st = "none"
<1>1. task \in 0..MaxTasks /\ replaced \in BOOLEAN
  BY DEF TypeOK
<1>2. CASE makes
  <2>1. \E t \in Task : src[t].st = "none"
    BY <1>2 DEF Prepare
  <2>2. new \in Task /\ src[new].st = "none"
    BY <2>1
  <2>3. PreparedAnew(c, start, new)
    BY <1>1, <1>2, <2>2 DEF Prepare, PreparedAnew, Made
  <2>4. QED BY <1>2, <2>2, <2>3
<1>3. CASE ~ makes
  BY <1>1, <1>3 DEF Prepare, PreparedAgain
<1>4. QED BY <1>2, <1>3

\* A step of a loop that does not end it changes neither the mode, the owner nor
\* the channels of its source, nor any ghost pad.
LoopGoesOn(t) ==
    /\ src[t].loop \in {"sub", "make", "post"}
    /\ \E s \in Source : src' = [src EXCEPT ![t] = s] /\ s.owned = src[t].owned
            /\ s.mode = src[t].mode /\ s.channels = src[t].channels /\ s.st = src[t].st
            /\ s.client = src[t].client
    /\ UNCHANGED closer /\ el' \in Element
    /\ el'.ghosts = el.ghosts /\ el'.callbacks = el.callbacks

LEMMA LoopEffect ==
    ASSUME TypeOK, NEW t \in Task, Loop(t, task)
    PROVE LoopGoesOn(t) \/ LoopEnds(t, task)
<1>1. src[t] \in Source /\ el \in Element /\ t \in 0..MaxTasks
  BY DEF TypeOK, SrcTypeOK
<1>2. ASSUME NEW l1 \in {"sub", "make", "post"}, NEW l2 \in {"make", "post", "stop"}, Moves(t, l1, l2)
      PROVE LoopGoesOn(t)
  <2>1. [src[t] EXCEPT !.loop = l2] \in Source
    BY <1>1 DEF Source
  <2>2. src[t].loop = l1 /\ src' = [src EXCEPT ![t] = [src[t] EXCEPT !.loop = l2]] /\ UNCHANGED <<closer, el>>
    BY <1>2 DEF Moves
  <2>3. QED BY <1>1, <2>1, <2>2 DEF LoopGoesOn, Source
<1>3. ASSUME Subscribed(t) PROVE LoopGoesOn(t)
  <2>1. CASE Moves(t, "sub", "stop")
    BY <2>1, <1>2
  <2>2. CASE ~ Moves(t, "sub", "stop")
    <3>1. PICK n \in {1, 2} : src' = [src EXCEPT ![t].loop = "make", ![t].tracks = n]
      BY <1>3, <2>2 DEF Subscribed
    <3>2. src[t].loop = "sub" /\ UNCHANGED <<closer, el>>
      BY <1>3, <2>2 DEF Subscribed
    <3>3. [src[t] EXCEPT !.loop = "make", !.tracks = n] \in Source
      <4>1. n \in 0..2
        OBVIOUS
      <4>2. \A s \in Source : [s EXCEPT !.loop = "make"] \in Source
        BY DEF Source
      <4>3. \A s \in Source : [s EXCEPT !.tracks = n] \in Source
        BY <4>1 DEF Source
      <4>4. [[src[t] EXCEPT !.loop = "make"] EXCEPT !.tracks = n] \in Source
        BY <1>1, <4>2, <4>3
      <4>5. QED BY <4>4
    <3>4. src' = [src EXCEPT ![t] = [src[t] EXCEPT !.loop = "make", !.tracks = n]]
      BY <3>1 DEF TypeOK, SrcTypeOK
    <3>5. QED BY <1>1, <3>2, <3>3, <3>4 DEF LoopGoesOn, Source
  <2>3. QED BY <2>1, <2>2
<1>4. ASSUME CreateSession(t) PROVE LoopGoesOn(t)
  <2>1. CASE Moves(t, "make", "stop") \/ Moves(t, "make", "post")
    BY <2>1, <1>2
  <2>2. CASE ~ (Moves(t, "make", "stop") \/ Moves(t, "make", "post"))
    <3>1. /\ src[t].loop = "make" /\ src[t].tracks > 0 /\ UNCHANGED closer
          /\ src' = [src EXCEPT ![t].tracks = src[t].tracks - 1, ![t].session = TRUE]
          /\ el' = [el EXCEPT !.fed = t]
      BY <1>4, <2>2 DEF CreateSession
    <3>2. src[t].tracks - 1 \in 0..2
      BY <1>1, <3>1 DEF Source
    <3>3. [src[t] EXCEPT !.tracks = src[t].tracks - 1, !.session = TRUE] \in Source
      BY <1>1, <3>2 DEF Source
    <3>4. src' = [src EXCEPT ![t] = [src[t] EXCEPT !.tracks = src[t].tracks - 1, !.session = TRUE]]
      BY <3>1 DEF TypeOK, SrcTypeOK
    <3>5. el' \in Element /\ el'.ghosts = el.ghosts /\ el'.callbacks = el.callbacks
      BY <1>1, <3>1 DEF Element
    <3>6. QED BY <1>1, <3>1, <3>3, <3>4, <3>5 DEF LoopGoesOn, Source
  <2>3. QED BY <2>1, <2>2
<1>5. ASSUME Posted(t) PROVE LoopGoesOn(t)
  BY <1>5, <1>2 DEF Posted
<1>6. QED BY <1>3, <1>4, <1>5 DEF Loop

----------------------------------------------------------------------------
(* The life of the sources, and types *)

\* What OwnerLives and PausedIsQuiet rest on.  As long as no property has replaced
\* a source the element has the only one that is owned; and while that one is at
\* work it runs, or is paused together with its closer.
LifeInv ==
    /\ ~ alive => task = 0
    /\ task # 0 => src[task].client \in Client
    /\ ~ replaced =>
          /\ \A t \in Task : t # task => ~ src[t].owned
          /\ task # 0 => src[task].owned
          /\ el.callbacks = task
    /\ ~ replaced /\ task # 0 /\ src[task].loop \in {"sub", "make", "post"} =>
          /\ src[task].st \in {"running", "paused"}
          /\ running => src[task].st = "running"
          /\ ~ running => CloserOf(task) # "open"

\* The types that are not those of the handles.
ElementTypeOK ==
    /\ SrcTypeOK
    /\ alive \in BOOLEAN /\ running \in BOOLEAN /\ replaced \in BOOLEAN
    /\ pattern \in BOOLEAN /\ mode \in Mode /\ task \in 0..MaxTasks

LEMMA PreparedAnewLife ==
    ASSUME TypeOK, LifeInv, NEW c \in Client, NEW start \in BOOLEAN, NEW new \in Task,
           PreparedAnew(c, start, new), alive, UNCHANGED <<alive, mode>>,
           running' = TRUE
    PROVE SrcTypeOK' /\ LifeInv' /\ task' \in 0..MaxTasks /\ replaced' \in BOOLEAN
<1>1. /\ Made(c) \in Source /\ Start(Made(c)) \in Source
      /\ Made(c).owned /\ Made(c).st = "inited" /\ Made(c).loop = "none" /\ Made(c).client = c
  BY MadeType, SourceTypes DEF TypeOK
<1>2. Start(Made(c)).owned /\ Start(Made(c)).st = "running" /\ Start(Made(c)).client = c
  BY <1>1 DEF Start, Source
<1>3. /\ task' = new /\ task' \in 0..MaxTasks /\ task' # 0
      /\ replaced' \in BOOLEAN /\ (~ replaced' => ~ replaced /\ task = 0)
  <2>1. task' = new /\ replaced' = (replaced \/ task # 0) /\ replaced \in BOOLEAN
    BY DEF PreparedAnew, TypeOK
  <2>2. replaced' \in BOOLEAN /\ (~ replaced' => ~ replaced /\ task = 0)
    BY <2>1, Zenon
  <2>3. new \in 0..MaxTasks /\ new # 0
    OBVIOUS
  <2>4. QED BY <2>1, <2>2, <2>3
<1>4. src' \in [Task -> Source]
  <2>1. \A t \in Task : src[t] \in Source
    BY DEF TypeOK, SrcTypeOK
  <2>2. QED BY <2>1, <1>1, SourceTypes DEF PreparedAnew
<1>5. closer' \in [Client -> {"open", "stopped", "closed"}]
  BY DEF PreparedAnew, TypeOK, SrcTypeOK
<1>6. el' \in Element /\ el'.callbacks = new
  <2>1. el \in Element /\ (task # 0 => Detached(el, task) \in Element)
    BY ElementTypes DEF TypeOK, SrcTypeOK
  <2>2. \A e \in Element : RtpBinIn(e, new) \in Element
    BY ElementTypes DEF TypeOK
  <2>3. \A e \in Element : RtpBinIn(e, new).callbacks = new
    BY DEF RtpBinIn, Element
  <2>4. QED BY <2>1, <2>2, <2>3 DEF PreparedAnew
<1>7. src'[new] = (IF start THEN Start(Made(c)) ELSE Made(c))
  BY DEF PreparedAnew
<1>8. ~ replaced' => \A t \in Task : t # new => ~ src'[t].owned
  BY <1>3 DEF PreparedAnew, LifeInv
<1>9. src'[new].owned /\ src'[new].client = c
  BY <1>1, <1>2, <1>7
<1>10. src'[new].loop # "none" => src'[new].st = "running"
  BY <1>1, <1>2, <1>7
<1>11. LifeInv'
  BY <1>3, <1>6, <1>8, <1>9, <1>10 DEF LifeInv
<1>12. QED BY <1>3, <1>4, <1>5, <1>6, <1>11 DEF SrcTypeOK

LEMMA PreparedAgainLife ==
    ASSUME TypeOK, LifeInv, NEW start \in BOOLEAN, PreparedAgain(start), alive,
           UNCHANGED <<alive, mode>>, running' = (running \/ start)
    PROVE SrcTypeOK' /\ LifeInv' /\ task' \in 0..MaxTasks /\ replaced' \in BOOLEAN
<1>1. task' = task /\ el' = el /\ replaced' = replaced /\ task \in 0..MaxTasks /\ replaced \in BOOLEAN
  BY DEF PreparedAgain, TypeOK
<1>2. CASE task = 0
  <2>1. UNCHANGED <<src, closer>>
    BY <1>2 DEF PreparedAgain
  <2>2. QED BY <1>1, <1>2, <2>1 DEF LifeInv, TypeOK, SrcTypeOK
<1>3. CASE task # 0 /\ ~ start
  <2>1. src' = src /\ closer' = closer /\ running' = running
    BY <1>3 DEF PreparedAgain, TypeOK, SrcTypeOK
  <2>2. QED BY <1>1, <1>3, <2>1 DEF LifeInv, TypeOK, SrcTypeOK, CloserOf
<1>4. CASE task # 0 /\ start
  <2> DEFINE s == Resumed(Start(src[task]))
  <2>1. task \in Task /\ src[task] \in Source /\ Start(src[task]) \in Source /\ s \in Source
    BY <1>1, <1>4, SourceTypes DEF TypeOK, SrcTypeOK
  <2>2. src' = [src EXCEPT ![task] = s] /\ closer' = ResumedCloser(src[task]) /\ running'
    BY <1>4 DEF PreparedAgain
  <2>3. /\ s.owned = src[task].owned /\ s.client = src[task].client
        /\ src[task].st \in {"inited", "running", "paused"} => s.st = "running"
        /\ src[task].st \notin {"inited", "running", "paused"} => s.loop = src[task].loop
    BY <2>1 DEF Start, Resumed, Source
  <2> HIDE DEF s
  <2>4. src' \in [Task -> Source]
    BY <2>1, <2>2 DEF TypeOK, SrcTypeOK
  <2>5. closer' \in [Client -> {"open", "stopped", "closed"}]
    BY <2>2 DEF ResumedCloser, TypeOK, SrcTypeOK
  <2>6. src'[task] = s /\ \A t \in Task : t # task => src'[t] = src[t]
    BY <2>1, <2>2 DEF TypeOK, SrcTypeOK
  <2>7. LifeInv'
    BY <1>1, <2>2, <2>3, <2>6 DEF LifeInv
  <2>8. QED BY <1>1, <2>4, <2>5, <2>7 DEF SrcTypeOK, TypeOK
<1>5. QED BY <1>2, <1>3, <1>4

LEMMA PrepareLife ==
    ASSUME TypeOK, LifeInv, NEW c \in Client \cup {0}, NEW p \in BOOLEAN, NEW reset \in BOOLEAN,
           NEW start \in BOOLEAN, NEW run \in BOOLEAN, Prepare(c, p, run, reset, start),
           alive, UNCHANGED <<alive, mode>>, run = (running \/ start), running' = run
    PROVE SrcTypeOK' /\ LifeInv' /\ task' \in 0..MaxTasks /\ replaced' \in BOOLEAN
<1>1. (run /\ \E new \in Task : PreparedAnew(c, start, new)) \/ PreparedAgain(start)
  BY PrepareEffect
<1>2. ASSUME run, NEW new \in Task, PreparedAnew(c, start, new)
      PROVE SrcTypeOK' /\ LifeInv' /\ task' \in 0..MaxTasks /\ replaced' \in BOOLEAN
  <2>1. c \in Client
    BY <1>2 DEF PreparedAnew
  <2>2. running' = TRUE
    BY <1>2
  <2>3. QED BY <1>2, <2>1, <2>2, PreparedAnewLife
<1>3. CASE PreparedAgain(start)
  BY <1>3, PreparedAgainLife
<1>4. QED BY <1>1, <1>2, <1>3

\* A step that leaves the owner, the state, the client and the loop of every
\* source alone, and opens no closer.
LEMMA LifeRests ==
    ASSUME LifeInv, UNCHANGED <<alive, running, task, replaced>>,
           el'.callbacks = el.callbacks,
           \A t \in Task : /\ src'[t].owned = src[t].owned /\ src'[t].st = src[t].st
                           /\ src'[t].client = src[t].client /\ src'[t].loop = src[t].loop,
           \A c \in Client : closer'[c] = closer[c] \/ closer'[c] # "open",
           task \in 0..MaxTasks
    PROVE LifeInv'
<1>1. CASE task = 0
  BY <1>1 DEF LifeInv
<1>2. CASE task # 0
  <2>1. task \in Task
    BY <1>2
  <2>2. CloserOf(task)' = CloserOf(task) \/ CloserOf(task)' # "open"
    BY <2>1 DEF CloserOf, LifeInv
  <2>3. QED BY <2>1, <2>2 DEF LifeInv
<1>3. QED BY <1>1, <1>2

\* A step of the channels: of the source t only they and its mode change.
ChannelsMove(t) ==
    /\ \E m \in Mode, chs \in Seq(Channel) :
          src' = [src EXCEPT ![t] = [src[t] EXCEPT !.mode = m, !.channels = chs]]
    /\ UNCHANGED closer /\ el' \in Element /\ el'.callbacks = el.callbacks

LEMMA ChannelsLife ==
    ASSUME TypeOK, LifeInv, NEW t \in Task, ChannelsMove(t),
           UNCHANGED <<alive, running, task, replaced>>
    PROVE SrcTypeOK' /\ LifeInv'
<1>1. PICK m \in Mode, chs \in Seq(Channel) :
          src' = [src EXCEPT ![t] = [src[t] EXCEPT !.mode = m, !.channels = chs]]
  BY DEF ChannelsMove
<1> DEFINE s == [src[t] EXCEPT !.mode = m, !.channels = chs]
<1>2. /\ s \in Source /\ s.owned = src[t].owned /\ s.st = src[t].st /\ s.client = src[t].client
      /\ s.loop = src[t].loop
  <2>1. \A r \in Source : [r EXCEPT !.mode = m, !.channels = chs] \in Source
    BY DEF Source
  <2>2. src[t] \in Source
    BY DEF TypeOK, SrcTypeOK
  <2>3. QED BY <2>1, <2>2 DEF Source
<1> HIDE DEF s
<1>3. src' = [src EXCEPT ![t] = s]
  BY <1>1 DEF s
<1>4. src' \in [Task -> Source]
  BY <1>2, <1>3 DEF TypeOK, SrcTypeOK
<1>5. src'[t] = s /\ \A u \in Task : u # t => src'[u] = src[u]
  BY <1>3 DEF TypeOK, SrcTypeOK
<1>6. LifeInv'
  BY <1>2, <1>5, LifeRests DEF ChannelsMove, TypeOK
<1>7. QED BY <1>4, <1>6 DEF ChannelsMove, TypeOK, SrcTypeOK

LEMMA PadsMove ==
    ASSUME TypeOK, NEW t \in Task, Pads(t)
    PROVE ChannelsMove(t)
<1>1. el \in Element /\ src[t] \in Source /\ src \in [Task -> Source]
  BY DEF TypeOK, SrcTypeOK
<1>2. src[t].mode \in Mode /\ src[t].channels \in Seq(Channel)
  BY <1>1 DEF Source
<1>3. ASSUME UNCHANGED src, UNCHANGED closer, el' \in Element, el'.callbacks = el.callbacks
      PROVE ChannelsMove(t)
  <2>1. src = [src EXCEPT ![t] = [src[t] EXCEPT !.mode = src[t].mode, !.channels = src[t].channels]]
    BY <1>1 DEF Source
  <2>2. QED BY <1>2, <1>3, <2>1 DEF ChannelsMove
<1>4. ASSUME NEW chs \in Seq(Channel), src' = [src EXCEPT ![t].channels = chs], UNCHANGED closer,
             el' \in Element, el'.callbacks = el.callbacks
      PROVE ChannelsMove(t)
  <2>1. [src[t] EXCEPT !.channels = chs] = [src[t] EXCEPT !.mode = src[t].mode, !.channels = chs]
    BY <1>1 DEF Source
  <2>2. src' = [src EXCEPT ![t] = [src[t] EXCEPT !.mode = src[t].mode, !.channels = chs]]
    BY <1>1, <1>4, <2>1
  <2>3. QED BY <1>2, <1>4, <2>2 DEF ChannelsMove
<1>5. ASSUME NEW ps, NEW live \in SUBSET Pad
      PROVE /\ [el EXCEPT !.live = live] \in Element
            /\ Unghosted([el EXCEPT !.live = live], ps) \in Element
            /\ Unghosted([el EXCEPT !.live = live], ps).callbacks = el.callbacks
            /\ Unghosted(el, ps) \in Element /\ Unghosted(el, ps).callbacks = el.callbacks
  <2>1. [el EXCEPT !.live = live] \in Element /\ [el EXCEPT !.live = live].callbacks = el.callbacks
    BY <1>1 DEF Element
  <2>2. \A e \in Element : Unghosted(e, ps).callbacks = e.callbacks
    BY DEF Unghosted, Element
  <2>3. QED BY <1>1, <2>1, <2>2, ElementTypes DEF TypeOK
<1>6. CASE RtpPadAdded(t)
  <2>1. PICK ssrc \in Ssrc :
          LET pad == [kind |-> "raw", task |-> t, ssrc |-> ssrc, n |-> Len(src[t].channels) + 1]
          IN  /\ src' = [src EXCEPT ![t].channels = NewChannel(src[t].channels, pad, src[t].mode)]
              /\ el' = [el EXCEPT !.live = el.live \cup {pad},
                                  !.ghosts = el.ghosts \cup Ghosts(src[t].mode, {pad})]
    BY <1>6 DEF RtpPadAdded
  <2> DEFINE pad == [kind |-> "raw", task |-> t, ssrc |-> ssrc, n |-> Len(src[t].channels) + 1]
             c == [pad |-> pad, proc |-> Processor(src[t].channels, ssrc, src[t].mode), pads |-> {}]
  <2>2. Len(src[t].channels) + 1 \in 1..MaxChannels
    BY <1>2, <1>6 DEF RtpPadAdded
  <2>3. pad \in Pad
    BY <2>2 DEF Pad
  <2>4. Processor(src[t].channels, ssrc, src[t].mode) \in {"none"} \cup Mode
    BY <1>2 DEF Processor
  <2>5. c \in Channel
    BY <2>3, <2>4 DEF Channel
  <2>6. NewChannel(src[t].channels, pad, src[t].mode) = Append(src[t].channels, c)
    BY DEF NewChannel
  <2> HIDE DEF c
  <2>7. Append(src[t].channels, c) \in Seq(Channel)
    BY <1>2, <2>5
  <2>8. el.live \cup {pad} \subseteq Pad /\ el.ghosts \cup Ghosts(src[t].mode, {pad}) \subseteq Pad
    BY <1>1, <2>3 DEF Element, Ghosts
  <2> HIDE DEF pad
  <2>9. /\ src' = [src EXCEPT ![t].channels = Append(src[t].channels, c)]
        /\ el' = [el EXCEPT !.live = el.live \cup {pad},
                            !.ghosts = el.ghosts \cup Ghosts(src[t].mode, {pad})]
    BY <2>1, <2>6 DEF pad
  <2>10. el' \in Element /\ el'.callbacks = el.callbacks
    BY <1>1, <2>8, <2>9 DEF Element
  <2>11. QED BY <1>4, <1>6, <2>7, <2>9, <2>10 DEF RtpPadAdded
<1>7. CASE RtpPadRemoved(t)
  <2>1. PICK pad \in el.live : el' = Unghosted([el EXCEPT !.live = el.live \ {pad}], {pad})
    BY <1>7 DEF RtpPadRemoved
  <2>2. el.live \ {pad} \subseteq Pad
    BY <1>1 DEF Element
  <2>3. el' \in Element /\ el'.callbacks = el.callbacks
    BY <2>1, <2>2, <1>5
  <2>4. QED BY <1>3, <1>7, <2>3 DEF RtpPadRemoved
<1>8. ASSUME NEW j \in DOMAIN src[t].channels, NEW ps \in SUBSET Pad
      PROVE /\ [src[t].channels EXCEPT ![j] = [src[t].channels[j] EXCEPT !.pads = ps]] \in Seq(Channel)
            /\ [src EXCEPT ![t].channels[j].pads = ps] =
               [src EXCEPT ![t].channels =
                  [src[t].channels EXCEPT ![j] = [src[t].channels[j] EXCEPT !.pads = ps]]]
  <2>1. src[t].channels[j] \in Channel
    BY <1>2
  <2>2. [src[t].channels[j] EXCEPT !.pads = ps] \in Channel
    BY <2>1 DEF Channel
  <2>3. QED BY <1>1, <1>2, <2>2
<1>9. CASE SrcPadAdded(t)
  <2>1. PICK i \in DOMAIN src[t].channels, j \in DOMAIN src[t].channels, n \in SrcPad :
          LET pad == [kind |-> src[t].channels[i].proc, task |-> t,
                      ssrc |-> src[t].channels[i].pad.ssrc, n |-> n]
          IN  /\ src[t].channels[i].proc # "none"
              /\ src' = [src EXCEPT ![t].channels[j].pads =
                            src[t].channels[j].pads \cup Ghosts(src[t].mode, {pad})]
              /\ el' = [el EXCEPT !.ghosts = el.ghosts \cup Ghosts(src[t].mode, {pad})]
    BY <1>9, <1>1, <1>2 DEF SrcPadAdded
  <2> DEFINE pad == [kind |-> src[t].channels[i].proc, task |-> t,
                     ssrc |-> src[t].channels[i].pad.ssrc, n |-> n]
             ps == src[t].channels[j].pads \cup Ghosts(src[t].mode, {pad})
  <2>2. src[t].channels[i] \in Channel /\ src[t].channels[j] \in Channel
    BY <1>2
  <2>3. src[t].channels[i].proc \in Mode /\ src[t].channels[i].pad.ssrc \in Ssrc
    BY <2>1, <2>2 DEF Channel, Pad
  <2>4. pad \in Pad
    BY <2>3 DEF Pad
  <2>5. /\ ps \in SUBSET Pad
        /\ el.ghosts \cup Ghosts(src[t].mode, {pad}) \subseteq Pad
    BY <1>1, <2>2, <2>4 DEF Channel, Ghosts, Element
  <2> HIDE DEF pad
  <2>6. /\ src' = [src EXCEPT ![t].channels[j].pads = ps]
        /\ el' = [el EXCEPT !.ghosts = el.ghosts \cup Ghosts(src[t].mode, {pad})]
    BY <2>1 DEF pad
  <2>7. el' \in Element /\ el'.callbacks = el.callbacks
    BY <1>1, <2>5, <2>6 DEF Element
  <2> HIDE DEF ps
  <2>8. UNCHANGED closer
    BY <1>9 DEF SrcPadAdded
  <2>9. QED BY <1>4, <1>8, <2>5, <2>6, <2>7, <2>8
<1>10. CASE SrcPadRemoved(t)
  <2>0. PICK j \in DOMAIN src[t].channels : \E pad \in src[t].channels[j].pads :
          /\ src' = [src EXCEPT ![t].channels[j].pads = src[t].channels[j].pads \ {pad}]
          /\ el' = Unghosted(el, {pad})
    BY <1>10, <1>1, <1>2 DEF SrcPadRemoved
  <2>1. PICK pad \in src[t].channels[j].pads :
          /\ src' = [src EXCEPT ![t].channels[j].pads = src[t].channels[j].pads \ {pad}]
          /\ el' = Unghosted(el, {pad})
    BY <2>0
  <2>2. src[t].channels[j] \in Channel
    BY <1>2
  <2> DEFINE ps == src[t].channels[j].pads \ {pad}
  <2>3. ps \in SUBSET Pad
    BY <2>2 DEF Channel
  <2>4. el' \in Element /\ el'.callbacks = el.callbacks
    <3>1. el.live \in SUBSET Pad
      BY <1>1 DEF Element
    <3>2. QED BY <2>1, <3>1, <1>5
  <2>5. UNCHANGED closer /\ src' = [src EXCEPT ![t].channels[j].pads = ps]
    BY <1>10, <2>1 DEF SrcPadRemoved
  <2> HIDE DEF ps
  <2>6. QED BY <1>4, <1>8, <2>3, <2>4, <2>5
<1>11. QED BY <1>6, <1>7, <1>9, <1>10 DEF Pads

LEMMA SwitchMoves ==
    ASSUME TypeOK, NEW t \in Task, NEW m \in Mode, SwitchMode(t, m), UNCHANGED closer
    PROVE ChannelsMove(t)
<1>1. el \in Element /\ src[t] \in Source /\ src \in [Task -> Source]
  BY DEF TypeOK, SrcTypeOK
<1>2. src[t].mode \in Mode /\ src[t].channels \in Seq(Channel)
  BY <1>1 DEF Source
<1>3. CASE ~ src[t].owned \/ src[t].mode = m
  <2>1. UNCHANGED <<src, el>>
    BY <1>3 DEF SwitchMode
  <2>2. src = [src EXCEPT ![t] = [src[t] EXCEPT !.mode = src[t].mode, !.channels = src[t].channels]]
    BY <1>1 DEF Source
  <2>3. QED BY <1>1, <1>2, <2>1, <2>2 DEF ChannelsMove
<1>4. CASE ~ (~ src[t].owned \/ src[t].mode = m)
  <2> DEFINE chs == Reinit(src[t].channels, m)
             gone == PadsOf(src[t].channels)
             new == Ghosts(m, RtpPads(src[t].channels))
  <2>1. chs \in Seq(Channel) /\ new \subseteq Pad
    BY <1>2, ReinitKeeps, PadsOfThem DEF Ghosts
  <2> HIDE DEF chs, gone, new
  <2>2. /\ src' = [src EXCEPT ![t].mode = m, ![t].channels = chs]
        /\ el' = [Unghosted(el, gone) EXCEPT !.ghosts = @ \cup new]
    BY <1>1, <1>4 DEF SwitchMode, chs, gone, new
  <2>3. src' = [src EXCEPT ![t] = [src[t] EXCEPT !.mode = m, !.channels = chs]]
    BY <1>1, <2>2
  <2>4. Unghosted(el, gone) \in Element /\ Unghosted(el, gone).callbacks = el.callbacks
    BY <1>1, ElementTypes DEF Unghosted, Element, TypeOK
  <2>5. \A e \in Element : /\ [e EXCEPT !.ghosts = @ \cup new] \in Element
                           /\ [e EXCEPT !.ghosts = @ \cup new].callbacks = e.callbacks
    BY <2>1 DEF Element
  <2>6. QED BY <2>1, <2>2, <2>3, <2>4, <2>5 DEF ChannelsMove
<1>5. QED BY <1>3, <1>4

LEMMA LoopLife ==
    ASSUME TypeOK, LifeInv, NEW t \in Task, Runs(t)
    PROVE SrcTypeOK' /\ LifeInv'
<1> USE DEF gstVars
<1>1. /\ src \in [Task -> Source] /\ el \in Element /\ task \in 0..MaxTasks
      /\ closer \in [Client -> {"open", "stopped", "closed"}]
      /\ UNCHANGED <<alive, running, task, replaced>> /\ Loop(t, task)
  BY DEF TypeOK, SrcTypeOK, Runs
<1>2. CASE LoopGoesOn(t)
  <2>1. PICK s \in Source : src' = [src EXCEPT ![t] = s] /\ s.owned = src[t].owned
            /\ s.mode = src[t].mode /\ s.channels = src[t].channels /\ s.st = src[t].st
            /\ s.client = src[t].client
    BY <1>2 DEF LoopGoesOn
  <2>2. /\ UNCHANGED closer /\ el' \in Element /\ el'.callbacks = el.callbacks
        /\ src[t].loop \in {"sub", "make", "post"}
    BY <1>2 DEF LoopGoesOn
  <2>3. src' \in [Task -> Source] /\ src'[t] = s /\ \A u \in Task : u # t => src'[u] = src[u]
    BY <1>1, <2>1
  <2>4. \A u \in Task : src'[u].owned = src[u].owned /\ src'[u].client = src[u].client
    BY <2>1, <2>3
  <2>5. LifeInv'
    <3>1. CASE task = 0
      BY <1>1, <2>2, <2>4, <3>1 DEF LifeInv
    <3>2. CASE task # 0
      <4>1. task \in Task
        BY <1>1, <3>2
      <4>2. /\ src'[task].st = src[task].st /\ src'[task].client = src[task].client
            /\ src'[task].loop = src[task].loop \/ src[task].loop \in {"sub", "make", "post"}
        BY <2>1, <2>2, <2>3, <4>1
      <4>3. CloserOf(task)' = CloserOf(task)
        BY <1>1, <2>2, <4>2 DEF CloserOf
      <4>4. QED BY <1>1, <2>2, <2>4, <3>2, <4>1, <4>2, <4>3 DEF LifeInv
    <3>3. QED BY <3>1, <3>2
  <2>6. QED BY <1>1, <2>2, <2>3, <2>5 DEF SrcTypeOK
<1>3. CASE LoopEnds(t, task)
  <2>1. closer' \in [Client -> {"open", "stopped", "closed"}]
    BY <1>1, <1>3 DEF LoopEnds
  <2>2. \A c \in Client : closer'[c] = closer[c] \/ closer'[c] # "open"
    BY <1>1, <1>3 DEF LoopEnds
  <2>3. CASE t = task /\ src' = [src EXCEPT ![t] = [src[t] EXCEPT !.loop = "end", !.st = "stopped"]]
             /\ UNCHANGED el
    <3>1. [src[t] EXCEPT !.loop = "end", !.st = "stopped"] \in Source
      <4>1. \A s \in Source : [s EXCEPT !.loop = "end", !.st = "stopped"] \in Source
        BY DEF Source
      <4>2. QED BY <1>1, <4>1
    <3>2. src' \in [Task -> Source]
      BY <1>1, <2>3, <3>1
    <3>3. /\ src'[t].loop = "end" /\ src'[t].owned = src[t].owned /\ src'[t].client = src[t].client
          /\ \A u \in Task : u # t => src'[u] = src[u]
      BY <1>1, <2>3 DEF Source
    <3>4. LifeInv'
      BY <1>1, <2>3, <3>3 DEF LifeInv
    <3>5. QED BY <1>1, <2>1, <2>3, <3>2, <3>4 DEF SrcTypeOK
  <2>4. CASE t # task /\ src' = [src EXCEPT ![t] = Dead] /\ el' = Detached(el, t)
    <3>1. el' \in Element
      BY <1>1, <2>4, ElementTypes DEF TypeOK
    <3>2. src' \in [Task -> Source]
      BY <1>1, <2>4, SourceTypes
    <3>3. src'[t] = Dead /\ ~ Dead.owned /\ \A u \in Task : u # t => src'[u] = src[u]
      BY <1>1, <2>4 DEF Dead, NewSource
    <3>4. ~ replaced => el' = el
      BY <2>4 DEF LifeInv, Detached, HasOwner
    <3>5. task # 0 => (CloserOf(task)' = CloserOf(task) \/ CloserOf(task)' # "open")
      <4>1. task # 0 => task \in Task /\ src'[task] = src[task] /\ src[task].client \in Client
        BY <1>1, <2>4, <3>3 DEF LifeInv
      <4>2. QED BY <1>1, <2>2, <4>1 DEF CloserOf
    <3>6. LifeInv'
      <4>1. CASE task = 0
        BY <1>1, <2>4, <3>3, <3>4, <4>1 DEF LifeInv
      <4>2. CASE task # 0
        <5>1. task \in Task /\ src'[task] = src[task]
          BY <1>1, <2>4, <3>3, <4>2
        <5>2. QED BY <1>1, <2>4, <3>3, <3>4, <3>5, <4>2, <5>1 DEF LifeInv
      <4>3. QED BY <4>1, <4>2
    <3>7. QED BY <2>1, <3>1, <3>2, <3>6 DEF SrcTypeOK
  <2>5. QED BY <1>3, <2>3, <2>4 DEF LoopEnds
<1>4. QED BY <1>1, <1>2, <1>3, LoopEffect

LEMMA PausesLife ==
    ASSUME TypeOK, LifeInv, Pauses
    PROVE SrcTypeOK' /\ LifeInv'
<1>1. /\ src \in [Task -> Source] /\ el' = el /\ task' = task /\ task \in 0..MaxTasks
      /\ closer \in [Client -> {"open", "stopped", "closed"}]
      /\ running /\ ~ running' /\ UNCHANGED <<alive, replaced>>
  BY DEF Pauses, TypeOK, SrcTypeOK
<1>2. CASE task = 0
  BY <1>1, <1>2 DEF Pauses, LifeInv, TypeOK, SrcTypeOK
<1>3. CASE task # 0
  <2> DEFINE s == Paused(src[task])
  <2>1. task \in Task /\ src[task] \in Source /\ src[task].client \in Client
    BY <1>1, <1>3 DEF LifeInv
  <2>2. /\ s \in Source /\ s.owned = src[task].owned /\ s.client = src[task].client
        /\ s.loop = src[task].loop
        /\ src[task].st \in {"running", "paused"} => s.st = "paused"
    <3>1. s \in Source
      BY <2>1, SourceTypes
    <3>2. s = IF src[task].st = "running" THEN [src[task] EXCEPT !.st = "paused"] ELSE src[task]
      BY DEF Paused
    <3> HIDE DEF s
    <3>3. QED BY <2>1, <3>1, <3>2 DEF Source
  <2> HIDE DEF s
  <2>3. src' = [src EXCEPT ![task] = s] /\ closer' = PausedCloser(src[task])
    BY <1>3 DEF Pauses, s
  <2>4. src' \in [Task -> Source] /\ src'[task] = s /\ \A t \in Task : t # task => src'[t] = src[t]
    BY <1>1, <2>1, <2>2, <2>3
  <2>5. closer' \in [Client -> {"open", "stopped", "closed"}]
    BY <1>1, <2>3 DEF PausedCloser
  <2>6. src[task].st = "running" => closer'[src[task].client] # "open"
    BY <1>1, <2>1, <2>3 DEF PausedCloser
  <2>7. src[task].st = "running" => CloserOf(task)' # "open"
    BY <1>1, <2>2, <2>4, <2>6 DEF CloserOf
  <2>8. LifeInv'
    BY <1>1, <1>3, <2>1, <2>2, <2>4, <2>7 DEF LifeInv
  <2>9. QED BY <1>1, <2>4, <2>5, <2>8 DEF SrcTypeOK, TypeOK
<1>4. QED BY <1>2, <1>3

LEMMA FinalizeLife ==
    ASSUME TypeOK, LifeInv, Finalize
    PROVE SrcTypeOK' /\ LifeInv'
<1>1. /\ src \in [Task -> Source] /\ el \in Element /\ task' = 0 /\ task \in 0..MaxTasks
      /\ closer \in [Client -> {"open", "stopped", "closed"}]
      /\ UNCHANGED <<running, replaced>>
  BY DEF Finalize, TypeOK, SrcTypeOK
<1>2. CASE task = 0
  <2>1. UNCHANGED srcVars
    BY <1>2 DEF Finalize
  <2>2. SrcTypeOK'
    BY <2>1 DEF TypeOK, SrcTypeOK, srcVars
  <2>3. LifeInv'
    BY <1>1, <1>2, <2>1 DEF LifeInv, srcVars
  <2>4. QED BY <2>2, <2>3
<1>3. CASE task # 0
  <2> DEFINE s == IF Held(task) THEN Unowned(src[task]) ELSE Dead
  <2>1. task \in Task /\ src[task] \in Source
    BY <1>1, <1>3
  <2>2. s \in Source /\ ~ s.owned
    <3>1. Unowned(src[task]) \in Source /\ ~ Unowned(src[task]).owned
      <4>1. Unowned(src[task]).owned = FALSE
        BY <2>1 DEF Unowned, Source
      <4>2. QED BY <2>1, <4>1, SourceTypes
    <3>2. Dead \in Source /\ ~ Dead.owned
      BY SourceTypes DEF Dead, NewSource
    <3>3. QED BY <3>1, <3>2
  <2> HIDE DEF s
  <2>3. src' = [src EXCEPT ![task] = s] /\ el' = Detached(el, task)
    BY <1>3 DEF Finalize, s
  <2>4. src' \in [Task -> Source] /\ src'[task] = s /\ \A t \in Task : t # task => src'[t] = src[t]
    BY <1>1, <2>1, <2>2, <2>3
  <2>5. closer' \in [Client -> {"open", "stopped", "closed"}]
    BY <1>1, <1>3 DEF Finalize
  <2>6. el' \in Element
    BY <1>1, <2>1, <2>3, ElementTypes DEF TypeOK
  <2>7. src[task].owned => el'.callbacks = 0
    BY <1>1, <2>3, ElementTypes DEF Detached, HasOwner, Unghosted, ReleasedPads, Element
  <2>8. LifeInv'
    BY <1>1, <1>3, <2>2, <2>4, <2>7 DEF LifeInv
  <2>9. QED BY <2>4, <2>5, <2>6, <2>8 DEF SrcTypeOK
<1>4. QED BY <1>2, <1>3

LEMMA LifeStep ==
    ASSUME TypeOK, LifeInv, CountType, CountType', [Next]_vars
    PROVE TypeOK' /\ LifeInv'
<1>1. /\ src \in [Task -> Source] /\ el \in Element /\ task \in 0..MaxTasks
      /\ closer \in [Client -> {"open", "stopped", "closed"}]
      /\ alive \in BOOLEAN /\ running \in BOOLEAN /\ pattern \in BOOLEAN /\ replaced \in BOOLEAN
      /\ mode \in Mode /\ client \in Client \cup {0}
  BY DEF TypeOK, SrcTypeOK
<1>2. ElementTypeOK' => TypeOK'
  <2>1. last' \in 0..MaxHandles /\ object' \subseteq 1..last'
    BY DEF CountType
  <2>2. object' \subseteq Handle
    BY <2>1
  <2>3. QED BY <2>1, <2>2 DEF ElementTypeOK, CountType, HandleTypeOK, TypeOK
<1>3. ASSUME UNCHANGED srcVars, UNCHANGED <<alive, running, task, replaced, pattern, mode>>
      PROVE ElementTypeOK' /\ LifeInv'
  BY <1>1, <1>3, LifeRests DEF srcVars, ElementTypeOK, SrcTypeOK
<1>4. CASE UNCHANGED vars
  BY <1>2, <1>3, <1>4 DEF vars, gstVars
<1>5. ASSUME AppWraps \/ (\E h \in Handle : AppRefs(h)) PROVE ElementTypeOK' /\ LifeInv'
  BY <1>3, <1>5 DEF AppWraps, AppRefs
<1>6. ASSUME NEW h \in Handle, AppCloses(h) PROVE ElementTypeOK' /\ LifeInv'
  <2>1. /\ src' = src /\ el' = el /\ closer' = [closer EXCEPT ![h] = "closed"]
        /\ UNCHANGED <<alive, running, task, replaced, pattern, mode>>
    BY <1>6 DEF AppCloses, gstVars
  <2>2. closer' \in [Client -> {"open", "stopped", "closed"}]
    BY <1>1, <2>1
  <2>3. \A c \in Client : closer'[c] = closer[c] \/ closer'[c] # "open"
    BY <1>1, <2>1
  <2>4. QED BY <1>1, <2>1, <2>2, <2>3, LifeRests DEF ElementTypeOK, SrcTypeOK
<1>7. ASSUME NEW h \in Handle, SetClient(h) PROVE ElementTypeOK' /\ LifeInv'
  <2>1. /\ alive /\ Prepare(h, pattern, running, TRUE, FALSE)
        /\ UNCHANGED <<alive, pattern, mode, running>>
    BY <1>7 DEF SetClient
  <2>2. running = (running \/ FALSE) /\ running' = running
    BY <1>1, <2>1
  <2>3. SrcTypeOK' /\ LifeInv' /\ task' \in 0..MaxTasks /\ replaced' \in BOOLEAN
    BY <1>1, <2>1, <2>2, PrepareLife
  <2>4. QED BY <1>1, <2>1, <2>3 DEF ElementTypeOK
<1>8. ASSUME NEW m \in Mode, SetMode(m) PROVE ElementTypeOK' /\ LifeInv'
  <2>1. /\ mode' = m /\ UNCHANGED <<closer, alive, running, task, replaced, pattern>>
    BY <1>8 DEF SetMode
  <2>2. CASE task = 0
    <3>1. UNCHANGED <<src, el>>
      BY <1>8, <2>2 DEF SetMode
    <3>2. QED BY <1>1, <2>1, <3>1, LifeRests DEF ElementTypeOK, SrcTypeOK
  <2>3. CASE task # 0
    <3>1. task \in Task /\ SwitchMode(task, m)
      BY <1>1, <1>8, <2>3 DEF SetMode
    <3>2. ChannelsMove(task)
      BY <2>1, <3>1, SwitchMoves
    <3>3. SrcTypeOK' /\ LifeInv'
      BY <2>1, <3>1, <3>2, ChannelsLife
    <3>4. QED BY <1>1, <2>1, <3>3 DEF ElementTypeOK
  <2>4. QED BY <2>2, <2>3
<1>9. ASSUME SetPattern PROVE ElementTypeOK' /\ LifeInv'
  <2>1. /\ alive /\ Prepare(client, TRUE, running, TRUE, FALSE) /\ pattern' = TRUE
        /\ UNCHANGED <<alive, mode, running>>
    BY <1>9 DEF SetPattern
  <2>2. running = (running \/ FALSE) /\ running' = running
    BY <1>1, <2>1
  <2>3. SrcTypeOK' /\ LifeInv' /\ task' \in 0..MaxTasks /\ replaced' \in BOOLEAN
    BY <1>1, <2>1, <2>2, PrepareLife
  <2>4. QED BY <1>1, <2>1, <2>3 DEF ElementTypeOK
<1>10. ASSUME Plays PROVE ElementTypeOK' /\ LifeInv'
  <2>1. /\ alive /\ Prepare(client, pattern, TRUE, FALSE, TRUE) /\ running' = TRUE
        /\ UNCHANGED <<alive, mode, pattern>>
    BY <1>10 DEF Plays
  <2>2. TRUE = (running \/ TRUE)
    BY <1>1
  <2>3. SrcTypeOK' /\ LifeInv' /\ task' \in 0..MaxTasks /\ replaced' \in BOOLEAN
    BY <1>1, <2>1, <2>2, PrepareLife
  <2>4. QED BY <1>1, <2>1, <2>3 DEF ElementTypeOK
<1>11. ASSUME Pauses PROVE ElementTypeOK' /\ LifeInv'
  BY <1>1, <1>11, PausesLife DEF Pauses, ElementTypeOK
<1>12. ASSUME Finalize PROVE ElementTypeOK' /\ LifeInv'
  <2>1. /\ SrcTypeOK' /\ LifeInv' /\ UNCHANGED <<running, replaced>>
        /\ alive' = FALSE /\ pattern' = FALSE /\ mode' = "raw" /\ task' = 0
    BY <1>12, FinalizeLife DEF Finalize
  <2>2. mode' \in Mode /\ task' \in 0..MaxTasks
    BY <2>1
  <2>3. QED BY <1>1, <2>1, <2>2 DEF ElementTypeOK
<1>13. ASSUME NEW t \in Task, Runs(t) PROVE ElementTypeOK' /\ LifeInv'
  <2>1. SrcTypeOK' /\ LifeInv'
    BY <1>13, LoopLife
  <2>2. UNCHANGED <<alive, running, task, replaced, pattern, mode>>
    BY <1>13 DEF Runs, gstVars
  <2>3. QED BY <1>1, <2>1, <2>2 DEF ElementTypeOK
<1>14. ASSUME NEW t \in Task, Pads(t), UNCHANGED <<handleVars, gstVars>>
       PROVE ElementTypeOK' /\ LifeInv'
  <2>1. UNCHANGED <<alive, running, task, replaced, pattern, mode>>
    BY <1>14 DEF gstVars
  <2>2. SrcTypeOK' /\ LifeInv'
    BY <1>14, <2>1, PadsMove, ChannelsLife
  <2>3. QED BY <1>1, <2>1, <2>2 DEF ElementTypeOK
<1>15. QED
  BY <1>2, <1>4, <1>5, <1>6, <1>7, <1>8, <1>9, <1>10, <1>11, <1>12, <1>13, <1>14 DEF Next

LEMMA InitLife == Init => TypeOK /\ LifeInv
<1> SUFFICES ASSUME Init PROVE TypeOK /\ LifeInv
  OBVIOUS
<1>1. src \in [Task -> Source]
  BY SourceTypes DEF Init, SrcInit
<1>2. el \in Element /\ el.callbacks = 0
  BY DEF Init, SrcInit, Element
<1>3. closer \in [Client -> {"open", "stopped", "closed"}]
  BY DEF Init, SrcInit
<1>4. HandleTypeOK
  BY DEF Init, HandleInit, HandleTypeOK
<1>5. TypeOK
  <2>1. SrcTypeOK
    BY <1>1, <1>2, <1>3 DEF SrcTypeOK
  <2>2. /\ alive \in BOOLEAN /\ running \in BOOLEAN /\ replaced \in BOOLEAN
        /\ pattern \in BOOLEAN /\ mode \in Mode
    BY DEF Init
  <2>3. client \in Handle \cup {0} /\ task \in 0..MaxTasks /\ app \in [Handle -> Nat]
    BY DEF Init
  <2>4. QED BY <1>4, <2>1, <2>2, <2>3 DEF TypeOK
<1>6. \A t \in Task : ~ src[t].owned
  BY DEF Init, SrcInit, NewSource
<1>7. LifeInv
  BY <1>2, <1>6 DEF Init, LifeInv
<1>8. QED BY <1>5, <1>7

LEMMA LifeAlways == Spec => [](CountType /\ HandleCounts /\ TypeOK /\ LifeInv)
<1>1. Init => CountType /\ HandleCounts /\ TypeOK /\ LifeInv
  BY InitLife DEF Init, HandleInit, CountType, HandleCounts
<1>2. /\ CountType /\ HandleCounts /\ TypeOK /\ LifeInv /\ [Next]_vars
      => (CountType /\ HandleCounts /\ TypeOK /\ LifeInv)'
  BY HandleStep, LifeStep
<1>3. QED BY <1>1, <1>2, PTL DEF Spec

\* The state keeps its types through every order of properties, state changes and
\* pads.
THEOREM TypeCorrect == Spec => []TypeOK
BY LifeAlways, PTL

\* As long as no property has replaced a source, none that would still use its
\* owner outlives the element, and the appsrc call the source the element has.
THEOREM OwnerLivesEver == Spec => []OwnerLives
<1>1. TypeOK /\ LifeInv => OwnerLives
  BY DEF TypeOK, LifeInv, OwnerLives
<1>2. QED BY <1>1, LifeAlways, PTL

\* As long as no property has replaced a source, the loop of the source of a
\* paused element does not work.
THEOREM PausedIsQuietEver == Spec => []PausedIsQuiet
<1>1. TypeOK /\ LifeInv => PausedIsQuiet
  <2> SUFFICES ASSUME TypeOK, LifeInv, ~ running, task # 0, ~ replaced
               PROVE src[task].loop \in {"none", "stop", "end"} \/ CloserOf(task) # "open"
    BY DEF PausedIsQuiet
  <2>1. task \in Task
    BY DEF TypeOK
  <2>2. src[task] \in Source
    BY <2>1 DEF TypeOK, SrcTypeOK
  <2>3. src[task].loop \in {"none", "sub", "make", "post", "stop", "end"}
    BY <2>2 DEF Source
  <2>4. QED BY <2>3 DEF LifeInv
<1>2. QED BY <1>1, LifeAlways, PTL

----------------------------------------------------------------------------
(* The ghost pads *)

\* Sources are compared here, and not counted.
HIDE DEF Task, Handle

\* GhostsMatchMode needs that every ghost is of a pad some channel still knows, for
\* only those are taken away, and that a channel knows the pads of its own source
\* only.
GhostInv ==
    /\ \A t \in Task : /\ \A p \in PadsOf(src[t].channels) : p.task = t
                       /\ src[t].st = "none" => ~ src[t].owned
    /\ \A g \in el.ghosts : /\ src[g.task].owned /\ g.kind = src[g.task].mode
                            /\ g \in PadsOf(src[g.task].channels)

LEMMA GhostTask == ASSUME TypeOK, NEW g \in el.ghosts PROVE g.task \in Task
<1>1. g \in Pad
  BY DEF TypeOK, SrcTypeOK, Element
<1>2. QED BY <1>1 DEF Pad

LEMMA NoPads == PadsOf(<<>>) = {}
BY DEF PadsOf

\* Whether it was owned or not, nothing of a detached source is left.
LEMMA DetachedGhosts ==
    ASSUME TypeOK, GhostInv, NEW t \in Task
    PROVE \A g \in Detached(el, t).ghosts : g \in el.ghosts /\ g.task # t
<1>1. el \in Element
  BY DEF TypeOK, SrcTypeOK
<1>2. CASE src[t].owned
  <2>1. Detached(el, t).ghosts = el.ghosts \ PadsOf(src[t].channels)
    BY <1>1, <1>2 DEF Detached, HasOwner, Unghosted, ReleasedPads, Element
  <2>2. QED BY <2>1 DEF GhostInv
<1>3. CASE ~ src[t].owned
  BY <1>3 DEF Detached, HasOwner, GhostInv
<1>4. QED BY <1>2, <1>3

\* No ghost is new, and the sources that have one keep their channels.
Same(t) == /\ src'[t].owned = src[t].owned /\ src'[t].mode = src[t].mode
           /\ src'[t].channels = src[t].channels

LEMMA GhostRests ==
    ASSUME TypeOK, GhostInv,
           \A t \in Task : /\ Same(t) \/ src'[t].channels = <<>>
                           /\ src'[t].st = "none" => ~ src'[t].owned,
           \A g \in el'.ghosts : g \in el.ghosts /\ Same(g.task)
    PROVE GhostInv'
<1>1. \A t \in Task : \A p \in PadsOf(src'[t].channels) : p.task = t
  BY NoPads DEF GhostInv, Same
<1>2. QED BY <1>1 DEF GhostInv, Same, PadsOf

LEMMA GhostPrepareAnew ==
    ASSUME TypeOK, GhostInv, NEW c \in Client, NEW start \in BOOLEAN, NEW new \in Task,
           PreparedAnew(c, start, new)
    PROVE GhostInv'
<1>1. el \in Element /\ src \in [Task -> Source] /\ task \in 0..MaxTasks /\ mode \in Mode
  BY DEF TypeOK, SrcTypeOK
<1>2. /\ src'[new].channels = <<>> /\ src'[new].st # "none"
      /\ \A t \in Task : t # new => src'[t] = IF t = task /\ ~ Held(task) THEN Dead ELSE src[t]
  <2>1. Made(c) \in Source /\ Made(c).channels = <<>> /\ Made(c).st = "inited"
    BY <1>1, MadeType
  <2>2. Start(Made(c)).channels = <<>> /\ Start(Made(c)).st = "running"
    BY <2>1 DEF Start, Source
  <2>3. QED BY <2>1, <2>2 DEF PreparedAnew
<1>3. Dead.channels = <<>> /\ Dead.st # "none"
  BY DEF Dead, NewSource
<1>4. \A e \in Element : RtpBinIn(e, new).ghosts = e.ghosts
  BY DEF RtpBinIn, Element
<1>5. el'.ghosts = IF task # 0 /\ ~ Held(task) THEN Detached(el, task).ghosts ELSE el.ghosts
  <2>1. task # 0 => Detached(el, task) \in Element
    BY <1>1, ElementTypes DEF TypeOK, Task
  <2>2. QED BY <1>1, <1>4, <2>1 DEF PreparedAnew
<1>6. \A g \in el'.ghosts : g \in el.ghosts /\ ~ (g.task = task /\ ~ Held(task))
  <2>1. CASE task # 0 /\ ~ Held(task)
    <3>1. task \in Task
      BY <1>1, <2>1 DEF Task
    <3>2. QED BY <1>5, <2>1, <3>1, DetachedGhosts
  <2>2. CASE task = 0
    <3>1. \A t \in Task : t # 0
      BY DEF Task
    <3>2. QED BY <1>5, <2>2, <3>1, GhostTask
  <2>3. CASE Held(task)
    BY <1>5, <2>3
  <2>4. QED BY <2>1, <2>2, <2>3
<1>7. \A g \in el.ghosts : g.task # new /\ g.task \in Task
  BY GhostTask DEF PreparedAnew, GhostInv
<1>8. \A t \in Task : t # new /\ ~ (t = task /\ ~ Held(task)) => Same(t)
  BY <1>2 DEF Same
<1>9. \A t \in Task : /\ Same(t) \/ src'[t].channels = <<>>
                      /\ src'[t].st = "none" => ~ src'[t].owned
  BY <1>2, <1>3, <1>8 DEF GhostInv
<1>10. \A g \in el'.ghosts : g \in el.ghosts /\ Same(g.task)
  BY <1>6, <1>7, <1>8
<1>11. QED BY <1>9, <1>10, GhostRests

LEMMA GhostPrepareAgain ==
    ASSUME TypeOK, GhostInv, NEW start \in BOOLEAN, PreparedAgain(start)
    PROVE GhostInv'
<1>1. /\ src \in [Task -> Source] /\ task \in 0..MaxTasks /\ el' = el
  BY DEF TypeOK, SrcTypeOK, PreparedAgain
<1>2. CASE src' = src
  BY <1>1, <1>2, GhostRests DEF Same, GhostInv
<1>3. CASE task # 0 /\ src' = [src EXCEPT ![task] = Resumed(Start(src[task]))]
  <2> DEFINE s == Resumed(Start(src[task]))
  <2>1. task \in Task /\ src[task] \in Source
    BY <1>1, <1>3 DEF Task
  <2>2. /\ s.owned = src[task].owned /\ s.mode = src[task].mode
        /\ s.channels = src[task].channels /\ (s.st = "none" => src[task].st = "none")
    BY <2>1 DEF Start, Resumed, Source
  <2> HIDE DEF s
  <2>3. src'[task] = s /\ \A t \in Task : t # task => src'[t] = src[t]
    BY <1>1, <1>3, <2>1 DEF s
  <2>4. \A t \in Task : Same(t) /\ (src'[t].st = "none" => ~ src'[t].owned)
    BY <2>2, <2>3 DEF Same, GhostInv
  <2>5. QED BY <1>1, <2>4, GhostTask, GhostRests
<1>4. QED BY <1>1, <1>2, <1>3 DEF PreparedAgain

LEMMA GhostPrepare ==
    ASSUME TypeOK, GhostInv, NEW c \in Client \cup {0}, NEW p \in BOOLEAN, NEW run \in BOOLEAN,
           NEW reset \in BOOLEAN, NEW start \in BOOLEAN, Prepare(c, p, run, reset, start)
    PROVE GhostInv'
<1>1. (run /\ \E new \in Task : PreparedAnew(c, start, new)) \/ PreparedAgain(start)
  BY PrepareEffect
<1>2. ASSUME NEW new \in Task, PreparedAnew(c, start, new) PROVE GhostInv'
  <2>1. c \in Client
    BY <1>2 DEF PreparedAnew
  <2>2. QED BY <1>2, <2>1, GhostPrepareAnew
<1>3. QED BY <1>1, <1>2, GhostPrepareAgain

\* The channels of the source t, its mode or the ghosts of its pads change.
LEMMA GhostsOfOne ==
    ASSUME TypeOK, GhostInv, NEW t \in Task, NEW s,
           src' = [src EXCEPT ![t] = s], s.owned, s.st = src[t].st, src[t].owned,
           \A p \in PadsOf(s.channels) : p.task = t,
           \A g \in el'.ghosts : \/ g \in el.ghosts /\ g.task # t
                                 \/ g.task = t /\ g.kind = s.mode /\ g \in PadsOf(s.channels)
    PROVE GhostInv'
<1>1. src'[t] = s /\ \A u \in Task : u # t => src'[u] = src[u]
  BY DEF TypeOK, SrcTypeOK
<1>2. \A u \in Task : /\ \A p \in PadsOf(src'[u].channels) : p.task = u
                      /\ src'[u].st = "none" => ~ src'[u].owned
  BY <1>1 DEF GhostInv
<1>3. \A g \in el'.ghosts : /\ src'[g.task].owned /\ g.kind = src'[g.task].mode
                            /\ g \in PadsOf(src'[g.task].channels)
  <2> SUFFICES ASSUME NEW g \in el'.ghosts
               PROVE /\ src'[g.task].owned /\ g.kind = src'[g.task].mode
                     /\ g \in PadsOf(src'[g.task].channels)
    OBVIOUS
  <2>1. CASE g \in el.ghosts /\ g.task # t
    BY <1>1, <2>1, GhostTask DEF GhostInv
  <2>2. CASE g.task = t /\ g.kind = s.mode /\ g \in PadsOf(s.channels)
    BY <1>1, <2>2
  <2>3. QED BY <2>1, <2>2
<1>4. QED BY <1>2, <1>3 DEF GhostInv, PadsOf

LEMMA GhostSwitch ==
    ASSUME TypeOK, GhostInv, NEW t \in Task, NEW m \in Mode, SwitchMode(t, m)
    PROVE GhostInv'
<1>1. el \in Element /\ src[t] \in Source /\ src \in [Task -> Source]
  BY DEF TypeOK, SrcTypeOK
<1>2. src[t].channels \in Seq(Channel)
  BY <1>1 DEF Source
<1>3. CASE ~ src[t].owned \/ src[t].mode = m
  BY <1>3, GhostRests DEF SwitchMode, Same, GhostInv
<1>4. CASE src[t].owned /\ src[t].mode # m
  <2> DEFINE chs == Reinit(src[t].channels, m)
             s == [src[t] EXCEPT !.mode = m, !.channels = chs]
  <2>1. PadsOf(chs) = RtpPads(src[t].channels) /\ RtpPads(src[t].channels) \subseteq PadsOf(src[t].channels)
    BY <1>2, ReinitKeeps, PadsOfThem
  <2> HIDE DEF chs
  <2>2. src' = [src EXCEPT ![t] = s]
    BY <1>1, <1>4 DEF SwitchMode, chs
  <2>3. s.owned /\ s.st = src[t].st /\ s.mode = m /\ s.channels = chs
    BY <1>1, <1>4 DEF Source
  <2> HIDE DEF s
  <2>4. el'.ghosts = (el.ghosts \ PadsOf(src[t].channels)) \cup Ghosts(m, RtpPads(src[t].channels))
    BY <1>1, <1>4 DEF SwitchMode, Unghosted, Element
  <2>5. \A p \in PadsOf(s.channels) : p.task = t
    BY <2>1, <2>3 DEF GhostInv
  <2>6. \A g \in el.ghosts \ PadsOf(src[t].channels) : g.task # t
    BY DEF GhostInv
  <2>7. \A g \in Ghosts(m, RtpPads(src[t].channels)) :
           g.kind = s.mode /\ g \in PadsOf(s.channels)
    BY <2>1, <2>3 DEF Ghosts
  <2>8. QED BY <1>4, <2>2, <2>3, <2>4, <2>5, <2>6, <2>7, GhostsOfOne
<1>5. QED BY <1>3, <1>4

\* The channels chs with other pads of a processor in the channel j.
Repadded(chs, j, ps) == [chs EXCEPT ![j] = [chs[j] EXCEPT !.pads = ps]]

LEMMA GhostPads ==
    ASSUME TypeOK, GhostInv, NEW t \in Task, Pads(t)
    PROVE GhostInv'
<1> DEFINE s == src[t]
<1>1. el \in Element /\ s \in Source /\ src \in [Task -> Source]
  BY DEF TypeOK, SrcTypeOK
<1>2. s.channels \in Seq(Channel) /\ s.owned
  BY <1>1 DEF Source, Pads, RtpPadAdded, RtpPadRemoved, SrcPadAdded, SrcPadRemoved, HasOwner
<1>3. \A p \in PadsOf(s.channels) : p.task = t
  BY DEF GhostInv
<1>4. \A g \in el.ghosts : g.task = t => g.kind = s.mode /\ g \in PadsOf(s.channels)
  BY DEF GhostInv
<1> HIDE DEF s
<1>5. ASSUME NEW chs \in Seq(Channel), NEW new, src' = [src EXCEPT ![t].channels = chs],
             \A p \in PadsOf(chs) : p.task = t,
             \A g \in el'.ghosts :
                \/ g \in el.ghosts /\ (g \in PadsOf(s.channels) => g \in PadsOf(chs))
                \/ g \in PadsOf(chs) /\ g.kind = s.mode
      PROVE GhostInv'
  <2> DEFINE r == [s EXCEPT !.channels = chs]
  <2>1. src' = [src EXCEPT ![t] = r]
    BY <1>1, <1>5 DEF s
  <2>2. r.owned /\ r.st = s.st /\ r.mode = s.mode /\ r.channels = chs
    BY <1>1, <1>2 DEF Source
  <2> HIDE DEF r
  <2>3. \A g \in el'.ghosts :
           \/ g \in el.ghosts /\ g.task # t
           \/ g.task = t /\ g.kind = r.mode /\ g \in PadsOf(r.channels)
    BY <1>4, <1>5, <2>2
  <2>4. \A p \in PadsOf(r.channels) : p.task = t
    BY <1>5, <2>2
  <2>5. s.owned /\ r.owned /\ r.st = src[t].st /\ src[t].owned
    BY <1>2, <2>2 DEF s
  <2>6. QED BY <2>1, <2>3, <2>4, <2>5, GhostsOfOne
<1>6. CASE RtpPadAdded(t)
  <2>1. PICK ssrc \in Ssrc :
          LET pad == [kind |-> "raw", task |-> t, ssrc |-> ssrc, n |-> Len(s.channels) + 1]
          IN  /\ src' = [src EXCEPT ![t].channels = NewChannel(s.channels, pad, s.mode)]
              /\ el' = [el EXCEPT !.live = el.live \cup {pad},
                                  !.ghosts = el.ghosts \cup Ghosts(s.mode, {pad})]
    BY <1>6 DEF RtpPadAdded, s
  <2> DEFINE pad == [kind |-> "raw", task |-> t, ssrc |-> ssrc, n |-> Len(s.channels) + 1]
             c == [pad |-> pad, proc |-> Processor(s.channels, ssrc, s.mode), pads |-> {}]
             chs == Append(s.channels, c)
  <2>2. pad.task = t
    OBVIOUS
  <2>3. NewChannel(s.channels, pad, s.mode) = chs
    BY DEF NewChannel
  <2>4. PadsOf(chs) = PadsOf(s.channels) \cup {pad}
    <3>1. c.pad = pad /\ c.pads = {}
      OBVIOUS
    <3> HIDE DEF c, pad
    <3>2. /\ DOMAIN chs = DOMAIN s.channels \cup {Len(s.channels) + 1}
          /\ chs[Len(s.channels) + 1] = c /\ \A i \in DOMAIN s.channels : chs[i] = s.channels[i]
      BY <1>2
    <3> HIDE DEF chs
    <3>3. QED BY <3>1, <3>2 DEF PadsOf
  <2>5. ChannelsMove(t)
    BY <1>6, PadsMove DEF Pads
  <2>6. chs \in Seq(Channel)
    <3>1. src'[t] \in Source /\ src'[t].channels = chs
      <4>1. src'[t] = [s EXCEPT !.channels = chs]
        BY <1>1, <2>1, <2>3 DEF s
      <4>2. src'[t].channels = chs
        BY <1>1, <4>1 DEF Source
      <4>3. src'[t] \in Source
        <5>1. PICK m \in Mode, ch \in Seq(Channel) :
                src' = [src EXCEPT ![t] = [src[t] EXCEPT !.mode = m, !.channels = ch]]
          BY <2>5 DEF ChannelsMove
        <5>2. \A r \in Source : [r EXCEPT !.mode = m, !.channels = ch] \in Source
          BY DEF Source
        <5>3. QED BY <1>1, <5>1, <5>2 DEF s
      <4>4. QED BY <4>2, <4>3
    <3>2. QED BY <3>1 DEF Source
  <2> HIDE DEF pad, c, chs
  <2>7. src' = [src EXCEPT ![t].channels = chs]
    BY <2>1, <2>3 DEF pad
  <2>8. el'.ghosts = el.ghosts \cup Ghosts(s.mode, {pad})
    BY <1>1, <2>1 DEF pad, Element
  <2>9. \A g \in Ghosts(s.mode, {pad}) : g \in PadsOf(chs) /\ g.kind = s.mode
    BY <2>4 DEF Ghosts
  <2>10. QED BY <1>3, <1>5, <2>2, <2>4, <2>6, <2>7, <2>8, <2>9
<1>7. CASE RtpPadRemoved(t)
  <2>1. PICK pad \in el.live : el' = Unghosted([el EXCEPT !.live = el.live \ {pad}], {pad})
    BY <1>7 DEF RtpPadRemoved
  <2>2. el'.ghosts \subseteq el.ghosts /\ src' = src
    BY <1>1, <1>7, <2>1 DEF RtpPadRemoved, Unghosted, Element
  <2>3. QED BY <2>2, GhostTask, GhostRests DEF Same, GhostInv
<1>8. ASSUME NEW j \in DOMAIN s.channels, NEW ps \in SUBSET Pad
      PROVE /\ Repadded(s.channels, j, ps) \in Seq(Channel)
            /\ [src EXCEPT ![t].channels[j].pads = ps] =
                  [src EXCEPT ![t].channels = Repadded(s.channels, j, ps)]
            /\ \A p : p \in PadsOf(Repadded(s.channels, j, ps)) <=>
                     \E i \in DOMAIN s.channels :
                        p = s.channels[i].pad \/ p \in IF i = j THEN ps ELSE s.channels[i].pads
  <2> DEFINE chs == Repadded(s.channels, j, ps)
  <2>0. chs = [s.channels EXCEPT ![j] = [s.channels[j] EXCEPT !.pads = ps]]
    BY DEF Repadded
  <2> HIDE DEF chs
  <2>1. s.channels[j] \in Channel
    BY <1>2
  <2>2. /\ [s.channels[j] EXCEPT !.pads = ps] \in Channel
        /\ [s.channels[j] EXCEPT !.pads = ps].pad = s.channels[j].pad
        /\ [s.channels[j] EXCEPT !.pads = ps].pads = ps
    BY <2>1 DEF Channel
  <2>3. chs \in Seq(Channel) /\ DOMAIN chs = DOMAIN s.channels
    BY <1>2, <2>0, <2>2
  <2>4. chs[j] = [s.channels[j] EXCEPT !.pads = ps]
        /\ \A i \in DOMAIN s.channels : i # j => chs[i] = s.channels[i]
    BY <1>2, <2>0
  <2>5. [src EXCEPT ![t].channels[j].pads = ps] = [src EXCEPT ![t].channels = chs]
    BY <1>1, <2>0 DEF s
  <2>6. chs[j].pad = s.channels[j].pad /\ chs[j].pads = ps
    BY <2>2, <2>4
  <2>7. \A p : p \in PadsOf(chs) <=> \E i \in DOMAIN chs : p = chs[i].pad \/ p \in chs[i].pads
    BY <2>3, PadsOfThem
  <2>8. ASSUME NEW p, NEW i \in DOMAIN s.channels
        PROVE (p = chs[i].pad \/ p \in chs[i].pads) <=>
              (p = s.channels[i].pad \/ p \in IF i = j THEN ps ELSE s.channels[i].pads)
    BY <2>4, <2>6
  <2>9. \A p : p \in PadsOf(chs) <=>
               \E i \in DOMAIN s.channels : p = chs[i].pad \/ p \in chs[i].pads
    BY <2>3, <2>7
  <2>10. \A p : p \in PadsOf(chs) <=>
               \E i \in DOMAIN s.channels :
                  p = s.channels[i].pad \/ p \in IF i = j THEN ps ELSE s.channels[i].pads
    BY <2>8, <2>9
  <2>11. QED BY <2>3, <2>5, <2>10 DEF chs
<1>9. CASE SrcPadAdded(t)
  <2>0. \E i \in DOMAIN src[t].channels, j \in DOMAIN src[t].channels, n \in SrcPad :
          LET pad == [kind |-> src[t].channels[i].proc, task |-> t,
                      ssrc |-> src[t].channels[i].pad.ssrc, n |-> n]
          IN  /\ src[t].channels[i].proc # "none"
              /\ src' = [src EXCEPT ![t].channels[j].pads =
                            src[t].channels[j].pads \cup Ghosts(src[t].mode, {pad})]
              /\ el' = [el EXCEPT !.ghosts = el.ghosts \cup Ghosts(src[t].mode, {pad})]
    BY <1>9 DEF SrcPadAdded
  <2>1. PICK i \in DOMAIN s.channels, j \in DOMAIN s.channels, n \in SrcPad :
          LET pad == [kind |-> s.channels[i].proc, task |-> t,
                      ssrc |-> s.channels[i].pad.ssrc, n |-> n]
          IN  /\ s.channels[i].proc # "none"
              /\ src' = [src EXCEPT ![t].channels[j].pads =
                            s.channels[j].pads \cup Ghosts(s.mode, {pad})]
              /\ el' = [el EXCEPT !.ghosts = el.ghosts \cup Ghosts(s.mode, {pad})]
    BY <2>0 DEF s
  <2> DEFINE pad == [kind |-> s.channels[i].proc, task |-> t,
                     ssrc |-> s.channels[i].pad.ssrc, n |-> n]
             ps == s.channels[j].pads \cup Ghosts(s.mode, {pad})
             chs == Repadded(s.channels, j, ps)
  <2>2. s.channels[i] \in Channel /\ s.channels[j] \in Channel
    BY <1>2
  <2>3. s.channels[i].proc \in Mode /\ s.channels[i].pad.ssrc \in Ssrc
    BY <2>1, <2>2 DEF Channel, Pad
  <2>4. pad \in Pad /\ pad.task = t
    BY <2>3 DEF Pad
  <2>5. ps \in SUBSET Pad
    BY <2>2, <2>4 DEF Channel, Ghosts
  <2> HIDE DEF pad
  <2>6. /\ src' = [src EXCEPT ![t].channels[j].pads = ps]
        /\ el'.ghosts = el.ghosts \cup Ghosts(s.mode, {pad})
    BY <1>1, <2>1 DEF pad, Element
  <2> HIDE DEF ps
  <2>a. /\ chs \in Seq(Channel)
        /\ [src EXCEPT ![t].channels[j].pads = ps] = [src EXCEPT ![t].channels = chs]
        /\ \A p : p \in PadsOf(chs) <=>
                 \E k \in DOMAIN s.channels :
                    p = s.channels[k].pad \/ p \in IF k = j THEN ps ELSE s.channels[k].pads
    BY <1>8, <2>5
  <2> HIDE DEF chs
  <2>b. \A p : p \in PadsOf(s.channels) <=>
                 \E k \in DOMAIN s.channels : p = s.channels[k].pad \/ p \in s.channels[k].pads
    BY <1>2, PadsOfThem
  <2>c. \A p : p \in ps <=> p \in s.channels[j].pads \/ p \in Ghosts(s.mode, {pad})
    BY DEF ps
  <2>8. \A p : p \in PadsOf(chs) <=> p \in PadsOf(s.channels) \/ p \in Ghosts(s.mode, {pad})
    <3>1. ASSUME NEW p
          PROVE (\E k \in DOMAIN s.channels :
                    p = s.channels[k].pad \/ p \in IF k = j THEN ps ELSE s.channels[k].pads)
                <=> \/ \E k \in DOMAIN s.channels : p = s.channels[k].pad \/ p \in s.channels[k].pads
                    \/ p \in Ghosts(s.mode, {pad})
      BY <2>c
    <3>2. QED BY <3>1, <2>a, <2>b
  <2>9. \A p \in Ghosts(s.mode, {pad}) : p = pad /\ p.kind = s.mode
    BY DEF Ghosts
  <2>10. /\ \A p \in PadsOf(chs) : p.task = t
         /\ \A g \in el'.ghosts :
               \/ g \in el.ghosts /\ (g \in PadsOf(s.channels) => g \in PadsOf(chs))
               \/ g \in PadsOf(chs) /\ g.kind = s.mode
    BY <1>3, <2>4, <2>6, <2>8, <2>9
  <2>11. QED BY <1>5, <2>6, <2>a, <2>10
<1>10. CASE SrcPadRemoved(t)
  <2>1. PICK j \in DOMAIN s.channels : \E pad \in s.channels[j].pads :
          /\ src' = [src EXCEPT ![t].channels[j].pads = s.channels[j].pads \ {pad}]
          /\ el' = Unghosted(el, {pad})
    BY <1>10, <1>1, <1>2 DEF SrcPadRemoved, s
  <2>2. PICK pad \in s.channels[j].pads :
          /\ src' = [src EXCEPT ![t].channels[j].pads = s.channels[j].pads \ {pad}]
          /\ el' = Unghosted(el, {pad})
    BY <2>1
  <2> DEFINE ps == s.channels[j].pads \ {pad}
             chs == Repadded(s.channels, j, ps)
  <2>3. s.channels[j] \in Channel
    BY <1>2
  <2>4. ps \in SUBSET Pad
    BY <2>3 DEF Channel
  <2>5. el'.ghosts = el.ghosts \ {pad} /\ src' = [src EXCEPT ![t].channels[j].pads = ps]
    BY <1>1, <2>2 DEF Unghosted, Element
  <2> HIDE DEF ps
  <2>a. /\ chs \in Seq(Channel)
        /\ [src EXCEPT ![t].channels[j].pads = ps] = [src EXCEPT ![t].channels = chs]
        /\ \A p : p \in PadsOf(chs) <=>
                 \E k \in DOMAIN s.channels :
                    p = s.channels[k].pad \/ p \in IF k = j THEN ps ELSE s.channels[k].pads
    BY <1>8, <2>4
  <2> HIDE DEF chs
  <2>b. \A p : p \in PadsOf(s.channels) <=>
                 \E k \in DOMAIN s.channels : p = s.channels[k].pad \/ p \in s.channels[k].pads
    BY <1>2, PadsOfThem
  <2>c. \A p : p \in ps <=> p \in s.channels[j].pads /\ p # pad
    BY DEF ps
  <2>7. /\ \A p \in PadsOf(chs) : p \in PadsOf(s.channels)
        /\ \A p \in PadsOf(s.channels) : p # pad => p \in PadsOf(chs)
    BY <2>a, <2>b, <2>c
  <2>8. QED BY <1>3, <1>5, <2>5, <2>a, <2>7
<1>11. QED BY <1>6, <1>7, <1>9, <1>10 DEF Pads

LEMMA GhostPauses ==
    ASSUME TypeOK, GhostInv, Pauses
    PROVE GhostInv'
<1>1. /\ src \in [Task -> Source] /\ el' = el /\ task \in 0..MaxTasks
  BY DEF Pauses, TypeOK, SrcTypeOK
<1>2. CASE task = 0
  BY <1>1, <1>2, GhostTask, GhostRests DEF Pauses, Same, GhostInv
<1>3. CASE task # 0
  <2>1. task \in Task /\ src[task] \in Source /\ src' = [src EXCEPT ![task] = Paused(src[task])]
    BY <1>1, <1>3 DEF Pauses, Task
  <2> DEFINE s == Paused(src[task])
  <2>2. /\ s.owned = src[task].owned /\ s.mode = src[task].mode
        /\ s.channels = src[task].channels /\ (s.st = "none" => src[task].st = "none")
    BY <2>1 DEF Paused, Source
  <2>3. src'[task] = s /\ \A t \in Task : t # task => src'[t] = src[t]
    BY <1>1, <2>1
  <2> HIDE DEF s
  <2>4. \A t \in Task : Same(t) /\ (src'[t].st = "none" => ~ src'[t].owned)
    BY <2>2, <2>3 DEF Same, GhostInv
  <2>5. QED BY <1>1, <2>4, GhostTask, GhostRests
<1>4. QED BY <1>2, <1>3

\* A source that is detached for good, and one that may die.
LEMMA GhostDetached ==
    ASSUME TypeOK, GhostInv, NEW t \in Task, NEW s,
           src' = [src EXCEPT ![t] = s], el' = Detached(el, t),
           s.channels = <<>>, ~ s.owned
    PROVE GhostInv'
<1>1. src'[t] = s /\ \A u \in Task : u # t => src'[u] = src[u]
  BY DEF TypeOK, SrcTypeOK
<1>2. \A u \in Task : /\ Same(u) \/ src'[u].channels = <<>>
                      /\ src'[u].st = "none" => ~ src'[u].owned
                      /\ u # t => Same(u)
  BY <1>1 DEF Same, GhostInv
<1>3. \A g \in el'.ghosts : g \in el.ghosts /\ Same(g.task)
  BY <1>2, DetachedGhosts, GhostTask
<1>4. QED BY <1>2, <1>3, GhostRests

LEMMA GhostFinalize ==
    ASSUME TypeOK, GhostInv, Finalize
    PROVE GhostInv'
<1>1. task \in 0..MaxTasks /\ src \in [Task -> Source]
  BY DEF TypeOK, SrcTypeOK
<1>2. CASE task = 0
  BY <1>1, <1>2, GhostTask, GhostRests DEF Finalize, srcVars, Same, GhostInv
<1>3. CASE task # 0
  <2> DEFINE s == IF Held(task) THEN Unowned(src[task]) ELSE Dead
  <2>1. task \in Task /\ src[task] \in Source
    BY <1>1, <1>3 DEF Task
  <2>2. src' = [src EXCEPT ![task] = s] /\ el' = Detached(el, task)
    BY <1>3 DEF Finalize
  <2>3. Unowned(src[task]).channels = <<>> /\ ~ Unowned(src[task]).owned
    BY <2>1 DEF Unowned, Source
  <2>4. s.channels = <<>> /\ ~ s.owned
    BY <2>3 DEF Dead, NewSource
  <2> HIDE DEF s
  <2>5. QED BY <2>1, <2>2, <2>4, GhostDetached
<1>4. QED BY <1>2, <1>3

LEMMA GhostLoop ==
    ASSUME TypeOK, GhostInv, NEW t \in Task, Loop(t, task)
    PROVE GhostInv'
<1>1. src \in [Task -> Source] /\ src[t] \in Source /\ task \in 0..MaxTasks
  BY DEF TypeOK, SrcTypeOK
<1>2. ASSUME NEW s \in Source, src' = [src EXCEPT ![t] = s], s.owned = src[t].owned,
             s.mode = src[t].mode, s.channels = src[t].channels,
             s.st = "none" => src[t].st = "none", el'.ghosts = el.ghosts
      PROVE GhostInv'
  <2>1. src'[t] = s /\ \A u \in Task : u # t => src'[u] = src[u]
    BY <1>1, <1>2
  <2>2. \A u \in Task : Same(u) /\ (src'[u].st = "none" => ~ src'[u].owned)
    BY <1>2, <2>1 DEF Same, GhostInv
  <2>3. QED BY <1>2, <2>2, GhostTask, GhostRests
<1>3. CASE LoopGoesOn(t)
  <2>1. PICK s \in Source : src' = [src EXCEPT ![t] = s] /\ s.owned = src[t].owned
            /\ s.mode = src[t].mode /\ s.channels = src[t].channels /\ s.st = src[t].st
            /\ s.client = src[t].client
    BY <1>3 DEF LoopGoesOn
  <2>2. QED BY <1>2, <1>3, <2>1 DEF LoopGoesOn
<1>4. CASE LoopEnds(t, task)
  <2> DEFINE s == [src[t] EXCEPT !.loop = "end", !.st = "stopped"]
  <2>1. \/ src' = [src EXCEPT ![t] = s] /\ el' = el
        \/ src' = [src EXCEPT ![t] = Dead] /\ el' = Detached(el, t)
    BY <1>4 DEF LoopEnds
  <2>2. /\ s \in Source /\ s.owned = src[t].owned /\ s.mode = src[t].mode
        /\ s.channels = src[t].channels /\ s.st # "none"
    BY <1>1 DEF Source
  <2> HIDE DEF s
  <2>3. Dead.channels = <<>> /\ ~ Dead.owned
    BY DEF Dead, NewSource
  <2>4. CASE src' = [src EXCEPT ![t] = s] /\ el' = el
    BY <1>2, <2>2, <2>4
  <2>5. CASE src' = [src EXCEPT ![t] = Dead] /\ el' = Detached(el, t)
    BY <2>3, <2>5, GhostDetached
  <2>6. QED BY <2>1, <2>4, <2>5
<1>5. QED BY <1>3, <1>4, LoopEffect

LEMMA GhostStep ==
    ASSUME TypeOK, GhostInv, [Next]_vars
    PROVE GhostInv'
<1>1. /\ task \in 0..MaxTasks /\ client \in Client \cup {0} /\ \A h \in Handle : h \in Client
      /\ pattern \in BOOLEAN /\ running \in BOOLEAN /\ TRUE \in BOOLEAN /\ FALSE \in BOOLEAN
  BY DEF TypeOK, SrcTypeOK
<1>2. ASSUME UNCHANGED <<src, el>> PROVE GhostInv'
  BY <1>2, GhostTask, GhostRests DEF Same, GhostInv
<1>3. CASE UNCHANGED vars
  BY <1>2, <1>3 DEF vars, srcVars
<1>4. ASSUME AppWraps \/ (\E h \in Handle : AppRefs(h) \/ AppCloses(h)) PROVE GhostInv'
  BY <1>2, <1>4 DEF AppWraps, AppRefs, AppCloses, srcVars
<1>5. ASSUME NEW h \in Handle, SetClient(h) PROVE GhostInv'
  <2>1. h \in Client \cup {0} /\ Prepare(h, pattern, running, TRUE, FALSE)
    BY <1>1, <1>5 DEF SetClient
  <2>2. QED BY <1>1, <2>1, GhostPrepare
<1>6. ASSUME SetPattern PROVE GhostInv'
  <2>1. Prepare(client, TRUE, running, TRUE, FALSE)
    BY <1>6 DEF SetPattern
  <2>2. QED BY <1>1, <2>1, GhostPrepare
<1>7. ASSUME Plays PROVE GhostInv'
  <2>1. Prepare(client, pattern, TRUE, FALSE, TRUE)
    BY <1>7 DEF Plays
  <2>2. QED BY <1>1, <2>1, GhostPrepare
<1>8. ASSUME NEW m \in Mode, SetMode(m) PROVE GhostInv'
  <2>1. task # 0 => task \in Task
    BY <1>1 DEF Task
  <2>2. QED BY <1>2, <1>8, <2>1, GhostSwitch DEF SetMode
<1>9. ASSUME NEW t \in Task, Runs(t) PROVE GhostInv'
  BY <1>9, GhostLoop DEF Runs
<1>10. ASSUME NEW t \in Task, Pads(t) PROVE GhostInv'
  BY <1>10, GhostPads
<1>11. QED
  BY <1>3, <1>4, <1>5, <1>6, <1>7, <1>8, <1>9, <1>10, GhostPauses, GhostFinalize DEF Next

\* The ghost pads an element shows are those of its mode and of a source that is
\* attached, in every order of pads, mode switches and detachments.
THEOREM GhostsMatchModeEver == Spec => []GhostsMatchMode
<1>1. Init => GhostInv
  <2> SUFFICES ASSUME Init PROVE GhostInv
    OBVIOUS
  <2>1. \A t \in Task : src[t] = NewSource
    BY DEF Init, SrcInit
  <2>2. NewSource.channels = <<>> /\ ~ NewSource.owned
    BY DEF NewSource
  <2>3. el.ghosts = {}
    BY DEF Init, SrcInit
  <2>4. QED BY <2>1, <2>2, <2>3, NoPads DEF GhostInv
<1>2. TypeOK /\ GhostInv /\ [Next]_vars => GhostInv'
  BY GhostStep
<1>3. GhostInv => GhostsMatchMode
  BY DEF GhostInv, GhostsMatchMode
<1>4. QED BY <1>1, <1>2, <1>3, LifeAlways, PTL DEF Spec
=============================================================================
