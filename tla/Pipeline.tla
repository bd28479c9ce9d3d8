------------------------------ MODULE Pipeline ------------------------------
(***************************************************************************)
(* The pipeline (impl/pipeline.cpp) and its links (impl/link.cpp): pads    *)
(* that appear while the pipeline runs, the calls that link two of them or *)
(* wait for one, and the handler of pad-added, which works in three        *)
(* sections of m_mutex on the threads of GStreamer.                        *)
(***************************************************************************)
EXTENDS Naturals, Sequences, SequencesExt

CONSTANTS
    Name,       \* the names of pads, numbered
    Words,      \* the words of a name: its node, and words, numbers and "%u"
    Number,     \* the words that are numbers
    Pad,        \* the names of the pads the nodes get
    Linker,     \* the calls of link_async
    Wants,      \* the names a linker links
    Getter,     \* the calls of await_pad
    Asks        \* the name a getter asks for

ASSUME PipelineAssumption ==
    /\ Name \subseteq Nat \ {0} /\ Pad \subseteq Name /\ DOMAIN Words = Name
    /\ Linker \subseteq Nat /\ Getter \subseteq Nat /\ Linker \cap Getter = {}
    /\ Wants \in [Linker -> [src : Name, tgt : Name]] /\ Asks \in [Getter -> Name]

VARIABLES
    stage,      \* where pad_added_handler is for each pad
    known,      \* m_pads
    link,       \* the links of the linkers
    pending,    \* m_pending_links
    bySrc,      \* m_links_by_src: the linkers whose link is in it
    joined,     \* the pads GStreamer has linked
    get,        \* the getters; their waiters
    dead        \* an exception has left the handler for GStreamer

vars == <<stage, known, link, pending, bySrc, joined, get, dead>>

None == 0

\* A link is ready when it has both pads.  told: m_linked_ch.  blind (history): the
\* pads that were handled before the link was pending.
Link == [pc : {"idle", "src", "tgt", "put", "await", "listen", "remove", "done", "gone"},
         src : Pad \cup {None}, tgt : Pad \cup {None}, blind : SUBSET Pad,
         told : {"none", "yes", "no"}, result : {"none", "link", "null", "throws"}]

\* chan: what the channel of the waiter holds.  The waiter stays in m_waiters when
\* its call is over; what it is given then is never read, and left out.
Get == [pc : {"idle", "static", "push", "chan", "done"}, excludes : SUBSET Pad,
        blind : SUBSET Pad, chan : Pad \cup {None}, result : Pad \cup {None}]

TypeOK ==
    /\ stage \in [Pad -> {"none", "store", "wake", "link", "done"}]
    /\ known \subseteq Pad
    /\ link \in [Linker -> Link]
    /\ pending \in Seq(Linker)
    /\ bySrc \subseteq Linker
    /\ joined \subseteq Pad \X Pad
    /\ get \in [Getter -> Get]
    /\ dead \in BOOLEAN

Init ==
    /\ stage = [p \in Pad |-> "none"] /\ known = {}
    /\ link = [l \in Linker |-> [pc |-> "idle", src |-> None, tgt |-> None, blind |-> {},
                                 told |-> "none", result |-> "none"]]
    /\ pending = <<>> /\ bySrc = {} /\ joined = {}
    /\ get = [g \in Getter |-> [pc |-> "idle", excludes |-> {},
                                blind |-> {}, chan |-> None, result |-> None]]
    /\ dead = FALSE

----------------------------------------------------------------------------
(* Names, links and their lists *)

\* match_pad_name: "%u" fits a number, on either side.  A name that ends with
\* such a number fits, whatever the other one goes on with.
Matches(a, b) ==
    LET n == IF Len(a) < Len(b) THEN Len(a) ELSE Len(b)
    IN  /\ \A i \in 1..n : \/ a[i] = b[i]
                           \/ {a[i], b[i]} \ Number = {"%u"}
        /\ Len(a) = Len(b) \/ a[n] # b[n]

Node(name) == Head(Words[name])

\* (A constant, so that it is evaluated once.)
Fitting == [p \in Name |-> {n \in Name : Node(p) = Node(n) /\ Matches(Words[p], Words[n])}]
Has(p, name) == name \in Fitting[p]

Exists == {p \in Pad : stage[p] # "none"}
Handled == {p \in Pad : stage[p] = "done"}

\* gst_element_get_static_pad: the pad of that very name.
StaticPad(name) == IF name \in Exists THEN name ELSE None

Ready(k) == k.src # None /\ k.tgt # None

\* _find_pending_link: where the first link of the list is that has such a name,
\* 0 for nowhere.
FindPending(name, ends) ==
    LET fits(i) == \E e \in ends : Has(name, Wants[pending[i]][e])
    IN  IF \E i \in DOMAIN pending : fits(i)
        THEN CHOOSE i \in DOMAIN pending : fits(i) /\ \A j \in 1..(i - 1) : ~ fits(j)
        ELSE 0

SrcName(l) == Wants[l].src

\* _link_by_src: a link of that source is made or pending.
LinkBySrc(name) == (\E m \in bySrc : SrcName(m) = name) \/ FindPending(name, {"src"}) # 0

\* _find_pad
FindPad(name, excludes) == {p \in known : Has(p, name)} \ excludes

NotOf(name) == {l \in bySrc : SrcName(l) # name}

\* gst_pad_link succeeds for two pads that are free.
Links(k) == \A j \in joined : j[1] # k.src /\ j[2] # k.tgt

CleanPending(l) ==
    LET i == FindPending(SrcName(l), {"src"})
    IN  IF i = 0 THEN pending ELSE RemoveAt(pending, i)

\* Mutation: _add_link that enters the link before it knows.
AddLinkFirst(l, k, clean) ==
    /\ bySrc' = NotOf(SrcName(l)) \cup {l}
    /\ joined' = IF Links(k) THEN joined \cup {<<k.src, k.tgt>>} ELSE joined
    /\ pending' = IF clean THEN CleanPending(l) ELSE pending

\* _add_link of a link that is ready: a failure leaves the pending list as it is.
AddLink(l, k, clean) ==
    IF Links(k)
    THEN /\ joined' = joined \cup {<<k.src, k.tgt>>}
         /\ bySrc' = NotOf(SrcName(l)) \cup {l}
         /\ pending' = IF clean THEN CleanPending(l) ELSE pending
    ELSE bySrc' = NotOf(SrcName(l)) /\ UNCHANGED <<joined, pending>>

----------------------------------------------------------------------------
(* pad_added_handler *)

\* The element adds the pad and emits pad-added.
PadAdded(p) ==
    /\ stage[p] = "none"
    /\ stage' = [stage EXCEPT ![p] = "store"]
    /\ UNCHANGED <<known, link, pending, bySrc, joined, get, dead>>

\* _add_pad
Store(p) ==
    /\ stage[p] = "store"
    /\ stage' = [stage EXCEPT ![p] = "wake"]
    /\ known' = known \cup {p}
    /\ UNCHANGED <<link, pending, bySrc, joined, get, dead>>

\* Every waiter whose name fits, and whose channel is empty, is given the pad,
\* excluded or not.
Wakes(p, g) ==
    /\ get[g].pc = "chan" /\ get[g].chan = None
    /\ Has(p, Asks[g])

Wake(p) ==
    /\ stage[p] = "wake"
    /\ stage' = [stage EXCEPT ![p] = "link"]
    /\ get' = [g \in Getter |-> IF Wakes(p, g) THEN [get[g] EXCEPT !.chan = p] ELSE get[g]]
    /\ UNCHANGED <<known, link, pending, bySrc, joined, dead>>

\* Mutation: a handler that does not notify.
TellNone(k, yes) == k

\* notify_linked: m_linked_ch holds one value.
Tell(k, yes) ==
    IF k.told # "none" THEN k ELSE [k EXCEPT !.told = IF yes THEN "yes" ELSE "no"]

BothEnds == {"src", "tgt"}
\* Mutation: a handler that looks for sources only.
OneEnd == {"src"}

\* ANY: the ends of a link the handler looks at.
Ends == BothEnds

\* set_src_pad and set_tgt_pad throw when the link has another pad.
CanSet(k, end, p) == k[end] \in {None, p}
SetPad(k, end, p) == [k EXCEPT ![end] = p]

\* The first pending link that has the name gets the pad.  Nobody catches what
\* set_src_pad throws.
LinkPad(p) ==
    /\ stage[p] = "link"
    /\ stage' = [stage EXCEPT ![p] = "done"]
    /\ LET i == FindPending(p, Ends)
           l == pending[i]
           end == IF Node(SrcName(l)) = Node(p) THEN "src" ELSE "tgt"
           k == SetPad(link[l], end, p)
       IN  \/ i = 0 /\ UNCHANGED <<link, pending, bySrc, joined, dead>>
           \/ /\ i # 0 /\ ~ CanSet(link[l], end, p)
              /\ dead' = TRUE
              /\ UNCHANGED <<link, pending, bySrc, joined>>
           \/ /\ i # 0 /\ CanSet(link[l], end, p)
              /\ IF Ready(k)
                 THEN AddLink(l, k, TRUE) /\ link' = [link EXCEPT ![l] = Tell(k, Links(k))]
                 ELSE link' = [link EXCEPT ![l] = k] /\ UNCHANGED <<pending, bySrc, joined>>
              /\ UNCHANGED dead
    /\ UNCHANGED <<known, get>>

----------------------------------------------------------------------------
(* link_async, and the await of its link *)

LinkGoes(l, from, to) == link[l].pc = from /\ link' = [link EXCEPT ![l].pc = to]

Returns(l, result) ==
    link' = [link EXCEPT ![l].pc = "done", ![l].result = result, ![l].blind = {}]

\* "Link already exist."
LinkChecks(l) ==
    /\ link[l].pc = "idle"
    /\ IF LinkBySrc(SrcName(l))
       THEN Returns(l, "throws") ELSE LinkGoes(l, "idle", "src")
    /\ UNCHANGED <<stage, known, pending, bySrc, joined, get, dead>>

\* The pads that are there, without m_mutex.
LinkLooks(l) ==
    /\ \/ /\ link[l].pc = "src"
          /\ link' = [link EXCEPT ![l].pc = "tgt", ![l].src = StaticPad(Wants[l].src)]
       \/ /\ link[l].pc = "tgt"
          /\ link' = [link EXCEPT ![l].pc = "put", ![l].tgt = StaticPad(Wants[l].tgt)]
    /\ UNCHANGED <<stage, known, pending, bySrc, joined, get, dead>>

LinkPuts(l) ==
    /\ link[l].pc = "put"
    /\ IF Ready(link[l])
       THEN /\ AddLink(l, link[l], FALSE)
            /\ Returns(l, IF Links(link[l]) THEN "link" ELSE "null")
       ELSE /\ pending' = Append(pending, l)
            /\ link' = [link EXCEPT ![l].pc = "await", ![l].blind =
                           {p \in Handled : \E e \in BothEnds : Has(p, Wants[l][e])}]
            /\ UNCHANGED <<bySrc, joined>>
    /\ UNCHANGED <<stage, known, get, dead>>

\* wait_linked: is_ready is read without the mutex of the pipeline.
WaitsLinked(l) ==
    /\ link[l].pc = "await"
    /\ IF Ready(link[l]) THEN Returns(l, "link") ELSE LinkGoes(l, "await", "listen")
    /\ UNCHANGED <<stage, known, pending, bySrc, joined, get, dead>>

IsTold(l) ==
    /\ link[l].pc = "listen" /\ link[l].told # "none"
    /\ IF link[l].told = "yes" THEN Returns(l, "link") ELSE LinkGoes(l, "listen", "remove")
    /\ UNCHANGED <<stage, known, pending, bySrc, joined, get, dead>>

\* The closer is closed.
Cancels(l) ==
    /\ LinkGoes(l, "listen", "remove")
    /\ UNCHANGED <<stage, known, pending, bySrc, joined, get, dead>>

\* Mutation: a removal that looks at the pending list only.
RemovesPending(l) ==
    /\ link[l].pc = "remove"
    /\ pending' = CleanPending(l)
    /\ Returns(l, "null")
    /\ UNCHANGED <<stage, known, bySrc, joined, get, dead>>

\* _remove_link(link, true): from the pending list or, if the handler has been
\* here meanwhile, from the others.
Removes(l) ==
    /\ link[l].pc = "remove"
    /\ IF CleanPending(l) # pending
       THEN pending' = CleanPending(l) /\ UNCHANGED bySrc
       ELSE bySrc' = NotOf(SrcName(l)) /\ UNCHANGED pending
    /\ Returns(l, "null")
    /\ UNCHANGED <<stage, known, joined, get, dead>>

\* ~Link, when nobody has the link any more: the pads are unlinked.
Released(l) ==
    /\ link[l].result = "null" /\ l \notin bySrc /\ ~ Contains(pending, l)
    /\ LinkGoes(l, "done", "gone")
    /\ joined' = joined \ {<<link[l].src, link[l].tgt>>}
    /\ UNCHANGED <<stage, known, pending, bySrc, get, dead>>

----------------------------------------------------------------------------
(* await_pad *)

GetReturns(g, p) ==
    get' = [get EXCEPT ![g].pc = "done", ![g].result = p, ![g].chan = None,
                           ![g].blind = {}, ![g].excludes = {}]

\* Any pad the pipeline knows is taken.  The caller may exclude pads it knows.
Finds(g) ==
    /\ get[g].pc = "idle"
    /\ \E ex \in {{}, FindPad(Asks[g], {})} :
        LET fit == FindPad(Asks[g], ex)
        IN  \/ \E p \in fit : GetReturns(g, p)
            \/ fit = {} /\ get' = [get EXCEPT ![g].pc = "static", ![g].excludes = ex]
    /\ UNCHANGED <<stage, known, link, pending, bySrc, joined, dead>>

\* A pad of that name that is excluded ends the call.
FindsStatic(g) ==
    /\ get[g].pc = "static"
    /\ LET p == StaticPad(Asks[g]) IN
       IF p = None THEN get' = [get EXCEPT ![g].pc = "push"] /\ UNCHANGED known
       ELSE IF p \in get[g].excludes THEN GetReturns(g, None) /\ UNCHANGED known
       ELSE GetReturns(g, p) /\ known' = known \cup {p}
    /\ UNCHANGED <<stage, link, pending, bySrc, joined, dead>>

PutsWaiter(g) ==
    /\ get[g].pc = "push"
    /\ get' = [get EXCEPT ![g].pc = "chan", ![g].blind =
                   {p \in Pad : stage[p] \in {"link", "done"} /\ Has(p, Asks[g])}]
    /\ UNCHANGED <<stage, known, link, pending, bySrc, joined, dead>>

ReadsPad(g) ==
    /\ get[g].pc = "chan" /\ get[g].chan # None
    /\ GetReturns(g, get[g].chan)
    /\ UNCHANGED <<stage, known, link, pending, bySrc, joined, dead>>

\* The closer is closed.
GetCancels(g) ==
    /\ get[g].pc = "chan" /\ GetReturns(g, None)
    /\ UNCHANGED <<stage, known, link, pending, bySrc, joined, dead>>

----------------------------------------------------------------------------

Handler(p) == ~ dead /\ (Store(p) \/ Wake(p) \/ LinkPad(p))

LinkStep(l) ==
    /\ ~ dead
    /\ LinkLooks(l) \/ LinkPuts(l) \/ WaitsLinked(l) \/ IsTold(l) \/ Removes(l)

Next ==
    \/ \E p \in Pad : Handler(p) \/ (~ dead /\ PadAdded(p))
    \/ \E l \in Linker : LinkStep(l) \/ (~ dead /\ (LinkChecks(l) \/ Cancels(l) \/ Released(l)))
    \/ \E g \in Getter : ~ dead /\ (Finds(g) \/ FindsStatic(g) \/ PutsWaiter(g)
                                        \/ ReadsPad(g) \/ GetCancels(g))

Spec == Init /\ [][Next]_vars

\* The threads of GStreamer and the coroutines go on.
FairSpec == Spec /\ WF_vars(\E p \in Pad : Handler(p)) /\ WF_vars(\E l \in Linker : LinkStep(l))

----------------------------------------------------------------------------
(* Properties *)

\* Safety: a link the pipeline counts as made has two pads that GStreamer has
\* linked, and it is not pending.
LinkTables ==
    \A l \in bySrc : <<link[l].src, link[l].tgt>> \in joined /\ ~ Contains(pending, l)

\* Safety: a link whose await was told that there is none is in no list, also when
\* the handler completes it while its closer is being closed.
CanceledIsGone ==
    \A l \in Linker : link[l].result = "null" => l \notin bySrc /\ ~ Contains(pending, l)

\* Safety: a pad that is handled when a link is pending or a waiter is listed is
\* not missed by it: the link has that end, and the waiter a pad.
PadSeen ==
    /\ \A l \in Linker : \A p \in Handled \ link[l].blind, e \in BothEnds :
          ~ dead /\ Contains(pending, l) /\ Has(p, Wants[l][e]) =>
            \/ link[l][e] # None
            \/ \E m \in Linker \ {l} : p \in {link[m].src, link[m].tgt}
    /\ \A g \in Getter : \A p \in Handled \ get[g].blind :
          get[g].pc = "chan" /\ Has(p, Asks[g]) => get[g].chan # None

\* Liveness: the await of a link that has both pads ends, linked or not.
ReadyEnds ==
    \A l \in Linker :
        link[l].pc \in {"await", "listen"} /\ Ready(link[l]) ~> link[l].pc = "done" \/ dead
=============================================================================
