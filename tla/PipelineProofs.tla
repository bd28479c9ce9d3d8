--------------------------- MODULE PipelineProofs ---------------------------
(***************************************************************************)
(* Theorems about the pipeline, for any pads, links and waiters: the lists *)
(* of links agree with each other and with what GStreamer has linked, and  *)
(* no pad that is handled is missed.                                       *)
(***************************************************************************)
EXTENDS Pipeline, SequenceTheorems, WellFoundedInduction, TLAPS

\* What the links want is told apart by the names of the sources: no pad fits
\* two of them, and a link goes from one node to another.
SourcesApart ==
    /\ \A l \in Linker : Node(Wants[l].src) # Node(Wants[l].tgt)
    /\ \A l, m \in Linker :
          l # m => /\ ~ Has(SrcName(l), SrcName(m))
                   /\ \A p \in Pad : ~ (Has(p, SrcName(l)) /\ Has(p, SrcName(m)))
----------------------------------------------------------------------------
(* Names and lists *)

LEMMA OwnName == ASSUME NEW n \in Name PROVE Has(n, n)
BY DEF Has, Fitting, Matches

\* What fits a name is of its node.
LEMMA SameNode ==
    ASSUME NEW p \in Name, NEW n \in Name, Has(p, n)
    PROVE  Node(p) = Node(n)
BY DEF Has, Fitting

LEMMA RemoveAtSeq ==
    ASSUME NEW S, NEW s \in Seq(S), NEW i \in 1..Len(s)
    PROVE  /\ RemoveAt(s, i) \in Seq(S)
           /\ Len(RemoveAt(s, i)) = Len(s) - 1
           /\ \A j \in 1..(Len(s) - 1) :
                 RemoveAt(s, i)[j] = IF j < i THEN s[j] ELSE s[j + 1]
<1> DEFINE a == SubSeq(s, 1, i - 1)
           b == SubSeq(s, i + 1, Len(s))
<1>1. a \in Seq(S) /\ Len(a) = i - 1 /\ \A j \in 1..(i - 1) : a[j] = s[j]
  OBVIOUS
<1>2. b \in Seq(S) /\ Len(b) = Len(s) - i
      /\ \A j \in 1..(Len(s) - i) : b[j] = s[i + j]
  OBVIOUS
<1> HIDE DEF a, b
<1>3. a \o b \in Seq(S) /\ Len(a \o b) = Len(s) - 1
  <2>1. a \o b \in Seq(S) /\ Len(a \o b) = Len(a) + Len(b)
    BY <1>1, <1>2, ConcatProperties
  <2>2. Len(s) \in Nat /\ i \in Int
    OBVIOUS
  <2>3. QED BY <1>1, <1>2, <2>1, <2>2
<1>4. ASSUME NEW j \in 1..(Len(s) - 1)
      PROVE  (a \o b)[j] = IF j < i THEN s[j] ELSE s[j + 1]
  <2>1. CASE j < i
    BY <1>1, <1>2, <2>1
  <2>2. CASE ~ (j < i)
    <3>1. (a \o b)[j] = b[j - (i - 1)]
      BY <1>1, <1>2, <2>2
    <3>2. j - (i - 1) \in 1..(Len(s) - i) /\ i + (j - (i - 1)) = j + 1
      BY <2>2
    <3>3. QED BY <1>2, <2>2, <3>1, <3>2
  <2>3. QED BY <2>1, <2>2
<1>5. RemoveAt(s, i) = a \o b
  BY DEF RemoveAt, a, b
<1>6. QED BY <1>3, <1>4, <1>5

\* Each member of s is there once.
Once(s) == \A i, j \in 1..Len(s) : s[i] = s[j] => i = j

\* Without one of its members a list keeps the others.
LEMMA RemoveAtList ==
    ASSUME NEW S, NEW s \in Seq(S), NEW i \in 1..Len(s), Once(s)
    PROVE  /\ RemoveAt(s, i) \in Seq(S) /\ RemoveAt(s, i) # s
           /\ Once(RemoveAt(s, i))
           /\ \A x : Contains(RemoveAt(s, i), x) <=> Contains(s, x) /\ x # s[i]
<1> DEFINE r == RemoveAt(s, i)
           n == Len(s)
<1>1. /\ r \in Seq(S) /\ Len(r) = n - 1 /\ n \in Nat
      /\ \A j \in 1..(n - 1) : r[j] = IF j < i THEN s[j] ELSE s[j + 1]
  BY RemoveAtSeq
<1> HIDE DEF r
<1>2. Once(r)
  <2> SUFFICES ASSUME NEW j \in 1..(n - 1), NEW k \in 1..(n - 1), r[j] = r[k]
               PROVE  j = k
    BY <1>1 DEF Once
  <2>1. /\ j \in Nat /\ k \in Nat /\ i \in Nat
        /\ j \in 1..n /\ k \in 1..n /\ j + 1 \in 1..n /\ k + 1 \in 1..n
    BY <1>1
  <2>2. /\ j < i => r[j] = s[j]
        /\ ~ (j < i) => r[j] = s[j + 1]
        /\ k < i => r[k] = s[k]
        /\ ~ (k < i) => r[k] = s[k + 1]
    BY <1>1
  <2>3. \A x, y \in 1..n : s[x] = s[y] => x = y
    BY DEF Once
  <2>4. CASE j < i /\ k < i
    BY <2>1, <2>2, <2>3, <2>4
  <2>5. CASE ~ (j < i) /\ ~ (k < i)
    <3>1. j + 1 = k + 1
      BY <2>1, <2>2, <2>3, <2>5
    <3>2. QED BY <2>1, <3>1
  <2>6. CASE j < i /\ ~ (k < i)
    <3>1. j = k + 1
      BY <2>1, <2>2, <2>3, <2>6
    <3>2. QED BY <2>1, <2>6, <3>1
  <2>7. CASE ~ (j < i) /\ k < i
    <3>1. j + 1 = k
      BY <2>1, <2>2, <2>3, <2>7
    <3>2. QED BY <2>1, <2>7, <3>1
  <2>8. QED BY <2>4, <2>5, <2>6, <2>7
<1>3. ASSUME NEW x, Contains(r, x) PROVE Contains(s, x) /\ x # s[i]
  <2>1. PICK j \in 1..(n - 1) : r[j] = x
    BY <1>1, <1>3 DEF Contains
  <2>2. PICK k \in 1..n : s[k] = x /\ k # i
    BY <1>1, <2>1
  <2>3. QED BY <2>2 DEF Contains, Once
<1>4. ASSUME NEW x, Contains(s, x), x # s[i] PROVE Contains(r, x)
  <2>1. PICK k \in 1..n : s[k] = x /\ k # i
    BY <1>4 DEF Contains
  <2>2. CASE k < i
    <3>1. k \in 1..(n - 1) /\ r[k] = x
      BY <1>1, <2>1, <2>2
    <3>2. QED BY <1>1, <3>1 DEF Contains
  <2>3. CASE ~ (k < i)
    <3>1. k - 1 \in 1..(n - 1) /\ r[k - 1] = x
      BY <1>1, <2>1, <2>3
    <3>2. QED BY <1>1, <3>1 DEF Contains
  <2>4. QED BY <2>2, <2>3
<1>5. r # s
  BY <1>1
<1>6. QED BY <1>1, <1>2, <1>3, <1>4, <1>5 DEF r

LEMMA AppendList ==
    ASSUME NEW S, NEW s \in Seq(S), NEW l \in S
    PROVE  /\ Append(s, l) \in Seq(S)
           /\ \A x : Contains(Append(s, l), x) <=> Contains(s, x) \/ x = l
           /\ Once(s) /\ ~ Contains(s, l) => Once(Append(s, l))
<1> DEFINE r == Append(s, l)
           n == Len(s)
<1>1. /\ r \in Seq(S) /\ Len(r) = n + 1 /\ n \in Nat /\ r[n + 1] = l
      /\ \A j \in 1..n : r[j] = s[j]
  OBVIOUS
<1> HIDE DEF r
<1>2. \A x : Contains(r, x) <=> Contains(s, x) \/ x = l
  <2>1. ASSUME NEW x, Contains(r, x) PROVE Contains(s, x) \/ x = l
    BY <1>1, <2>1 DEF Contains
  <2>2. ASSUME NEW x, Contains(s, x) PROVE Contains(r, x)
    <3>1. PICK j \in 1..n : s[j] = x
      BY <2>2 DEF Contains
    <3>2. j \in 1..(n + 1) /\ r[j] = x
      BY <1>1, <3>1
    <3>3. QED BY <1>1, <3>2 DEF Contains
  <2>3. Contains(r, l)
    <3>1. n + 1 \in 1..(n + 1)
      BY <1>1
    <3>2. QED BY <1>1, <3>1 DEF Contains
  <2>4. QED BY <2>1, <2>2, <2>3
<1>3. ASSUME Once(s), ~ Contains(s, l) PROVE Once(r)
  <2> SUFFICES ASSUME NEW j \in 1..(n + 1), NEW k \in 1..(n + 1), r[j] = r[k]
               PROVE  j = k
    BY <1>1 DEF Once
  <2>1. j \in 1..n \/ j = n + 1
    BY <1>1
  <2>2. k \in 1..n \/ k = n + 1
    BY <1>1
  <2>3. QED BY <1>1, <1>3, <2>1, <2>2 DEF Once, Contains
<1>4. QED BY <1>1, <1>2, <1>3 DEF r

\* A set of places that is not empty has a first one.
LEMMA FirstPlace ==
    ASSUME NEW S, S \subseteq Nat, S # {}
    PROVE  \E m \in S : \A n \in S : m <= n
<1> DEFINE R == {ss \in Nat \X Nat : ss[1] < ss[2]}
<1>1. IsWellFoundedOn(R, Nat)
  BY NatLessThanWellFounded DEF OpToRel
<1> HIDE DEF R
<1>2. PICK m \in S : \A y \in S : ~ (<<y, m>> \in R)
  BY <1>1, WFMin
<1>3. \A y \in S : ~ (y < m)
  BY <1>2 DEF R
<1>4. QED BY <1>3

Fits(name, ends, l) == \E e \in ends : Has(name, Wants[l][e])

\* _find_pending_link finds a link that fits when there is one.
LEMMA Found ==
    ASSUME TypeOK, NEW name, NEW ends
    PROVE  LET i == FindPending(name, ends) IN
           \/ i = 0 /\ \A j \in 1..Len(pending) : ~ Fits(name, ends, pending[j])
           \/ i \in 1..Len(pending) /\ Fits(name, ends, pending[i])
<1> DEFINE fits(j) == Fits(name, ends, pending[j])
           First(j) == fits(j) /\ \A k \in 1..(j - 1) : ~ fits(k)
<1>1. DOMAIN pending = 1..Len(pending) /\ Len(pending) \in Nat
  BY DEF TypeOK
<1>2. FindPending(name, ends) =
         IF \E j \in DOMAIN pending : fits(j)
         THEN CHOOSE j \in DOMAIN pending : First(j) ELSE 0
  BY DEF FindPending, Fits
<1>3. CASE \E j \in DOMAIN pending : fits(j)
  <2> DEFINE P == {j \in DOMAIN pending : fits(j)}
  <2>1. P \subseteq Nat /\ P # {}
    BY <1>1, <1>3
  <2>2. PICK m \in P : \A j \in P : m <= j
    BY <2>1, FirstPlace
  <2>3. m \in DOMAIN pending /\ First(m)
    BY <1>1, <2>2
  <2> HIDE DEF P
  <2>4. (CHOOSE j \in DOMAIN pending : First(j)) \in DOMAIN pending
        /\ First(CHOOSE j \in DOMAIN pending : First(j))
    BY <2>3
  <2>5. QED BY <1>1, <1>2, <1>3, <2>4
<1>4. CASE ~ \E j \in DOMAIN pending : fits(j)
  BY <1>1, <1>2, <1>4
<1>5. QED BY <1>3, <1>4
----------------------------------------------------------------------------
(* The lists of links *)

\* A link that is on its way to a list.
Early == {"idle", "src", "tgt", "put"}

\* What holds of each link: its source fits, it is told only when it has both
\* pads, and it gets its first pads from its own call.
LinkFacts(k, l) ==
    /\ k.src # None => Has(k.src, SrcName(l))
    /\ k.told # "none" => Ready(k)
    /\ k.pc \notin {"done", "gone"} => k.result = "none"
    /\ k.pc \in Early => k.told = "none"
    /\ k.pc \in {"idle", "src"} => k.src = None
    /\ k.pc \in {"idle", "src", "tgt"} => k.tgt = None

\* Of a pending link: its call goes on, or has been told that it is linked.
PendingFacts(k) ==
    /\ k.pc \in {"await", "listen", "remove", "done"}
    /\ k.pc = "done" => k.result = "link" /\ Ready(k)

\* Of a link that counts as made.
MadeFacts(k) == Ready(k) /\ k.pc \notin Early /\ k.result # "null"

\* LinkTables and CanceledIsGone together are not inductive: a link must be found
\* in the list where it is, once, and no other in its place.
LinksInv ==
    /\ Once(pending)
    /\ \A l \in Linker : LinkFacts(link[l], l)
    /\ \A l \in Linker :
          Contains(pending, l) => l \notin bySrc /\ PendingFacts(link[l])
    /\ \A l \in bySrc : MadeFacts(link[l]) /\ <<link[l].src, link[l].tgt>> \in joined

\* A step of call l, or of the handler with its link, after which that is k: it
\* keeps its pads, and is listed with the pads it has not seen.
CallStep(l, k) ==
    /\ k \in Link /\ link' = [link EXCEPT ![l] = k] /\ LinkFacts(k, l)
    /\ pending' \in Seq(Linker) /\ Once(pending')
    /\ bySrc' \subseteq Linker /\ joined' \subseteq Pad \X Pad
    /\ \A m \in Linker : m # l /\ Contains(pending', m) => Contains(pending, m)
    /\ bySrc' \subseteq bySrc \cup {l}
    /\ Contains(pending', l) => l \notin bySrc' /\ PendingFacts(k)
    /\ l \in bySrc' => MadeFacts(k) /\ <<k.src, k.tgt>> \in joined'
    /\ \A j \in joined : j \in joined' \/ j = <<k.src, k.tgt>>
    /\ link[l].src \in {None, k.src} /\ link[l].tgt \in {None, k.tgt}
    /\ Contains(pending', l) =>
          \/ Contains(pending, l) /\ k.blind = link[l].blind
          \/ Ready(k)
          \/ \A p \in Handled, e \in BothEnds : Has(p, Wants[l][e]) => p \in k.blind

LEMMA CallKeepsLinks ==
    ASSUME SourcesApart, TypeOK, LinksInv, NEW l \in Linker, NEW k, CallStep(l, k)
    PROVE  LinksInv' /\ link' \in [Linker -> Link]
<1>1. /\ link'[l] = k /\ \A m \in Linker : m # l => link'[m] = link[m]
      /\ link' \in [Linker -> Link] /\ k \in Link
  BY DEF TypeOK, CallStep
<1>2. \A m \in Linker : LinkFacts(link'[m], m)
  BY <1>1 DEF LinksInv, CallStep
<1>3. ASSUME NEW m \in Linker, Contains(pending', m)
      PROVE  m \notin bySrc' /\ PendingFacts(link'[m])
  <2>1. CASE m = l
    BY <1>1, <1>3, <2>1 DEF CallStep
  <2>2. CASE m # l
    BY <1>1, <1>3, <2>2 DEF LinksInv, CallStep
  <2>3. QED BY <2>1, <2>2
<1>4. ASSUME NEW m \in bySrc'
      PROVE  MadeFacts(link'[m]) /\ <<link'[m].src, link'[m].tgt>> \in joined'
  <2>1. CASE m = l
    BY <1>1, <1>4, <2>1 DEF CallStep
  <2>2. CASE m # l
    <3>1. /\ m \in bySrc /\ m \in Linker /\ link'[m] = link[m]
          /\ MadeFacts(link[m]) /\ <<link[m].src, link[m].tgt>> \in joined
      BY <1>1, <1>4, <2>2 DEF TypeOK, LinksInv, CallStep
    <3>2. CASE <<link[m].src, link[m].tgt>> = <<k.src, k.tgt>>
      <4>1. link[m].src = k.src /\ k.src # None /\ k.src \in Pad
        BY <1>1, <3>1, <3>2 DEF MadeFacts, Ready, Link
      <4>2. Has(k.src, SrcName(l)) /\ Has(k.src, SrcName(m))
        BY <3>1, <4>1 DEF LinksInv, LinkFacts, CallStep
      <4>3. QED BY <2>2, <3>1, <4>1, <4>2 DEF SourcesApart
    <3>3. QED BY <3>1, <3>2 DEF CallStep
  <2>3. QED BY <2>1, <2>2
<1>5. Once(pending')
  BY DEF CallStep
<1>6. QED
  BY <1>1, <1>2, <1>3, <1>4, <1>5
     DEF LinksInv, LinkFacts, MadeFacts, PendingFacts, Ready, Once

\* A step that leaves the links alone.
LEMMA AsideKeepsLinks ==
    ASSUME LinksInv, UNCHANGED <<link, pending, bySrc, joined>>
    PROVE  LinksInv'
BY DEF LinksInv, LinkFacts, MadeFacts, PendingFacts, Ready

\* _clean_pending_link takes the link itself out of the list, if it is there.
LEMMA Cleaned ==
    ASSUME SourcesApart, TypeOK, LinksInv, NEW l \in Linker
    PROVE  /\ CleanPending(l) \in Seq(Linker) /\ Once(CleanPending(l))
           /\ \A m : Contains(CleanPending(l), m) <=> Contains(pending, m) /\ m # l
           /\ CleanPending(l) # pending <=> Contains(pending, l)
<1> DEFINE i == FindPending(SrcName(l), {"src"})
<1>1. /\ pending \in Seq(Linker) /\ Once(pending)
      /\ \A j \in 1..Len(pending) : pending[j] \in Linker
  BY DEF TypeOK, LinksInv
<1>2. \A m \in Linker : Fits(SrcName(l), {"src"}, m) <=> m = l
  <2>1. ASSUME NEW m \in Linker
        PROVE  Fits(SrcName(l), {"src"}, m) <=> Has(SrcName(l), SrcName(m))
    BY DEF Fits, SrcName
  <2>2. SrcName(l) \in Name
    BY PipelineAssumption DEF SrcName
  <2>3. QED BY <2>1, <2>2, OwnName DEF SourcesApart
<1>3. CASE i = 0
  <2>1. \A j \in 1..Len(pending) : ~ Fits(SrcName(l), {"src"}, pending[j])
    BY <1>3, Found
  <2>2. ~ Contains(pending, l)
    BY <1>2, <2>1 DEF Contains
  <2>3. CleanPending(l) = pending
    BY <1>3 DEF CleanPending
  <2>4. QED BY <1>1, <2>2, <2>3
<1>4. CASE i # 0
  <2>1. i \in 1..Len(pending) /\ Fits(SrcName(l), {"src"}, pending[i])
    BY <1>4, Found
  <2> HIDE DEF i
  <2>2. pending[i] = l /\ Contains(pending, l)
    BY <1>1, <1>2, <2>1 DEF Contains
  <2>3. CleanPending(l) = RemoveAt(pending, i)
    BY <1>4 DEF CleanPending, i
  <2>4. QED BY <1>1, <2>1, <2>2, <2>3, RemoveAtList
<1>5. QED BY <1>3, <1>4

\* _add_link of link l, which then is k and has both pads: it is made, or it is
\* in no list of made links.
LEMMA Added ==
    ASSUME SourcesApart, TypeOK, LinksInv, NEW l \in Linker, NEW k \in Link, Ready(k),
           NEW clean \in BOOLEAN, AddLink(l, k, clean)
    PROVE  /\ pending' \in Seq(Linker) /\ Once(pending')
           /\ \A m : Contains(pending', m) => Contains(pending, m)
           /\ bySrc' \subseteq bySrc \cup {l} /\ bySrc' \subseteq Linker
           /\ joined \subseteq joined' /\ joined' \subseteq Pad \X Pad
           /\ l \in bySrc' <=> Links(k)
           /\ Links(k) => <<k.src, k.tgt>> \in joined'
           /\ Links(k) /\ clean => ~ Contains(pending', l)
           /\ ~ (Links(k) /\ clean) => pending' = pending
<1> USE DEF SrcName
<1>1. /\ pending \in Seq(Linker) /\ Once(pending) /\ bySrc \subseteq Linker
      /\ joined \subseteq Pad \X Pad
  BY DEF TypeOK, LinksInv
<1>2. NotOf(SrcName(l)) \subseteq bySrc /\ l \notin NotOf(SrcName(l))
  BY DEF NotOf
<1>3. CASE Links(k)
  <2>1. /\ joined' = joined \cup {<<k.src, k.tgt>>}
        /\ bySrc' = NotOf(SrcName(l)) \cup {l}
        /\ pending' = IF clean THEN CleanPending(l) ELSE pending
    BY <1>3 DEF AddLink
  <2>2. k.src \in Pad /\ k.tgt \in Pad
    BY DEF Ready, Link
  <2>3. QED BY <1>1, <1>2, <1>3, <2>1, <2>2, Cleaned
<1>4. CASE ~ Links(k)
  <2>1. bySrc' = NotOf(SrcName(l)) /\ UNCHANGED <<joined, pending>>
    BY <1>4 DEF AddLink
  <2>2. QED BY <1>1, <1>2, <1>4, <2>1
<1>5. QED BY <1>3, <1>4

\* A call that leaves the lists alone.
LEMMA QuietCall ==
    ASSUME TypeOK, LinksInv, NEW l \in Linker, NEW k \in Link,
           link' = [link EXCEPT ![l] = k], LinkFacts(k, l),
           UNCHANGED <<pending, bySrc, joined>>,
           Contains(pending, l) => PendingFacts(k) /\ (Ready(k) \/ k.blind = link[l].blind),
           l \in bySrc => MadeFacts(k) /\ k.src = link[l].src /\ k.tgt = link[l].tgt,
           link[l].src \in {None, k.src}, link[l].tgt \in {None, k.tgt}
    PROVE  CallStep(l, k)
<1>1. \A m : Contains(pending', m) <=> Contains(pending, m)
  BY DEF Contains
<1>2. Once(pending')
  BY DEF LinksInv, Once
<1>3. /\ pending' \in Seq(Linker) /\ bySrc' \subseteq Linker
      /\ joined' \subseteq Pad \X Pad
  BY DEF TypeOK
<1>4. l \in bySrc' => MadeFacts(k) /\ <<k.src, k.tgt>> \in joined'
  BY DEF LinksInv
<1>5. Contains(pending', l) => l \notin bySrc' /\ PendingFacts(k)
  BY <1>1 DEF LinksInv
<1>6. QED BY <1>1, <1>2, <1>3, <1>4, <1>5 DEF CallStep

LEMMA Returning ==
    ASSUME TypeOK, NEW l \in Linker, NEW result \in {"link", "null", "throws"},
           Returns(l, result)
    PROVE  LET k == [link[l] EXCEPT !.pc = "done", !.result = result, !.blind = {}] IN
           /\ k \in Link /\ link' = [link EXCEPT ![l] = k]
           /\ k.pc = "done" /\ k.src = link[l].src /\ k.tgt = link[l].tgt
           /\ k.told = link[l].told /\ k.result = result
<1>1. link[l] \in Link
  BY DEF TypeOK
<1>2. QED BY <1>1 DEF Returns, Link, TypeOK

\* The call that looks, waits, is told or is cancelled.
LEMMA QuietCalls ==
    ASSUME TypeOK, LinksInv, NEW l \in Linker,
           LinkChecks(l) \/ LinkLooks(l) \/ WaitsLinked(l) \/ IsTold(l) \/ Cancels(l)
    PROVE  \E k : CallStep(l, k)
<1>1. UNCHANGED <<pending, bySrc, joined>>
  BY DEF LinkChecks, LinkLooks, WaitsLinked, IsTold, Cancels
<1>2. LinkFacts(link[l], l) /\ link[l] \in Link
  BY DEF LinksInv, TypeOK
<1>3. /\ Contains(pending, l) => PendingFacts(link[l])
      /\ l \in bySrc => MadeFacts(link[l])
  BY DEF LinksInv
<1>4. CASE LinkChecks(l)
  <2>1. CASE Returns(l, "throws") /\ link[l].pc = "idle"
    <3> DEFINE k == [link[l] EXCEPT !.pc = "done", !.result = "throws", !.blind = {}]
    <3>1. /\ k \in Link /\ link' = [link EXCEPT ![l] = k]
          /\ k.pc = "done" /\ k.src = link[l].src /\ k.tgt = link[l].tgt
          /\ k.told = link[l].told /\ k.result = "throws"
      BY <2>1, Returning
    <3> HIDE DEF k
    <3>2. LinkFacts(k, l) /\ ~ Contains(pending, l) /\ l \notin bySrc
      BY <1>2, <1>3, <2>1, <3>1 DEF LinkFacts, PendingFacts, MadeFacts, Early, Ready
    <3>3. QED BY <1>1, <3>1, <3>2, QuietCall
  <2>2. CASE LinkGoes(l, "idle", "src")
    <3> DEFINE k == [link[l] EXCEPT !.pc = "src"]
    <3>1. /\ k \in Link /\ link' = [link EXCEPT ![l] = k] /\ link[l].pc = "idle"
          /\ k.pc = "src" /\ k.src = link[l].src /\ k.tgt = link[l].tgt
          /\ k.told = link[l].told /\ k.result = link[l].result
      BY <1>2, <2>2 DEF LinkGoes, Link, TypeOK
    <3> HIDE DEF k
    <3>2. LinkFacts(k, l)
      BY <1>2, <3>1 DEF LinkFacts, Early
    <3>3. ~ Contains(pending, l) /\ l \notin bySrc
      BY <1>3, <3>1 DEF PendingFacts, MadeFacts, Early
    <3>4. QED BY <1>1, <3>1, <3>2, <3>3, QuietCall
  <2>3. QED BY <1>4, <2>1, <2>2 DEF LinkChecks
<1>5. CASE LinkLooks(l)
  <2>1. \A n \in Name : StaticPad(n) \in Pad \cup {None} /\ (StaticPad(n) # None => Has(StaticPad(n), n))
    BY OwnName DEF StaticPad, Exists
  <2>2. Wants[l].src \in Name /\ Wants[l].tgt \in Name
    BY PipelineAssumption
  <2>3. CASE link[l].pc = "src"
    <3> DEFINE k == [link[l] EXCEPT !.pc = "tgt", !.src = StaticPad(Wants[l].src)]
    <3>1. link' = [link EXCEPT ![l] = k]
      BY <1>5, <2>3 DEF LinkLooks, TypeOK
    <3>2. /\ k \in Link
          /\ k.pc = "tgt" /\ k.src = StaticPad(Wants[l].src) /\ k.tgt = link[l].tgt
          /\ k.told = link[l].told /\ k.result = link[l].result
      BY <1>2, <2>1, <2>2 DEF Link
    <3> HIDE DEF k
    <3>3. LinkFacts(k, l)
      BY <1>2, <2>1, <2>2, <2>3, <3>2 DEF LinkFacts, Early, SrcName
    <3>4. ~ Contains(pending, l) /\ l \notin bySrc
      BY <1>3, <2>3 DEF PendingFacts, MadeFacts, Early
    <3>5. link[l].src = None
      BY <1>2, <2>3 DEF LinkFacts
    <3>6. QED BY <1>1, <3>1, <3>2, <3>3, <3>4, <3>5, QuietCall
  <2>4. CASE link[l].pc = "tgt"
    <3> DEFINE k == [link[l] EXCEPT !.pc = "put", !.tgt = StaticPad(Wants[l].tgt)]
    <3>1. link' = [link EXCEPT ![l] = k]
      BY <1>5, <2>4 DEF LinkLooks, TypeOK
    <3>2. /\ k \in Link
          /\ k.pc = "put" /\ k.tgt = StaticPad(Wants[l].tgt) /\ k.src = link[l].src
          /\ k.told = link[l].told /\ k.result = link[l].result
      BY <1>2, <2>1, <2>2 DEF Link
    <3> HIDE DEF k
    <3>3. LinkFacts(k, l)
      BY <1>2, <2>4, <3>2 DEF LinkFacts, Early
    <3>4. ~ Contains(pending, l) /\ l \notin bySrc
      BY <1>3, <2>4 DEF PendingFacts, MadeFacts, Early
    <3>5. link[l].tgt = None
      BY <1>2, <2>4 DEF LinkFacts
    <3>6. QED BY <1>1, <3>1, <3>2, <3>3, <3>4, <3>5, QuietCall
  <2>5. QED BY <1>5, <2>3, <2>4 DEF LinkLooks
<1>6. CASE WaitsLinked(l) \/ IsTold(l) \/ Cancels(l)
  <2>1. CASE Returns(l, "link") /\ link[l].pc \in {"await", "listen"} /\ Ready(link[l])
    <3> DEFINE k == [link[l] EXCEPT !.pc = "done", !.result = "link", !.blind = {}]
    <3>1. /\ k \in Link /\ link' = [link EXCEPT ![l] = k]
          /\ k.pc = "done" /\ k.src = link[l].src /\ k.tgt = link[l].tgt
          /\ k.told = link[l].told /\ k.result = "link"
      BY <2>1, Returning
    <3> HIDE DEF k
    <3>2. /\ LinkFacts(k, l) /\ Ready(k)
          /\ Contains(pending, l) => PendingFacts(k)
          /\ l \in bySrc => MadeFacts(k)
      BY <1>2, <1>3, <2>1, <3>1 DEF LinkFacts, PendingFacts, MadeFacts, Early, Ready
    <3>3. QED BY <1>1, <3>1, <3>2, QuietCall
  <2>2. ASSUME NEW from \in {"await", "listen"}, NEW to \in {"listen", "remove"},
               LinkGoes(l, from, to)
        PROVE  \E k : CallStep(l, k)
    <3> DEFINE k == [link[l] EXCEPT !.pc = to]
    <3>1. /\ k \in Link /\ link' = [link EXCEPT ![l] = k] /\ link[l].pc = from
          /\ k.pc = to /\ k.src = link[l].src /\ k.tgt = link[l].tgt
          /\ k.told = link[l].told /\ k.result = link[l].result
          /\ k.blind = link[l].blind
      BY <1>2, <2>2 DEF LinkGoes, Link, TypeOK
    <3> HIDE DEF k
    <3>2. LinkFacts(k, l)
      BY <1>2, <3>1 DEF LinkFacts, Early, Ready
    <3>3. Contains(pending, l) => PendingFacts(k)
      BY <1>3, <3>1 DEF PendingFacts
    <3>4. l \in bySrc => MadeFacts(k)
      BY <1>3, <3>1 DEF MadeFacts, Early, Ready
    <3>5. QED BY <1>1, <3>1, <3>2, <3>3, <3>4, QuietCall
  <2>3. \/ Returns(l, "link") /\ link[l].pc \in {"await", "listen"} /\ Ready(link[l])
        \/ \E from \in {"await", "listen"}, to \in {"listen", "remove"} :
              LinkGoes(l, from, to)
    <3>1. CASE WaitsLinked(l)
      BY <3>1 DEF WaitsLinked
    <3>2. CASE IsTold(l)
      <4>1. link[l].pc = "listen" /\ Ready(link[l])
        BY <1>2, <3>2 DEF IsTold, LinkFacts
      <4>2. Returns(l, "link") \/ LinkGoes(l, "listen", "remove")
        BY <3>2 DEF IsTold
      <4>3. QED BY <4>1, <4>2
    <3>3. CASE Cancels(l)
      BY <3>3 DEF Cancels
    <3>4. QED BY <1>6, <3>1, <3>2, <3>3
  <2>4. QED BY <2>1, <2>2, <2>3
<1>7. QED BY <1>4, <1>5, <1>6

LEMMA PutsCall ==
    ASSUME SourcesApart, TypeOK, LinksInv, NEW l \in Linker, LinkPuts(l)
    PROVE  \E k : CallStep(l, k)
<1>1. LinkFacts(link[l], l) /\ link[l] \in Link /\ link[l].pc = "put"
  BY DEF LinksInv, TypeOK, LinkPuts
<1>2. ~ Contains(pending, l) /\ l \notin bySrc
  BY <1>1 DEF LinksInv, PendingFacts, MadeFacts, Early
<1>3. ASSUME Ready(link[l]), NEW result \in {"link", "null"},
             result = IF Links(link[l]) THEN "link" ELSE "null",
             AddLink(l, link[l], FALSE), Returns(l, result)
      PROVE  \E k : CallStep(l, k)
  <2> DEFINE k == [link[l] EXCEPT !.pc = "done", !.result = result, !.blind = {}]
  <2>1. /\ k \in Link /\ link' = [link EXCEPT ![l] = k]
        /\ k.pc = "done" /\ k.src = link[l].src /\ k.tgt = link[l].tgt
        /\ k.told = link[l].told /\ k.result = result
    BY <1>1, <1>3 DEF Returns, Link, TypeOK
  <2> HIDE DEF k
  <2>2. /\ pending' \in Seq(Linker) /\ Once(pending') /\ pending' = pending
        /\ bySrc' \subseteq bySrc \cup {l} /\ bySrc' \subseteq Linker
        /\ joined \subseteq joined' /\ joined' \subseteq Pad \X Pad
        /\ l \in bySrc' <=> Links(link[l])
        /\ Links(link[l]) => <<link[l].src, link[l].tgt>> \in joined'
    BY <1>1, <1>3, Added
  <2>3. LinkFacts(k, l)
    BY <1>1, <1>3, <2>1 DEF LinkFacts, Ready, Early
  <2>4. l \in bySrc' => MadeFacts(k) /\ <<k.src, k.tgt>> \in joined'
    BY <1>3, <2>1, <2>2 DEF MadeFacts, Ready, Early
  <2>5. ~ Contains(pending', l) /\ \A m : Contains(pending', m) => Contains(pending, m)
    BY <1>2, <2>2
  <2>6. QED BY <2>1, <2>2, <2>3, <2>4, <2>5 DEF CallStep
<1>4. CASE Ready(link[l])
  BY <1>3, <1>4 DEF LinkPuts
<1>5. CASE ~ Ready(link[l])
  <2> DEFINE b == {p \in Handled : \E e \in BothEnds : Has(p, Wants[l][e])}
             k == [link[l] EXCEPT !.pc = "await", !.blind = b]
  <2>1. link' = [link EXCEPT ![l] = k] /\ pending' = Append(pending, l)
        /\ UNCHANGED <<bySrc, joined>>
    BY <1>5 DEF LinkPuts, TypeOK
  <2>2. b \in SUBSET Pad
    BY DEF Handled
  <2>3. /\ k \in Link /\ k.pc = "await" /\ k.blind = b
        /\ k.src = link[l].src /\ k.tgt = link[l].tgt
        /\ k.told = link[l].told /\ k.result = link[l].result
    BY <1>1, <2>2 DEF Link
  <2>4. \A p \in Handled, e \in BothEnds : Has(p, Wants[l][e]) => p \in k.blind
    BY <2>3
  <2> HIDE DEF k, b
  <2>5. LinkFacts(k, l)
    BY <1>1, <2>3 DEF LinkFacts, Ready, Early
  <2>6. PendingFacts(k)
    BY <2>3 DEF PendingFacts
  <2>7. /\ pending' \in Seq(Linker) /\ Once(pending')
        /\ \A m : Contains(pending', m) <=> Contains(pending, m) \/ m = l
    BY <1>2, <2>1, AppendList DEF TypeOK, LinksInv
  <2>8. bySrc \subseteq Linker /\ joined \subseteq Pad \X Pad
    BY DEF TypeOK
  <2>9. QED BY <1>2, <2>1, <2>3, <2>4, <2>5, <2>6, <2>7, <2>8 DEF CallStep
<1>6. QED BY <1>4, <1>5

LEMMA RemovesCall ==
    ASSUME SourcesApart, TypeOK, LinksInv, NEW l \in Linker, Removes(l)
    PROVE  \E k : CallStep(l, k)
<1> USE DEF SrcName
<1>1. LinkFacts(link[l], l) /\ link[l].pc = "remove" /\ Returns(l, "null")
  BY DEF LinksInv, Removes
<1> DEFINE k == [link[l] EXCEPT !.pc = "done", !.result = "null", !.blind = {}]
<1>2. /\ k \in Link /\ link' = [link EXCEPT ![l] = k]
      /\ k.pc = "done" /\ k.src = link[l].src /\ k.tgt = link[l].tgt
      /\ k.told = link[l].told /\ k.result = "null"
  BY <1>1, Returning
<1> HIDE DEF k
<1>3. LinkFacts(k, l)
  BY <1>1, <1>2 DEF LinkFacts, Ready, Early
<1>4. /\ CleanPending(l) \in Seq(Linker) /\ Once(CleanPending(l))
      /\ \A m : Contains(CleanPending(l), m) <=> Contains(pending, m) /\ m # l
      /\ CleanPending(l) # pending <=> Contains(pending, l)
  BY Cleaned
<1>5. /\ pending' = CleanPending(l) /\ joined' = joined
      /\ bySrc' \subseteq bySrc /\ l \notin bySrc'
  <2>1. CASE CleanPending(l) # pending
    BY <1>4, <2>1 DEF Removes, LinksInv
  <2>2. CASE CleanPending(l) = pending
    BY <2>2 DEF Removes, NotOf
  <2>3. QED BY <2>1, <2>2
<1>6. bySrc \subseteq Linker /\ joined \subseteq Pad \X Pad
  BY DEF TypeOK
<1>7. QED BY <1>2, <1>3, <1>4, <1>5, <1>6 DEF CallStep

LEMMA ReleasedCall ==
    ASSUME SourcesApart, TypeOK, LinksInv, NEW l \in Linker, Released(l)
    PROVE  \E k : CallStep(l, k)
<1>1. /\ LinkFacts(link[l], l) /\ link[l] \in Link
      /\ link[l].pc = "done" /\ ~ Contains(pending, l) /\ l \notin bySrc
      /\ LinkGoes(l, "done", "gone") /\ UNCHANGED <<pending, bySrc>>
      /\ joined' = joined \ {<<link[l].src, link[l].tgt>>}
  BY DEF LinksInv, TypeOK, Released, LinkGoes
<1> DEFINE k == [link[l] EXCEPT !.pc = "gone"]
<1>2. /\ k \in Link /\ link' = [link EXCEPT ![l] = k]
      /\ k.pc = "gone" /\ k.src = link[l].src /\ k.tgt = link[l].tgt
      /\ k.told = link[l].told /\ k.result = link[l].result
  BY <1>1 DEF LinkGoes, Link, TypeOK
<1> HIDE DEF k
<1>3. LinkFacts(k, l)
  BY <1>1, <1>2 DEF LinkFacts, Ready, Early
<1>4. /\ pending' \in Seq(Linker) /\ Once(pending')
      /\ \A m : Contains(pending', m) => Contains(pending, m)
      /\ bySrc' \subseteq Linker /\ joined' \subseteq Pad \X Pad
  BY <1>1 DEF TypeOK, LinksInv
<1>5. \A j \in joined : j \in joined' \/ j = <<k.src, k.tgt>>
  BY <1>1, <1>2
<1>6. QED BY <1>1, <1>2, <1>3, <1>4, <1>5 DEF CallStep

\* The handler gives the pad to the first pending link that has its name, unless
\* there is none, or that link has another pad.
LEMMA PadCall ==
    ASSUME SourcesApart, TypeOK, LinksInv, NEW p \in Pad, LinkPad(p)
    PROVE  \/ \E l \in Linker, k \in Link :
                 /\ CallStep(l, k) /\ Contains(pending, l) /\ k.blind = link[l].blind
                 /\ p \in {k.src, k.tgt}
                 /\ \A e \in BothEnds : Has(p, Wants[l][e]) => k[e] # None
           \/ /\ UNCHANGED <<link, pending, bySrc, joined>>
              /\ \/ dead'
                 \/ \A l \in Linker, e \in BothEnds :
                       Contains(pending, l) => ~ Has(p, Wants[l][e])
<1> DEFINE i == FindPending(p, Ends)
           l == pending[i]
           end == IF Node(SrcName(l)) = Node(p) THEN "src" ELSE "tgt"
           k == SetPad(link[l], end, p)
<1>1. CASE i = 0
  <2>1. \A j \in 1..Len(pending) : ~ Fits(p, Ends, pending[j])
    BY <1>1, Found
  <2>2. UNCHANGED <<link, pending, bySrc, joined>>
    BY <1>1 DEF LinkPad
  <2>3. QED BY <2>1, <2>2 DEF Fits, Ends, Contains
<1>2. CASE i # 0 /\ ~ CanSet(link[l], end, p)
  BY <1>2 DEF LinkPad
<1>3. CASE i # 0 /\ CanSet(link[l], end, p)
  <2>1. i \in 1..Len(pending) /\ Fits(p, Ends, l)
    BY <1>3, Found
  <2>2. \/ /\ Ready(k) /\ AddLink(l, k, TRUE)
           /\ link' = [link EXCEPT ![l] = Tell(k, Links(k))]
        \/ /\ ~ Ready(k) /\ link' = [link EXCEPT ![l] = k]
           /\ UNCHANGED <<pending, bySrc, joined>>
    BY <1>3 DEF LinkPad
  <2>3. link[l][end] \in {None, p}
    BY <1>3 DEF CanSet
  <2> HIDE DEF i
  <2>4. l \in Linker /\ Contains(pending, l) /\ l \notin bySrc
    BY <2>1 DEF TypeOK, Contains, LinksInv
  <2>5. /\ LinkFacts(link[l], l) /\ PendingFacts(link[l]) /\ link[l] \in Link
        /\ link[l].result # "null" /\ link[l].pc \notin Early
    BY <2>4 DEF LinksInv, TypeOK, LinkFacts, PendingFacts, Early
  <2> HIDE DEF l
  <2>6. p # None /\ p \in Name
    BY PipelineAssumption DEF None
  <2>7. /\ k \in Link /\ k.pc = link[l].pc /\ k.told = link[l].told
        /\ k.result = link[l].result /\ k.blind = link[l].blind
        /\ link[l].src \in {None, k.src} /\ link[l].tgt \in {None, k.tgt}
        /\ k[end] = p
    <3>1. CASE end = "src"
      BY <2>3, <2>5, <3>1 DEF SetPad, Link
    <3>2. CASE end = "tgt"
      BY <2>3, <2>5, <3>2 DEF SetPad, Link
    <3>3. QED BY <3>1, <3>2
  <2>8. \A e \in BothEnds : Has(p, Wants[l][e]) => e = end
    <3>1. Wants[l].src \in Name /\ Wants[l].tgt \in Name
      BY <2>4, PipelineAssumption
    <3>2. Has(p, Wants[l].src) => Node(p) = Node(Wants[l].src)
      BY <2>6, <3>1, SameNode
    <3>3. Has(p, Wants[l].tgt) => Node(p) # Node(Wants[l].src)
      BY <2>4, <2>6, <3>1, SameNode DEF SourcesApart
    <3>4. QED BY <3>2, <3>3 DEF BothEnds, SrcName
  <2>9. p \in {k.src, k.tgt} /\ \A e \in BothEnds : Has(p, Wants[l][e]) => k[e] # None
    BY <2>6, <2>7, <2>8
  <2>10. Has(p, Wants[l][end])
    BY <2>1, <2>8 DEF Fits, Ends
  <2>11. k.src # None => Has(k.src, SrcName(l))
    <3>1. CASE end = "src"
      BY <2>7, <2>10, <3>1 DEF SrcName
    <3>2. CASE end = "tgt"
      <4>1. k.src = link[l].src
        BY <2>5, <3>2 DEF SetPad, Link
      <4>2. QED BY <2>5, <4>1 DEF LinkFacts
    <3>3. QED BY <3>1, <3>2
  <2>12. Ready(link[l]) => Ready(k)
    BY <2>7 DEF Ready
  <2> HIDE DEF k, end
  <2>13. CASE Ready(k)
    <3> DEFINE t == Tell(k, Links(k))
    <3>1. AddLink(l, k, TRUE) /\ link' = [link EXCEPT ![l] = t]
      BY <2>2, <2>13
    <3>2. /\ t \in Link /\ t.pc = k.pc /\ t.result = k.result /\ t.blind = k.blind
          /\ t.src = k.src /\ t.tgt = k.tgt
      BY <2>7 DEF Tell, Link
    <3>3. \A e \in BothEnds : t[e] = k[e]
      BY <3>2 DEF BothEnds
    <3> HIDE DEF t
    <3>4. /\ pending' \in Seq(Linker) /\ Once(pending')
          /\ \A m : Contains(pending', m) => Contains(pending, m)
          /\ bySrc' \subseteq bySrc \cup {l} /\ bySrc' \subseteq Linker
          /\ joined \subseteq joined' /\ joined' \subseteq Pad \X Pad
          /\ l \in bySrc' <=> Links(k)
          /\ Links(k) => <<k.src, k.tgt>> \in joined'
          /\ Links(k) => ~ Contains(pending', l)
      BY <2>4, <2>7, <2>13, <3>1, Added
    <3>5. LinkFacts(t, l)
      BY <2>5, <2>7, <2>11, <2>13, <3>2 DEF LinkFacts, Ready, Early
    <3>6. PendingFacts(t) /\ MadeFacts(t) /\ Ready(t)
      BY <2>5, <2>7, <2>13, <3>2 DEF PendingFacts, MadeFacts, Ready
    <3>7. CallStep(l, t)
      BY <2>7, <3>1, <3>2, <3>4, <3>5, <3>6 DEF CallStep
    <3>8. /\ t.blind = link[l].blind /\ p \in {t.src, t.tgt}
          /\ \A e \in BothEnds : Has(p, Wants[l][e]) => t[e] # None
      BY <2>7, <2>9, <3>2, <3>3
    <3>9. QED BY <2>4, <3>2, <3>7, <3>8
  <2>14. CASE ~ Ready(k)
    <3>1. link' = [link EXCEPT ![l] = k] /\ UNCHANGED <<pending, bySrc, joined>>
      BY <2>2, <2>14
    <3>2. LinkFacts(k, l)
      BY <2>5, <2>7, <2>11, <2>12, <2>14 DEF LinkFacts, Ready, Early
    <3>3. PendingFacts(k)
      BY <2>5, <2>7, <2>12, <2>14 DEF PendingFacts
    <3>4. CallStep(l, k)
      BY <2>4, <2>7, <3>1, <3>2, <3>3, QuietCall
    <3>5. QED BY <2>4, <2>7, <2>9, <3>4
  <2>15. QED BY <2>13, <2>14
<1>4. QED BY <1>1, <1>2, <1>3

LEMMA CallStepOf ==
    ASSUME SourcesApart, TypeOK, LinksInv, NEW l \in Linker,
           LinkStep(l) \/ LinkChecks(l) \/ Cancels(l) \/ Released(l)
    PROVE  \E k : CallStep(l, k)
BY QuietCalls, PutsCall, RemovesCall, ReleasedCall DEF LinkStep

\* A call of link_async leaves the rest alone.
LEMMA CallRest ==
    ASSUME NEW l \in Linker,
           LinkStep(l) \/ (~ dead /\ (LinkChecks(l) \/ Cancels(l) \/ Released(l)))
    PROVE  UNCHANGED <<stage, known, get, dead>>
BY DEF LinkStep, LinkLooks, LinkPuts, WaitsLinked, IsTold, Removes, LinkChecks, Cancels,
       Released

Gets(g) == Finds(g) \/ FindsStatic(g) \/ PutsWaiter(g) \/ ReadsPad(g) \/ GetCancels(g)

LEMMA GetsType ==
    ASSUME TypeOK, NEW g \in Getter, Gets(g)
    PROVE  TypeOK'
<1>1. /\ get \in [Getter -> Get] /\ get[g] \in Get /\ None \in Pad \cup {None}
      /\ known \subseteq Pad
  BY DEF TypeOK
<1>2. UNCHANGED <<stage, link, pending, bySrc, joined, dead>>
  BY DEF Gets, Finds, FindsStatic, PutsWaiter, ReadsPad, GetCancels
<1>3. ASSUME NEW p \in Pad \cup {None}, GetReturns(g, p) PROVE get' \in [Getter -> Get]
  <2> DEFINE k == [get[g] EXCEPT !.pc = "done", !.result = p, !.chan = None,
                                 !.blind = {}, !.excludes = {}]
  <2>1. k \in Get
    BY <1>1 DEF Get
  <2>2. get' = [get EXCEPT ![g] = k]
    BY <1>1, <1>3 DEF GetReturns
  <2> HIDE DEF k
  <2>3. QED BY <1>1, <2>1, <2>2
<1>4. CASE Finds(g)
  <2>1. PICK ex \in {{}, FindPad(Asks[g], {})} :
            \/ \E p \in FindPad(Asks[g], ex) : GetReturns(g, p)
            \/ get' = [get EXCEPT ![g].pc = "static", ![g].excludes = ex]
    BY <1>4 DEF Finds
  <2>2. ex \in SUBSET Pad /\ \A p \in FindPad(Asks[g], ex) : p \in Pad
    BY <1>1 DEF FindPad
  <2>3. CASE get' = [get EXCEPT ![g].pc = "static", ![g].excludes = ex]
    <3> DEFINE k == [get[g] EXCEPT !.pc = "static", !.excludes = ex]
    <3>1. k \in Get
      BY <1>1, <2>2 DEF Get
    <3>2. get' = [get EXCEPT ![g] = k]
      BY <1>1, <2>3
    <3> HIDE DEF k
    <3>3. get' \in [Getter -> Get] /\ UNCHANGED known
      BY <1>1, <1>4, <3>1, <3>2 DEF Finds
    <3>4. QED BY <1>2, <3>3 DEF TypeOK
  <2>4. CASE \E p \in FindPad(Asks[g], ex) : GetReturns(g, p)
    <3>1. get' \in [Getter -> Get]
      BY <1>3, <2>2, <2>4
    <3>2. UNCHANGED known
      BY <1>4 DEF Finds
    <3>3. QED BY <1>2, <3>1, <3>2 DEF TypeOK
  <2>5. QED BY <2>1, <2>3, <2>4
<1>5. CASE FindsStatic(g)
  <2> DEFINE p == StaticPad(Asks[g])
  <2>1. p \in Pad \cup {None}
    BY DEF StaticPad, Exists
  <2>2. \/ get' = [get EXCEPT ![g].pc = "push"] /\ UNCHANGED known
        \/ p \in Pad /\ (GetReturns(g, None) \/ GetReturns(g, p))
              /\ known' \subseteq known \cup {p}
    BY <1>5, <2>1 DEF FindsStatic
  <2> HIDE DEF p
  <2>3. CASE get' = [get EXCEPT ![g].pc = "push"] /\ UNCHANGED known
    <3> DEFINE k == [get[g] EXCEPT !.pc = "push"]
    <3>1. k \in Get
      BY <1>1 DEF Get
    <3>2. get' = [get EXCEPT ![g] = k]
      BY <1>1, <2>3
    <3> HIDE DEF k
    <3>3. get' \in [Getter -> Get]
      BY <1>1, <3>1, <3>2
    <3>4. QED BY <1>2, <2>3, <3>3 DEF TypeOK
  <2>4. CASE p \in Pad /\ (GetReturns(g, None) \/ GetReturns(g, p))
                /\ known' \subseteq known \cup {p}
    <3>1. get' \in [Getter -> Get] /\ known' \subseteq Pad
      BY <1>1, <1>3, <2>4
    <3>2. QED BY <1>2, <3>1 DEF TypeOK
  <2>5. QED BY <2>2, <2>3, <2>4
<1>6. CASE PutsWaiter(g)
  <2> DEFINE b == {p \in Pad : stage[p] \in {"link", "done"} /\ Has(p, Asks[g])}
             k == [get[g] EXCEPT !.pc = "chan", !.blind = b]
  <2>1. get' = [get EXCEPT ![g] = k] /\ UNCHANGED known
    BY <1>1, <1>6 DEF PutsWaiter
  <2>2. b \in SUBSET Pad
    OBVIOUS
  <2> HIDE DEF b
  <2>3. k \in Get
    BY <1>1, <2>2 DEF Get
  <2> HIDE DEF k
  <2>4. QED BY <1>1, <1>2, <2>1, <2>3 DEF TypeOK
<1>7. CASE ReadsPad(g) \/ GetCancels(g)
  <2>1. get[g].chan \in Pad \cup {None}
    BY <1>1 DEF Get
  <2>2. get' \in [Getter -> Get] /\ UNCHANGED known
    BY <1>1, <1>3, <1>7, <2>1 DEF ReadsPad, GetCancels
  <2>3. QED BY <1>2, <2>2 DEF TypeOK
<1>8. QED BY <1>4, <1>5, <1>6, <1>7 DEF Gets

LEMMA CallTypes ==
    ASSUME SourcesApart, TypeOK, LinksInv, NEW l \in Linker, NEW k, CallStep(l, k),
           known' = known, get' = get, dead' \in BOOLEAN,
           stage' \in [Pad -> {"none", "store", "wake", "link", "done"}]
    PROVE  TypeOK' /\ LinksInv'
<1>1. LinksInv' /\ link' \in [Linker -> Link]
  BY CallKeepsLinks
<1>2. QED BY <1>1 DEF TypeOK, CallStep

LEMMA HandlerLinks ==
    ASSUME SourcesApart, TypeOK, LinksInv, NEW p \in Pad, Handler(p) \/ PadAdded(p)
    PROVE  TypeOK' /\ LinksInv'
<1>1. CASE PadAdded(p)
  <2>1. TypeOK'
    BY <1>1 DEF PadAdded, TypeOK
  <2>2. QED BY <1>1, <2>1, AsideKeepsLinks DEF PadAdded
<1>2. CASE Store(p)
  <2>1. TypeOK'
    BY <1>2 DEF Store, TypeOK
  <2>2. QED BY <1>2, <2>1, AsideKeepsLinks DEF Store
<1>3. CASE Wake(p)
  <2>1. ASSUME NEW g \in Getter PROVE [get[g] EXCEPT !.chan = p] \in Get
    <3>1. get[g] \in Get
      BY DEF TypeOK
    <3>2. QED BY <3>1 DEF Get
  <2>2. get' \in [Getter -> Get]
    BY <1>3, <2>1 DEF Wake, TypeOK
  <2>3. TypeOK'
    BY <1>3, <2>2 DEF Wake, TypeOK
  <2>4. QED BY <1>3, <2>3, AsideKeepsLinks DEF Wake
<1>4. CASE LinkPad(p)
  <2>1. /\ stage' \in [Pad -> {"none", "store", "wake", "link", "done"}]
        /\ dead' \in BOOLEAN /\ UNCHANGED <<known, get>>
    BY <1>4 DEF LinkPad, TypeOK
  <2>2. CASE UNCHANGED <<link, pending, bySrc, joined>>
    <3>1. TypeOK'
      BY <2>1, <2>2 DEF TypeOK
    <3>2. QED BY <2>2, <3>1, AsideKeepsLinks
  <2>3. CASE \E l \in Linker, k \in Link : CallStep(l, k)
    BY <2>1, <2>3, CallTypes
  <2>4. QED BY <1>4, <2>2, <2>3, PadCall
<1>5. QED BY <1>1, <1>2, <1>3, <1>4 DEF Handler

LEMMA NextLinks ==
    ASSUME SourcesApart, TypeOK, LinksInv, [Next]_vars
    PROVE  TypeOK' /\ LinksInv'
<1>1. CASE UNCHANGED vars
  <2>1. TypeOK'
    BY <1>1 DEF vars, TypeOK
  <2>2. QED BY <1>1, <2>1, AsideKeepsLinks DEF vars
<1>2. ASSUME NEW l \in Linker,
             LinkStep(l) \/ (~ dead /\ (LinkChecks(l) \/ Cancels(l) \/ Released(l)))
      PROVE  TypeOK' /\ LinksInv'
  <2>1. UNCHANGED <<stage, known, get, dead>>
    BY <1>2, CallRest
  <2>2. PICK k : CallStep(l, k)
    BY <1>2, CallStepOf
  <2>3. /\ stage' \in [Pad -> {"none", "store", "wake", "link", "done"}]
        /\ dead' \in BOOLEAN
    BY <2>1 DEF TypeOK
  <2>4. QED BY <2>1, <2>2, <2>3, CallTypes
<1>3. ASSUME NEW g \in Getter, Gets(g) PROVE TypeOK' /\ LinksInv'
  <2>1. UNCHANGED <<link, pending, bySrc, joined>>
    BY <1>3 DEF Gets, Finds, FindsStatic, PutsWaiter, ReadsPad, GetCancels
  <2>2. QED BY <1>3, <2>1, GetsType, AsideKeepsLinks
<1>4. QED BY <1>1, <1>2, <1>3, HandlerLinks DEF Next, Gets

LEMMA InitLinks == Init => TypeOK /\ LinksInv
<1> SUFFICES ASSUME Init PROVE TypeOK /\ LinksInv
  OBVIOUS
<1> DEFINE k == [pc |-> "idle", src |-> None, tgt |-> None, blind |-> {},
                 told |-> "none", result |-> "none"]
           g == [pc |-> "idle", excludes |-> {}, blind |-> {}, chan |-> None,
                 result |-> None]
<1>1. k \in Link /\ g \in Get
  BY DEF Link, Get
<1>2. \A l \in Linker : LinkFacts(k, l)
  BY DEF LinkFacts, Ready, Early
<1>3. link = [l \in Linker |-> k] /\ get = [x \in Getter |-> g] /\ pending = <<>>
      /\ bySrc = {}
  BY DEF Init
<1> HIDE DEF k, g
<1>4. TypeOK
  <2>1. link \in [Linker -> Link] /\ get \in [Getter -> Get]
    BY <1>1, <1>3
  <2>2. /\ stage \in [Pad -> {"none", "store", "wake", "link", "done"}]
        /\ known = {} /\ joined = {} /\ dead \in BOOLEAN
    BY DEF Init
  <2>3. QED BY <1>3, <2>1, <2>2 DEF TypeOK
<1>5. Once(pending) /\ \A m : ~ Contains(pending, m)
  BY <1>3 DEF Once, Contains
<1>6. QED BY <1>2, <1>3, <1>4, <1>5 DEF LinksInv

LEMMA LinksCorrect == SourcesApart /\ Spec => [](TypeOK /\ LinksInv)
<1> SUFFICES ASSUME SourcesApart PROVE Spec => [](TypeOK /\ LinksInv)
  OBVIOUS
<1>1. TypeOK /\ LinksInv /\ [Next]_vars => (TypeOK /\ LinksInv)'
  BY NextLinks
<1>2. QED BY <1>1, InitLinks, PTL DEF Spec

\* When the names of the sources tell the links apart, a link that counts as made
\* has two pads that GStreamer has linked and is not pending, whatever the order
\* in which pads appear, calls look for them and are cancelled.
THEOREM LinkTablesEver == SourcesApart /\ Spec => []LinkTables
<1>1. TypeOK /\ LinksInv => LinkTables
  BY DEF TypeOK, LinksInv, LinkTables
<1>2. QED BY <1>1, LinksCorrect, PTL

\* Then a link whose call returned nothing is in no list, also when the handler
\* completes it while its call is being cancelled.
THEOREM CanceledIsGoneEver == SourcesApart /\ Spec => []CanceledIsGone
<1>1. LinksInv => CanceledIsGone
  BY DEF LinksInv, CanceledIsGone, PendingFacts, MadeFacts, LinkFacts
<1>2. QED BY <1>1, LinksCorrect, PTL
----------------------------------------------------------------------------
(* No pad is missed *)

\* A pending link has a pad for each end whose pad has been handled since it was
\* listed, or another link took the pad.
SeenLinks ==
    ~ dead =>
        \A l \in Linker : Contains(pending, l) =>
            \A p \in Handled \ link[l].blind, e \in BothEnds :
                Has(p, Wants[l][e]) =>
                    \/ link[l][e] # None
                    \/ \E m \in Linker \ {l} : p \in {link[m].src, link[m].tgt}

\* PadSeen says this of a pad that is handled; a waiter is given the pad before.
SeenGets ==
    \A g \in Getter, p \in Pad :
        /\ stage[p] \in {"link", "done"} /\ p \notin get[g].blind
        /\ get[g].pc = "chan" /\ Has(p, Asks[g])
        => get[g].chan # None

\* A pad some link has stays with it.
LEMMA PadsStay ==
    ASSUME TypeOK, NEW l \in Linker, NEW k, CallStep(l, k), NEW m \in Linker, NEW p \in Pad,
           p \in {link[m].src, link[m].tgt}
    PROVE  p \in {link'[m].src, link'[m].tgt}
<1>1. p # None
  BY PipelineAssumption DEF None
<1>2. link'[l] = k /\ \A x \in Linker : x # l => link'[x] = link[x]
  BY DEF TypeOK, CallStep
<1>3. link[l].src \in {None, k.src} /\ link[l].tgt \in {None, k.tgt}
  BY DEF CallStep
<1>4. QED BY <1>1, <1>2, <1>3

\* What a call's step does to a pad that had been handled before it.
LEMMA CallSees ==
    ASSUME TypeOK, SeenLinks, ~ dead, NEW l \in Linker, NEW k, CallStep(l, k),
           NEW m \in Linker, Contains(pending', m),
           NEW p \in Handled \ link'[m].blind, NEW e \in BothEnds, Has(p, Wants[m][e])
    PROVE  \/ link'[m][e] # None
           \/ \E x \in Linker \ {m} : p \in {link'[x].src, link'[x].tgt}
<1>1. /\ link'[l] = k /\ \A x \in Linker : x # l => link'[x] = link[x]
      /\ k \in Link /\ e \in {"src", "tgt"} /\ p \in Pad
  BY DEF TypeOK, CallStep, BothEnds, Handled
<1>2. ASSUME Contains(pending, m), link'[m].blind = link[m].blind
      PROVE  \/ link'[m][e] # None
             \/ \E x \in Linker \ {m} : p \in {link'[x].src, link'[x].tgt}
  <2>1. CASE link[m][e] # None
    <3>1. CASE m = l
      <4>1. link[l].src \in {None, k.src} /\ link[l].tgt \in {None, k.tgt}
        BY DEF CallStep
      <4>2. QED BY <1>1, <2>1, <3>1, <4>1
    <3>2. CASE m # l
      BY <1>1, <2>1, <3>2
    <3>3. QED BY <3>1, <3>2
  <2>2. CASE \E x \in Linker \ {m} : p \in {link[x].src, link[x].tgt}
    BY <1>1, <2>2, PadsStay
  <2>3. QED BY <1>2, <2>1, <2>2 DEF SeenLinks
<1>3. CASE m # l
  <2>1. Contains(pending, m) /\ link'[m].blind = link[m].blind
    BY <1>1, <1>3 DEF CallStep
  <2>2. QED BY <1>2, <2>1
<1>4. CASE m = l
  <2>1. \/ Contains(pending, l) /\ k.blind = link[l].blind
        \/ Ready(k)
        \/ \A q \in Handled, d \in BothEnds : Has(q, Wants[l][d]) => q \in k.blind
    BY <1>4 DEF CallStep
  <2>2. CASE Contains(pending, l) /\ k.blind = link[l].blind
    BY <1>1, <1>2, <1>4, <2>2
  <2>3. CASE Ready(k)
    BY <1>1, <1>4, <2>3 DEF Ready
  <2>4. CASE \A q \in Handled, d \in BothEnds : Has(q, Wants[l][d]) => q \in k.blind
    BY <1>1, <1>4, <2>4
  <2>5. QED BY <2>1, <2>2, <2>3, <2>4
<1>5. QED BY <1>3, <1>4

LEMMA AsideKeepsSeenLinks ==
    ASSUME SeenLinks, UNCHANGED <<link, pending, dead>>, Handled' \subseteq Handled
    PROVE  SeenLinks'
BY DEF SeenLinks

\* The handler shows its pad to every link that is pending.
LEMMA LinkPadSees ==
    ASSUME SourcesApart, TypeOK, LinksInv, SeenLinks, NEW p \in Pad, LinkPad(p), ~ dead
    PROVE  SeenLinks'
<1>1. Handled' \subseteq Handled \cup {p}
  BY DEF LinkPad, Handled, TypeOK
<1> SUFFICES ASSUME ~ dead', NEW m \in Linker, Contains(pending', m),
                    NEW q \in Handled' \ link'[m].blind, NEW e \in BothEnds,
                    Has(q, Wants[m][e])
             PROVE  \/ link'[m][e] # None
                    \/ \E x \in Linker \ {m} : q \in {link'[x].src, link'[x].tgt}
  BY DEF SeenLinks
<1>2. CASE UNCHANGED <<link, pending>> /\ \A l \in Linker, d \in BothEnds :
               Contains(pending, l) => ~ Has(p, Wants[l][d])
  <2>1. q # p /\ q \in Handled \ link[m].blind /\ Contains(pending, m)
    BY <1>1, <1>2
  <2>2. QED BY <1>2, <2>1 DEF SeenLinks
<1>3. ASSUME NEW l \in Linker, NEW k \in Link, CallStep(l, k), p \in {k.src, k.tgt},
             \A d \in BothEnds : Has(p, Wants[l][d]) => k[d] # None
      PROVE  \/ link'[m][e] # None
             \/ \E x \in Linker \ {m} : q \in {link'[x].src, link'[x].tgt}
  <2>1. link'[l] = k
    BY <1>3 DEF TypeOK, CallStep
  <2>2. CASE q = p
    <3>1. CASE m = l
      BY <1>3, <2>1, <2>2, <3>1
    <3>2. CASE m # l
      BY <1>3, <2>1, <2>2, <3>2
    <3>3. QED BY <3>1, <3>2
  <2>3. CASE q # p
    <3>1. q \in Handled \ link'[m].blind
      BY <1>1, <2>3
    <3>2. QED BY <1>3, <3>1, CallSees
  <2>4. QED BY <2>2, <2>3
<1>4. QED BY <1>2, <1>3, PadCall

LEMMA NextSeesLinks ==
    ASSUME SourcesApart, TypeOK, LinksInv, SeenLinks, [Next]_vars
    PROVE  SeenLinks'
<1>1. CASE UNCHANGED vars
  BY <1>1, AsideKeepsSeenLinks DEF vars, Handled
<1>2. ASSUME NEW p \in Pad, Handler(p) \/ (~ dead /\ PadAdded(p)) PROVE SeenLinks'
  <2>1. ASSUME NEW to \in {"store", "wake", "link"}, stage' = [stage EXCEPT ![p] = to],
               UNCHANGED <<link, pending, dead>>
        PROVE  SeenLinks'
    <3>1. Handled' \subseteq Handled
      BY <2>1 DEF Handled, TypeOK
    <3>2. QED BY <2>1, <3>1, AsideKeepsSeenLinks
  <2>2. CASE PadAdded(p)
    BY <2>1, <2>2 DEF PadAdded
  <2>3. CASE Store(p)
    BY <2>1, <2>3 DEF Store
  <2>4. CASE Wake(p)
    BY <2>1, <2>4 DEF Wake
  <2>5. CASE ~ dead /\ LinkPad(p)
    BY <2>5, LinkPadSees
  <2>6. QED BY <1>2, <2>2, <2>3, <2>4, <2>5 DEF Handler
<1>3. ASSUME NEW l \in Linker,
             LinkStep(l) \/ (~ dead /\ (LinkChecks(l) \/ Cancels(l) \/ Released(l)))
      PROVE  SeenLinks'
  <2>1. UNCHANGED <<stage, dead>>
    BY <1>3, CallRest
  <2>2. PICK k : CallStep(l, k)
    BY <1>3, CallStepOf
  <2>3. Handled' = Handled
    BY <2>1 DEF Handled
  <2> SUFFICES ASSUME ~ dead', NEW m \in Linker, Contains(pending', m),
                      NEW q \in Handled' \ link'[m].blind, NEW e \in BothEnds,
                      Has(q, Wants[m][e])
               PROVE  \/ link'[m][e] # None
                      \/ \E x \in Linker \ {m} : q \in {link'[x].src, link'[x].tgt}
    BY DEF SeenLinks
  <2>4. q \in Handled \ link'[m].blind /\ ~ dead
    BY <2>1, <2>3
  <2>5. QED BY <2>2, <2>4, CallSees
<1>4. ASSUME NEW g \in Getter, Gets(g) PROVE SeenLinks'
  <2>1. UNCHANGED <<stage, link, pending, dead>>
    BY <1>4 DEF Gets, Finds, FindsStatic, PutsWaiter, ReadsPad, GetCancels
  <2>2. QED BY <2>1, AsideKeepsSeenLinks DEF Handled
<1>5. QED BY <1>1, <1>2, <1>3, <1>4 DEF Next, Gets

\* A step that leaves the waiters alone, and moves no pad past their notification.
LEMMA AsideKeepsSeenGets ==
    ASSUME SeenGets, UNCHANGED get,
           \A q \in Pad : stage'[q] \in {"link", "done"} => stage[q] \in {"link", "done"}
    PROVE  SeenGets'
BY DEF SeenGets

\* A waiter that starts to wait has seen none of the pads it waits for; the others
\* wait on, or are over.
LEMMA GetsSee ==
    ASSUME TypeOK, SeenGets, NEW g \in Getter, Gets(g)
    PROVE  SeenGets'
<1>1. UNCHANGED stage /\ get \in [Getter -> Get]
  BY DEF Gets, Finds, FindsStatic, PutsWaiter, ReadsPad, GetCancels, TypeOK
<1> SUFFICES ASSUME NEW h \in Getter, NEW q \in Pad, stage[q] \in {"link", "done"},
                    q \notin get'[h].blind, get'[h].pc = "chan", Has(q, Asks[h])
             PROVE  get'[h].chan # None
  BY <1>1 DEF SeenGets
<1>2. ASSUME NEW k, get' = [get EXCEPT ![g] = k],
             \/ k.pc # "chan"
             \/ \A p \in Pad : stage[p] \in {"link", "done"} /\ Has(p, Asks[g])
                                  => p \in k.blind
      PROVE  get'[h].chan # None
  <2>1. CASE h = g
    <3>1. get'[g] = k
      BY <1>1, <1>2
    <3>2. QED BY <1>2, <2>1, <3>1
  <2>2. CASE h # g
    <3>1. get'[h] = get[h]
      BY <1>1, <1>2, <2>2
    <3>2. QED BY <3>1 DEF SeenGets
  <2>3. QED BY <2>1, <2>2
<1>3. ASSUME NEW p, GetReturns(g, p) PROVE get'[h].chan # None
  <2> DEFINE k == [get[g] EXCEPT !.pc = "done", !.result = p, !.chan = None,
                                 !.blind = {}, !.excludes = {}]
  <2>1. get' = [get EXCEPT ![g] = k]
    BY <1>1, <1>3 DEF GetReturns
  <2>2. k.pc = "done"
    BY <1>1 DEF Get
  <2> HIDE DEF k
  <2>3. QED BY <1>2, <2>1, <2>2
<1>4. ASSUME NEW ex, get' = [get EXCEPT ![g].pc = "static", ![g].excludes = ex]
      PROVE  get'[h].chan # None
  <2> DEFINE k == [get[g] EXCEPT !.pc = "static", !.excludes = ex]
  <2>1. get' = [get EXCEPT ![g] = k]
    BY <1>1, <1>4
  <2>2. k.pc = "static"
    BY <1>1 DEF Get
  <2> HIDE DEF k
  <2>3. QED BY <1>2, <2>1, <2>2
<1>5. ASSUME get' = [get EXCEPT ![g].pc = "push"] PROVE get'[h].chan # None
  <2> DEFINE k == [get[g] EXCEPT !.pc = "push"]
  <2>1. get' = [get EXCEPT ![g] = k]
    BY <1>1, <1>5
  <2>2. k.pc = "push"
    BY <1>1 DEF Get
  <2> HIDE DEF k
  <2>3. QED BY <1>2, <2>1, <2>2
<1>6. CASE PutsWaiter(g)
  <2> DEFINE b == {p \in Pad : stage[p] \in {"link", "done"} /\ Has(p, Asks[g])}
             k == [get[g] EXCEPT !.pc = "chan", !.blind = b]
  <2>1. get' = [get EXCEPT ![g] = k]
    BY <1>1, <1>6 DEF PutsWaiter
  <2>2. k.blind = b
    BY <1>1 DEF Get
  <2>3. \A p \in Pad : stage[p] \in {"link", "done"} /\ Has(p, Asks[g]) => p \in k.blind
    BY <2>2
  <2> HIDE DEF k, b
  <2>4. QED BY <1>2, <2>1, <2>3
<1>7. CASE Finds(g)
  BY <1>3, <1>4, <1>7 DEF Finds
<1>8. CASE FindsStatic(g)
  BY <1>3, <1>5, <1>8 DEF FindsStatic
<1>9. CASE ReadsPad(g) \/ GetCancels(g)
  BY <1>3, <1>9 DEF ReadsPad, GetCancels
<1>10. QED BY <1>6, <1>7, <1>8, <1>9 DEF Gets

\* The notification gives the pad to every waiter whose channel is empty.
LEMMA WakeSees ==
    ASSUME TypeOK, SeenGets, NEW p \in Pad, Wake(p)
    PROVE  SeenGets'
<1>1. p # None
  BY PipelineAssumption DEF None
<1>2. /\ get \in [Getter -> Get] /\ stage' = [stage EXCEPT ![p] = "link"]
      /\ stage \in [Pad -> {"none", "store", "wake", "link", "done"}]
  BY DEF TypeOK, Wake
<1> SUFFICES ASSUME NEW h \in Getter, NEW q \in Pad, stage'[q] \in {"link", "done"},
                    q \notin get'[h].blind, get'[h].pc = "chan", Has(q, Asks[h])
             PROVE  get'[h].chan # None
  BY DEF SeenGets
<1>3. CASE Wakes(p, h)
  <2>1. get'[h] = [get[h] EXCEPT !.chan = p]
    BY <1>3 DEF Wake
  <2>2. QED BY <1>1, <1>2, <2>1 DEF Get
<1>4. CASE ~ Wakes(p, h)
  <2>1. get'[h] = get[h]
    BY <1>4 DEF Wake
  <2>2. CASE q = p
    BY <1>4, <2>1, <2>2 DEF Wakes
  <2>3. CASE q # p
    BY <1>2, <2>1, <2>3 DEF SeenGets
  <2>4. QED BY <2>2, <2>3
<1>5. QED BY <1>3, <1>4

LEMMA NextSeesGets ==
    ASSUME TypeOK, SeenGets, [Next]_vars
    PROVE  SeenGets'
<1>1. CASE UNCHANGED vars
  BY <1>1, AsideKeepsSeenGets DEF vars
<1>2. ASSUME NEW p \in Pad, Handler(p) \/ (~ dead /\ PadAdded(p)) PROVE SeenGets'
  <2>1. CASE Wake(p)
    BY <2>1, WakeSees
  <2>2. CASE PadAdded(p) \/ Store(p) \/ LinkPad(p)
    <3>1. /\ UNCHANGED get
          /\ \/ \E to \in {"store", "wake"} : stage' = [stage EXCEPT ![p] = to]
             \/ stage[p] = "link" /\ stage' = [stage EXCEPT ![p] = "done"]
      BY <2>2 DEF PadAdded, Store, LinkPad
    <3>2. \A q \in Pad : stage'[q] \in {"link", "done"} => stage[q] \in {"link", "done"}
      BY <3>1 DEF TypeOK
    <3>3. QED BY <3>1, <3>2, AsideKeepsSeenGets
  <2>3. QED BY <1>2, <2>1, <2>2 DEF Handler
<1>3. ASSUME NEW l \in Linker,
             LinkStep(l) \/ (~ dead /\ (LinkChecks(l) \/ Cancels(l) \/ Released(l)))
      PROVE  SeenGets'
  <2>1. UNCHANGED <<stage, get>>
    BY <1>3, CallRest
  <2>2. QED BY <2>1, AsideKeepsSeenGets
<1>4. ASSUME NEW g \in Getter, Gets(g) PROVE SeenGets'
  BY <1>4, GetsSee
<1>5. QED BY <1>1, <1>2, <1>3, <1>4 DEF Next, Gets

\* No pad that is handled while a link is pending or a waiter is listed is missed:
\* the link has that end, or another link has the pad, and the waiter has a pad,
\* however the three sections of the handler are cut by calls and by other handlers.
THEOREM PadSeenEver == SourcesApart /\ Spec => []PadSeen
<1> SUFFICES ASSUME SourcesApart PROVE Spec => []PadSeen
  OBVIOUS
<1>1. Init => SeenLinks /\ SeenGets
  <2> SUFFICES ASSUME Init PROVE SeenLinks /\ SeenGets
    OBVIOUS
  <2>1. \A p \in Pad : stage[p] = "none"
    BY DEF Init
  <2>2. QED BY <2>1 DEF SeenLinks, SeenGets, Handled
<1>2. TypeOK /\ LinksInv /\ SeenLinks /\ SeenGets /\ [Next]_vars
        => (SeenLinks /\ SeenGets)'
  BY NextSeesLinks, NextSeesGets
<1>3. SeenLinks /\ SeenGets => PadSeen
  BY DEF SeenLinks, SeenGets, PadSeen, Handled
<1>4. QED BY <1>1, <1>2, <1>3, LinksCorrect, PTL DEF Spec
=============================================================================
