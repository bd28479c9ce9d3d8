-------------------------- MODULE PostBufferProofs --------------------------
(***************************************************************************)
(* Theorems about the media path, for any set of readers and any limits:   *)
(* the numbers of the cached messages give their order of arrival, the     *)
(* tokens that say open and closed exist once, a reader who is alone does  *)
(* not wait beside what it waits for, and messages are handed out once, in *)
(* their order of arrival.                                                 *)
(***************************************************************************)
EXTENDS PostBuffer, WellFoundedInduction, TLAPS

\* What the two invariants need of the types.
CacheType ==
    /\ arrived \in 0..MaxMsgs
    /\ rtp \subseteq 1..arrived /\ rtcp \subseteq 1..arrived
    /\ seq \in [Msg -> 0..MaxSeq]
    /\ mseq \in 0..MaxSeq

\* Every step of the media path leaves the caches alone, stores one message or
\* takes at most one out.
LEMMA CacheSteps ==
    ASSUME [Next]_vars
    PROVE \/ UNCHANGED cacheVars
          \/ \E b \in BOOLEAN : OnTrackMsg(b)
          \/ \E r \in Reader, m \in 0..MaxMsgs : Receives(r, m)
<1> USE PostAssumption
<1>1. CASE UNCHANGED vars
  BY <1>1 DEF vars, trackVars
<1>2. ASSUME NEW r \in Reader, Await(r)
      PROVE UNCHANGED cacheVars \/ \E m \in 0..MaxMsgs : Receives(r, m)
  <2>1. CASE Woken(r)
    BY <2>1 DEF Woken
  <2>2. CASE ~ Woken(r)
    BY <1>2, <2>2 DEF Await, Check, Gate, Wait, Takes, Cancelled, Dropped, Gated, Last
  <2>3. QED BY <2>1, <2>2
<1>3. ASSUME NEW r \in Reader, Begin(r) PROVE \E m \in 0..MaxMsgs : Receives(r, m)
  BY <1>3 DEF Begin
<1>4. ASSUME NEW r \in Poster, PosterStep(r) \/ ReadTimeout(r) \/ Drain(r)
      PROVE UNCHANGED cacheVars \/ \E m \in 0..MaxMsgs : Receives(r, m)
  <2>1. CASE Attempt(r)
    BY <2>1, <1>3 DEF Attempt, Poster
  <2>2. CASE Await(r)
    BY <2>2, <1>2 DEF Poster
  <2>3. QED
    BY <1>4, <2>1, <2>2 DEF PosterStep, ReadTimeout, Drain, Answer, Delayed, Post, Enough,
       Fed, trackVars
<1>5. CASE AppReads \/ MoveCloser \/ Await(App)
  BY <1>5, <1>2, <1>3 DEF AppReads, MoveCloser
<1>6. CASE Rtc
  BY <1>6 DEF Rtc, Opens, Closes, OnTrackOpen, OnTrackClosed
<1>7. CASE Element
  BY <1>7 DEF Element
<1>8. QED BY <1>1, <1>4, <1>5, <1>6, <1>7 DEF Next, Poster

----------------------------------------------------------------------------
(* The order of arrival *)

\* A set of messages that is not empty has a first one.
LEMMA Least ==
    ASSUME NEW S, S \subseteq Nat, S # {}
    PROVE \E m \in S : \A n \in S : m <= n
<1> DEFINE R == {ss \in Nat \X Nat : ss[1] < ss[2]}
<1>1. IsWellFoundedOn(R, Nat)
  BY NatLessThanWellFounded DEF OpToRel
<1> HIDE DEF R
<1>2. PICK m \in S : \A y \in S : ~ (<<y, m>> \in R)
  BY <1>1, WFMin
<1>3. \A y \in S : ~ (y < m)
  BY <1>2 DEF R
<1>4. QED BY <1>3

\* What a full buffer loses is its front; nothing else comes in but the message.
LEMMA PushBackAdds ==
    ASSUME NEW c, NEW m
    PROVE m \in PushBack(c, m) /\ PushBack(c, m) \subseteq c \cup {m}
BY DEF PushBack

\* Every message that is left after aging has a number that can be moved down
\* by off: the one behind the front has at least the front's number, and that is
\* not 0.
LEMMA OffsetSound ==
    ASSUME CacheType, ArrivalOrder, NEW off \in 0..MaxSeq, MinSeq(off)
    PROVE \A m \in (rtp \cup rtcp) \ Aged : 0 < off /\ off <= seq[m]
<1> USE TrackAssumption
<1> DEFINE fronts == {m \in Msg : IsFront(m, rtp \ Aged) \/ IsFront(m, rtcp \ Aged)}
<1>1. ASSUME NEW c \in {rtp, rtcp}, NEW m \in c \ Aged
      PROVE \E f \in c \ Aged : f \in fronts /\ f <= m /\ seq[f] <= seq[m]
  <2>1. c \ Aged \subseteq Nat
    <3>1. 1..arrived \subseteq Nat
      BY DEF CacheType
    <3>2. rtp \subseteq Nat /\ rtcp \subseteq Nat
      BY <3>1 DEF CacheType
    <3>3. QED BY <3>2
  <2>2. PICK f \in c \ Aged : \A n \in c \ Aged : f <= n
    BY <2>1, Least
  <2>3. IsFront(f, c \ Aged) /\ f \in Msg
    BY <2>2 DEF IsFront, CacheType, Msg
  <2>4. seq[f] <= seq[m]
    <3>1. f \in rtp \cup rtcp /\ m \in rtp \cup rtcp /\ f <= m
      BY <2>2
    <3>2. f \in Msg /\ m \in Msg /\ f \in Nat /\ m \in Nat
      BY <3>1 DEF CacheType, Msg
    <3>3. seq[f] \in Nat /\ seq[m] \in Nat
      BY <3>2 DEF CacheType
    <3>4. QED BY <3>1, <3>2, <3>3 DEF ArrivalOrder
  <2>5. QED BY <2>2, <2>3, <2>4
<1>2. ASSUME NEW f \in fronts PROVE 0 < seq[f]
  <2>1. f \in Msg /\ f \in (rtp \cup rtcp) \ Aged
    BY DEF IsFront
  <2>2. PICK n \in rtp \cup rtcp : n <= f /\ seq[n] # 0
    BY <2>1 DEF Aged
  <2>3. n \in Msg /\ n \in Nat /\ f \in Nat
    BY <2>1 DEF CacheType, Msg
  <2>4. seq[n] \in Nat /\ seq[f] \in Nat
    BY <2>1, <2>3 DEF CacheType
  <2>5. seq[n] <= seq[f]
    BY <2>1, <2>2, <2>3, <2>4 DEF ArrivalOrder
  <2>6. QED BY <2>2, <2>4, <2>5
<1>3. ASSUME NEW m \in (rtp \cup rtcp) \ Aged PROVE 0 < off /\ off <= seq[m]
  <2>1. PICK f \in fronts : seq[f] <= seq[m]
    BY <1>1
  <2>2. (\E g \in fronts : seq[g] = off) /\ \A g \in fronts : off <= seq[g]
    <3>1. fronts # {}
      BY <2>1
    <3>2. QED BY <3>1 DEF MinSeq
  <2>3. 0 < off /\ off <= seq[f]
    BY <2>2, <1>2
  <2>4. m \in Msg /\ f \in Msg
    BY DEF CacheType, Msg
  <2>5. seq[m] \in Nat /\ seq[f] \in Nat /\ off \in Nat
    BY <2>4 DEF CacheType
  <2>6. QED BY <2>1, <2>3, <2>5
<1>4. QED BY <1>3

\* A message that is stored gets a number above all the others, and no
\* number changes its place among the others.
LEMMA StoreOrder ==
    ASSUME CacheType, ArrivalOrder, NEW b \in BOOLEAN, OnTrackMsg(b)
    PROVE CacheType' /\ ArrivalOrder'
<1> USE TrackAssumption
<1> DEFINE old == (rtp' \cup rtcp') \ {arrived'}
<1>1. arrived' = arrived + 1 /\ arrived' \in Msg /\ arrived' \in 0..MaxMsgs
  BY DEF OnTrackMsg, CacheType, Msg
<1>2. /\ rtp' \subseteq rtp \cup {arrived'} /\ rtcp' \subseteq rtcp \cup {arrived'}
      /\ mseq = MaxSeq => rtp' \cup rtcp' \subseteq ((rtp \cup rtcp) \ Aged) \cup {arrived'}
      /\ arrived' \in rtp' \cup rtcp'
  BY PushBackAdds DEF OnTrackMsg, Store
<1>3. /\ rtp' \subseteq 1..arrived' /\ rtcp' \subseteq 1..arrived'
      /\ old \subseteq rtp \cup rtcp /\ old \subseteq Msg
      /\ \A m \in old : m \in Nat /\ m < arrived'
  <2>1. 1..arrived \subseteq 1..arrived' /\ arrived' \in 1..arrived' /\ arrived \in Nat
    BY <1>1 DEF CacheType
  <2>2. rtp' \subseteq 1..arrived' /\ rtcp' \subseteq 1..arrived'
    BY <1>2, <2>1 DEF CacheType
  <2>3. old \subseteq rtp \cup rtcp /\ rtp \cup rtcp \subseteq 1..arrived
    BY <1>2 DEF CacheType
  <2>4. \A m \in 1..arrived : m \in Nat /\ m \in Msg /\ m < arrived'
    BY <1>1 DEF CacheType, Msg
  <2>5. QED BY <2>2, <2>3, <2>4
<1>4. \E off \in 0..MaxSeq :
         /\ mseq' = mseq - off + 1 /\ mseq' \in 0..MaxSeq
         /\ \A m \in old : off <= seq[m] /\ seq'[m] = seq[m] - off
         /\ seq'[arrived'] = mseq'
         /\ \A m \in Msg : m = arrived' \/ m \in old \/ seq'[m] = 0
         /\ DOMAIN seq' = Msg /\ seq' = [m \in Msg |-> seq'[m]]
  <2>1. CASE mseq # MaxSeq
    <3>1. /\ mseq' = Succ(mseq)
          /\ seq' = [m \in Msg |-> IF m = arrived' THEN mseq'
                                  ELSE IF m \in rtp' \cup rtcp' THEN seq[m] ELSE 0]
      BY <2>1 DEF OnTrackMsg, Store
    <3>2. mseq' = mseq - 0 + 1 /\ mseq' \in 0..MaxSeq /\ 0 \in 0..MaxSeq
      BY <2>1, <3>1 DEF Succ, CacheType
    <3>3. \A m \in old : seq[m] \in Nat /\ seq'[m] = seq[m]
      BY <1>3, <3>1 DEF CacheType
    <3>4. \A m \in old : 0 <= seq[m] /\ seq'[m] = seq[m] - 0
      BY <3>3
    <3>5. seq'[arrived'] = mseq' /\ \A m \in Msg : m = arrived' \/ m \in old \/ seq'[m] = 0
      BY <1>1, <3>1
    <3>6. DOMAIN seq' = Msg /\ seq' = [m \in Msg |-> seq'[m]]
      BY <3>1
    <3>7. QED BY <3>2, <3>4, <3>5, <3>6
  <2>2. CASE mseq = MaxSeq
    <3>1. PICK off \in 0..MaxSeq :
            /\ MinSeq(off)
            /\ mseq' = Succ(Minus(mseq, off))
            /\ seq' = [m \in Msg |->
                              IF m = arrived' THEN mseq'
                              ELSE IF m \in rtp' \cup rtcp' THEN Minus(seq[m], off)
                              ELSE 0]
      BY <2>2 DEF OnTrackMsg, Store
    <3>2. Minus(mseq, off) = MaxSeq - off /\ MaxSeq - off \in Nat
      BY <2>2 DEF Minus
    <3>3. \A m \in old : m \in (rtp \cup rtcp) \ Aged
      BY <1>2, <2>2
    <3>4. \A m \in old : 0 < off /\ off <= seq[m]
      BY <3>1, <3>3, OffsetSound
    <3>5. 0 < off
      <4>1. CASE (rtp \cup rtcp) \ Aged # {}
        BY <4>1, <3>1, OffsetSound
      <4>2. CASE (rtp \cup rtcp) \ Aged = {}
        <5>1. {m \in Msg : IsFront(m, rtp \ Aged) \/ IsFront(m, rtcp \ Aged)} = {}
          BY <4>2 DEF IsFront
        <5>2. off = MaxSeq
          BY <3>1, <5>1 DEF MinSeq
        <5>3. QED BY <5>2
      <4>3. QED BY <4>1, <4>2
    <3>6. mseq' = mseq - off + 1 /\ mseq' \in 0..MaxSeq
      BY <2>2, <3>1, <3>2, <3>5 DEF Succ
    <3>7. \A m \in old : seq'[m] = seq[m] - off
      BY <1>3, <3>1, <3>4 DEF Minus
    <3>8. seq'[arrived'] = mseq' /\ \A m \in Msg : m = arrived' \/ m \in old \/ seq'[m] = 0
      BY <1>1, <3>1
    <3>9. DOMAIN seq' = Msg /\ seq' = [m \in Msg |-> seq'[m]]
      BY <3>1
    <3>10. QED BY <3>4, <3>6, <3>7, <3>8, <3>9
  <2>3. QED BY <2>1, <2>2
<1>5. PICK off \in 0..MaxSeq :
         /\ mseq' = mseq - off + 1 /\ mseq' \in 0..MaxSeq
         /\ \A m \in old : off <= seq[m] /\ seq'[m] = seq[m] - off
         /\ seq'[arrived'] = mseq'
         /\ \A m \in Msg : m = arrived' \/ m \in old \/ seq'[m] = 0
         /\ DOMAIN seq' = Msg /\ seq' = [m \in Msg |-> seq'[m]]
  BY <1>4
<1>6. \A m \in old : seq[m] \in 0..MaxSeq /\ seq[m] <= mseq /\ seq'[m] \in 0..MaxSeq
  BY <1>3, <1>5 DEF CacheType, ArrivalOrder
<1>7. \A m \in Msg : seq'[m] \in 0..MaxSeq
  BY <1>1, <1>5, <1>6
<1>8. CacheType'
  <2>1. seq' \in [Msg -> 0..MaxSeq]
    BY <1>5, <1>7
  <2>2. QED BY <1>1, <1>3, <1>5, <2>1 DEF CacheType
<1>9. \A m \in old : seq'[m] < mseq'
  BY <1>5, <1>6 DEF CacheType
<1>10. ASSUME NEW m \in rtp' \cup rtcp', NEW n \in rtp' \cup rtcp'
       PROVE (m < n => seq'[m] < seq'[n]) /\ seq'[m] <= mseq'
  <2>1. m = arrived' \/ m \in old
    OBVIOUS
  <2>2. n = arrived' \/ n \in old
    OBVIOUS
  <2>3. seq'[m] <= mseq'
    BY <2>1, <1>5, <1>6, <1>9
  <2>4. CASE n = arrived'
    BY <2>1, <2>3, <2>4, <1>1, <1>5, <1>9
  <2>5. CASE m = arrived' /\ n \in old
    BY <2>3, <2>5, <1>1, <1>3
  <2>6. CASE m \in old /\ n \in old
    <3>1. m < n => seq[m] < seq[n]
      BY <2>6, <1>3 DEF ArrivalOrder
    <3>2. QED BY <2>3, <2>6, <3>1, <1>5, <1>6
  <2>7. QED BY <2>1, <2>2, <2>4, <2>5, <2>6
<1>11. QED BY <1>8, <1>10 DEF ArrivalOrder

LEMMA ReceiveOrder ==
    ASSUME CacheType, ArrivalOrder, NEW r \in Reader, NEW m \in 0..MaxMsgs, Receives(r, m)
    PROVE CacheType' /\ ArrivalOrder'
<1> USE TrackAssumption
<1>1. /\ rtp' = rtp \ {m} /\ rtcp' = rtcp \ {m}
      /\ seq' = [n \in Msg |-> IF n = m THEN 0 ELSE seq[n]]
      /\ UNCHANGED <<arrived, mseq>>
  BY DEF Receives
<1>2. CacheType'
  BY <1>1 DEF CacheType
<1>3. \A n \in rtp' \cup rtcp' : n \in rtp \cup rtcp /\ seq'[n] = seq[n]
  BY <1>1 DEF CacheType, Msg
<1>4. QED BY <1>1, <1>2, <1>3 DEF ArrivalOrder

LEMMA CacheCorrect == Spec => [](CacheType /\ ArrivalOrder)
<1>1. Init => CacheType /\ ArrivalOrder
  BY TrackAssumption DEF Init, TrackInit, CacheType, ArrivalOrder, Msg
<1>2. CacheType /\ ArrivalOrder /\ [Next]_vars => (CacheType /\ ArrivalOrder)'
  <2> SUFFICES ASSUME CacheType, ArrivalOrder, [Next]_vars
               PROVE CacheType' /\ ArrivalOrder'
    OBVIOUS
  <2>1. CASE UNCHANGED cacheVars
    BY <2>1 DEF cacheVars, CacheType, ArrivalOrder
  <2>2. QED BY <2>1, CacheSteps, StoreOrder, ReceiveOrder
<1>3. QED BY <1>1, <1>2, PTL DEF Spec

\* However often the common counter of the two buffers runs out, the numbers of
\* the cached messages give their order of arrival, for any capacity and any
\* largest number, as long as that is not 0.
THEOREM ArrivalOrderEver == Spec => []ArrivalOrder
BY CacheCorrect, PTL

----------------------------------------------------------------------------
(* The tokens that say open and closed *)

Nowhere(t) == t \notin news /\ t \notin token /\ \A r \in Reader : held[r] # t

\* OneToken is not inductive: a token could be made twice if the track opened or
\* closed again, and read by one who holds another.
TokenInv ==
    /\ life \in {"new", "open", "closed"} /\ news \subseteq {"open", "closed"}
    /\ token \subseteq Token
    /\ pc \in [Reader -> PC] /\ held \in [Reader -> Token \cup {"none"}]
    /\ \A r \in Reader : held[r] # "none" <=> pc[r] \in {"gated", "woken"}
    /\ life = "new" => Nowhere("open")
    /\ life # "closed" => Nowhere("closed")
    /\ OneToken

tokenVars == <<lifeVars, token, held>>

\* A reader who goes on without a token in its hand.
LEMMA TokenRests ==
    ASSUME TokenInv, UNCHANGED tokenVars, pc' \in [Reader -> PC],
           \A r \in Reader : pc'[r] = pc[r] \/ {pc[r], pc'[r]} \cap {"gated", "woken"} = {}
    PROVE TokenInv'
<1>1. \A t : Nowhere(t) => Nowhere(t)'
  BY DEF Nowhere, tokenVars, lifeVars
<1>2. OneToken'
  BY DEF TokenInv, OneToken, tokenVars, lifeVars
<1>3. QED BY <1>1, <1>2 DEF TokenInv, tokenVars, lifeVars

LEMMA TokenGoes ==
    ASSUME TokenInv, UNCHANGED tokenVars, NEW r \in Reader,
           NEW l \in PC \ {"gated", "woken"}, Goto(r, l), pc[r] \notin {"gated", "woken"}
    PROVE TokenInv'
<1>1. /\ pc' \in [Reader -> PC] /\ pc'[r] = l
      /\ \A u \in Reader : pc'[u] = pc[u] \/ u = r
  BY DEF Goto, TokenInv
<1>2. QED BY <1>1, TokenRests

\* A token in a channel comes into one hand.
LEMMA TokenTaken ==
    ASSUME TokenInv, NEW r \in Reader, NEW at \in {"gate", "wait"}, NEW ts,
           NEW next \in {"gated", "woken"}, Takes(r, at, ts, next)
    PROVE TokenInv'
<1>1. PICK t \in token : token' = token \ {t} /\ held' = [held EXCEPT ![r] = t]
  BY DEF Takes
<1>2. UNCHANGED lifeVars /\ pc[r] = at /\ pc' = [pc EXCEPT ![r] = next]
  BY DEF Takes, Goto
<1>3. /\ t \in Token /\ held[r] = "none" /\ held'[r] = t /\ pc'[r] = next
      /\ \A u \in Reader \ {r} : held'[u] = held[u] /\ pc'[u] = pc[u]
  BY <1>1, <1>2 DEF TokenInv
<1>4. held' \in [Reader -> Token \cup {"none"}] /\ pc' \in [Reader -> PC]
  BY <1>1, <1>2, <1>3 DEF TokenInv, PC
<1>5. \A k : Nowhere(k) => Nowhere(k)'
  BY <1>1, <1>2, <1>3 DEF Nowhere, lifeVars
<1>6. \A u \in Reader : held'[u] # "none" <=> pc'[u] \in {"gated", "woken"}
  BY <1>3 DEF TokenInv, Token
<1>7. OneToken'
  <2> SUFFICES ASSUME NEW k \in {"open", "closed"}
      PROVE /\ k \in news' => k \notin token' /\ \A u \in Reader : held'[u] # k
            /\ k \in token' => \A u \in Reader : held'[u] # k
            /\ \A u, v \in Reader : held'[u] = k /\ held'[v] = k => u = v
    BY DEF OneToken
  <2>1. /\ k \in news => k \notin token /\ \A u \in Reader : held[u] # k
        /\ k \in token => \A u \in Reader : held[u] # k
        /\ \A u, v \in Reader : held[u] = k /\ held[v] = k => u = v
    BY DEF TokenInv, OneToken
  <2>2. CASE k = t
    BY <2>1, <2>2, <1>1, <1>2, <1>3 DEF lifeVars
  <2>3. CASE k # t
    BY <2>1, <2>3, <1>1, <1>2, <1>3 DEF lifeVars, TokenInv
  <2>4. QED BY <2>2, <2>3
<1>8. QED BY <1>1, <1>2, <1>4, <1>5, <1>6, <1>7 DEF TokenInv, lifeVars

\* What a reader has in its hand goes back, unless it is the token of messages,
\* or is lost.
LEMMA TokenLeft ==
    ASSUME TokenInv, NEW r \in Reader, NEW l \in PC \ {"gated", "woken"}, UNCHANGED lifeVars,
           held' = [held EXCEPT ![r] = "none"], pc' = [pc EXCEPT ![r] = l],
           token' \in {token, token \cup ({held[r]} \ {"msg"})}, held[r] # "none"
    PROVE TokenInv'
<1>1. /\ held[r] \in Token /\ held'[r] = "none" /\ pc'[r] = l
      /\ \A u \in Reader \ {r} : held'[u] = held[u] /\ pc'[u] = pc[u]
  BY DEF TokenInv
<1>2. /\ held' \in [Reader -> Token \cup {"none"}] /\ pc' \in [Reader -> PC]
      /\ token' \subseteq Token
  BY <1>1 DEF TokenInv
<1>3. \A k \in Token : Nowhere(k) => Nowhere(k)'
  BY <1>1 DEF Nowhere, lifeVars, Token
<1>4. \A u \in Reader : held'[u] # "none" <=> pc'[u] \in {"gated", "woken"}
  BY <1>1 DEF TokenInv
<1>5. OneToken'
  <2> SUFFICES ASSUME NEW k \in {"open", "closed"}
      PROVE /\ k \in news' => k \notin token' /\ \A u \in Reader : held'[u] # k
            /\ k \in token' => \A u \in Reader : held'[u] # k
            /\ \A u, v \in Reader : held'[u] = k /\ held'[v] = k => u = v
    BY DEF OneToken
  <2>1. /\ k \in news => k \notin token /\ \A u \in Reader : held[u] # k
        /\ k \in token => \A u \in Reader : held[u] # k
        /\ \A u, v \in Reader : held[u] = k /\ held[v] = k => u = v
    BY DEF TokenInv, OneToken
  <2>2. k # "none"
    OBVIOUS
  <2>3. CASE k = held[r]
    BY <2>1, <2>2, <2>3, <1>1 DEF lifeVars
  <2>4. CASE k # held[r]
    BY <2>1, <2>2, <2>4, <1>1 DEF lifeVars
  <2>5. QED BY <2>3, <2>4
<1>6. QED BY <1>2, <1>3, <1>4, <1>5 DEF TokenInv, lifeVars, Token

LEMMA TokenAwait ==
    ASSUME TokenInv, NEW r \in Reader, Await(r)
    PROVE TokenInv'
<1>1. CASE Check(r)
  <2>1. /\ pc[r] = "check" /\ UNCHANGED tokenVars
        /\ Goto(r, "ret") \/ Goto(r, "gate") \/ Goto(r, "wait")
    BY <1>1 DEF Check, Returns, tokenVars
  <2>2. QED BY <2>1, TokenGoes DEF PC
<1>2. CASE Gate(r)
  BY <1>2, TokenTaken DEF Gate
<1>3. CASE Wait(r)
  BY <1>3, TokenTaken DEF Wait
<1>4. CASE Cancelled(r)
  <2>1. pc[r] \in {"gate", "wait"} /\ UNCHANGED tokenVars /\ Goto(r, "ret")
    BY <1>4 DEF Cancelled, Returns, tokenVars
  <2>2. QED BY <2>1, TokenGoes DEF PC
<1>5. ASSUME Dropped(r) \/ Gated(r) \/ Woken(r) PROVE TokenInv'
  <2>1. \E l \in PC \ {"gated", "woken"} : pc' = [pc EXCEPT ![r] = l]
    BY <1>5 DEF Dropped, Gated, Woken, Returns, Goto, PC
  <2>2. /\ UNCHANGED lifeVars /\ held' = [held EXCEPT ![r] = "none"]
        /\ token' \in {token, token \cup ({held[r]} \ {"msg"})}
    BY <1>5 DEF Dropped, Gated, Woken, PutsBack
  <2>3. held[r] # "none"
    BY <1>5 DEF Dropped, Gated, Woken, TokenInv
  <2>4. QED BY <2>1, <2>2, <2>3, TokenLeft
<1>6. CASE Last(r)
  <2>1. /\ pc[r] = "last" /\ UNCHANGED tokenVars
        /\ Goto(r, "ret") \/ Goto(r, "wait")
    BY <1>6 DEF Last, Returns, tokenVars
  <2>2. QED BY <2>1, TokenGoes DEF PC
<1>7. QED BY <1>1, <1>2, <1>3, <1>4, <1>5, <1>6 DEF Await

LEMMA TokenRtc ==
    ASSUME TokenInv, Rtc
    PROVE TokenInv'
<1> USE DEF lifeVars, readVars
<1>1. ASSUME NEW b \in BOOLEAN, OnTrackMsg(b) PROVE TokenInv'
  <2>1. token' = token \cup {"msg"} /\ UNCHANGED <<lifeVars, pc, held>>
    BY <1>1 DEF OnTrackMsg
  <2>2. token' \subseteq Token
    BY <2>1 DEF TokenInv, Token
  <2>3. \A k \in {"open", "closed"} : Nowhere(k) => Nowhere(k)'
    BY <2>1 DEF Nowhere
  <2>4. OneToken'
    BY <2>1 DEF TokenInv, OneToken
  <2>5. QED BY <2>1, <2>2, <2>3, <2>4 DEF TokenInv
<1>2. CASE Opens
  <2>1. life = "new" /\ life' = "open" /\ news' = {"open"} /\ UNCHANGED <<token, pc, held>>
    BY <1>2 DEF Opens
  <2>2. Nowhere("open") /\ Nowhere("closed")
    BY <2>1 DEF TokenInv
  <2>3. Nowhere("closed")' /\ OneToken'
    BY <2>1, <2>2 DEF TokenInv, Nowhere, OneToken
  <2>4. QED BY <2>1, <2>3 DEF TokenInv
<1>3. CASE Closes
  <2>1. /\ life # "closed" /\ life' = "closed" /\ news' = news \cup {"closed"}
        /\ UNCHANGED <<token, pc, held>>
    BY <1>3 DEF Closes
  <2>2. Nowhere("closed")
    BY <2>1 DEF TokenInv
  <2>3. OneToken'
    BY <2>1, <2>2 DEF TokenInv, Nowhere, OneToken
  <2>4. QED BY <2>1, <2>3 DEF TokenInv
<1>4. ASSUME NEW k \in news, news' = news \ {k}, token' = token \cup {k},
             UNCHANGED <<life, pc, held>>
      PROVE TokenInv'
  <2>1. k \in {"open", "closed"} /\ token' \subseteq Token
    BY <1>4 DEF TokenInv, Token
  <2>2. \A t : Nowhere(t) => Nowhere(t)'
    BY <1>4 DEF Nowhere
  <2>3. OneToken'
    BY <1>4 DEF TokenInv, OneToken
  <2>4. QED BY <1>4, <2>1, <2>2, <2>3 DEF TokenInv
<1>5. CASE OnTrackOpen
  BY <1>5, <1>4 DEF OnTrackOpen
<1>6. CASE OnTrackClosed
  <2>1. "closed" \in news /\ news' = news \ {"closed"}
    BY <1>6 DEF OnTrackClosed
  <2>2. QED BY <1>6, <2>1, <1>4 DEF OnTrackClosed
<1>7. QED BY <1>1, <1>2, <1>3, <1>5, <1>6 DEF Rtc

LEMMA TokenBegin ==
    ASSUME TokenInv, NEW r \in Reader, Begin(r)
    PROVE TokenInv'
<1>1. pc[r] = "idle" /\ UNCHANGED tokenVars /\ (Goto(r, "ret") \/ Goto(r, "check"))
  BY DEF Begin, Returns, tokenVars
<1>2. QED BY <1>1, TokenGoes DEF PC

LEMMA TokenForgotten ==
    ASSUME TokenInv, NEW r \in Reader, Forget(r), pc[r] = "ret", UNCHANGED tokenVars
    PROVE TokenInv'
BY TokenGoes DEF Forget, PC

LEMMA TokenStep ==
    ASSUME TokenInv, [Next]_vars
    PROVE TokenInv'
<1> USE PostAssumption
<1>1. ASSUME UNCHANGED <<lifeVars, token, held, pc>> PROVE TokenInv'
  <2>1. UNCHANGED tokenVars /\ pc' \in [Reader -> PC]
    BY <1>1 DEF tokenVars, TokenInv
  <2>2. QED BY <1>1, <2>1, TokenRests
<1>2. CASE UNCHANGED vars
  BY <1>2, <1>1 DEF vars, trackVars, readVars
<1>3. ASSUME NEW r \in Poster, PosterStep(r) \/ ReadTimeout(r) \/ Drain(r) PROVE TokenInv'
  <2>1. CASE Attempt(r)
    BY <2>1, TokenBegin DEF Attempt, Poster
  <2>2. CASE Answer(r)
    BY <2>2, TokenForgotten DEF Answer, Poster, tokenVars
  <2>3. CASE Await(r)
    BY <2>3, TokenAwait DEF Poster
  <2>4. CASE Delayed(r) \/ Post(r) \/ Enough(r) \/ Fed(r) \/ ReadTimeout(r) \/ Drain(r)
    BY <2>4, <1>1 DEF Delayed, Post, Enough, Fed, ReadTimeout, Drain, trackVars, readVars
  <2>5. QED BY <1>3, <2>1, <2>2, <2>3, <2>4 DEF PosterStep
<1>4. CASE AppReads
  BY <1>4, TokenBegin, TokenForgotten DEF AppReads, tokenVars
<1>5. CASE MoveCloser \/ Element
  BY <1>5, <1>1 DEF MoveCloser, Element, readVars
<1>6. QED BY <1>2, <1>3, <1>4, <1>5, TokenAwait, TokenRtc DEF Next

LEMMA TokenCorrect == Spec => []TokenInv
<1>1. Init => TokenInv
  BY DEF Init, TrackInit, TokenInv, OneToken, Nowhere, PC, Token
<1>2. TokenInv /\ [Next]_vars => TokenInv'
  BY TokenStep
<1>3. QED BY <1>1, <1>2, PTL DEF Spec

\* The token that says open, and the one that says closed, exists once, however
\* many readers share them and whenever their closers are closed.
THEOREM OneTokenEver == Spec => []OneToken
<1>1. TokenInv => OneToken
  BY DEF TokenInv
<1>2. QED BY <1>1, TokenCorrect, PTL

----------------------------------------------------------------------------
(* The wake-up of a reader who is alone *)

\* A reader at one of these has found nothing for it in the cache, and will not
\* look again before a token has woken it.
Looked == {"check", "gate", "gated", "wait", "last"}

\* NoLostWakeup is not inductive: it needs to know what a reader who is on its
\* way to the select has seen, where the token that says closed has gone, and
\* that only the readers that run move.
WakeInv ==
    /\ stage \in [Reader -> Stage]
    /\ \A r \in Reader \ active : stage[r] = "off" /\ pc[r] = "idle"
    /\ life = "closed" => \/ lost \/ "closed" \in news \cup token
                          \/ \E r \in Reader : held[r] = "closed"
    /\ \A r \in active :
          active = {r} /\ pc[r] \in Looked => Mine(r) = {} \/ "msg" \in token

\* Only a reader that runs, and has not ended, takes a step.
Moves(r) ==
    /\ active' = active
    /\ r \in active
    /\ \A u \in Reader : u # r => stage'[u] = stage[u] /\ pc'[u] = pc[u]
    /\ stage' \in [Reader -> Stage]

\* What the token that says closed becomes in a step: it stays where it is, comes
\* into a hand, goes back to its channel, or is lost.
ClosedKept ==
    /\ life' = "closed" => life = "closed" \/ "closed" \in news'
    /\ lost => lost'
    /\ "closed" \in news \cup token =>
          "closed" \in news' \cup token' \/ \E r \in Reader : held'[r] = "closed"
    /\ \A r \in Reader :
          held[r] = "closed" => held'[r] = "closed" \/ "closed" \in token' \/ lost'

LEMMA MoverKeepsWake ==
    ASSUME WakeInv, ClosedKept, NEW r \in Reader, Moves(r),
           active = {r} /\ pc'[r] \in Looked => Mine(r)' = {} \/ "msg" \in token'
    PROVE  WakeInv'
<1>1. \A u \in Reader \ active' : stage'[u] = "off" /\ pc'[u] = "idle"
  BY DEF WakeInv, Moves
<1>2. life' = "closed" => \/ lost' \/ "closed" \in news' \cup token'
                          \/ \E u \in Reader : held'[u] = "closed"
  BY DEF WakeInv, ClosedKept
<1>3. \A u \in active' :
          active' = {u} /\ pc'[u] \in Looked => Mine(u)' = {} \/ "msg" \in token'
  BY DEF Moves
<1>4. stage' \in [Reader -> Stage]
  BY DEF Moves
<1>5. QED BY <1>1, <1>2, <1>3, <1>4 DEF WakeInv

\* The same for a step that no reader takes.
LEMMA OthersKeepWake ==
    ASSUME WakeInv, ClosedKept, UNCHANGED <<active, stage, pc, rtp, rtcp>>,
           "msg" \in token => "msg" \in token'
    PROVE  WakeInv'
<1>1. \A u \in Reader : Mine(u)' = Mine(u)
  BY DEF Mine
<1>2. life' = "closed" => \/ lost' \/ "closed" \in news' \cup token'
                          \/ \E u \in Reader : held'[u] = "closed"
  BY DEF WakeInv, ClosedKept
<1>3. \A u \in active' :
          active' = {u} /\ pc'[u] \in Looked => Mine(u)' = {} \/ "msg" \in token'
  BY DEF WakeInv, Mine
<1>4. QED BY <1>2, <1>3 DEF WakeInv

\* receive_msg returns nothing only when there is nothing for the reader, and
\* then it takes nothing.
LEMMA NothingLeft ==
    ASSUME CacheType, NEW r \in Reader, Receives(r, 0)
    PROVE  Mine(r) = {} /\ Mine(r)' = {}
<1> DEFINE k == Kinds[r]
           first == IF k = "rtp" THEN {n \in rtp : IsFront(n, rtp)}
                    ELSE IF k = "rtcp" THEN {n \in rtcp : IsFront(n, rtcp)}
                    ELSE {n \in Msg : IsFront(n, rtp) \/ IsFront(n, rtcp)}
<1>1. rtp \subseteq Msg /\ rtcp \subseteq Msg /\ Msg \subseteq Nat \ {0}
  BY TrackAssumption DEF CacheType, Msg
<1>2. 0 \notin first
  BY <1>1 DEF IsFront
<1>3. first = {} /\ rtp' = rtp \ {0} /\ rtcp' = rtcp \ {0}
  BY <1>2 DEF Receives
<1>4. \A c \in {rtp, rtcp} : c # {} => \E n \in c : IsFront(n, c) /\ n \in Msg
  BY <1>1, Least DEF IsFront
<1>5. Mine(r) = {}
  BY <1>1, <1>3, <1>4 DEF Mine
<1>6. QED BY <1>3, <1>5 DEF Mine

LEMMA KeptAside ==
    ASSUME UNCHANGED <<lifeVars, token, lost, held>> PROVE ClosedKept
BY DEF ClosedKept, lifeVars

LEMMA KeptTaken ==
    ASSUME TokenInv, NEW r \in Reader, NEW at \in {"gate", "wait"}, NEW ts, NEW next,
           Takes(r, at, ts, next)
    PROVE  ClosedKept
<1>1. PICK t \in token : token' = token \ {t} /\ held' = [held EXCEPT ![r] = t]
  BY DEF Takes
<1>2. /\ held[r] = "none" /\ held'[r] = t
      /\ \A u \in Reader : u # r => held'[u] = held[u]
  BY <1>1 DEF TokenInv, Takes
<1>3. UNCHANGED <<life, news, lost>>
  BY DEF Takes, lifeVars
<1>4. QED BY <1>1, <1>2, <1>3 DEF ClosedKept

LEMMA KeptBack ==
    ASSUME TokenInv, NEW r \in Reader, UNCHANGED lifeVars,
           held' = [held EXCEPT ![r] = "none"],
           \/ token' = token \cup ({held[r]} \ {"msg"}) /\ lost' = lost
           \/ token' = token /\ lost' = (lost \/ held[r] = "closed")
    PROVE  ClosedKept
<1>1. /\ held'[r] = "none"
      /\ \A u \in Reader : u # r => held'[u] = held[u]
  BY DEF TokenInv
<1>2. token \subseteq token' /\ (lost => lost')
  <2>1. token' = token \cup ({held[r]} \ {"msg"}) \/ token' = token
    BY Zenon
  <2>2. token \subseteq token'
    BY <2>1
  <2>3. lost => lost'
    BY Zenon
  <2>4. QED BY <2>2, <2>3
<1>3. held[r] = "closed" => "closed" \in token' \/ lost'
  <2>1. CASE token' = token \cup ({held[r]} \ {"msg"})
    BY <2>1
  <2>2. CASE lost' = (lost \/ held[r] = "closed")
    BY <2>2, Zenon
  <2>3. QED BY <2>1, <2>2
<1>4. QED BY <1>1, <1>2, <1>3 DEF ClosedKept, lifeVars

LEMMA AwaitWake ==
    ASSUME CacheType, TokenInv, WakeInv, NEW r \in Reader, Await(r), UNCHANGED postVars
    PROVE  WakeInv'
<1>1. UNCHANGED <<active, stage>>
  BY DEF postVars
<1>2. pc[r] # "idle" /\ r \in active
  BY DEF Await, Check, Gate, Wait, Takes, Cancelled, Dropped, Gated, Woken, Last, WakeInv
<1>3. ASSUME NEW l, Goto(r, l) PROVE Moves(r) /\ pc'[r] = l
  BY <1>1, <1>2, <1>3 DEF Goto, Moves, TokenInv, WakeInv
<1>4. ASSUME UNCHANGED <<rtp, rtcp, token>>, pc[r] \in Looked
      PROVE  active = {r} => Mine(r)' = {} \/ "msg" \in token'
  BY <1>2, <1>4 DEF WakeInv, Mine
<1>5. CASE Check(r)
  <2>1. /\ Goto(r, "ret") \/ Goto(r, "gate") \/ Goto(r, "wait")
        /\ UNCHANGED <<lifeVars, token, lost, held, rtp, rtcp>> /\ pc[r] = "check"
    BY <1>5 DEF Check, Returns, cacheVars
  <2>2. Moves(r)
    BY <2>1, <1>3
  <2>3. QED BY <2>1, <2>2, <1>4, KeptAside, MoverKeepsWake DEF Looked
<1>6. CASE Gate(r)
  <2>1. ClosedKept
    BY <1>6, KeptTaken DEF Gate
  <2>2. Moves(r)
    BY <1>3, <1>6 DEF Gate, Takes
  <2>3. /\ pc[r] = "gate" /\ UNCHANGED <<rtp, rtcp>>
        /\ "msg" \in token => "msg" \in token'
    BY <1>6 DEF Gate, Takes, cacheVars
  <2>4. active = {r} => Mine(r)' = {} \/ "msg" \in token'
    BY <1>2, <2>3 DEF WakeInv, Mine, Looked
  <2>5. QED BY <2>1, <2>2, <2>4, MoverKeepsWake
<1>7. CASE Wait(r)
  <2>1. ClosedKept
    BY <1>7, KeptTaken DEF Wait
  <2>2. Moves(r) /\ pc'[r] = "woken"
    BY <1>3, <1>7 DEF Wait, Takes
  <2>3. QED BY <2>1, <2>2, MoverKeepsWake DEF Looked
<1>8. CASE Cancelled(r)
  <2>1. Goto(r, "ret") /\ UNCHANGED <<lifeVars, token, lost, held>>
    BY <1>8 DEF Cancelled, Returns
  <2>2. Moves(r) /\ pc'[r] = "ret"
    BY <2>1, <1>3
  <2>3. QED BY <2>1, <2>2, KeptAside, MoverKeepsWake DEF Looked
<1>9. CASE Dropped(r)
  <2>1. ClosedKept
    BY <1>9, KeptBack DEF Dropped
  <2>2. Moves(r) /\ pc'[r] = "ret"
    BY <1>9, <1>3 DEF Dropped, Returns
  <2>3. QED BY <2>1, <2>2, MoverKeepsWake DEF Looked
<1>10. CASE Gated(r)
  <2>1. ClosedKept
    BY <1>10, KeptBack DEF Gated, PutsBack
  <2>2. Moves(r)
    BY <1>10, <1>3 DEF Gated, Returns
  <2>3. /\ pc[r] = "gated" /\ UNCHANGED <<rtp, rtcp>>
        /\ "msg" \in token => "msg" \in token'
    BY <1>10 DEF Gated, PutsBack, cacheVars
  <2>4. active = {r} => Mine(r)' = {} \/ "msg" \in token'
    BY <1>2, <2>3 DEF WakeInv, Mine, Looked
  <2>5. QED BY <2>1, <2>2, <2>4, MoverKeepsWake
<1>11. CASE Woken(r)
  <2>1. ClosedKept
    BY <1>11, KeptBack DEF Woken, PutsBack
  <2>2. \/ Goto(r, "ret")
        \/ Goto(r, "last") /\ Receives(r, 0)
    BY <1>11 DEF Woken, Returns
  <2>3. Moves(r) /\ (pc'[r] = "ret" \/ Mine(r)' = {})
    BY <2>2, <1>3, NothingLeft
  <2>4. QED BY <2>1, <2>3, MoverKeepsWake DEF Looked
<1>12. CASE Last(r)
  <2>1. /\ Goto(r, "ret") \/ Goto(r, "wait")
        /\ UNCHANGED <<lifeVars, token, lost, held, rtp, rtcp>> /\ pc[r] = "last"
    BY <1>12 DEF Last, Returns, cacheVars
  <2>2. Moves(r)
    BY <2>1, <1>3
  <2>3. QED BY <2>1, <2>2, <1>4, KeptAside, MoverKeepsWake DEF Looked
<1>13. QED
  BY <1>5, <1>6, <1>7, <1>8, <1>9, <1>10, <1>11, <1>12 DEF Await

LEMMA RtcWake ==
    ASSUME WakeInv, TokenInv, Rtc, UNCHANGED postVars
    PROVE  WakeInv'
<1> USE DEF lifeVars, readVars
<1>1. UNCHANGED <<active, stage, pc, held>>
  BY DEF postVars, Rtc, OnTrackMsg, Opens, Closes, OnTrackOpen, OnTrackClosed
<1>2. ASSUME NEW b \in BOOLEAN, OnTrackMsg(b) PROVE WakeInv'
  <2>1. token' = token \cup {"msg"} /\ UNCHANGED <<life, news, lost>>
    BY <1>2 DEF OnTrackMsg
  <2>2. QED BY <1>1, <2>1 DEF WakeInv
<1>3. ASSUME UNCHANGED <<rtp, rtcp, lost>>, token \subseteq token',
             life' = "closed" => life = "closed" \/ "closed" \in news',
             "closed" \in news => "closed" \in news' \cup token'
      PROVE  WakeInv'
  <2>1. ClosedKept
    BY <1>1, <1>3 DEF ClosedKept
  <2>2. QED BY <1>1, <1>3, <2>1, OthersKeepWake
<1>4. CASE Opens
  <2>1. "closed" \notin news
    BY <1>4 DEF Opens, TokenInv, Nowhere
  <2>2. QED BY <1>3, <1>4, <2>1 DEF Opens, cacheVars
<1>5. CASE Closes
  BY <1>3, <1>5 DEF Closes, cacheVars
<1>6. CASE OnTrackOpen
  BY <1>3, <1>6 DEF OnTrackOpen, cacheVars
<1>7. CASE OnTrackClosed
  BY <1>3, <1>7 DEF OnTrackClosed, cacheVars
<1>8. QED BY <1>2, <1>4, <1>5, <1>6, <1>7 DEF Rtc

\* The steps of a reader outside of await_msg: it runs, since it is in a stage.
LEMMA StageWake ==
    ASSUME CacheType, TokenInv, WakeInv, NEW r \in Reader, NEW from, NEW to \in Stage,
           At(r, from, to), from # "off", active' = active,
           UNCHANGED <<lifeVars, token, lost, held>>,
           \/ UNCHANGED <<pc, rtp, rtcp>>
           \/ Begin(r)
           \/ Goto(r, "idle")
    PROVE  WakeInv'
<1>1. r \in active
  BY DEF At, WakeInv
<1>2. /\ stage' \in [Reader -> Stage]
      /\ \A u \in Reader : u # r => stage'[u] = stage[u]
  BY DEF At, WakeInv
<1>3. ClosedKept
  BY KeptAside
<1>4. CASE UNCHANGED <<pc, rtp, rtcp>>
  <2>1. Moves(r)
    BY <1>1, <1>2, <1>4 DEF Moves
  <2>2. active = {r} /\ pc'[r] \in Looked => Mine(r)' = {} \/ "msg" \in token'
    BY <1>1, <1>4 DEF WakeInv, Mine
  <2>3. QED BY <1>3, <2>1, <2>2, MoverKeepsWake
<1>5. CASE Begin(r)
  <2>1. Goto(r, "ret") \/ (Goto(r, "check") /\ Receives(r, 0))
    BY <1>5 DEF Begin, Returns
  <2>2. pc'[r] = "ret" \/ Mine(r)' = {}
    BY <2>1, NothingLeft DEF Goto, TokenInv
  <2>3. Moves(r)
    BY <1>1, <1>2, <2>1 DEF Moves, Goto, TokenInv
  <2>4. QED BY <1>3, <2>2, <2>3, MoverKeepsWake DEF Looked
<1>6. CASE Goto(r, "idle")
  <2>1. Moves(r) /\ pc'[r] = "idle"
    BY <1>1, <1>2, <1>6 DEF Moves, Goto, TokenInv
  <2>2. QED BY <1>3, <2>1, MoverKeepsWake DEF Looked
<1>7. QED BY <1>4, <1>5, <1>6

LEMMA NextWake ==
    ASSUME CacheType, TokenInv, WakeInv, [Next]_vars
    PROVE  WakeInv'
<1> USE PostAssumption
<1>1. ASSUME UNCHANGED <<lifeVars, token, lost, held, pc, rtp, rtcp, active, stage>>
      PROVE  WakeInv'
  BY <1>1, KeptAside, OthersKeepWake
<1>2. CASE UNCHANGED vars
  BY <1>1, <1>2 DEF vars, trackVars, readVars, cacheVars, postVars
<1>3. ASSUME NEW r \in Poster, PosterStep(r) \/ ReadTimeout(r) \/ Drain(r)
      PROVE  WakeInv'
  <2>1. r \in Reader
    BY DEF Poster
  <2>2. CASE Attempt(r)
    <3>1. "await" \in Stage
      BY DEF Stage
    <3>2. QED BY <2>1, <2>2, <3>1, StageWake DEF Attempt, Begin
  <2>3. CASE Answer(r)
    <3>1. PICK l \in {"done", "post", "delay", "failed"} : At(r, "await", l)
      BY <2>3 DEF Answer
    <3>2. l \in Stage
      BY <3>1 DEF Stage
    <3>3. /\ Goto(r, "idle") /\ active' = active
          /\ UNCHANGED <<lifeVars, token, lost, held>>
      BY <2>3 DEF Answer, Forget
    <3>4. QED BY <2>1, <3>1, <3>2, <3>3, StageWake
  <2>4. CASE Await(r) /\ UNCHANGED postVars
    BY <2>1, <2>4, AwaitWake
  <2>5. CASE Delayed(r) \/ Post(r) \/ Enough(r) \/ Fed(r)
    <3>1. PICK f \in Stage \ {"off"}, l \in Stage : At(r, f, l)
      BY <2>5 DEF Delayed, Post, Enough, Fed, Stage
    <3>2. active' = active /\ UNCHANGED trackVars
      BY <2>5 DEF Delayed, Post, Enough, Fed
    <3>3. UNCHANGED <<lifeVars, token, lost, held, pc, rtp, rtcp>>
      BY <3>2 DEF trackVars, readVars, cacheVars
    <3>4. QED BY <2>1, <3>1, <3>2, <3>3, StageWake
  <2>6. CASE ReadTimeout(r) \/ Drain(r)
    BY <1>1, <2>6 DEF ReadTimeout, Drain, trackVars, readVars, cacheVars, postVars
  <2>7. QED BY <1>3, <2>2, <2>3, <2>4, <2>5, <2>6 DEF PosterStep
<1>4. CASE AppReads
  <2>1. "await" \in Stage /\ "read" \in Stage
    BY DEF Stage
  <2>2. /\ \E f \in {"read", "await"}, l \in {"await", "read"} : At(App, f, l)
        /\ Begin(App) \/ Goto(App, "idle")
        /\ active' = active /\ UNCHANGED <<lifeVars, token, lost, held>>
    BY <1>4 DEF AppReads, Begin, Forget
  <2>3. QED BY <2>1, <2>2, StageWake
<1>5. CASE MoveCloser \/ Element
  BY <1>1, <1>5 DEF MoveCloser, Element, readVars, cacheVars, postVars
<1>6. QED BY <1>2, <1>3, <1>4, <1>5, AwaitWake, RtcWake DEF Next

\* A reader who is the only one, and asks for any kind of message, never waits
\* beside a message for it with no token to wake it, nor beside a closed track
\* with nothing to tell it, unless a cancelled select has lost that.
THEOREM NoLostWakeupEver == Spec => []NoLostWakeup
<1>1. Init => WakeInv
  BY PostAssumption DEF Init, TrackInit, WakeInv, Stage, Mine
<1>2. CacheType /\ TokenInv /\ WakeInv /\ [Next]_vars => WakeInv'
  BY NextWake
<1>3. TokenInv /\ WakeInv => NoLostWakeup
  <2> SUFFICES ASSUME TokenInv, WakeInv, NEW r \in active, pc[r] = "wait", active = {r}
               PROVE  /\ Mine(r) # {} => "msg" \in token
                      /\ life = "closed" => lost \/ "closed" \in news \cup token
    BY DEF NoLostWakeup
  <2>1. Mine(r) # {} => "msg" \in token
    BY DEF WakeInv, Looked
  <2>2. \A u \in Reader : held[u] # "closed"
    BY DEF WakeInv, TokenInv
  <2>3. QED BY <2>1, <2>2 DEF WakeInv
<1>4. QED BY <1>1, <1>2, <1>3, CacheCorrect, TokenCorrect, PTL DEF Spec
----------------------------------------------------------------------------
(* What readers are handed *)

\* A message goes to one reader, and leaves the cache.
HandedOnce ==
    /\ \A r \in Reader : got[r] # 0 => got[r] \in (1..arrived) \ (rtp \cup rtcp)
    /\ \A r, u \in Reader : got[r] = got[u] => got[r] = 0 \/ r = u

\* Whoever is handed a message gets the oldest one of those it asks for, in
\* whichever buffer that is.
OldestFirst ==
    [][\A r \in Reader : got'[r] \notin {0, got[r]} =>
          /\ got'[r] \in Mine(r) /\ got'[r] \notin rtp' \cup rtcp'
          /\ \A n \in Mine(r) : got'[r] <= n]_vars

\* Of what a step does to the readers' answers, the rest is nothing: a reader is
\* handed what it receives, or forgets what it was handed.
LEMMA GotSteps ==
    ASSUME got \in [Reader -> 0..MaxMsgs], [Next]_vars
    PROVE  \/ UNCHANGED <<got, cacheVars>>
           \/ UNCHANGED got /\ \E b \in BOOLEAN : OnTrackMsg(b)
           \/ UNCHANGED cacheVars /\ \E r \in Reader : got' = [got EXCEPT ![r] = 0]
           \/ \E r \in Reader, m \in 0..MaxMsgs :
                 /\ Receives(r, m)
                 /\ (m = 0 /\ UNCHANGED got) \/ (m # 0 /\ got' = [got EXCEPT ![r] = m])
<1> USE PostAssumption
<1> DEFINE Nothing == UNCHANGED <<got, cacheVars>>
           Forgets == /\ UNCHANGED cacheVars
                      /\ \E r \in Reader : got' = [got EXCEPT ![r] = 0]
           Handed == \E r \in Reader, m \in 0..MaxMsgs :
                        /\ Receives(r, m)
                        /\ \/ m = 0 /\ UNCHANGED got
                           \/ m # 0 /\ got' = [got EXCEPT ![r] = m]
<1>1. CASE UNCHANGED vars
  BY <1>1 DEF vars, trackVars, readVars
<1>2. ASSUME NEW r \in Reader, Begin(r) PROVE Handed
  BY <1>2 DEF Begin, Returns
<1>3. ASSUME NEW r \in Reader, Await(r) PROVE Nothing \/ Forgets \/ Handed
  <2>1. CASE Woken(r)
    BY <2>1 DEF Woken, Returns
  <2>2. CASE Check(r)
    BY <2>2 DEF Check, Returns
  <2>3. CASE Gate(r) \/ Wait(r)
    BY <2>3 DEF Gate, Wait, Takes
  <2>4. CASE Cancelled(r) \/ Dropped(r)
    BY <2>4 DEF Cancelled, Dropped, Returns
  <2>5. CASE Gated(r)
    BY <2>5 DEF Gated, Returns
  <2>6. CASE Last(r)
    BY <2>6 DEF Last, Returns
  <2>7. QED BY <1>3, <2>1, <2>2, <2>3, <2>4, <2>5, <2>6 DEF Await
<1>4. ASSUME NEW r \in Poster, PosterStep(r) \/ ReadTimeout(r) \/ Drain(r)
      PROVE  Nothing \/ Forgets \/ Handed
  <2>1. CASE Attempt(r)
    BY <2>1, <1>2 DEF Attempt, Poster
  <2>2. CASE Await(r)
    BY <2>2, <1>3 DEF Poster
  <2>3. CASE Answer(r)
    BY <2>3 DEF Answer, Forget, Poster
  <2>4. CASE Delayed(r) \/ Post(r) \/ Enough(r) \/ Fed(r) \/ ReadTimeout(r) \/ Drain(r)
    BY <2>4 DEF ReadTimeout, Drain, Delayed, Post, Enough, Fed, trackVars, readVars
  <2>5. QED BY <1>4, <2>1, <2>2, <2>3, <2>4 DEF PosterStep
<1>5. CASE AppReads
  <2>1. Begin(App) \/ (Forget(App) /\ UNCHANGED cacheVars)
    BY <1>5 DEF AppReads
  <2>2. QED BY <2>1, <1>2 DEF Forget
<1>6. CASE MoveCloser \/ Element
  BY <1>6 DEF MoveCloser, Element, readVars
<1>7. CASE Await(App)
  BY <1>7, <1>3
<1>8. CASE Rtc
  BY <1>8 DEF Rtc, Opens, Closes, OnTrackOpen, OnTrackClosed, OnTrackMsg, readVars
<1>9. QED BY <1>1, <1>4, <1>5, <1>6, <1>7, <1>8 DEF Next

\* receive_msg: the numbers, which follow the order of arrival, lead it to the
\* oldest message of both buffers.
LEMMA OldestTaken ==
    ASSUME CacheType, ArrivalOrder, NEW r \in Reader, NEW m \in 0..MaxMsgs, m # 0,
           Receives(r, m)
    PROVE  /\ m \in Mine(r) /\ m \notin rtp' \cup rtcp'
           /\ \A n \in Mine(r) : m <= n
<1> DEFINE first == IF Kinds[r] = "rtp" THEN {n \in rtp : IsFront(n, rtp)}
                    ELSE IF Kinds[r] = "rtcp" THEN {n \in rtcp : IsFront(n, rtcp)}
                    ELSE {n \in Msg : IsFront(n, rtp) \/ IsFront(n, rtcp)}
<1>1. rtp \subseteq Msg /\ rtcp \subseteq Msg /\ Msg \subseteq Nat
  BY TrackAssumption DEF CacheType, Msg
<1>2. /\ m \in first /\ \A n \in first : seq[m] <= seq[n]
      /\ rtp' = rtp \ {m} /\ rtcp' = rtcp \ {m}
  BY DEF Receives
<1>3. Kinds[r] \in {"rtp", "rtcp", "all"}
  BY TrackAssumption
<1>4. first \subseteq Mine(r)
  BY <1>3 DEF Mine, IsFront
<1>5. ASSUME NEW n \in Mine(r) PROVE m <= n
  <2>1. PICK c \in {rtp, rtcp} : n \in c /\ \A f \in c : IsFront(f, c) => f \in first
    BY <1>1, <1>3 DEF Mine
  <2>2. PICK f \in c : \A x \in c : f <= x
    BY <1>1, <2>1, Least
  <2>3. f \in first /\ f <= n
    BY <2>1, <2>2 DEF IsFront
  <2>4. m \in rtp \cup rtcp /\ f \in rtp \cup rtcp
    BY <1>2, <1>4, <2>3 DEF Mine
  <2>5. m \in Nat /\ f \in Nat /\ n \in Nat /\ m \in Msg /\ f \in Msg
    BY <1>1, <2>1, <2>4
  <2>6. seq[m] \in Nat /\ seq[f] \in Nat /\ seq[m] <= seq[f]
    BY <1>2, <2>3, <2>5 DEF CacheType
  <2>7. ~ (f < m)
    BY <2>4, <2>6 DEF ArrivalOrder
  <2>8. QED BY <2>3, <2>5, <2>7
<1> HIDE DEF first
<1>6. QED BY <1>2, <1>4, <1>5

\* What is handed out is typed, and HandedOnce.
HandInv == got \in [Reader -> 0..MaxMsgs] /\ HandedOnce

LEMMA HandStep ==
    ASSUME CacheType, ArrivalOrder, HandInv, [Next]_vars
    PROVE  HandInv'
<1>1. /\ got \in [Reader -> 0..MaxMsgs] /\ arrived \in Nat
      /\ rtp \subseteq 1..arrived /\ rtcp \subseteq 1..arrived
  BY TrackAssumption DEF HandInv, CacheType
<1>2. CASE UNCHANGED <<got, cacheVars>>
  BY <1>2 DEF HandInv, HandedOnce, cacheVars
<1>3. ASSUME UNCHANGED got, NEW b \in BOOLEAN, OnTrackMsg(b) PROVE HandInv'
  <2>1. arrived' = arrived + 1
    BY <1>3 DEF OnTrackMsg
  <2>2. rtp' \cup rtcp' \subseteq rtp \cup rtcp \cup {arrived'}
    <3>1. ASSUME NEW c \in SUBSET rtcp, NEW p \in SUBSET rtp, NEW base,
                 Store(arrived', b, p, c, base)
          PROVE  rtp' \cup rtcp' \subseteq rtp \cup rtcp \cup {arrived'}
      BY <3>1, PushBackAdds DEF Store
    <3>2. rtp \ Aged \in SUBSET rtp /\ rtcp \ Aged \in SUBSET rtcp
      OBVIOUS
    <3>3. QED BY <1>3, <3>1, <3>2 DEF OnTrackMsg
  <2>3. ASSUME NEW r \in Reader, got[r] # 0
        PROVE  got[r] \in (1..arrived') \ (rtp' \cup rtcp')
    <3>1. got[r] \in 1..arrived /\ got[r] \notin rtp \cup rtcp
      BY <2>3 DEF HandInv, HandedOnce
    <3>2. QED BY <1>1, <2>1, <2>2, <3>1
  <2>4. QED BY <1>3, <2>3 DEF HandInv, HandedOnce
<1>4. ASSUME UNCHANGED cacheVars, NEW r \in Reader, got' = [got EXCEPT ![r] = 0]
      PROVE  HandInv'
  <2>1. 0 \in 0..MaxMsgs
    BY TrackAssumption
  <2>2. got' \in [Reader -> 0..MaxMsgs] /\ got'[r] = 0
        /\ \A u \in Reader : u # r => got'[u] = got[u]
    BY <1>1, <1>4, <2>1
  <2>3. QED BY <1>4, <2>2 DEF HandInv, HandedOnce, cacheVars
<1>5. ASSUME NEW r \in Reader, NEW m \in 0..MaxMsgs, Receives(r, m),
             (m = 0 /\ UNCHANGED got) \/ (m # 0 /\ got' = [got EXCEPT ![r] = m])
      PROVE  HandInv'
  <2>1. /\ rtp' = rtp \ {m} /\ rtcp' = rtcp \ {m} /\ arrived' = arrived
    BY <1>5 DEF Receives
  <2>2. CASE UNCHANGED got
    BY <2>1, <2>2 DEF HandInv, HandedOnce
  <2>3. CASE m # 0 /\ got' = [got EXCEPT ![r] = m]
    <3>1. /\ got' \in [Reader -> 0..MaxMsgs] /\ got'[r] = m
          /\ \A u \in Reader : u # r => got'[u] = got[u]
      BY <1>1, <2>3
    <3>2. m \in rtp \cup rtcp /\ m \in 1..arrived
      BY <1>1, <1>5, <2>3, OldestTaken DEF Mine
    <3>3. \A u \in Reader : got[u] # m
      BY <2>3, <3>2 DEF HandInv, HandedOnce
    <3>4. \A u \in Reader : got'[u] # 0 => got'[u] \in (1..arrived') \ (rtp' \cup rtcp')
      BY <2>1, <3>1, <3>2 DEF HandInv, HandedOnce
    <3>5. \A u, x \in Reader : got'[u] = got'[x] => got'[u] = 0 \/ u = x
      BY <3>1, <3>3 DEF HandInv, HandedOnce
    <3>6. QED BY <3>1, <3>4, <3>5 DEF HandInv, HandedOnce
  <2>4. QED BY <1>5, <2>2, <2>3
<1>6. QED BY <1>1, <1>2, <1>3, <1>4, <1>5, GotSteps

LEMMA HandCorrect == Spec => []HandInv
<1>1. Init => HandInv
  <2> SUFFICES ASSUME Init PROVE HandInv
    OBVIOUS
  <2>1. 0 \in 0..MaxMsgs
    BY TrackAssumption
  <2>2. got = [r \in Reader |-> 0]
    BY DEF Init, TrackInit
  <2>3. QED BY <2>1, <2>2 DEF HandInv, HandedOnce
<1>2. CacheType /\ ArrivalOrder /\ HandInv /\ [Next]_vars => HandInv'
  BY HandStep
<1>3. QED BY <1>1, <1>2, CacheCorrect, PTL DEF Spec

\* No message is handed to two readers, nor twice to one, however the readers and
\* the arrivals interleave and the numbers run out.
THEOREM HandedOnceEver == Spec => []HandedOnce
<1>1. HandInv => HandedOnce
  BY DEF HandInv
<1>2. QED BY <1>1, HandCorrect, PTL

\* A reader of one kind, or of all, is handed messages in their order of arrival
\* over both buffers, also after the numbers have been moved down.
THEOREM OldestFirstEver == Spec => OldestFirst
<1>1. CacheType /\ ArrivalOrder /\ HandInv /\ [Next]_vars
        => [\A r \in Reader : got'[r] \notin {0, got[r]} =>
              /\ got'[r] \in Mine(r) /\ got'[r] \notin rtp' \cup rtcp'
              /\ \A n \in Mine(r) : got'[r] <= n]_vars
  <2> SUFFICES ASSUME CacheType, ArrivalOrder, HandInv, [Next]_vars,
                      NEW r \in Reader, got'[r] \notin {0, got[r]}
               PROVE  /\ got'[r] \in Mine(r) /\ got'[r] \notin rtp' \cup rtcp'
                      /\ \A n \in Mine(r) : got'[r] <= n
    OBVIOUS
  <2>1. got \in [Reader -> 0..MaxMsgs]
    BY DEF HandInv
  <2>2. PICK u \in Reader, m \in 0..MaxMsgs :
            Receives(u, m) /\ m # 0 /\ got' = [got EXCEPT ![u] = m]
    BY <2>1, GotSteps
  <2>3. u = r /\ got'[r] = m
    BY <2>1, <2>2
  <2>4. QED BY <2>2, <2>3, OldestTaken
<1>2. QED BY <1>1, CacheCorrect, HandCorrect, PTL DEF Spec, OldestFirst
=============================================================================
