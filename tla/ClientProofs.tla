---------------------------- MODULE ClientProofs ----------------------------
(***************************************************************************)
(* Theorems about the client, for any number of calls, tracks and          *)
(* candidates.                                                             *)
(***************************************************************************)
EXTENDS Client, FiniteSetTheorems, TLAPS

USE ClientAssumption

----------------------------------------------------------------------------
(* What OwnAnswers and CustomAcked rest on *)

Req == [op : {"subscribe", "unsubscribe", "custom", "no-ack"}, call : Caller]
Custom == {"custom", "no-ack"}
Net == [open : BOOLEAN, up : SUBSET Req, down : SUBSET Msg, listen : Caller \cup {0}]
Hist == [cut : SUBSET Caller, heard : SUBSET Msg, took : [Caller -> SUBSET Caller],
         acked : SUBSET (Caller \X Caller)]

OwnType ==
    /\ call \in [Caller -> Call]
    /\ holder \in Caller \cup {0} /\ msgCbs \subseteq Caller /\ nextId \in Nat
    /\ net \in Net /\ hist \in Hist
    /\ "got" \in DOMAIN loc /\ loc.got \subseteq Msg

Quiet == {"idle", "lock", "done"}
Subscribing == {"subscribed", "sdp", "flush", "state", "tracks", "bind"}

\* Only the holder of the mutex is past it, and a call waits for what its
\* operation asks for.
Holds ==
    \A c \in Caller :
        /\ call[c].pc \notin Quiet => holder = c
        /\ call[c].pc \in Subscribing => call[c].op = "subscribe"
        /\ call[c].pc = "ack" => call[c].op # "custom"
        /\ call[c].pc = "custom" => call[c].op = "custom"
        /\ call[c].result \/ call[c].op = "no-ack" => call[c].pc = "done"

\* Every ack is for the id 0, and of the messages with an ack only the first had
\* it: the ack of message d is that of a call that waits for the id 0.
FirstIs(d) ==
    \A c \in Caller : call[c].pc = "custom" /\ call[c].msgId = 0 => MayAck(c, d)

Acked ==
    /\ \A m \in loc.got : m.kind = "ack" => m.call = holder
    /\ \A c \in Caller : call[c].pc = "custom" =>
          call[c].msgId < nextId /\ (c \in msgCbs \/ HasAck(c))
    /\ \A r \in net.up : r.op \in Custom => nextId > 0 /\ FirstIs(r.call)
    /\ \A m \in net.down : m.kind = "custom-ack" =>
          nextId > 0 /\ m.n = 0 /\ FirstIs(m.call)

OwnInv == OwnType /\ Holds /\ Acked /\ OwnAnswers /\ CustomAcked

\* A subscribe goes on with what it has read.
LEMMA OwnMoves ==
    ASSUME OwnInv, NEW c \in Caller, call[c].pc \notin Quiet,
           NEW k \in Call, call' = [call EXCEPT ![c] = k],
           k.op = call[c].op, k.msgId = call[c].msgId, k.result = call[c].result,
           k.pc = call[c].pc \/ (call[c].op = "subscribe" /\ k.pc \in Subscribing),
           UNCHANGED <<holder, msgCbs, nextId, net>>,
           hist' \in Hist, hist'.acked = hist.acked,
           \A d \in Caller : hist'.took[d] \subseteq hist.took[d] \cup {c}
                             /\ (d # c => hist'.took[d] = hist.took[d]),
           "got" \in DOMAIN loc', loc'.got \subseteq loc.got
    PROVE OwnInv'
<1>1. /\ call'[c] = k /\ call' \in [Caller -> Call]
      /\ \A d \in Caller : d # c => call'[d] = call[d]
  BY DEF OwnInv, OwnType
<1>2. OwnType'
  BY <1>1 DEF OwnInv, OwnType
<1>3. call[c].pc # "done" /\ ~ call[c].result /\ holder = c
  BY DEF OwnInv, Holds, Quiet
<1>4. k.pc \notin Quiet /\ (k.pc = "custom" <=> call[c].pc = "custom")
  BY DEF Quiet, Subscribing, OwnInv, Holds
<1>5. Holds'
  BY <1>1, <1>3, <1>4 DEF OwnInv, Holds, Subscribing
<1>6. \A d \in Caller : /\ (call'[d].pc = "custom" <=> call[d].pc = "custom")
                        /\ call'[d].msgId = call[d].msgId /\ call'[d].op = call[d].op
                        /\ call'[d].result = call[d].result
  BY <1>1, <1>4
<1>7. \A e \in Caller : /\ HasAck(e)' <=> HasAck(e)
                        /\ FirstIs(e)' <=> FirstIs(e)
  BY <1>6 DEF FirstIs, HasAck, MayAck
<1>8. Acked'
  <2>1. /\ \A x \in net.up : x.call \in Caller
        /\ \A x \in net.down : x.call \in Caller
    BY DEF OwnInv, OwnType, Net, Req, Msg
  <2>2. QED BY <1>6, <1>7, <2>1 DEF OwnInv, Acked
<1>9. OwnAnswers' /\ CustomAcked'
  BY <1>1, <1>6, <1>7 DEF OwnInv, OwnAnswers, CustomAcked
<1>10. QED BY <1>2, <1>5, <1>8, <1>9 DEF OwnInv

\* A call ends; one that says it has been acked has.
LEMMA OwnEnds ==
    ASSUME OwnInv, NEW c \in Caller, NEW ok \in BOOLEAN, Ends(c, ok), call[c].pc \notin Quiet,
           ok /\ call[c].op = "custom" => HasAck(c)
    PROVE OwnInv'
<1>0. "got" \in DOMAIN NoLocals /\ NoLocals.got = {}
  BY DEF NoLocals
<1>1. /\ call[c] \in Call /\ net \in Net /\ hist \in Hist
      /\ call' = [call EXCEPT ![c].pc = "done", ![c].result = ok, ![c].uses = c]
      /\ loc' = NoLocals /\ holder' = 0 /\ UNCHANGED <<msgCbs, nextId>>
  BY DEF OwnInv, OwnType, Ends
<1> DEFINE k == [call[c] EXCEPT !.pc = "done", !.result = ok, !.uses = c]
<1>2. k \in Call /\ k.pc = "done" /\ k.op = call[c].op /\ k.result = ok /\ k.msgId = call[c].msgId
  BY <1>1 DEF Call
<1>3. call' = [call EXCEPT ![c] = k]
  BY <1>1 DEF OwnInv, OwnType
<1> HIDE DEF k
<1>4. /\ call'[c] = k /\ call' \in [Caller -> Call]
      /\ \A d \in Caller : d # c => call'[d] = call[d]
  BY <1>2, <1>3 DEF OwnInv, OwnType
<1>5. /\ hist' \in Hist /\ hist'.acked = hist.acked /\ hist'.took = hist.took
  BY <1>1 DEF Ends, Hist
<1>6. /\ net' \in Net /\ net'.down = net.down
      /\ \A r \in net'.up : r.op \in Custom => r \in net.up
  <2>1. \/ net' = [net EXCEPT !.listen = 0, !.up = net.up \cup {Request("unsubscribe", c)}]
        \/ net' = [net EXCEPT !.listen = 0, !.up = net.up]
    BY DEF Ends
  <2>2. Request("unsubscribe", c) \in Req /\ Request("unsubscribe", c).op \notin Custom
    BY DEF Request, Req, Custom
  <2>3. \A u \in SUBSET Req : /\ [net EXCEPT !.listen = 0, !.up = u] \in Net
                              /\ [net EXCEPT !.listen = 0, !.up = u].down = net.down
                              /\ [net EXCEPT !.listen = 0, !.up = u].up = u
    BY <1>1 DEF Net
  <2>4. net.up \in SUBSET Req /\ net.up \cup {Request("unsubscribe", c)} \in SUBSET Req
    BY <1>1, <2>2 DEF Net
  <2>5. CASE net' = [net EXCEPT !.listen = 0, !.up = net.up]
    BY <2>3, <2>4, <2>5
  <2>6. CASE net' = [net EXCEPT !.listen = 0, !.up = net.up \cup {Request("unsubscribe", c)}]
    <3>1. net' \in Net /\ net'.down = net.down /\ net'.up = net.up \cup {Request("unsubscribe", c)}
      BY <2>3, <2>4, <2>6
    <3>2. QED BY <2>2, <3>1
  <2>7. QED BY <2>1, <2>5, <2>6
<1>7. OwnType'
  BY <1>0, <1>1, <1>4, <1>5, <1>6 DEF OwnInv, OwnType
<1>8. holder = c /\ \A d \in Caller : d # c => call[d].pc \in Quiet
  BY DEF OwnInv, Holds
<1>9. Holds'
  BY <1>2, <1>4, <1>8 DEF OwnInv, Holds, Quiet, Subscribing
<1>10. \A d \in Caller : call'[d].pc # "custom"
  BY <1>2, <1>4, <1>8 DEF Quiet
<1>11. Acked'
  BY <1>0, <1>1, <1>5, <1>6, <1>10 DEF OwnInv, Acked, FirstIs
<1>12. OwnAnswers' /\ CustomAcked'
  <2>1. \A d \in Caller : call'[d].op = call[d].op /\ call'[d].msgId = call[d].msgId
    BY <1>2, <1>4
  <2>2. \A d \in Caller : HasAck(d)' <=> HasAck(d)
    BY <1>5, <2>1 DEF HasAck, MayAck
  <2>3. QED BY <1>2, <1>4, <1>5, <2>1, <2>2 DEF OwnInv, OwnAnswers, CustomAcked
<1>13. QED BY <1>7, <1>9, <1>11, <1>12 DEF OwnInv

\* A call takes the mutex and sends its request.
LEMMA OwnAsks ==
    ASSUME OwnInv, NEW c \in Caller, NEW k \in Call, call' = [call EXCEPT ![c] = k],
           holder = 0, holder' = c, call[c].pc = "lock",
           k.op = call[c].op, k.result = call[c].result,
           k.pc \in {"ack", "custom"}, k.pc = "custom" <=> k.op = "custom",
           k.pc = "custom" => k.msgId = nextId /\ nextId' = nextId + 1
                              /\ msgCbs' = msgCbs \cup {c},
           k.pc # "custom" => UNCHANGED <<nextId, msgCbs>>,
           net' \in Net, net'.down = net.down, net'.up = net.up \cup {Request(call[c].op, c)},
           hist' = hist, loc' \in {loc, [NoLocals EXCEPT !.on = loc'.on]}
    PROVE OwnInv'
<1>1. /\ call'[c] = k /\ call' \in [Caller -> Call]
      /\ \A d \in Caller : d # c => call'[d] = call[d]
  BY DEF OwnInv, OwnType
<1>2. \A m \in loc.got : m.kind # "ack"
  <2>1. \A m \in loc.got : m.call # 0
    BY DEF OwnInv, OwnType, Msg
  <2>2. QED BY <2>1 DEF OwnInv, Acked
<1>3. "got" \in DOMAIN loc' /\ loc'.got \subseteq loc.got
  BY DEF OwnInv, OwnType, NoLocals
<1>4. \A d \in Caller : call[d].pc \in Quiet
  BY DEF OwnInv, Holds
<1>5. OwnType'
  BY <1>1, <1>3 DEF OwnInv, OwnType
<1>6. Holds'
  BY <1>1, <1>4 DEF OwnInv, Holds, Quiet, Subscribing
<1>7. OwnAnswers' /\ CustomAcked'
  <2>1. k.op = call[c].op /\ ~ k.result /\ call[c].op # "no-ack"
    BY DEF OwnInv, Holds
  <2>2. \A d, e \in Caller : d # c => (MayAck(d, e) => MayAck(d, e)')
    BY <1>1, <2>1 DEF MayAck
  <2>3. QED BY <1>1, <2>1, <2>2 DEF OwnInv, OwnAnswers, CustomAcked, HasAck
<1>8. \A d \in Caller : d # c => call'[d].pc # "custom"
  BY <1>1, <1>4 DEF Quiet
<1>9. Request(call[c].op, c).call = c /\ Request(call[c].op, c).op = call[c].op
  BY DEF Request
<1>10. Acked'
  <2>1. nextId \in Nat
    BY DEF OwnInv, OwnType
  <2>2. CASE k.pc = "custom"
    <3>1. /\ call'[c].msgId = nextId /\ nextId' > 0 /\ nextId < nextId' /\ c \in msgCbs'
      BY <1>1, <2>1, <2>2
    <3>2. nextId = 0 => (\A r \in net.up : r.op \notin Custom)
                        /\ (\A m \in net.down : m.kind # "custom-ack")
      BY DEF OwnInv, Acked
    <3>3. \A d : (nextId = 0 => d = c) => FirstIs(d)'
      <4>1. MayAck(c, c)'
        BY DEF MayAck
      <4>2. QED BY <1>8, <3>1, <4>1 DEF FirstIs
    <3>4. \A d : nextId > 0 => FirstIs(d)'
      BY <2>1, <3>3
    <3>5. \A r \in net'.up : r.op \in Custom => FirstIs(r.call)'
      BY <1>9, <3>3, <3>4 DEF OwnInv, Acked
    <3>6. \A m \in net'.down : m.kind = "custom-ack" => m.n = 0 /\ FirstIs(m.call)'
      BY <3>4 DEF OwnInv, Acked
    <3>7. QED BY <1>2, <1>3, <1>8, <3>1, <3>5, <3>6 DEF Acked
  <2>3. CASE k.pc # "custom"
    <3>1. \A d \in Caller : call'[d].pc # "custom"
      BY <1>1, <1>8, <2>3
    <3>2. \A d : FirstIs(d)'
      BY <3>1 DEF FirstIs
    <3>3. Request(call[c].op, c).op \notin Custom
      BY <1>9, <2>3 DEF Custom, OwnInv, Holds
    <3>4. QED BY <1>2, <1>3, <1>9, <2>3, <3>1, <3>2, <3>3 DEF OwnInv, Acked
  <2>4. QED BY <2>2, <2>3
<1>11. QED BY <1>5, <1>6, <1>7, <1>10 DEF OwnInv

\* The threads of the socket and of the peer connection, and the server: no call
\* moves; what they tell is of the call it is for.
LEMMA OwnHears ==
    ASSUME OwnInv, UNCHANGED <<call, holder, nextId>>, msgCbs' \subseteq msgCbs,
           net' \in Net, hist' \in Hist, hist'.took = hist.took,
           hist.acked \subseteq hist'.acked,
           "got" \in DOMAIN loc', loc'.got \subseteq Msg,
           \A m \in loc'.got : m \in loc.got \/ (m.kind = "ack" => m.call = holder),
           \A r \in net'.up : r \in net.up,
           \A m \in net'.down : m.kind = "custom-ack" =>
               m \in net.down \/ (nextId > 0 /\ m.n = 0 /\ FirstIs(m.call)),
           \A c \in msgCbs \ msgCbs' : call[c].pc = "custom" => HasAck(c)'
    PROVE OwnInv'
<1>1. OwnType' /\ Holds'
  BY DEF OwnInv, OwnType, Holds
<1>2. \A d : FirstIs(d)' <=> FirstIs(d)
  BY DEF FirstIs, MayAck
<1>3. \A c \in Caller : HasAck(c) => HasAck(c)'
  BY DEF HasAck, MayAck
<1>4. Acked'
  <2>1. \A m \in loc'.got : m.kind = "ack" => m.call = holder
    BY DEF OwnInv, Acked
  <2>2. \A c \in Caller : call[c].pc = "custom" =>
          call[c].msgId < nextId /\ (c \in msgCbs' \/ HasAck(c)')
    BY <1>3 DEF OwnInv, Acked
  <2>3. \A r \in net'.up : r.op \in Custom => nextId > 0 /\ FirstIs(r.call)
    BY DEF OwnInv, Acked
  <2>4. \A m \in net'.down : m.kind = "custom-ack" =>
          nextId > 0 /\ m.n = 0 /\ FirstIs(m.call)
    BY DEF OwnInv, Acked
  <2>5. QED BY <1>2, <2>1, <2>2, <2>3, <2>4 DEF Acked
<1>5. OwnAnswers' /\ CustomAcked'
  BY <1>3 DEF OwnInv, OwnAnswers, CustomAcked
<1>6. QED BY <1>1, <1>4, <1>5 DEF OwnInv

----------------------------------------------------------------------------
(* The steps *)

LEMMA OwnSteps ==
    ASSUME OwnInv, NEW c \in Caller, Steps(c)
    PROVE OwnInv'
<1>1. /\ call \in [Caller -> Call] /\ call[c] \in Call /\ net \in Net /\ hist \in Hist
      /\ nextId \in Nat /\ "got" \in DOMAIN loc /\ loc.got \subseteq Msg
  BY DEF OwnInv, OwnType
<1>2. \A p \in Quiet \cup Subscribing \cup {"ack", "custom"} :
        /\ [call[c] EXCEPT !.pc = p] \in Call
        /\ [call[c] EXCEPT !.pc = p].pc = p
        /\ [call[c] EXCEPT !.pc = p].op = call[c].op
        /\ [call[c] EXCEPT !.pc = p].msgId = call[c].msgId
        /\ [call[c] EXCEPT !.pc = p].result = call[c].result
  BY <1>1 DEF Call, Quiet, Subscribing
<1>3. \A p : Goes(c, p) => call' = [call EXCEPT ![c] = [call[c] EXCEPT !.pc = p]]
  BY <1>1 DEF Goes
<1>4. \A u \in SUBSET Req :
        /\ [net EXCEPT !.up = u] \in Net
        /\ [net EXCEPT !.up = u].up = u /\ [net EXCEPT !.up = u].down = net.down
        /\ [net EXCEPT !.open = TRUE, !.listen = c, !.up = u] \in Net
        /\ [net EXCEPT !.open = TRUE, !.listen = c, !.up = u].up = u
        /\ [net EXCEPT !.open = TRUE, !.listen = c, !.up = u].down = net.down
  BY <1>1 DEF Net
<1>5. \A o \in {"subscribe", "unsubscribe", "custom"} :
        net.up \cup {Request(o, c)} \in SUBSET Req
  BY <1>1 DEF Net, Request, Req
<1>6. \A m : Took(c, m) /\ m.call = c =>
        /\ hist' \in Hist /\ hist'.acked = hist.acked
        /\ \A d \in Caller : hist'.took[d] \subseteq hist.took[d] \cup {c}
                             /\ (d # c => hist'.took[d] = hist.took[d])
  <2> SUFFICES ASSUME NEW m, Took(c, m), m.call = c
               PROVE /\ hist' \in Hist /\ hist'.acked = hist.acked
                     /\ \A d \in Caller : hist'.took[d] \subseteq hist.took[d] \cup {c}
                                          /\ (d # c => hist'.took[d] = hist.took[d])
    OBVIOUS
  <2> DEFINE t == [hist.took EXCEPT ![c] = hist.took[c] \cup {c}]
  <2>1. hist.took \in [Caller -> SUBSET Caller]
    BY <1>1 DEF Hist
  <2>2. hist' = [hist EXCEPT !.took = t]
    BY DEF Took
  <2>3. /\ t \in [Caller -> SUBSET Caller]
        /\ \A d \in Caller : t[d] \subseteq hist.took[d] \cup {c} /\ (d # c => t[d] = hist.took[d])
    BY <2>1
  <2> HIDE DEF t
  <2>4. [hist EXCEPT !.took = t] \in Hist /\ [hist EXCEPT !.took = t].acked = hist.acked
        /\ [hist EXCEPT !.took = t].took = t
    BY <1>1, <2>3 DEF Hist
  <2>5. QED BY <2>2, <2>3, <2>4
<1>7. ASSUME call[c].pc \notin Quiet, call[c].op = "subscribe", NEW p \in Subscribing, Goes(c, p),
             UNCHANGED <<holder, msgCbs, nextId, net>>,
             hist' = hist \/ \E m : Took(c, m) /\ m.call = c,
             "got" \in DOMAIN loc', loc'.got \subseteq loc.got
      PROVE OwnInv'
  <2>1. /\ hist' \in Hist /\ hist'.acked = hist.acked
        /\ \A d \in Caller : hist'.took[d] \subseteq hist.took[d] \cup {c}
                             /\ (d # c => hist'.took[d] = hist.took[d])
    BY <1>1, <1>6, <1>7
  <2> DEFINE k == [call[c] EXCEPT !.pc = p]
  <2>2. /\ k \in Call /\ k.pc = p /\ k.op = call[c].op /\ k.msgId = call[c].msgId
        /\ k.result = call[c].result /\ call' = [call EXCEPT ![c] = k]
    BY <1>2, <1>3, <1>7
  <2> HIDE DEF k
  <2>3. QED BY <1>7, <2>1, <2>2, OwnMoves
<1>8. CASE GivesUp(c)
  <2> DEFINE k == [call[c] EXCEPT !.pc = "done"]
  <2>1. /\ k \in Call /\ k.pc = "done" /\ k.op = call[c].op /\ k.msgId = call[c].msgId
        /\ k.result = call[c].result /\ call' = [call EXCEPT ![c] = k]
        /\ call[c].pc = "lock"
        /\ UNCHANGED <<holder, msgCbs, nextId, loc, net, hist>>
    BY <1>2, <1>3, <1>8 DEF GivesUp, Quiet
  <2> HIDE DEF k
  <2>2. /\ call'[c] = k /\ call' \in [Caller -> Call]
        /\ \A d \in Caller : d # c => call'[d] = call[d]
    BY <1>1, <2>1
  <2>3. OwnType' /\ Holds' /\ OwnAnswers'
    BY <2>1, <2>2 DEF OwnInv, OwnType, Holds, OwnAnswers, Quiet, Subscribing
  <2>4. Acked' /\ CustomAcked'
    BY <2>1, <2>2 DEF OwnInv, Acked, CustomAcked, FirstIs, HasAck, MayAck
  <2>5. QED BY <2>3, <2>4 DEF OwnInv
<1>9. CASE Subscribe(c) \/ Unsubscribe(c)
  <2> DEFINE k == [call[c] EXCEPT !.pc = "ack"]
  <2>1. /\ k \in Call /\ k.pc = "ack" /\ k.op = call[c].op /\ k.msgId = call[c].msgId
        /\ k.result = call[c].result /\ call' = [call EXCEPT ![c] = k]
        /\ call[c].pc = "lock" /\ holder = 0 /\ holder' = c /\ call[c].op # "custom"
        /\ UNCHANGED <<msgCbs, nextId, hist>>
    BY <1>2, <1>3, <1>9 DEF Subscribe, Unsubscribe, Locks
  <2>2. net' \in Net /\ net'.down = net.down /\ net'.up = net.up \cup {Request(call[c].op, c)}
    <3>1. CASE Subscribe(c)
      <4>1. /\ net' = [net EXCEPT !.open = TRUE, !.listen = c,
                                  !.up = net.up \cup {Request("subscribe", c)}]
            /\ call[c].op = "subscribe"
        BY <3>1 DEF Subscribe, Locks
      <4>2. net.up \cup {Request("subscribe", c)} \in SUBSET Req
        BY <1>5
      <4> HIDE DEF k
      <4>3. QED BY <1>4, <4>1, <4>2
    <3>2. CASE Unsubscribe(c)
      <4>1. /\ net' = [net EXCEPT !.up = net.up \cup {Request("unsubscribe", c)}]
            /\ call[c].op = "unsubscribe"
        BY <3>2 DEF Unsubscribe, Locks
      <4>2. net.up \cup {Request("unsubscribe", c)} \in SUBSET Req
        BY <1>5
      <4> HIDE DEF k
      <4>3. QED BY <1>4, <4>1, <4>2
    <3>3. QED BY <1>9, <3>1, <3>2
  <2>3. loc' \in {loc, [NoLocals EXCEPT !.on = loc'.on]}
    BY <1>9 DEF Subscribe, Unsubscribe, NoLocals
  <2> HIDE DEF k
  <2>4. QED BY <2>1, <2>2, <2>3, OwnAsks
<1>10. CASE SendCustom(c)
  <2> DEFINE k == [call[c] EXCEPT !.pc = "custom", !.msgId = nextId]
  <2>1. /\ k \in Call /\ k.pc = "custom" /\ k.op = call[c].op /\ k.msgId = nextId
        /\ k.result = call[c].result
    BY <1>1 DEF Call
  <2>2. /\ call' = [call EXCEPT ![c] = k]
        /\ call[c].pc = "lock" /\ holder = 0 /\ holder' = c /\ call[c].op = "custom"
        /\ nextId' = nextId + 1 /\ msgCbs' = msgCbs \cup {c} /\ UNCHANGED <<loc, hist>>
    BY <1>1, <1>10 DEF SendCustom, Locks, AddMsgCb
  <2>3. net' \in Net /\ net'.down = net.down /\ net'.up = net.up \cup {Request(call[c].op, c)}
    <3> DEFINE up == net.up \cup {Request("custom", c)}
    <3>1. up \in SUBSET Req /\ c \in Caller \cup {0}
      BY <1>5
    <3>2. net' = [net EXCEPT !.open = TRUE, !.listen = c, !.up = up]
      BY <1>10 DEF SendCustom
    <3>3. up = net.up \cup {Request(call[c].op, c)}
      BY <2>2
    <3> HIDE DEF up
    <3>4. QED BY <1>4, <3>1, <3>2, <3>3
  <2> HIDE DEF k
  <2>4. QED BY <2>1, <2>2, <2>3, OwnAsks
<1>11. CASE Canceled(c)
  BY <1>11, OwnEnds DEF Canceled, Quiet
<1>12. CASE ReadsAck(c)
  <2>1. PICK m \in loc.got :
          /\ m.kind = "ack"
          /\ \/ /\ call[c].op = "subscribe"
                /\ call' = [call EXCEPT ![c].pc = "subscribed", ![c].subId = TRUE]
                /\ loc' = [loc EXCEPT !.got = loc.got \ {m}]
                /\ Took(c, m)
                /\ UNCHANGED <<closed, holder, msgCbs, nextId, peer, net, server>>
             \/ call[c].op = "unsubscribe" /\ Ends(c, TRUE)
    BY <1>12 DEF ReadsAck
  <2>2. call[c].pc \notin Quiet /\ m.call = c
    BY <1>12, <2>1 DEF ReadsAck, Quiet, OwnInv, Holds, Acked
  <2>3. CASE call[c].op = "unsubscribe" /\ Ends(c, TRUE)
    BY <2>2, <2>3, OwnEnds
  <2>4. CASE /\ call[c].op = "subscribe"
             /\ call' = [call EXCEPT ![c].pc = "subscribed", ![c].subId = TRUE]
             /\ loc' = [loc EXCEPT !.got = loc.got \ {m}]
             /\ Took(c, m)
             /\ UNCHANGED <<closed, holder, msgCbs, nextId, peer, net, server>>
    <3> DEFINE k == [call[c] EXCEPT !.pc = "subscribed", !.subId = TRUE]
    <3>1. /\ k \in Call /\ k.pc = "subscribed" /\ k.op = call[c].op /\ k.msgId = call[c].msgId
          /\ k.result = call[c].result
      BY <1>1 DEF Call
    <3>2. call' = [call EXCEPT ![c] = k]
      BY <1>1, <2>4
    <3>3. "got" \in DOMAIN loc' /\ loc'.got \subseteq loc.got
      BY <1>1, <2>4
    <3>4. /\ hist' \in Hist /\ hist'.acked = hist.acked
          /\ \A d \in Caller : hist'.took[d] \subseteq hist.took[d] \cup {c}
                               /\ (d # c => hist'.took[d] = hist.took[d])
      BY <1>6, <2>2, <2>4
    <3>5. k.pc \in Subscribing
      BY <3>1 DEF Subscribing
    <3> HIDE DEF k
    <3>6. call[c].op = "subscribe" /\ UNCHANGED <<holder, msgCbs, nextId, net>>
      BY <2>4
    <3>7. QED BY <2>2, <3>1, <3>2, <3>3, <3>4, <3>5, <3>6, OwnMoves
  <2>5. QED BY <2>1, <2>3, <2>4
<1>13. CASE ReadsSubscribed(c)
  <2>1. call[c].pc = "subscribed" /\ call[c].pc \notin Quiet /\ call[c].op = "subscribe"
    BY <1>13 DEF ReadsSubscribed, Quiet, Subscribing, OwnInv, Holds
  <2>2. PICK m \in loc.got, n \in 0..MaxTracks :
          /\ m.kind = "subscribed" /\ Own(m, c)
          /\ IF n = 0 THEN Ends(c, TRUE)
             ELSE /\ Goes(c, "sdp")
                  /\ loc' = [Released(loc, "subscribed") EXCEPT
                                !.on = @ \cup {"track"}, !.tracks = n, !.uncompleted = 1..n]
                  /\ Took(c, m)
                  /\ UNCHANGED <<closed, holder, msgCbs, nextId, peer, net, server>>
    BY <1>13 DEF ReadsSubscribed
  <2>3. CASE n = 0
    BY <2>1, <2>2, <2>3, OwnEnds
  <2>4. CASE n # 0
    <3>1. "got" \in DOMAIN loc' /\ loc'.got \subseteq loc.got
      BY <1>1, <2>2, <2>4 DEF Released
    <3>2. "sdp" \in Subscribing /\ m.call = c
      BY <2>2 DEF Subscribing, Own
    <3>3. QED BY <1>7, <2>1, <2>2, <2>4, <3>1, <3>2
  <2>5. QED BY <2>3, <2>4
<1>14. CASE ReadsSdp(c)
  <2>1. call[c].pc = "sdp" /\ call[c].pc \notin Quiet /\ call[c].op = "subscribe"
    BY <1>14 DEF ReadsSdp, Quiet, Subscribing, OwnInv, Holds
  <2>2. /\ Goes(c, "flush") /\ loc' = Released(loc, "sdp")
        /\ UNCHANGED <<holder, msgCbs, nextId, net>> /\ \E m : Took(c, m) /\ m.call = c
    BY <1>14 DEF ReadsSdp, Own
  <2>3. "got" \in DOMAIN loc' /\ loc'.got \subseteq loc.got /\ "flush" \in Subscribing
    BY <1>1, <2>2 DEF Released, Subscribing
  <2>4. QED BY <1>7, <2>1, <2>2, <2>3
<1>15. CASE Flush(c) \/ ReadsTracks(c)
  <2>1. call[c].pc \notin Quiet /\ call[c].op = "subscribe"
    BY <1>15 DEF Flush, ReadsTracks, Quiet, Subscribing, OwnInv, Holds
  <2>2. /\ Goes(c, "state") \/ Goes(c, "bind")
        /\ UNCHANGED <<holder, msgCbs, nextId, net, hist>>
        /\ loc' = loc \/ loc' = [loc EXCEPT !.cands = {}, !.remoted = TRUE]
    BY <1>15 DEF Flush, ReadsTracks
  <2>3. "got" \in DOMAIN loc' /\ loc'.got \subseteq loc.got
    BY <1>1, <2>2
  <2>4. "state" \in Subscribing /\ "bind" \in Subscribing
    BY DEF Subscribing
  <2>5. QED BY <1>7, <2>1, <2>2, <2>3, <2>4
<1>16. CASE ReadsState(c)
  <2>1. call[c].pc \notin Quiet /\ call[c].op = "subscribe"
    BY <1>16 DEF ReadsState, Quiet, Subscribing, OwnInv, Holds
  <2>2. \/ Ends(c, FALSE)
        \/ \E s : /\ Goes(c, "tracks") /\ loc' = [loc EXCEPT !.states = loc.states \ {s}]
                  /\ UNCHANGED <<holder, msgCbs, nextId, net, hist>>
    BY <1>16 DEF ReadsState
  <2>3. "tracks" \in Subscribing
    BY DEF Subscribing
  <2>4. ASSUME NEW s, Goes(c, "tracks"), loc' = [loc EXCEPT !.states = loc.states \ {s}],
               UNCHANGED <<holder, msgCbs, nextId, net, hist>>
        PROVE OwnInv'
    <3>1. "got" \in DOMAIN loc' /\ loc'.got \subseteq loc.got
      BY <1>1, <2>4
    <3>2. QED BY <1>7, <2>1, <2>3, <2>4, <3>1
  <2>5. QED BY <2>1, <2>2, <2>4, OwnEnds
<1>17. CASE BindsTracks(c)
  <2>1. call[c].pc \notin Quiet /\ call[c].op # "custom"
    BY <1>17 DEF BindsTracks, Quiet, Subscribing, OwnInv, Holds
  <2>2. QED BY <1>17, <2>1, OwnEnds DEF BindsTracks
<1>18. CASE ReadsCustomAck(c)
  <2>1. call[c].pc \notin Quiet /\ HasAck(c)
    BY <1>18 DEF ReadsCustomAck, Quiet, OwnInv, Acked
  <2>2. QED BY <1>18, <2>1, OwnEnds DEF ReadsCustomAck
<1>19. ASSUME NEW kind \in {"subscribed", "sdp"}, Skips(c, kind) PROVE OwnInv'
  <2>1. /\ call' = call /\ UNCHANGED <<holder, msgCbs, nextId, net, hist>>
        /\ \E m : loc' = [loc EXCEPT !.got = loc.got \ {m}]
    BY <1>19 DEF Skips
  <2>2. "got" \in DOMAIN loc' /\ loc'.got \subseteq loc.got
    BY <1>1, <2>1
  <2>3. QED BY <1>1, <2>1, <2>2, OwnHears
<1>20. QED
  BY <1>8, <1>9, <1>10, <1>11, <1>12, <1>13, <1>14, <1>15, <1>16, <1>17, <1>18, <1>19 DEF Steps

LEMMA OwnBegins ==
    ASSUME OwnInv, NEW c \in Caller, NEW o \in {"subscribe", "unsubscribe", "custom"},
           NEW u \in {0, c}, Begin(c, o, u)
    PROVE OwnInv'
<1> DEFINE k == [call[c] EXCEPT !.pc = "lock", !.op = o, !.uses = u]
<1>1. /\ call[c] \in Call /\ call[c].pc = "idle"
      /\ UNCHANGED <<holder, msgCbs, nextId, loc, net, hist>>
      /\ call' = [call EXCEPT ![c] = k]
  BY DEF OwnInv, OwnType, Begin, Fresh
<1>2. k \in Call /\ k.pc = "lock" /\ k.op = o /\ k.result = call[c].result
      /\ k.msgId = call[c].msgId
  BY <1>1 DEF Call
<1> HIDE DEF k
<1>3. /\ call'[c] = k /\ call' \in [Caller -> Call] /\ ~ k.result
      /\ \A d \in Caller : d # c => call'[d] = call[d]
  BY <1>1, <1>2 DEF OwnInv, OwnType, Holds
<1>4. OwnType' /\ Holds' /\ OwnAnswers'
  BY <1>1, <1>2, <1>3 DEF OwnInv, OwnType, Holds, OwnAnswers, Quiet, Subscribing
<1>5. call[c].op # "no-ack"
  BY <1>1 DEF OwnInv, Holds
<1>6. \A d, e \in Caller : MayAck(d, e) => MayAck(d, e)'
  BY <1>2, <1>3, <1>5 DEF MayAck
<1>7. Acked'
  <2>1. /\ \A x \in net.up : x.call \in Caller
        /\ \A x \in net.down : x.call \in Caller
    BY DEF OwnInv, OwnType, Net, Req, Msg
  <2>2. \A d \in Caller : call'[d].pc = "custom" => call[d].pc = "custom" /\ call'[d] = call[d]
    BY <1>2, <1>3
  <2>3. \A e \in Caller : (FirstIs(e) => FirstIs(e)') /\ (HasAck(e) => HasAck(e)')
    BY <1>1, <1>6, <2>2 DEF FirstIs, HasAck
  <2>4. QED BY <1>1, <2>1, <2>2, <2>3 DEF OwnInv, Acked
<1>8. CustomAcked'
  BY <1>1, <1>2, <1>3, <1>6 DEF OwnInv, CustomAcked, HasAck
<1>9. QED BY <1>4, <1>7, <1>8 DEF OwnInv

LEMMA OwnSends ==
    ASSUME OwnInv, NEW c \in Caller, SendNoAck(c)
    PROVE OwnInv'
<1> DEFINE k == [call[c] EXCEPT !.pc = "done", !.op = "no-ack", !.msgId = nextId]
<1>1. /\ call[c] \in Call /\ call[c].pc = "idle" /\ nextId \in Nat /\ net \in Net
      /\ UNCHANGED <<holder, msgCbs, loc, hist>> /\ nextId' = nextId + 1
      /\ call' = [call EXCEPT ![c] = k]
  BY DEF OwnInv, OwnType, SendNoAck, Fresh
<1>2. /\ k \in Call /\ k.pc = "done" /\ k.op = "no-ack" /\ k.msgId = nextId
      /\ k.result = call[c].result
  BY <1>1 DEF Call
<1> HIDE DEF k
<1>3. /\ call'[c] = k /\ call' \in [Caller -> Call] /\ ~ k.result /\ call[c].op # "no-ack"
      /\ \A d \in Caller : d # c => call'[d] = call[d]
  BY <1>1, <1>2 DEF OwnInv, OwnType, Holds
<1>4. /\ net' \in Net /\ net'.down = net.down
      /\ net'.up = net.up \cup {Request("no-ack", c)}
  <2>1. net.up \cup {Request("no-ack", c)} \in SUBSET Req
    BY <1>1 DEF Net, Request, Req
  <2>2. \A u \in SUBSET Req : /\ [net EXCEPT !.open = TRUE, !.up = u] \in Net
                              /\ [net EXCEPT !.open = TRUE, !.up = u].down = net.down
                              /\ [net EXCEPT !.open = TRUE, !.up = u].up = u
    BY <1>1 DEF Net
  <2> DEFINE u == net.up \cup {Request("no-ack", c)}
  <2>3. net' = [net EXCEPT !.open = TRUE, !.up = u]
    BY DEF SendNoAck
  <2>4. u \in SUBSET Req
    BY <2>1
  <2>5. net' \in Net /\ net'.down = net.down /\ net'.up = u
    <3> HIDE DEF u
    <3>1. QED BY <2>2, <2>3, <2>4
  <2>6. QED BY <2>5
<1>5. OwnType'
  BY <1>1, <1>3, <1>4 DEF OwnInv, OwnType
<1>6. Holds' /\ OwnAnswers'
  BY <1>1, <1>2, <1>3 DEF OwnInv, Holds, OwnAnswers, Quiet, Subscribing
<1>7. \A d, e \in Caller : d # c /\ MayAck(d, e) => MayAck(d, e)'
  BY <1>3 DEF MayAck
<1>8. CustomAcked'
  BY <1>1, <1>2, <1>3, <1>7 DEF OwnInv, CustomAcked, HasAck
<1>9. \A d \in Caller : call'[d].pc = "custom" =>
        call[d].pc = "custom" /\ d # c /\ call'[d] = call[d]
  BY <1>2, <1>3
<1>10. Acked'
  <2>1. /\ \A x \in net.up : x.call \in Caller
        /\ \A x \in net.down : x.call \in Caller
    BY DEF OwnInv, OwnType, Net, Req, Msg
  <2>2. \A e \in Caller : (FirstIs(e) => FirstIs(e)')
                          /\ (e # c /\ HasAck(e) => HasAck(e)')
    BY <1>1, <1>7, <1>9 DEF FirstIs, HasAck
  <2>3. \A d \in Caller : call'[d].pc = "custom" =>
          call'[d].msgId < nextId /\ (d \in msgCbs' \/ HasAck(d)')
    BY <1>1, <1>9, <2>2 DEF OwnInv, Acked
  <2>4. FirstIs(c)'
    BY <1>2, <1>3, <2>3 DEF FirstIs, MayAck
  <2>5. \A d \in Caller : call'[d].pc = "custom" => call'[d].msgId < nextId'
    BY <1>1, <1>3, <2>3 DEF Call
  <2>6. Request("no-ack", c).call = c
    BY DEF Request
  <2>7. \A r \in net'.up : r.op \in Custom => FirstIs(r.call)'
    <3>1. \A r \in net.up : r.op \in Custom => FirstIs(r.call)'
      BY <2>1, <2>2 DEF OwnInv, Acked
    <3>2. QED BY <1>4, <2>4, <2>6, <3>1
  <2>8. \A m \in net'.down : m.kind = "custom-ack" => m.n = 0 /\ FirstIs(m.call)'
    BY <1>4, <2>1, <2>2 DEF OwnInv, Acked
  <2>9. \A m \in loc'.got : m.kind = "ack" => m.call = holder'
    BY <1>1 DEF OwnInv, Acked
  <2>10. nextId' > 0
    BY <1>1
  <2>11. QED BY <2>3, <2>5, <2>7, <2>8, <2>9, <2>10 DEF Acked
<1>11. QED BY <1>5, <1>6, <1>8, <1>10 DEF OwnInv

LEMMA OwnDelivers ==
    ASSUME OwnInv, Delivers
    PROVE OwnInv'
<1>1. PICK m \in net.down : Hears(m) /\ net' = [net EXCEPT !.down = net.down \ {m}]
  BY DEF Delivers
<1>2. /\ net \in Net /\ hist \in Hist /\ m \in Msg /\ UNCHANGED <<call, holder, nextId>>
      /\ "got" \in DOMAIN loc /\ loc.got \subseteq Msg
  BY <1>1 DEF Delivers, OwnInv, OwnType, Net
<1>3. net' \in Net /\ net'.up = net.up /\ net'.down \subseteq net.down
  <2>1. net.down \ {m} \in SUBSET Msg
    BY <1>2 DEF Net
  <2>2. QED BY <1>1, <1>2, <2>1 DEF Net
<1>4. hist' \in Hist /\ hist'.took = hist.took /\ hist.acked \subseteq hist'.acked
  <2>1. PICK gone \in SUBSET msgCbs :
          \/ hist' = hist \/ hist' = [hist EXCEPT !.heard = hist.heard \cup {m}]
          \/ hist' = [hist EXCEPT !.acked = hist.acked \cup gone \X {m.call}]
    BY <1>1, <1>2 DEF Hears, ProcessMsgCbs, Msg, Kind
  <2>2. hist.heard \cup {m} \in SUBSET Msg
    BY <1>2 DEF Hist
  <2>3. hist.acked \cup gone \X {m.call} \in SUBSET (Caller \X Caller)
    BY <1>2 DEF Hist, Msg, OwnInv, OwnType
  <2>4. \A x \in SUBSET (Caller \X Caller) :
          /\ [hist EXCEPT !.acked = x] \in Hist /\ [hist EXCEPT !.acked = x].took = hist.took
          /\ [hist EXCEPT !.acked = x].acked = x
    BY <1>2 DEF Hist
  <2>5. CASE hist' = [hist EXCEPT !.acked = hist.acked \cup gone \X {m.call}]
    BY <2>3, <2>4, <2>5
  <2>6. QED BY <1>2, <2>1, <2>2, <2>5 DEF Hist
<1>5. \/ loc' = loc
      \/ /\ loc' = [loc EXCEPT !.got = loc.got \cup {m}]
         /\ m.kind = "ack" => call[m.call].pc = "ack"
      \/ loc' = [loc EXCEPT !.cands = loc.cands \cup {m}]
  BY <1>1, <1>2 DEF Hears, Msg, Kind
<1>6. m.kind = "ack" /\ call[m.call].pc = "ack" => m.call = holder
  BY <1>2 DEF OwnInv, Holds, Quiet, Msg
<1>7. /\ "got" \in DOMAIN loc' /\ loc'.got \subseteq Msg
      /\ \A x \in loc'.got : x \in loc.got \/ (x.kind = "ack" => x.call = holder)
  BY <1>2, <1>5, <1>6
<1>8. /\ msgCbs' \subseteq msgCbs
      /\ \A c \in msgCbs \ msgCbs' : call[c].pc = "custom" => HasAck(c)'
  <2>1. CASE m.kind # "custom-ack"
    BY <1>1, <1>2, <2>1 DEF Hears, Msg, Kind
  <2>2. CASE m.kind = "custom-ack"
    <3> DEFINE gone == {c \in msgCbs : Acks(m, c)}
    <3>1. /\ msgCbs' = msgCbs \ gone /\ m.n = 0 /\ FirstIs(m.call)
          /\ hist' = [hist EXCEPT !.acked = hist.acked \cup gone \X {m.call}]
      BY <1>1, <2>2 DEF Hears, ProcessMsgCbs, OwnInv, Acked
    <3>2. hist'.acked = hist.acked \cup gone \X {m.call}
      BY <1>2, <3>1 DEF Hist
    <3>3. ASSUME NEW c \in gone, call[c].pc = "custom" PROVE HasAck(c)'
      <4>1. c \in Caller /\ m.call \in Caller /\ <<c, m.call>> \in hist'.acked
        BY <1>2, <3>2 DEF OwnInv, OwnType, Msg
      <4>2. call[c].msgId = 0
        BY <3>1 DEF Acks
      <4>3. MayAck(c, m.call)'
        BY <1>2, <3>1, <3>3, <4>1, <4>2 DEF FirstIs, MayAck
      <4>4. QED BY <4>1, <4>3 DEF HasAck
    <3>4. QED BY <3>1, <3>3
  <2>3. QED BY <2>1, <2>2
<1>9. QED BY <1>2, <1>3, <1>4, <1>7, <1>8, OwnHears

LEMMA OwnServes ==
    ASSUME OwnInv, Serves
    PROVE OwnInv'
<1>1. PICK r \in net.up :
        net' = [net EXCEPT !.up = net.up \ {r}, !.down = net.down \cup Answers(r)]
  BY DEF Serves
<1>2. /\ net \in Net /\ hist \in Hist /\ r \in Req
      /\ UNCHANGED <<call, holder, nextId, msgCbs, loc, hist>>
      /\ "got" \in DOMAIN loc /\ loc.got \subseteq Msg
  BY <1>1 DEF Serves, OwnInv, OwnType, Net
<1>3. Answers(r) \in SUBSET Msg
  <2>1. \A kind \in Kind, n \in Nat : Message(kind, r.call, n) \in Msg
    BY <1>2 DEF Message, Msg, Req
  <2>2. QED BY <1>2, <2>1 DEF Answers, Req, Kind
<1>4. \A m \in Answers(r) : m.kind = "custom-ack" => r.op \in Custom /\ m.n = 0 /\ m.call = r.call
  <2>1. \A kind, c, n : Message(kind, c, n).kind = kind /\ Message(kind, c, n).n = n
                        /\ Message(kind, c, n).call = c
    BY DEF Message
  <2>2. QED BY <1>2, <2>1 DEF Answers, Req, Custom
<1>5. /\ net' \in Net /\ net'.up = net.up \ {r} /\ net'.down = net.down \cup Answers(r)
  <2>1. net.up \ {r} \in SUBSET Req /\ net.down \cup Answers(r) \in SUBSET Msg
    BY <1>2, <1>3 DEF Net
  <2>2. QED BY <1>1, <1>2, <2>1 DEF Net
<1>6. r.op \in Custom => nextId > 0 /\ FirstIs(r.call)
  BY DEF OwnInv, Acked
<1>7. \A m \in net'.down : m.kind = "custom-ack" =>
        m \in net.down \/ (nextId > 0 /\ m.n = 0 /\ FirstIs(m.call))
  BY <1>4, <1>5, <1>6
<1>8. QED BY <1>2, <1>5, <1>7, OwnHears

LEMMA OwnStep ==
    ASSUME OwnInv, [Next]_vars
    PROVE OwnInv'
<1>1. /\ net \in Net /\ hist \in Hist /\ "got" \in DOMAIN loc /\ loc.got \subseteq Msg
  BY DEF OwnInv, OwnType
<1>2. ASSUME UNCHANGED <<call, holder, msgCbs, nextId, net, hist>>,
             "got" \in DOMAIN loc', loc'.got = loc.got
      PROVE OwnInv'
  BY <1>1, <1>2, OwnHears
<1>3. CASE UNCHANGED vars
  BY <1>1, <1>2, <1>3 DEF vars
<1>4. ASSUME NEW k \in Caller \cup {0}, Closes(k) PROVE OwnInv'
  BY <1>1, <1>2, <1>4 DEF Closes
<1>5. ASSUME NEW s, PeerChanges(s) PROVE OwnInv'
  <2>1. loc' = loc \/ loc' = [loc EXCEPT !.states = loc.states \cup {s}]
    BY <1>5 DEF PeerChanges
  <2>2. QED BY <1>1, <1>2, <1>5, <2>1 DEF PeerChanges
<1>6. ASSUME NEW t, TrackComes(t) PROVE OwnInv'
  <2>1. "got" \in DOMAIN loc' /\ loc'.got = loc.got
    BY <1>1, <1>6 DEF TrackComes
  <2>2. QED BY <1>2, <1>6, <2>1 DEF TrackComes
<1>7. CASE SocketCloses
  <2>1. /\ net' = [net EXCEPT !.open = FALSE, !.up = {}, !.down = {}]
        /\ \E cut \in SUBSET Caller : hist' = [hist EXCEPT !.cut = hist.cut \cup cut]
        /\ UNCHANGED <<call, holder, msgCbs, nextId, loc>>
    BY <1>7 DEF SocketCloses
  <2>2. net' \in Net /\ net'.up = {} /\ net'.down = {}
    BY <1>1, <2>1 DEF Net
  <2>3. hist' \in Hist /\ hist'.took = hist.took /\ hist'.acked = hist.acked
    <3>1. \A cut \in SUBSET Caller : hist.cut \cup cut \in SUBSET Caller
      BY <1>1 DEF Hist
    <3>2. QED BY <1>1, <2>1, <3>1 DEF Hist
  <2>4. QED BY <1>1, <2>1, <2>2, <2>3, OwnHears
<1>8. QED
  BY <1>3, <1>4, <1>5, <1>6, <1>7, OwnSteps, OwnBegins, OwnSends, OwnDelivers, OwnServes DEF Next

LEMMA OwnStarts == Init => OwnInv
<1> SUFFICES ASSUME Init PROVE OwnInv
  OBVIOUS
<1>1. \A c \in Caller : call[c] \in Call /\ call[c].pc = "idle" /\ call[c].op = "none"
                        /\ ~ call[c].result
  BY DEF Init, Call
<1>2. call \in [Caller -> Call]
  BY <1>1 DEF Init
<1>3. net \in Net /\ net.up = {} /\ net.down = {}
  BY DEF Init, Net
<1>4. hist \in Hist /\ \A c \in Caller : hist.took[c] = {}
  BY DEF Init, Hist
<1>5. "got" \in DOMAIN loc /\ loc.got = {}
  BY DEF Init, NoLocals
<1>6. OwnType
  BY <1>2, <1>3, <1>4, <1>5 DEF Init, OwnType
<1>7. Holds
  BY <1>1 DEF Holds, Quiet, Subscribing
<1>8. Acked
  BY <1>1, <1>3, <1>5 DEF Acked
<1>9. OwnAnswers /\ CustomAcked
  BY <1>1, <1>4 DEF OwnAnswers, CustomAcked
<1>10. QED BY <1>6, <1>7, <1>8, <1>9 DEF OwnInv

\* A subscription is made of the answers to its own request, whatever comes late.
THEOREM OwnAnswersEver == Spec => []OwnAnswers
<1>1. OwnInv /\ [Next]_vars => OwnInv'
  BY OwnStep
<1>2. OwnInv => OwnAnswers
  BY DEF OwnInv
<1>3. QED BY <1>1, <1>2, OwnStarts, PTL DEF Spec

\* A custom message is taken for acked only at the ack of its own receiver or of
\* a message without ack that was sent while it waited.
THEOREM CustomAckedEver == Spec => []CustomAcked
<1>1. OwnInv /\ [Next]_vars => OwnInv'
  BY OwnStep
<1>2. OwnInv => CustomAcked
  BY DEF OwnInv
<1>3. QED BY <1>1, <1>2, OwnStarts, PTL DEF Spec

----------------------------------------------------------------------------
(* What NoAnswerLost and NoOrphan rest on *)

\* What call c still has to be told.
Expects(c) ==
    {k \in {"ack", "subscribed", "sdp"} :
        \/ k = "ack" /\ call[c].pc = "ack"
        \/ k = "subscribed" /\ call[c].op = "subscribe" /\ call[c].pc \in {"ack", "subscribed"}
        \/ k = "sdp" /\ call[c].op = "subscribe" /\ call[c].pc \in {"ack", "subscribed", "sdp"}}

Told(c, k) ==
    \/ \E r \in net.up : r.call = c
    \/ Message(k, c, 0) \in net.down \cup loc.got

Answered ==
    \A c \in Caller : \A k \in Expects(c) :
        /\ k # "ack" => k \in loc.on
        /\ c \notin hist.cut => Told(c, k)

\* A request is the one of its call, until that is done; nothing comes to a call
\* that has not asked.
Asked ==
    /\ \A r \in net.up :
          /\ call[r.call].pc \notin {"idle", "lock"}
          /\ r.op = call[r.call].op \/ (r.op = "unsubscribe" /\ call[r.call].pc = "done")
    /\ \A m \in net.down \cup loc.got :
          call[m.call].pc \notin {"idle", "lock"} /\ (m.kind = "ack" => m.n = 0)

\* The ack of a subscribe comes when the server has had the request, and a call
\* that has read it knows its id.
Subscribed ==
    \A c \in Caller :
        /\ call[c].pc \in Subscribing => call[c].subId /\ Request("subscribe", c) \notin net.up
        /\ call[c].op = "subscribe" /\ call[c].pc \notin Quiet => net.open \/ c \in hist.cut
        /\ hist.took[c] # {} =>
              /\ call[c].op = "subscribe" /\ call[c].pc \in Subscribing \cup {"done"}
              /\ Request("subscribe", c) \notin net.up
        /\ Message("ack", c, 0) \in net.down \cup loc.got => Request("subscribe", c) \notin net.up

SentInv ==
    "on" \in DOMAIN loc /\ server \subseteq Caller /\ Answered /\ Asked /\ Subscribed /\ NoOrphan

LEMMA MessageIs ==
    \A k, c, n : /\ Message(k, c, n).kind = k
                 /\ Message(k, c, n).call = c
                 /\ Message(k, c, n).n = n
BY DEF Message

LEMMA RequestIs ==
    \A o, c : Request(o, c).op = o /\ Request(o, c).call = c
BY DEF Request

\* A subscribe goes on; what it still expects stays where it is.
LEMMA SentMoves ==
    ASSUME OwnInv, SentInv, NEW c \in Caller, call[c].pc \notin Quiet,
           call[c].op = "subscribe", NEW k \in Call, call' = [call EXCEPT ![c] = k],
           k.op = "subscribe", k.pc \in Subscribing, k.subId,
           Request("subscribe", c) \notin net.up,
           UNCHANGED <<net, server>>, hist'.cut = hist.cut,
           \A d \in Caller : d # c => hist'.took[d] = hist.took[d],
           "on" \in DOMAIN loc', loc'.got \subseteq loc.got,
           \A e \in Expects(c)' : /\ e \in Expects(c) /\ (e # "ack" => e \in loc'.on)
                                  /\ Message(e, c, 0) \in loc.got => Message(e, c, 0) \in loc'.got
    PROVE SentInv'
<1>1. /\ call'[c] = k /\ \A d \in Caller : d # c => call'[d] = call[d]
      /\ \A r \in net.up : r.call \in Caller
      /\ \A m \in net.down \cup loc.got : m.call \in Caller
  BY DEF OwnInv, OwnType, Net, Req, Msg
<1>2. \A d \in Caller : d # c => Expects(d) = {} /\ Expects(d)' = {}
  <2>1. holder = c /\ \A d \in Caller : d # c => call[d].pc \in Quiet
    BY DEF OwnInv, Holds
  <2>2. QED BY <1>1, <2>1 DEF Expects, Quiet
<1>3. Answered'
  BY <1>2 DEF SentInv, Answered, Told
<1>4. k.pc \notin Quiet
  BY DEF Quiet, Subscribing
<1>5. Asked'
  BY <1>1, <1>4 DEF SentInv, Asked, Quiet
<1>6. Subscribed'
  BY <1>1 DEF SentInv, Subscribed
<1>7. NoOrphan'
  BY <1>1, <1>4 DEF SentInv, NoOrphan, Quiet
<1>8. QED BY <1>3, <1>5, <1>6, <1>7 DEF SentInv

\* A call ends: it expects nothing any more, and asks to have its subscription
\* removed if it does not return that.
LEMMA SentEnds ==
    ASSUME OwnInv, SentInv, NEW c \in Caller, NEW ok \in BOOLEAN, Ends(c, ok),
           call[c].pc \notin Quiet
    PROVE SentInv'
<1>1. /\ call'[c].pc = "done" /\ call'[c].op = call[c].op /\ call'[c].result = ok
      /\ \A d \in Caller : d # c => call'[d] = call[d] /\ call[d].pc \in Quiet
      /\ "on" \in DOMAIN loc' /\ loc'.got = {}
      /\ UNCHANGED server
  BY DEF Ends, OwnInv, OwnType, Holds, NoLocals, Call
<1>2. hist'.took = hist.took /\ hist'.cut = hist.cut
  BY DEF Ends, OwnInv, OwnType, Hist
<1>3. /\ net'.down = net.down /\ net'.open = net.open
      /\ net'.up = IF call[c].subId /\ ~ ok /\ net.open
                   THEN net.up \cup {Request("unsubscribe", c)} ELSE net.up
  BY DEF Ends, OwnInv, OwnType, Net
<1>4. \A r \in net'.up : r \in net.up \/ r = Request("unsubscribe", c)
  BY <1>3
<1>5. \A r \in net.up : r.call \in Caller
  BY DEF OwnInv, OwnType, Net, Req
<1>6. \A m \in net.down : m.call \in Caller
  BY DEF OwnInv, OwnType, Net, Msg
<1>7. \A d \in Caller : Expects(d)' = {}
  BY <1>1 DEF Expects, Quiet
<1>8. Answered'
  BY <1>7 DEF Answered
<1>9. Asked'
  <2>1. \A r \in net.up : /\ call'[r.call].pc \notin {"idle", "lock"}
                          /\ \/ r.op = call'[r.call].op
                             \/ r.op = "unsubscribe" /\ call'[r.call].pc = "done"
    BY <1>1, <1>5 DEF SentInv, Asked
  <2>2. \A m \in net.down : /\ call'[m.call].pc \notin {"idle", "lock"}
                            /\ m.kind = "ack" => m.n = 0
    BY <1>1, <1>6 DEF SentInv, Asked
  <2>3. QED BY <1>1, <1>3, <1>4, <2>1, <2>2, RequestIs DEF Asked
<1>10. \A d \in Caller : Request("subscribe", d) \in net'.up => Request("subscribe", d) \in net.up
  BY <1>4, RequestIs
<1>11. Subscribed'
  BY <1>1, <1>2, <1>3, <1>10 DEF SentInv, Subscribed, Subscribing, Quiet
<1>12. NoOrphan'
  <2>1. ~ ok /\ hist.took[c] # {} /\ c \notin hist.cut => Request("unsubscribe", c) \in net'.up
    BY <1>3 DEF SentInv, Subscribed, Subscribing, Quiet
  <2>2. net.up \subseteq net'.up
    BY <1>3
  <2>3. QED BY <1>1, <1>2, <2>1, <2>2 DEF SentInv, NoOrphan
<1>13. QED BY <1>1, <1>8, <1>9, <1>11, <1>12 DEF SentInv

\* A call takes the mutex and sends its request.
LEMMA SentAsks ==
    ASSUME OwnInv, SentInv, NEW c \in Caller, NEW k \in Call, call' = [call EXCEPT ![c] = k],
           holder = 0, call[c].pc = "lock", k.op = call[c].op,
           k.pc \in {"ack", "custom"}, k.pc = "custom" <=> k.op = "custom",
           net'.down = net.down, net'.up = net.up \cup {Request(call[c].op, c)},
           net'.open \in {TRUE, net.open},
           k.op = "subscribe" => net'.open /\ {"subscribed", "sdp"} \subseteq loc'.on,
           UNCHANGED <<server, hist>>, "on" \in DOMAIN loc', loc'.got \subseteq loc.got
    PROVE SentInv'
<1>1. /\ call'[c] = k /\ \A d \in Caller : d # c => call'[d] = call[d] /\ call[d].pc \in Quiet
      /\ call[c].pc # "done"
  BY DEF OwnInv, OwnType, Holds
<1>2. \A r \in net.up : r.call \in Caller /\ r.call # c
  BY DEF OwnInv, OwnType, Net, Req, SentInv, Asked
<1>3. \A m \in net.down \cup loc.got : m.call \in Caller /\ m.call # c
  BY DEF OwnInv, OwnType, Net, Msg, SentInv, Asked
<1>4. hist.took[c] = {}
  BY DEF SentInv, Subscribed, Subscribing
<1>5. Answered'
  <2>1. \A d \in Caller : d # c => Expects(d)' = {}
    BY <1>1 DEF Expects, Quiet
  <2>2. \A e \in Expects(c)' : (e # "ack" => e \in loc'.on)
    BY <1>1 DEF Expects
  <2>3. \A e : Told(c, e)'
    BY RequestIs DEF Told
  <2>4. QED BY <2>1, <2>2, <2>3 DEF Answered
<1>6. Asked'
  BY <1>1, <1>2, <1>3, RequestIs DEF SentInv, Asked
<1>7. Subscribed'
  <2>1. \A d \in Caller : d # c /\ Request("subscribe", d) \in net'.up
                          => Request("subscribe", d) \in net.up
    BY RequestIs
  <2>2. Message("ack", c, 0) \notin net'.down \cup loc'.got
    BY <1>3, MessageIs
  <2>3. k.pc \notin Subscribing
    BY DEF Subscribing
  <2>4. QED BY <1>1, <1>4, <2>1, <2>2, <2>3 DEF SentInv, Subscribed, Quiet
<1>8. NoOrphan'
  BY <1>1 DEF SentInv, NoOrphan
<1>9. QED BY <1>5, <1>6, <1>7, <1>8 DEF SentInv

\* A call that has not asked begins, or gives up.
LEMMA SentQuiet ==
    ASSUME OwnInv, SentInv, NEW c \in Caller, NEW k \in Call, call' = [call EXCEPT ![c] = k],
           call[c].pc \in {"idle", "lock"}, k.pc \in {"lock", "done"},
           UNCHANGED <<net, loc, server, hist>>
    PROVE SentInv'
<1>1. call'[c] = k /\ \A d \in Caller : d # c => call'[d] = call[d]
  BY DEF OwnInv, OwnType
<1>2. \A r \in net.up : r.call \in Caller /\ r.call # c
  BY DEF OwnInv, OwnType, Net, Req, SentInv, Asked
<1>3. \A m \in net.down \cup loc.got : m.call \in Caller /\ m.call # c
  BY DEF OwnInv, OwnType, Net, Msg, SentInv, Asked
<1>4. hist.took[c] = {}
  BY DEF SentInv, Subscribed, Subscribing
<1>5. \A d \in Caller : Expects(d)' = IF d = c THEN {} ELSE Expects(d)
  BY <1>1 DEF Expects
<1>6. Answered'
  BY <1>5 DEF SentInv, Answered, Told
<1>7. Asked'
  BY <1>1, <1>2, <1>3 DEF SentInv, Asked
<1>8. Subscribed'
  BY <1>1, <1>4 DEF SentInv, Subscribed, Subscribing, Quiet
<1>9. NoOrphan'
  BY <1>1, <1>4 DEF SentInv, NoOrphan
<1>10. QED BY <1>6, <1>7, <1>8, <1>9 DEF SentInv

\* No call moves and nothing is sent; what a call expects stays in its channel.
LEMMA SentRests ==
    ASSUME SentInv, UNCHANGED <<call, net, server>>,
           hist'.took = hist.took, hist'.cut = hist.cut,
           "on" \in DOMAIN loc', loc'.on = loc.on, loc'.got \subseteq loc.got,
           \A c \in Caller : \A e \in Expects(c) :
               Message(e, c, 0) \in loc.got => Message(e, c, 0) \in loc'.got
    PROVE SentInv'
<1>1. \A c \in Caller : Expects(c)' = Expects(c)
  BY DEF Expects
<1>2. Answered'
  BY <1>1 DEF SentInv, Answered, Told
<1>3. Asked' /\ Subscribed' /\ NoOrphan'
  BY DEF SentInv, Asked, Subscribed, NoOrphan
<1>4. QED BY <1>2, <1>3 DEF SentInv

LEMMA SentSteps ==
    ASSUME OwnInv, SentInv, NEW c \in Caller, Steps(c)
    PROVE SentInv'
<1>1. /\ call \in [Caller -> Call] /\ call[c] \in Call /\ net \in Net /\ hist \in Hist
      /\ nextId \in Nat /\ {"on", "got"} \subseteq DOMAIN loc
  BY DEF OwnInv, OwnType, SentInv
<1>2. \A p \in Quiet \cup Subscribing \cup {"ack", "custom"} :
        /\ [call[c] EXCEPT !.pc = p] \in Call
        /\ [call[c] EXCEPT !.pc = p].pc = p
        /\ [call[c] EXCEPT !.pc = p].op = call[c].op
        /\ [call[c] EXCEPT !.pc = p].subId = call[c].subId
  BY <1>1 DEF Call, Quiet, Subscribing
<1>3. \A p : Goes(c, p) => call' = [call EXCEPT ![c] = [call[c] EXCEPT !.pc = p]]
  BY <1>1 DEF Goes
<1>4. \A u :
        /\ [net EXCEPT !.up = u].up = u /\ [net EXCEPT !.up = u].down = net.down
        /\ [net EXCEPT !.up = u].open = net.open
        /\ [net EXCEPT !.open = TRUE, !.listen = c, !.up = u].up = u
        /\ [net EXCEPT !.open = TRUE, !.listen = c, !.up = u].down = net.down
        /\ [net EXCEPT !.open = TRUE, !.listen = c, !.up = u].open
  BY <1>1 DEF Net
<1>5. \A m : Took(c, m) => /\ hist'.cut = hist.cut
                           /\ \A d \in Caller : d # c => hist'.took[d] = hist.took[d]
  BY <1>1 DEF Took, Hist
<1>6. ASSUME call[c].pc \in Subscribing, NEW p \in Subscribing, Goes(c, p),
             UNCHANGED <<net, server>>, hist' = hist \/ \E m : Took(c, m),
             "on" \in DOMAIN loc', loc'.got \subseteq loc.got,
             \A e \in Expects(c)' : /\ e \in Expects(c) /\ (e # "ack" => e \in loc'.on)
                                    /\ Message(e, c, 0) \in loc.got
                                       => Message(e, c, 0) \in loc'.got
      PROVE SentInv'
  <2>1. /\ hist'.cut = hist.cut
        /\ \A d \in Caller : d # c => hist'.took[d] = hist.took[d]
    BY <1>5, <1>6
  <2>2. /\ call[c].op = "subscribe" /\ call[c].pc \notin Quiet
        /\ call[c].subId /\ Request("subscribe", c) \notin net.up
    BY <1>6 DEF OwnInv, Holds, SentInv, Subscribed, Subscribing, Quiet
  <2> DEFINE k == [call[c] EXCEPT !.pc = p]
  <2>3. /\ k \in Call /\ k.pc = p /\ k.op = "subscribe" /\ k.subId
        /\ call' = [call EXCEPT ![c] = k]
    BY <1>2, <1>3, <1>6, <2>2
  <2> HIDE DEF k
  <2>4. QED BY <1>6, <2>1, <2>2, <2>3, SentMoves
<1>7. \A p \in Subscribing : Goes(c, p) => call'[c].pc = p /\ call'[c].op = call[c].op
  <2> SUFFICES ASSUME NEW p \in Subscribing, Goes(c, p)
               PROVE call'[c].pc = p /\ call'[c].op = call[c].op
    OBVIOUS
  <2>1. call'[c] = [call[c] EXCEPT !.pc = p]
    BY <1>1, <1>3
  <2>2. QED BY <1>2, <2>1
<1>8. CASE GivesUp(c)
  <2> DEFINE k == [call[c] EXCEPT !.pc = "done"]
  <2>1. /\ k \in Call /\ k.pc = "done" /\ call' = [call EXCEPT ![c] = k]
        /\ call[c].pc = "lock" /\ UNCHANGED <<net, loc, server, hist>>
    BY <1>2, <1>3, <1>8 DEF GivesUp, Quiet
  <2> HIDE DEF k
  <2>2. QED BY <2>1, SentQuiet
<1>9. CASE Subscribe(c) \/ Unsubscribe(c)
  <2> DEFINE k == [call[c] EXCEPT !.pc = "ack"]
  <2>1. /\ k \in Call /\ k.pc = "ack" /\ k.op = call[c].op
        /\ call' = [call EXCEPT ![c] = k]
        /\ call[c].pc = "lock" /\ holder = 0 /\ call[c].op # "custom"
        /\ UNCHANGED <<server, hist>>
    BY <1>2, <1>3, <1>9 DEF Subscribe, Unsubscribe, Locks
  <2>2. /\ net'.down = net.down /\ net'.up = net.up \cup {Request(call[c].op, c)}
        /\ net'.open \in {TRUE, net.open}
        /\ call[c].op = "subscribe" => net'.open /\ {"subscribed", "sdp"} \subseteq loc'.on
        /\ "on" \in DOMAIN loc' /\ loc'.got \subseteq loc.got
    <3>1. CASE Subscribe(c)
      BY <1>4, <3>1 DEF Subscribe, Locks, NoLocals
    <3>2. CASE Unsubscribe(c)
      BY <1>1, <1>4, <3>2 DEF Unsubscribe, Locks
    <3>3. QED BY <1>9, <3>1, <3>2
  <2> HIDE DEF k
  <2>3. QED BY <2>1, <2>2, SentAsks
<1>10. CASE SendCustom(c)
  <2> DEFINE k == [call[c] EXCEPT !.pc = "custom", !.msgId = nextId]
  <2>1. k \in Call /\ k.pc = "custom" /\ k.op = call[c].op
    BY <1>1 DEF Call
  <2>2. /\ call' = [call EXCEPT ![c] = k]
        /\ call[c].pc = "lock" /\ holder = 0 /\ call[c].op = "custom"
        /\ UNCHANGED <<loc, server, hist>>
    BY <1>1, <1>10 DEF SendCustom, Locks
  <2>3. /\ net'.down = net.down /\ net'.up = net.up \cup {Request(call[c].op, c)}
        /\ net'.open \in {TRUE, net.open}
    BY <1>4, <1>10 DEF SendCustom, Locks
  <2> HIDE DEF k
  <2>4. QED BY <1>1, <2>1, <2>2, <2>3, SentAsks
<1>11. CASE Canceled(c)
  BY <1>11, SentEnds DEF Canceled, Quiet
<1>12. CASE ReadsAck(c)
  <2>1. PICK m \in loc.got :
          /\ m.kind = "ack"
          /\ \/ /\ call[c].op = "subscribe"
                /\ call' = [call EXCEPT ![c].pc = "subscribed", ![c].subId = TRUE]
                /\ loc' = [loc EXCEPT !.got = loc.got \ {m}]
                /\ Took(c, m)
                /\ UNCHANGED <<closed, holder, msgCbs, nextId, peer, net, server>>
             \/ call[c].op = "unsubscribe" /\ Ends(c, TRUE)
    BY <1>12 DEF ReadsAck
  <2>2. call[c].pc = "ack" /\ call[c].pc \notin Quiet /\ holder = c /\ m.call = c
    BY <1>12, <2>1 DEF ReadsAck, Quiet, OwnInv, Holds, Acked
  <2>3. CASE call[c].op = "unsubscribe" /\ Ends(c, TRUE)
    BY <2>2, <2>3, SentEnds
  <2>4. CASE /\ call[c].op = "subscribe"
             /\ call' = [call EXCEPT ![c].pc = "subscribed", ![c].subId = TRUE]
             /\ loc' = [loc EXCEPT !.got = loc.got \ {m}]
             /\ Took(c, m)
             /\ UNCHANGED <<closed, holder, msgCbs, nextId, peer, net, server>>
    <3> DEFINE k == [call[c] EXCEPT !.pc = "subscribed", !.subId = TRUE]
    <3>1. k \in Call /\ k.pc = "subscribed" /\ k.op = "subscribe" /\ k.subId
      BY <1>1, <2>4 DEF Call
    <3>2. call' = [call EXCEPT ![c] = k]
      BY <1>1, <2>4
    <3>3. /\ "on" \in DOMAIN loc' /\ loc'.on = loc.on
          /\ loc'.got = loc.got \ {m}
      BY <1>1, <2>4
    <3> HIDE DEF k
    <3>4. Request("subscribe", c) \notin net.up
      <4>1. m \in Msg /\ m.n = 0
        BY <2>1 DEF OwnInv, OwnType, SentInv, Asked
      <4>2. m = Message("ack", c, 0)
        BY <2>1, <2>2, <4>1 DEF Message, Msg
      <4>3. QED BY <2>1, <4>2 DEF SentInv, Subscribed
    <3>5. \A e \in Expects(c)' : /\ e \in Expects(c) /\ e # "ack" /\ e \in loc'.on
                                 /\ Message(e, c, 0) \in loc.got
                                    => Message(e, c, 0) \in loc'.got
      <4>1. call'[c] = k
        BY <1>1, <3>2
      <4>2. \A e \in Expects(c)' : e \in Expects(c) /\ e # "ack"
        BY <2>2, <2>4, <3>1, <4>1 DEF Expects
      <4>3. \A e : e # "ack" => Message(e, c, 0) # m
        BY <2>1, MessageIs
      <4>4. QED BY <3>3, <4>2, <4>3 DEF SentInv, Answered
    <3>6. k.pc \in Subscribing /\ hist'.cut = hist.cut
          /\ \A d \in Caller : d # c => hist'.took[d] = hist.took[d]
      BY <1>5, <2>4, <3>1 DEF Subscribing
    <3>7. QED BY <2>2, <2>4, <3>1, <3>2, <3>3, <3>4, <3>5, <3>6, SentMoves
  <2>5. QED BY <2>1, <2>3, <2>4
<1>13. CASE ReadsSubscribed(c)
  <2>1. call[c].pc = "subscribed" /\ call[c].pc \notin Quiet /\ call[c].pc \in Subscribing
    BY <1>13 DEF ReadsSubscribed, Quiet, Subscribing
  <2>2. PICK n \in 0..MaxTracks :
          IF n = 0 THEN Ends(c, TRUE)
          ELSE /\ Goes(c, "sdp")
               /\ loc' = [Released(loc, "subscribed") EXCEPT
                             !.on = @ \cup {"track"}, !.tracks = n, !.uncompleted = 1..n]
               /\ \E m : Took(c, m)
               /\ UNCHANGED <<net, server>>
    BY <1>13 DEF ReadsSubscribed
  <2>3. CASE n = 0
    BY <2>1, <2>2, <2>3, SentEnds
  <2>4. CASE n # 0
    <3>1. /\ "on" \in DOMAIN loc' /\ loc'.on = (loc.on \ {"subscribed"}) \cup {"track"}
          /\ loc'.got = {m \in loc.got : m.kind # "subscribed"}
      BY <1>1, <2>2, <2>4 DEF Released
    <3>2. "sdp" \in Subscribing
      BY DEF Subscribing
    <3>3. \A e \in Expects(c)' : e \in Expects(c) /\ e = "sdp"
      BY <1>7, <2>1, <2>2, <2>4, <3>2 DEF Expects
    <3>4. \A e \in Expects(c)' : /\ e \in loc'.on
                                 /\ Message(e, c, 0) \in loc.got
                                    => Message(e, c, 0) \in loc'.got
      BY <3>1, <3>3, MessageIs DEF SentInv, Answered
    <3>5. QED BY <1>6, <2>1, <2>2, <2>4, <3>1, <3>2, <3>3, <3>4
  <2>5. QED BY <2>3, <2>4
<1>14. ASSUME call[c].pc \in Subscribing, NEW p \in {"flush", "state", "tracks", "bind"},
              Goes(c, p), UNCHANGED <<net, server>>, hist' = hist \/ \E m : Took(c, m),
              "on" \in DOMAIN loc', loc'.got \subseteq loc.got
       PROVE SentInv'
  <2>1. p \in Subscribing
    BY DEF Subscribing
  <2>2. Expects(c)' = {}
    BY <1>7, <1>14, <2>1 DEF Expects
  <2>3. QED BY <1>6, <1>14, <2>1, <2>2
<1>15. CASE ReadsSdp(c)
  <2>1. "on" \in DOMAIN loc' /\ loc'.got \subseteq loc.got
    BY <1>1, <1>15 DEF ReadsSdp, Released
  <2>2. call[c].pc \in Subscribing /\ Goes(c, "flush") /\ UNCHANGED <<net, server>>
        /\ \E m : Took(c, m)
    BY <1>15 DEF ReadsSdp, Subscribing
  <2>3. QED BY <1>14, <2>1, <2>2
<1>16. CASE Flush(c) \/ ReadsTracks(c)
  <2>1. loc' = loc \/ loc' = [loc EXCEPT !.cands = {}, !.remoted = TRUE]
    BY <1>16 DEF Flush, ReadsTracks
  <2>2. "on" \in DOMAIN loc' /\ loc'.got \subseteq loc.got
    BY <1>1, <2>1
  <2>3. /\ call[c].pc \in Subscribing /\ (Goes(c, "state") \/ Goes(c, "bind"))
        /\ UNCHANGED <<net, server, hist>>
    BY <1>16 DEF Flush, ReadsTracks, Subscribing
  <2>4. QED BY <1>14, <2>2, <2>3
<1>17. CASE ReadsState(c)
  <2>1. call[c].pc \in Subscribing /\ call[c].pc \notin Quiet
    BY <1>17 DEF ReadsState, Subscribing, Quiet
  <2>2. \/ Ends(c, FALSE)
        \/ /\ Goes(c, "tracks") /\ UNCHANGED <<net, server, hist>>
           /\ \E s : loc' = [loc EXCEPT !.states = loc.states \ {s}]
    BY <1>17 DEF ReadsState
  <2>3. (\E s : loc' = [loc EXCEPT !.states = loc.states \ {s}]) =>
           "on" \in DOMAIN loc' /\ loc'.got \subseteq loc.got
    BY <1>1
  <2>4. QED BY <1>14, <2>1, <2>2, <2>3, SentEnds
<1>18. CASE BindsTracks(c)
  BY <1>18, SentEnds DEF BindsTracks, Quiet
<1>19. CASE ReadsCustomAck(c)
  BY <1>19, SentEnds DEF ReadsCustomAck, Quiet
<1>20. ASSUME NEW kind \in {"subscribed", "sdp"}, Skips(c, kind) PROVE SentInv'
  <2>1. PICK m \in loc.got : m.call # c /\ loc' = [loc EXCEPT !.got = loc.got \ {m}]
    BY <1>20 DEF Skips, Own
  <2>2. /\ "on" \in DOMAIN loc' /\ loc'.on = loc.on /\ loc'.got = loc.got \ {m}
        /\ UNCHANGED <<call, net, server, hist>> /\ call[c].pc = kind
    BY <1>1, <1>20, <2>1 DEF Skips
  <2>3. \A d \in Caller : d # c => Expects(d) = {}
    BY <2>2 DEF OwnInv, Holds, Quiet, Expects
  <2>4. \A e : Message(e, c, 0) # m
    BY <2>1, MessageIs
  <2>5. QED BY <2>2, <2>3, <2>4, SentRests
<1>21. QED
  BY <1>8, <1>9, <1>10, <1>11, <1>12, <1>13, <1>15, <1>16, <1>17, <1>18, <1>19, <1>20 DEF Steps

LEMMA SentBegins ==
    ASSUME OwnInv, SentInv, NEW c \in Caller, NEW o \in {"subscribe", "unsubscribe", "custom"},
           NEW u \in {0, c}, Begin(c, o, u)
    PROVE SentInv'
<1> DEFINE k == [call[c] EXCEPT !.pc = "lock", !.op = o, !.uses = u]
<1>1. /\ call[c] \in Call /\ call[c].pc = "idle"
      /\ UNCHANGED <<net, loc, server, hist>>
      /\ call' = [call EXCEPT ![c] = k]
  BY DEF OwnInv, OwnType, Begin, Fresh
<1>2. k \in Call /\ k.pc = "lock"
  BY <1>1 DEF Call
<1> HIDE DEF k
<1>3. QED BY <1>1, <1>2, SentQuiet

LEMMA SentSends ==
    ASSUME OwnInv, SentInv, NEW c \in Caller, SendNoAck(c)
    PROVE SentInv'
<1> DEFINE r0 == Request("no-ack", c)
<1>1. /\ call'[c].pc = "done" /\ call'[c].op = "no-ack" /\ call[c].pc = "idle"
      /\ \A d \in Caller : d # c => call'[d] = call[d]
      /\ UNCHANGED <<loc, server, hist>>
  BY DEF SendNoAck, Fresh, OwnInv, OwnType, Call
<1>2. net'.down = net.down /\ net'.open /\ net'.up = net.up \cup {r0}
  BY DEF SendNoAck, OwnInv, OwnType, Net
<1>3. r0.call = c /\ r0.op = "no-ack" /\ \A d : r0 # Request("subscribe", d)
  BY RequestIs
<1> HIDE DEF r0
<1>4. \A r \in net.up \cup net.down \cup loc.got : r.call \in Caller /\ r.call # c
  <2>1. \A r \in net.up : r.call \in Caller /\ r.call # c
    BY <1>1 DEF SentInv, Asked, OwnInv, OwnType, Net, Req
  <2>2. \A m \in net.down \cup loc.got : m.call \in Caller /\ m.call # c
    BY <1>1 DEF SentInv, Asked, OwnInv, OwnType, Net, Msg
  <2>3. QED BY <2>1, <2>2
<1>5. \A d \in Caller : Expects(d)' = Expects(d)
  BY <1>1 DEF Expects
<1>6. Answered'
  BY <1>1, <1>2, <1>5 DEF SentInv, Answered, Told
<1>7. Asked'
  <2>1. \A r \in net.up \cup net.down \cup loc.got : call'[r.call] = call[r.call]
    BY <1>1, <1>4
  <2>2. \A r \in net'.up :
          /\ call'[r.call].pc \notin {"idle", "lock"}
          /\ r.op = call'[r.call].op \/ (r.op = "unsubscribe" /\ call'[r.call].pc = "done")
    BY <1>1, <1>2, <1>3, <2>1 DEF SentInv, Asked
  <2>3. \A m \in net'.down \cup loc'.got :
          call'[m.call].pc \notin {"idle", "lock"} /\ (m.kind = "ack" => m.n = 0)
    BY <1>1, <1>2, <2>1 DEF SentInv, Asked
  <2>4. QED BY <2>2, <2>3 DEF Asked
<1>8. hist.took[c] = {} /\ Message("ack", c, 0) \notin net.down \cup loc.got
  BY <1>1, <1>4, MessageIs DEF SentInv, Subscribed, Subscribing
<1>9. Subscribed'
  <2>1. \A d \in Caller : Request("subscribe", d) \in net'.up => Request("subscribe", d) \in net.up
    BY <1>2, <1>3
  <2>2. QED BY <1>1, <1>2, <1>8, <2>1 DEF SentInv, Subscribed, Subscribing, Quiet
<1>10. NoOrphan'
  BY <1>1, <1>2, <1>8 DEF SentInv, NoOrphan
<1>11. QED BY <1>1, <1>6, <1>7, <1>9, <1>10 DEF SentInv

\* A message that a call expects goes into its channel.
LEMMA SentDelivers ==
    ASSUME OwnInv, SentInv, Delivers
    PROVE SentInv'
<1>1. PICK m \in net.down : Hears(m) /\ net' = [net EXCEPT !.down = net.down \ {m}]
  BY DEF Delivers
<1>2. /\ net \in Net /\ hist \in Hist /\ m \in Msg /\ UNCHANGED <<call, server>>
      /\ {"on", "got"} \subseteq DOMAIN loc
  BY <1>1 DEF Delivers, OwnInv, OwnType, Net, SentInv
<1>3. net'.up = net.up /\ net'.open = net.open /\ net'.down = net.down \ {m}
  BY <1>1, <1>2 DEF Net
<1>4. hist'.took = hist.took /\ hist'.cut = hist.cut
  <2>1. \/ hist' = hist \/ hist' = [hist EXCEPT !.heard = hist.heard \cup {m}]
        \/ \E a : hist' = [hist EXCEPT !.acked = a]
    BY <1>1, <1>2 DEF Hears, ProcessMsgCbs, Msg, Kind
  <2>2. QED BY <1>2, <2>1 DEF Hist
<1>5. \/ loc' = loc
      \/ loc' = [loc EXCEPT !.got = loc.got \cup {m}]
      \/ loc' = [loc EXCEPT !.cands = loc.cands \cup {m}]
  BY <1>1, <1>2 DEF Hears, Msg, Kind
<1>6. /\ "on" \in DOMAIN loc' /\ loc'.on = loc.on
      /\ loc.got \subseteq loc'.got /\ loc'.got \subseteq loc.got \cup {m}
  BY <1>2, <1>5
<1>7. \A c \in Caller : \A e \in Expects(c) : m = Message(e, c, 0) => m \in loc'.got
  <2> SUFFICES ASSUME NEW c \in Caller, NEW e \in Expects(c), m = Message(e, c, 0)
               PROVE m \in loc'.got
    OBVIOUS
  <2>1. m.kind = e /\ m.call = c
    BY MessageIs
  <2>2. CASE e = "ack"
    BY <1>1, <1>2, <2>1, <2>2 DEF Hears, Expects
  <2>3. CASE e # "ack"
    <3>1. e \in loc.on /\ e \in {"subscribed", "sdp"}
      BY <2>3 DEF SentInv, Answered, Expects
    <3>2. QED BY <1>1, <1>2, <2>1, <3>1 DEF Hears
  <2>4. QED BY <2>2, <2>3
<1>8. \A c \in Caller : Expects(c)' = Expects(c)
  BY <1>2 DEF Expects
<1>9. Answered'
  BY <1>3, <1>4, <1>6, <1>7, <1>8 DEF SentInv, Answered, Told
<1>10. net'.down \cup loc'.got \subseteq net.down \cup loc.got
  BY <1>1, <1>3, <1>6
<1>11. Asked' /\ Subscribed'
  BY <1>2, <1>3, <1>4, <1>10 DEF SentInv, Asked, Subscribed
<1>12. NoOrphan'
  BY <1>2, <1>3, <1>4 DEF SentInv, NoOrphan
<1>13. QED BY <1>2, <1>6, <1>9, <1>11, <1>12 DEF SentInv

\* The server answers what the request is for; it keeps a subscription until it
\* is asked to remove it.
LEMMA SentServes ==
    ASSUME OwnInv, SentInv, Serves
    PROVE SentInv'
<1>1. PICK r \in net.up :
        /\ net' = [net EXCEPT !.up = net.up \ {r}, !.down = net.down \cup Answers(r)]
        /\ server' = CASE r.op = "subscribe" -> server \cup {r.call}
                       [] r.op = "unsubscribe" ->
                             server \ {IF call[r.call].op = "subscribe" THEN r.call ELSE Target}
                       [] r.op \in {"custom", "no-ack"} -> server
  BY DEF Serves
<1>2. /\ net \in Net /\ hist \in Hist /\ r \in Req /\ UNCHANGED <<call, loc, hist>>
  BY <1>1 DEF Serves, OwnInv, OwnType, Net
<1>3. /\ net'.up = net.up \ {r} /\ net'.down = net.down \cup Answers(r) /\ net'.open = net.open
      /\ hist'.took = hist.took /\ hist'.cut = hist.cut
  BY <1>1, <1>2 DEF Net, Hist
<1>4. \A m \in Answers(r) : /\ m.call = r.call
                            /\ m.kind = "ack" => m.n = 0 /\ r.op \in {"subscribe", "unsubscribe"}
  BY <1>2, MessageIs DEF Answers, Req
<1>5. /\ call[r.call].pc \notin {"idle", "lock"}
      /\ r.op = call[r.call].op \/ (r.op = "unsubscribe" /\ call[r.call].pc = "done")
  BY <1>1 DEF SentInv, Asked
<1>6. \A c \in Caller : \A e \in Expects(c) : r.call = c => Message(e, c, 0) \in Answers(r)
  <2> SUFFICES ASSUME NEW c \in Caller, NEW e \in Expects(c), r.call = c
               PROVE Message(e, c, 0) \in Answers(r)
    OBVIOUS
  <2>1. r.op = call[c].op /\ call[c].op \in {"subscribe", "unsubscribe"}
        /\ (e # "ack" => call[c].op = "subscribe") /\ e \in {"ack", "subscribed", "sdp"}
    BY <1>2, <1>5 DEF Expects, OwnInv, Holds, Req
  <2>2. QED BY <2>1 DEF Answers
<1>7. \A c \in Caller : Expects(c)' = Expects(c)
  BY <1>2 DEF Expects
<1>8. Answered'
  <2> SUFFICES ASSUME NEW c \in Caller, NEW e \in Expects(c), c \notin hist.cut
               PROVE Told(c, e)'
    BY <1>2, <1>3, <1>7 DEF SentInv, Answered
  <2>1. Told(c, e)
    BY DEF SentInv, Answered
  <2>2. CASE r.call = c
    BY <1>3, <1>6, <2>2 DEF Told
  <2>3. CASE r.call # c
    BY <1>2, <1>3, <2>1, <2>3 DEF Told
  <2>4. QED BY <2>2, <2>3
<1>9. Asked'
  BY <1>2, <1>3, <1>4, <1>5 DEF SentInv, Asked
<1>10. Subscribed'
  <2>1. \A c \in Caller : Message("ack", c, 0) \in Answers(r) => Request("subscribe", c) \notin net'.up
    <3> SUFFICES ASSUME NEW c \in Caller, Message("ack", c, 0) \in Answers(r),
                        Request("subscribe", c) \in net'.up
                 PROVE FALSE
      OBVIOUS
    <3>1. r.call = c /\ r.op \in {"subscribe", "unsubscribe"}
      BY <1>4, MessageIs
    <3>2. Request("subscribe", c) \in net.up /\ Request("subscribe", c) # r
      BY <1>3
    <3>3. call[c].op = "subscribe"
      BY <3>2, RequestIs DEF SentInv, Asked
    <3>4. r.op # "subscribe"
      BY <1>2, <3>1, <3>2 DEF Req, Request
    <3>5. QED BY <3>1, <3>3, <3>4 DEF Answers
  <2>2. QED BY <1>2, <1>3, <2>1 DEF SentInv, Subscribed
<1>11. server' \subseteq Caller
  BY <1>1, <1>2 DEF SentInv, Req
<1>12. NoOrphan'
  <2> SUFFICES ASSUME NEW c \in server', call[c].pc = "done", ~ call[c].result,
                      hist.took[c] # {}, c \notin hist.cut, c \in Caller
               PROVE Request("unsubscribe", c) \in net'.up
    BY <1>2, <1>3, <1>11 DEF NoOrphan
  <2>1. call[c].op = "subscribe" /\ Request("subscribe", c) \notin net.up
    BY DEF SentInv, Subscribed
  <2>2. ~ (r.op = "subscribe" /\ r.call = c)
    <3>1. r.op = "subscribe" /\ r.call = c => r = Request("subscribe", c)
      BY <1>2 DEF Req, Request
    <3>2. QED BY <1>1, <2>1, <3>1
  <2>3. c \in server /\ ~ (r.op = "unsubscribe" /\ r.call = c)
    BY <1>1, <1>2, <2>1, <2>2 DEF Req
  <2>4. Request("unsubscribe", c) \in net.up
    BY <2>3 DEF SentInv, NoOrphan
  <2>5. QED BY <1>3, <2>3, <2>4, RequestIs
<1>13. QED BY <1>2, <1>8, <1>9, <1>10, <1>11, <1>12 DEF SentInv

\* What is on its way is gone with the socket, and so is every claim on it.
LEMMA SentCut ==
    ASSUME OwnInv, SentInv, SocketCloses
    PROVE SentInv'
<1> DEFINE cut == {c \in Caller : call[c].pc \notin {"idle", "lock"}}
<1>1. net' = [net EXCEPT !.open = FALSE, !.up = {}, !.down = {}]
      /\ hist' = [hist EXCEPT !.cut = hist.cut \cup cut] /\ UNCHANGED <<call, loc, server>>
      /\ server \subseteq Caller
  BY DEF SocketCloses, SentInv
<1>2. /\ net'.up = {} /\ net'.down = {}
      /\ hist'.took = hist.took /\ hist'.cut = hist.cut \cup cut
  BY <1>1 DEF OwnInv, OwnType, Net, Hist
<1>3. \A c \in Caller : Expects(c)' = Expects(c) /\ (Expects(c) # {} => c \in cut)
  BY <1>1 DEF Expects
<1>4. Answered'
  BY <1>1, <1>2, <1>3 DEF SentInv, Answered
<1>5. Asked'
  BY <1>1, <1>2 DEF SentInv, Asked
<1>6. Subscribed'
  BY <1>1, <1>2 DEF SentInv, Subscribed, Quiet
<1>7. NoOrphan'
  BY <1>1, <1>2 DEF NoOrphan
<1>8. QED BY <1>1, <1>4, <1>5, <1>6, <1>7 DEF SentInv

LEMMA SentStep ==
    ASSUME OwnInv, SentInv, [Next]_vars
    PROVE SentInv'
<1>1. ASSUME UNCHANGED <<call, net, server, hist>>, "on" \in DOMAIN loc', loc'.on = loc.on,
             loc'.got = loc.got
      PROVE SentInv'
  BY <1>1, SentRests
<1>2. "on" \in DOMAIN loc /\ "got" \in DOMAIN loc
  BY DEF OwnInv, OwnType, SentInv
<1>3. CASE UNCHANGED vars
  BY <1>1, <1>2, <1>3 DEF vars
<1>4. ASSUME NEW k \in Caller \cup {0}, Closes(k) PROVE SentInv'
  BY <1>1, <1>2, <1>4 DEF Closes
<1>5. ASSUME NEW s, PeerChanges(s) PROVE SentInv'
  <2>1. loc' = loc \/ loc' = [loc EXCEPT !.states = loc.states \cup {s}]
    BY <1>5 DEF PeerChanges
  <2>2. QED BY <1>1, <1>2, <1>5, <2>1 DEF PeerChanges
<1>6. ASSUME NEW t, TrackComes(t) PROVE SentInv'
  <2>1. "on" \in DOMAIN loc' /\ loc'.on = loc.on /\ loc'.got = loc.got
    BY <1>2, <1>6 DEF TrackComes
  <2>2. QED BY <1>1, <1>6, <2>1 DEF TrackComes
<1>7. QED
  BY <1>3, <1>4, <1>5, <1>6, SentSteps, SentBegins, SentSends, SentDelivers, SentServes, SentCut DEF Next

LEMMA SentStarts == Init => SentInv
<1> SUFFICES ASSUME Init PROVE SentInv
  OBVIOUS
<1>1. \A c \in Caller : call[c].pc = "idle" /\ hist.took[c] = {} /\ call[c].op = "none"
  BY DEF Init
<1>2. net.up = {} /\ net.down = {} /\ server = {}
  BY DEF Init
<1>3. "on" \in DOMAIN loc /\ loc.got = {}
  BY DEF Init, NoLocals
<1>4. \A c \in Caller : Expects(c) = {}
  BY <1>1 DEF Expects
<1>5. Answered /\ Asked /\ NoOrphan
  BY <1>2, <1>3, <1>4 DEF Answered, Asked, NoOrphan
<1>6. Subscribed
  BY <1>1, <1>2, <1>3 DEF Subscribed, Subscribing
<1>7. QED BY <1>2, <1>3, <1>5, <1>6 DEF SentInv

LEMMA SentAlways == Spec => [](OwnInv /\ SentInv)
<1>1. OwnInv /\ SentInv /\ [Next]_vars => OwnInv' /\ SentInv'
  BY OwnStep, SentStep
<1>2. QED BY <1>1, OwnStarts, SentStarts, PTL DEF Spec

\* While the socket stays open, what a call waits for is on its way or in its
\* channel, in whatever order the answers come and whatever else is late.
THEOREM NoAnswerLostEver == Spec => []NoAnswerLost
<1>1. OwnInv /\ SentInv => NoAnswerLost
  <2> SUFFICES ASSUME OwnInv, SentInv, NEW c \in Caller,
                      call[c].pc \in {"ack", "subscribed", "sdp"}, c \notin hist.cut
               PROVE Told(c, call[c].pc)
    BY DEF NoAnswerLost, Told
  <2>1. call[c].pc \in Expects(c)
    BY DEF OwnInv, Holds, Subscribing, Expects
  <2>2. QED BY <2>1 DEF SentInv, Answered
<1>2. QED BY <1>1, SentAlways, PTL

\* The server keeps the subscription of a call that failed only when that call
\* never read its id, or the socket was closed.
THEOREM NoOrphanEver == Spec => []NoOrphan
<1>1. SentInv => NoOrphan
  BY DEF SentInv
<1>2. QED BY <1>1, SentAlways, PTL
----------------------------------------------------------------------------
(* What CandidatesOnce rests on *)

Cand == [kind : {"candidate"}, call : Caller, n : 1..MaxCands]
Key == [call : Caller, n : 1..MaxCands]
KeyOf(m) == [call |-> m.call, n |-> m.n]
Added(m) == peer.cands[KeyOf(m)]
Flushed == {"state", "tracks", "bind"}

CandType ==
    /\ {"on", "cands", "remoted"} \subseteq DOMAIN loc
    /\ loc.remoted \in BOOLEAN /\ loc.cands \subseteq Cand
    /\ {"cands", "remote"} \subseteq DOMAIN peer
    /\ peer.cands \in [Key -> Nat]
    /\ hist.heard \subseteq Cand
    /\ \A m \in net.down : m.kind = "candidate" => m \in Cand

\* A candidate is in one place: still to be asked for, with the server, on its
\* way, in the cache, or added.
Once ==
    \A m \in Cand :
        /\ Added(m) <= 1
        /\ Request("subscribe", m.call) \in net.up =>
              m \notin net.down \cup loc.cands /\ Added(m) = 0
        /\ m \in net.down => m \notin loc.cands /\ Added(m) = 0
        /\ m \in loc.cands => Added(m) = 0
        /\ call[m.call].pc \in {"idle", "lock"} => m \notin loc.cands /\ Added(m) = 0
        /\ m.call = holder /\ Added(m) = 1 => loc.remoted
        /\ m \in hist.heard => m \in loc.cands \/ Added(m) = 1

\* The flush empties the cache for good, when there is a description; who does
\* not have the mutex leaves nothing behind.
Staged ==
    /\ loc.remoted => loc.cands = {} /\ holder \in peer.remote
    /\ \A c \in Caller : /\ call[c].pc \in Flushed => loc.remoted
                         /\ call[c].pc = "flush" => c \in peer.remote
    /\ holder = 0 => loc.on = {} /\ loc.cands = {} /\ hist.heard = {} /\ ~ loc.remoted

CandInv == CandType /\ Once /\ Staged

LEMMA CandIs ==
    /\ \A m \in Cand : /\ m \in Msg /\ m.call \in Caller
                       /\ KeyOf(m) \in Key
    /\ \A m1, m2 \in Cand : KeyOf(m1) = KeyOf(m2) => m1 = m2
<1>1. \A m \in Cand : /\ m \in Msg /\ m.call \in Caller
                      /\ KeyOf(m) \in Key
  BY DEF Cand, Msg, Kind, Key, KeyOf
<1>2. ASSUME NEW m1 \in Cand, NEW m2 \in Cand, KeyOf(m1) = KeyOf(m2) PROVE m1 = m2
  <2>1. m1.call = m2.call /\ m1.n = m2.n
    BY <1>2 DEF KeyOf
  <2>2. QED BY <2>1 DEF Cand
<1>3. QED BY <1>1, <1>2

\* What adding candidates to the peer counts.
LEMMA AddCounts ==
    ASSUME NEW p, {"cands", "remote"} \subseteq DOMAIN p,
           p.cands \in [Key -> Nat],
           NEW ms \in SUBSET Cand
    PROVE /\ {"cands", "remote"} \subseteq DOMAIN AddTo(p, ms) /\ AddTo(p, ms).remote = p.remote
          /\ AddTo(p, ms).cands \in [Key -> Nat]
          /\ \A m \in Cand : AddTo(p, ms).cands[KeyOf(m)] =
                p.cands[KeyOf(m)] + (IF m \in ms THEN 1 ELSE 0)
<1> DEFINE of(k) == {m \in ms : m.call = k.call /\ m.n = k.n}
           added == [k \in DOMAIN p.cands |-> p.cands[k] + Cardinality(of(k))]
<1>1. \A m \in Cand : of(KeyOf(m)) = IF m \in ms THEN {m} ELSE {}
  <2> SUFFICES ASSUME NEW m \in Cand
               PROVE of(KeyOf(m)) = IF m \in ms THEN {m} ELSE {}
    OBVIOUS
  <2>1. \A x \in ms : x.call = KeyOf(m).call /\ x.n = KeyOf(m).n <=> x = m
    BY DEF Cand, KeyOf
  <2>2. QED BY <2>1
<1>2. \A m \in Cand : Cardinality(of(KeyOf(m))) = IF m \in ms THEN 1 ELSE 0
  BY <1>1, FS_EmptySet, FS_Singleton
<1>3. \A k \in Key :
        \E m \in Cand : k = KeyOf(m)
  <2> SUFFICES ASSUME NEW k \in Key
               PROVE \E m \in Cand : k = KeyOf(m)
    OBVIOUS
  <2> DEFINE m == [kind |-> "candidate", call |-> k.call, n |-> k.n]
  <2>1. m \in Cand /\ k = KeyOf(m)
    BY DEF Cand, Key, KeyOf
  <2>2. QED BY <2>1
<1>4. \A k \in Key : Cardinality(of(k)) \in Nat
  BY <1>2, <1>3
<1> HIDE DEF of
<1>5. /\ added \in [Key -> Nat]
      /\ \A k \in Key : added[k] = p.cands[k] + Cardinality(of(k))
  <2>1. DOMAIN p.cands = Key /\ \A k \in Key : p.cands[k] + Cardinality(of(k)) \in Nat
    BY <1>4
  <2>2. QED BY <2>1
<1>6. AddTo(p, ms) = [p EXCEPT !.cands = added]
  BY DEF AddTo, of
<1> HIDE DEF added
<1>7. QED BY <1>2, <1>5, <1>6, CandIs

\* A call moves on; the cache, the peer's candidates and the socket stay.
LEMMA CandMoves ==
    ASSUME CandInv, call \in [Caller -> Call], NEW c \in Caller, NEW k \in Call,
           call' = [call EXCEPT ![c] = k],
           k.pc \in {"idle", "lock"} => call[c].pc \in {"idle", "lock"},
           k.pc \in Flushed => call[c].pc \in Flushed,
           k.pc = "flush" => c \in peer'.remote,
           UNCHANGED <<holder, net>>, hist'.heard = hist.heard,
           {"cands", "remote"} \subseteq DOMAIN peer',
           peer'.cands = peer.cands, peer.remote \subseteq peer'.remote,
           {"on", "cands", "remoted"} \subseteq DOMAIN loc',
           loc'.cands = loc.cands, loc'.remoted = loc.remoted, holder = 0 => loc'.on = {}
    PROVE CandInv'
<1>1. call'[c] = k /\ \A d \in Caller : d # c => call'[d] = call[d]
  OBVIOUS
<1>2. CandType'
  BY DEF CandInv, CandType
<1>3. \A m \in Cand : Added(m)' = Added(m)
  BY DEF Added
<1>4. \A d \in Caller : call'[d].pc \in {"idle", "lock"} => call[d].pc \in {"idle", "lock"}
  BY <1>1
<1>5. Once'
  BY <1>3, <1>4, CandIs DEF CandInv, Once
<1>6. Staged'
  BY <1>1 DEF CandInv, Staged
<1>7. QED BY <1>2, <1>5, <1>6 DEF CandInv

\* No call moves, and neither do candidates.
LEMMA CandRests ==
    ASSUME CandInv, UNCHANGED <<call, holder, net>>, hist'.heard = hist.heard,
           {"cands", "remote"} \subseteq DOMAIN peer',
           peer'.cands = peer.cands, peer'.remote = peer.remote,
           {"on", "cands", "remoted"} \subseteq DOMAIN loc',
           loc'.on = loc.on, loc'.cands = loc.cands, loc'.remoted = loc.remoted
    PROVE CandInv'
<1>1. CandType'
  BY DEF CandInv, CandType
<1>2. \A m \in Cand : Added(m)' = Added(m)
  BY DEF Added
<1>3. Once'
  BY <1>2 DEF CandInv, Once
<1>4. Staged'
  BY DEF CandInv, Staged
<1>5. QED BY <1>1, <1>3, <1>4 DEF CandInv

\* A call takes the mutex and sends its request: no candidate of it is anywhere.
LEMMA CandAsks ==
    ASSUME OwnInv, SentInv, CandInv, NEW c \in Caller, NEW k \in Call,
           call' = [call EXCEPT ![c] = k], holder = 0, holder' = c, call[c].pc = "lock",
           k.pc \in {"ack", "custom"}, k.op = call[c].op,
           net'.down = net.down, net'.up = net.up \cup {Request(k.op, c)},
           UNCHANGED <<peer, hist>>,
           {"on", "cands", "remoted"} \subseteq DOMAIN loc',
           loc'.cands = {}, ~ loc'.remoted, loc'.remoted \in BOOLEAN
    PROVE CandInv'
<1>1. call'[c] = k /\ \A d \in Caller : d # c => call'[d] = call[d]
  BY DEF OwnInv, OwnType
<1>2. CandType'
  BY DEF CandInv, CandType
<1>3. \A m \in Cand : Added(m)' = Added(m)
  BY DEF Added
<1>4. loc.cands = {} /\ hist.heard = {} /\ holder = 0 /\ c # 0
  BY DEF CandInv, Staged
<1>5. \A m \in Cand : m.call = c => Added(m) = 0 /\ m \notin net.down
  BY DEF CandInv, Once, SentInv, Asked
<1>6. \A d \in Caller : d # c /\ Request("subscribe", d) \in net'.up
                        => Request("subscribe", d) \in net.up
  BY RequestIs
<1>7. \A d \in Caller : call'[d].pc \in {"idle", "lock"} => call[d].pc \in {"idle", "lock"}
  BY <1>1
<1>8. Once'
  <2> SUFFICES ASSUME NEW m \in Cand PROVE Once!(m)'
    BY DEF Once
  <2>1. CASE m.call = c
    BY <1>1, <1>3, <1>4, <1>5, <2>1 DEF CandInv, Once
  <2>2. CASE m.call # c
    BY <1>3, <1>4, <1>6, <1>7, <2>2, CandIs DEF CandInv, Once
  <2>3. QED BY <2>1, <2>2
<1>9. Staged'
  BY <1>1, <1>4 DEF CandInv, Staged, Flushed
<1>10. QED BY <1>2, <1>8, <1>9 DEF CandInv

\* A call ends, and what it kept is gone.
LEMMA CandEnds ==
    ASSUME OwnInv, CandInv, NEW c \in Caller, NEW ok \in BOOLEAN, Ends(c, ok),
           call[c].pc \notin Quiet
    PROVE CandInv'
<1>1. /\ call'[c].pc = "done" /\ holder' = 0
      /\ \A d \in Caller : d # c => call'[d] = call[d] /\ call[d].pc \in Quiet
  BY DEF Ends, OwnInv, OwnType, Holds, Call
<1>2. /\ {"on", "cands", "remoted"} \subseteq DOMAIN loc'
      /\ loc'.on = {} /\ loc'.cands = {} /\ loc'.remoted = FALSE
  BY DEF Ends, NoLocals
<1>3. hist'.heard = {}
  BY DEF Ends, OwnInv, OwnType, Hist
<1>4. {"cands", "remote"} \subseteq DOMAIN peer' /\ peer'.cands = peer.cands
  BY DEF Ends, CandInv, CandType
<1>5. /\ net'.down = net.down
      /\ \A d \in Caller : Request("subscribe", d) \in net'.up
                           => Request("subscribe", d) \in net.up
  <2>1. /\ net'.down = net.down
        /\ net'.up \subseteq net.up \cup {Request("unsubscribe", c)}
    BY DEF Ends, OwnInv, OwnType, Net
  <2>2. QED BY <2>1, RequestIs
<1>6. CandType'
  BY <1>2, <1>3, <1>4, <1>5 DEF CandInv, CandType
<1>7. \A m \in Cand : Added(m)' = Added(m) /\ m.call \in Caller /\ m.call # 0
  BY <1>4, CandIs DEF Added
<1>8. \A d \in Caller : call'[d].pc \in {"idle", "lock"} => call[d].pc \in {"idle", "lock"}
  BY <1>1
<1>9. Once'
  BY <1>1, <1>2, <1>3, <1>5, <1>7, <1>8 DEF CandInv, Once
<1>10. Staged'
  BY <1>1, <1>2, <1>3 DEF Staged, Flushed, Quiet
<1>11. QED BY <1>6, <1>9, <1>10 DEF CandInv

\* The cache goes to the peer.
LEMMA CandFlush ==
    ASSUME OwnInv, CandInv, NEW c \in Caller, Flush(c)
    PROVE CandInv'
<1> DEFINE k == [call[c] EXCEPT !.pc = "state"]
<1>1. /\ k.pc = "state" /\ call[c].pc = "flush" /\ call' = [call EXCEPT ![c] = k]
      /\ UNCHANGED <<holder, net, hist>>
  BY DEF OwnInv, OwnType, Flush, Goes, Call
<1> HIDE DEF k
<1>2. call'[c] = k /\ \A d \in Caller : d # c => call'[d] = call[d]
  BY <1>1 DEF OwnInv, OwnType
<1>3. holder = c /\ c \in peer.remote
  BY <1>1 DEF OwnInv, Holds, Quiet, CandInv, Staged
<1>4. /\ {"on", "cands", "remoted"} \subseteq DOMAIN loc'
      /\ loc'.cands = {} /\ loc'.remoted = TRUE
  BY DEF Flush, CandInv, CandType
<1>5. /\ {"cands", "remote"} \subseteq DOMAIN peer' /\ peer'.remote = peer.remote
      /\ peer'.cands \in [Key -> Nat]
      /\ \A m \in Cand : Added(m)' = Added(m) + (IF m \in loc.cands THEN 1 ELSE 0)
  <2>1. /\ {"cands", "remote"} \subseteq DOMAIN peer /\ peer.cands \in [Key -> Nat]
        /\ loc.cands \in SUBSET Cand
    BY DEF CandInv, CandType
  <2>2. peer' = AddTo(peer, loc.cands)
    BY DEF Flush
  <2>3. QED BY <2>1, <2>2, AddCounts DEF Added
<1>6. CandType'
  BY <1>1, <1>4, <1>5 DEF CandInv, CandType
<1>7. \A m \in Cand : m \in loc.cands => Added(m) = 0 /\ m \notin net.down
                                         /\ Request("subscribe", m.call) \notin net.up
                                         /\ call[m.call].pc \notin {"idle", "lock"}
  BY DEF CandInv, Once
<1>8. \A d \in Caller : call'[d].pc \in {"idle", "lock"} => call[d].pc \in {"idle", "lock"}
  BY <1>1, <1>2
<1>9. Once'
  <2> SUFFICES ASSUME NEW m \in Cand PROVE Once!(m)'
    BY DEF Once
  <2>0. m.call \in Caller /\ Added(m) \in Nat
    BY CandIs DEF CandInv, CandType, Added
  <2>1. CASE m \in loc.cands
    BY <1>1, <1>4, <1>5, <1>7, <1>8, <2>0, <2>1
  <2>2. CASE m \notin loc.cands
    <3>1. Added(m)' = Added(m)
      BY <1>5, <2>0, <2>2
    <3>2. QED BY <1>1, <1>4, <1>8, <2>0, <2>2, <3>1 DEF CandInv, Once
  <2>3. QED BY <2>1, <2>2
<1>10. Staged'
  BY <1>1, <1>2, <1>3, <1>4, <1>5 DEF CandInv, Staged
<1>11. QED BY <1>6, <1>9, <1>10 DEF CandInv

LEMMA CandSteps ==
    ASSUME OwnInv, SentInv, CandInv, NEW c \in Caller, Steps(c)
    PROVE CandInv'
<1>1. /\ call \in [Caller -> Call] /\ call[c] \in Call /\ net \in Net /\ hist \in Hist
      /\ {"on", "got", "cands", "remoted"} \subseteq DOMAIN loc
      /\ {"cands", "remote"} \subseteq DOMAIN peer
      /\ loc.remoted \in BOOLEAN
  BY DEF OwnInv, OwnType, SentInv, CandInv, CandType
<1>2. \A p \in Quiet \cup Subscribing \cup {"ack", "custom"} :
        /\ [call[c] EXCEPT !.pc = p] \in Call
        /\ [call[c] EXCEPT !.pc = p].pc = p
        /\ [call[c] EXCEPT !.pc = p].op = call[c].op
  BY <1>1 DEF Call, Quiet, Subscribing
<1>3. \A p : Goes(c, p) => call' = [call EXCEPT ![c] = [call[c] EXCEPT !.pc = p]]
  BY <1>1 DEF Goes
<1>4. \A m : Took(c, m) => hist'.heard = hist.heard
  BY <1>1 DEF Took, Hist
<1>5. call[c].pc \notin Quiet => holder # 0
  BY DEF OwnInv, Holds
<1>6. holder = 0 => loc.on = {} /\ loc.cands = {} /\ ~ loc.remoted
  BY DEF CandInv, Staged
<1>7. ASSUME NEW p \in {"done"} \cup (Subscribing \ {"state"}), Goes(c, p), call[c].pc # "idle",
             p \in Flushed => call[c].pc \in Flushed,
             p = "flush" => c \in peer'.remote,
             UNCHANGED <<holder, net>>, hist' = hist \/ \E m : Took(c, m),
             {"cands", "remote"} \subseteq DOMAIN peer',
             peer'.cands = peer.cands, peer.remote \subseteq peer'.remote,
             {"on", "cands", "remoted"} \subseteq DOMAIN loc',
             loc'.cands = loc.cands, loc'.remoted = loc.remoted, holder = 0 => loc'.on = {}
      PROVE CandInv'
  <2>1. hist'.heard = hist.heard
    BY <1>4, <1>7
  <2>2. p \in Quiet \cup Subscribing \cup {"ack", "custom"} /\ p \notin {"idle", "lock"}
    BY DEF Quiet, Subscribing
  <2> DEFINE k == [call[c] EXCEPT !.pc = p]
  <2>3. k \in Call /\ k.pc = p /\ call' = [call EXCEPT ![c] = k]
    BY <1>2, <1>3, <1>7, <2>2
  <2> HIDE DEF k
  <2>4. QED BY <1>1, <1>7, <2>1, <2>2, <2>3, CandMoves
<1>8. CASE GivesUp(c)
  <2>1. /\ Goes(c, "done") /\ call[c].pc = "lock" /\ UNCHANGED <<holder, loc, peer, net, hist>>
    BY <1>8 DEF GivesUp
  <2>2. QED BY <1>1, <1>6, <1>7, <2>1 DEF Flushed
<1>9. CASE Subscribe(c) \/ Unsubscribe(c)
  <2> DEFINE k == [call[c] EXCEPT !.pc = "ack"]
  <2>1. /\ k \in Call /\ k.pc = "ack" /\ k.op = call[c].op
        /\ call' = [call EXCEPT ![c] = k]
        /\ call[c].pc = "lock" /\ holder = 0 /\ holder' = c
        /\ UNCHANGED <<peer, hist>>
    BY <1>2, <1>3, <1>9 DEF Subscribe, Unsubscribe, Locks
  <2> HIDE DEF k
  <2>2. CASE Subscribe(c)
    <3>1. net'.down = net.down /\ net'.up = net.up \cup {Request(k.op, c)}
      <4>1. /\ net' = [net EXCEPT !.open = TRUE, !.listen = c,
                                  !.up = net.up \cup {Request("subscribe", c)}]
            /\ k.op = "subscribe"
        BY <2>1, <2>2 DEF Subscribe, Locks
      <4>2. QED BY <1>1, <4>1 DEF Net
    <3>2. /\ {"on", "cands", "remoted"} \subseteq DOMAIN loc'
          /\ loc'.cands = {} /\ loc'.remoted = FALSE
      BY <2>2 DEF Subscribe, NoLocals
    <3>3. QED BY <2>1, <3>1, <3>2, CandAsks
  <2>3. CASE Unsubscribe(c)
    <3>1. net'.down = net.down /\ net'.up = net.up \cup {Request(k.op, c)}
      <4>1. /\ net' = [net EXCEPT !.up = net.up \cup {Request("unsubscribe", c)}]
            /\ k.op = "unsubscribe"
        BY <2>1, <2>3 DEF Unsubscribe, Locks
      <4>2. QED BY <1>1, <4>1 DEF Net
    <3>2. UNCHANGED loc
      BY <2>3 DEF Unsubscribe
    <3>3. QED BY <1>1, <1>6, <2>1, <3>1, <3>2, CandAsks
  <2>4. QED BY <1>9, <2>2, <2>3
<1>10. CASE SendCustom(c)
  <2> DEFINE k == [call[c] EXCEPT !.pc = "custom", !.msgId = nextId]
  <2>1. k \in Call /\ k.pc = "custom" /\ k.op = call[c].op
    BY <1>1 DEF Call, OwnInv, OwnType
  <2>2. /\ call' = [call EXCEPT ![c] = k]
        /\ call[c].pc = "lock" /\ holder = 0 /\ holder' = c /\ call[c].op = "custom"
        /\ UNCHANGED <<loc, peer, hist>>
    BY <1>1, <1>10 DEF SendCustom, Locks
  <2>3. net'.down = net.down /\ net'.up = net.up \cup {Request("custom", c)}
    BY <1>1, <1>10 DEF SendCustom, Net
  <2> HIDE DEF k
  <2>4. QED BY <1>1, <1>6, <2>1, <2>2, <2>3, CandAsks
<1>11. CASE Canceled(c)
  BY <1>11, CandEnds DEF Canceled, Quiet
<1>12. CASE ReadsAck(c)
  <2>1. call[c].pc = "ack" /\ call[c].pc \notin Quiet
    BY <1>12 DEF ReadsAck, Quiet
  <2>2. CASE Ends(c, TRUE)
    BY <2>1, <2>2, CandEnds
  <2>3. CASE /\ call' = [call EXCEPT ![c].pc = "subscribed", ![c].subId = TRUE]
             /\ \E m \in loc.got : loc' = [loc EXCEPT !.got = loc.got \ {m}] /\ Took(c, m)
             /\ UNCHANGED <<holder, peer, net>>
    <3> DEFINE k == [call[c] EXCEPT !.pc = "subscribed", !.subId = TRUE]
    <3>1. k \in Call /\ k.pc = "subscribed" /\ call' = [call EXCEPT ![c] = k]
      BY <1>1, <2>3 DEF Call
    <3>2. /\ {"on", "cands", "remoted"} \subseteq DOMAIN loc'
          /\ loc'.on = loc.on /\ loc'.cands = loc.cands /\ loc'.remoted = loc.remoted
      BY <1>1, <2>3
    <3>3. hist'.heard = hist.heard
      BY <1>4, <2>3
    <3>4. /\ UNCHANGED <<holder, net, peer>>
          /\ k.pc \notin {"idle", "lock", "flush"} \cup Flushed
      BY <2>3, <3>1 DEF Flushed
    <3> HIDE DEF k
    <3>5. QED BY <1>1, <1>6, <3>1, <3>2, <3>3, <3>4, CandMoves
  <2>4. QED BY <1>12, <2>2, <2>3 DEF ReadsAck
<1>13. CASE ReadsSubscribed(c)
  <2>1. call[c].pc = "subscribed" /\ call[c].pc \notin Quiet
    BY <1>13 DEF ReadsSubscribed, Quiet
  <2>2. CASE Ends(c, TRUE)
    BY <2>1, <2>2, CandEnds
  <2>3. CASE /\ Goes(c, "sdp") /\ \E m : Took(c, m)
             /\ \E n : loc' = [Released(loc, "subscribed") EXCEPT
                                  !.on = @ \cup {"track"}, !.tracks = n, !.uncompleted = 1..n]
             /\ UNCHANGED <<holder, peer, net>>
    <3>1. /\ {"on", "cands", "remoted"} \subseteq DOMAIN loc'
          /\ loc'.cands = loc.cands /\ loc'.remoted = loc.remoted
      BY <1>1, <2>3 DEF Released
    <3>2. "sdp" \in Subscribing \ {"state"} /\ "sdp" \notin Flushed
      BY DEF Subscribing, Flushed
    <3>3. QED BY <1>1, <1>5, <1>7, <2>1, <2>3, <3>1, <3>2
  <2>4. QED BY <1>13, <2>2, <2>3 DEF ReadsSubscribed
<1>14. CASE ReadsSdp(c)
  <2>1. /\ call[c].pc = "sdp" /\ call[c].pc \notin Quiet /\ Goes(c, "flush")
        /\ \E m : Took(c, m) /\ UNCHANGED <<holder, net>>
    BY <1>14 DEF ReadsSdp, Quiet
  <2>2. /\ {"on", "cands", "remoted"} \subseteq DOMAIN loc'
        /\ loc'.cands = loc.cands /\ loc'.remoted = loc.remoted
    BY <1>1, <1>14 DEF ReadsSdp, Released
  <2>3. /\ {"cands", "remote"} \subseteq DOMAIN peer' /\ peer'.cands = peer.cands
        /\ peer'.remote = peer.remote \cup {c}
    BY <1>1, <1>14 DEF ReadsSdp
  <2>4. "flush" \in Subscribing \ {"state"} /\ "flush" \notin Flushed
    BY DEF Subscribing, Flushed
  <2>5. QED BY <1>5, <1>7, <2>1, <2>2, <2>3, <2>4
<1>15. CASE ReadsState(c)
  <2>1. call[c].pc = "state" /\ call[c].pc \notin Quiet
    BY <1>15 DEF ReadsState, Quiet
  <2>2. CASE Ends(c, FALSE)
    BY <2>1, <2>2, CandEnds
  <2>3. CASE /\ Goes(c, "tracks") /\ \E s : loc' = [loc EXCEPT !.states = loc.states \ {s}]
             /\ UNCHANGED <<holder, peer, net, hist>>
    <3>1. /\ {"on", "cands", "remoted"} \subseteq DOMAIN loc'
          /\ loc'.cands = loc.cands /\ loc'.remoted = loc.remoted
      BY <1>1, <2>3
    <3>2. "tracks" \in Subscribing \ {"state"} /\ call[c].pc \in Flushed
      BY <2>1 DEF Subscribing, Flushed
    <3>3. QED BY <1>1, <1>5, <1>7, <2>1, <2>3, <3>1, <3>2
  <2>4. QED BY <1>15, <2>2, <2>3 DEF ReadsState
<1>16. CASE ReadsTracks(c)
  <2>1. /\ call[c].pc = "tracks" /\ call[c].pc \notin Quiet /\ Goes(c, "bind")
        /\ UNCHANGED <<holder, loc, peer, net, hist>>
    BY <1>16 DEF ReadsTracks, Quiet
  <2>2. "bind" \in Subscribing \ {"state"} /\ call[c].pc \in Flushed
    BY <2>1 DEF Subscribing, Flushed
  <2>3. QED BY <1>1, <1>5, <1>7, <2>1, <2>2
<1>17. CASE BindsTracks(c)
  BY <1>17, CandEnds DEF BindsTracks, Quiet
<1>18. CASE ReadsCustomAck(c)
  BY <1>18, CandEnds DEF ReadsCustomAck, Quiet
<1>19. ASSUME NEW kind \in {"subscribed", "sdp"}, Skips(c, kind) PROVE CandInv'
  <2>1. /\ \E m : loc' = [loc EXCEPT !.got = loc.got \ {m}]
        /\ UNCHANGED <<call, holder, peer, net, hist>>
    BY <1>19 DEF Skips
  <2>2. /\ {"on", "cands", "remoted"} \subseteq DOMAIN loc' /\ loc'.on = loc.on
        /\ loc'.cands = loc.cands /\ loc'.remoted = loc.remoted
    BY <1>1, <2>1
  <2>3. QED BY <1>1, <2>1, <2>2, CandRests
<1>20. CASE Flush(c)
  BY <1>20, CandFlush
<1>21. QED
  BY <1>8, <1>9, <1>10, <1>11, <1>12, <1>13, <1>14, <1>15, <1>16, <1>17, <1>18, <1>19, <1>20
     DEF Steps

\* A candidate that comes is kept or added, once.
LEMMA CandDelivers ==
    ASSUME OwnInv, SentInv, CandInv, Delivers
    PROVE CandInv'
<1>1. PICK m \in net.down : Hears(m) /\ net' = [net EXCEPT !.down = net.down \ {m}]
  BY DEF Delivers
<1>2. /\ net \in Net /\ hist \in Hist /\ m \in Msg /\ UNCHANGED <<call, holder>>
      /\ {"on", "got", "cands", "remoted"} \subseteq DOMAIN loc
      /\ {"cands", "remote"} \subseteq DOMAIN peer
  BY <1>1 DEF Delivers, OwnInv, OwnType, Net, CandInv, CandType
<1>3. net'.up = net.up /\ net'.down = net.down \ {m}
  BY <1>1, <1>2 DEF Net
<1>4. CASE UNCHANGED peer /\ hist'.heard = hist.heard /\ (loc' = loc \/ loc' = [loc EXCEPT !.got = loc.got \cup {m}])
  <2>1. /\ {"on", "cands", "remoted"} \subseteq DOMAIN loc' /\ loc'.on = loc.on
        /\ loc'.cands = loc.cands /\ loc'.remoted = loc.remoted
    BY <1>2, <1>4
  <2>2. CandType'
    BY <1>2, <1>3, <1>4, <2>1 DEF CandInv, CandType
  <2>3. \A x \in Cand : Added(x)' = Added(x)
    BY <1>4 DEF Added
  <2>4. Once'
    BY <1>2, <1>3, <1>4, <2>1, <2>3 DEF CandInv, Once
  <2>5. Staged'
    BY <1>2, <1>4, <2>1 DEF CandInv, Staged
  <2>6. QED BY <2>2, <2>4, <2>5 DEF CandInv
<1>5. ASSUME m.kind = "candidate", "candidate" \in loc.on,
             hist' = [hist EXCEPT !.heard = hist.heard \cup {m}],
             \/ loc.remoted /\ peer' = AddTo(peer, {m}) /\ UNCHANGED loc
             \/ ~ loc.remoted /\ loc' = [loc EXCEPT !.cands = loc.cands \cup {m}] /\ UNCHANGED peer
      PROVE CandInv'
  <2>1. m \in Cand /\ holder # 0
    BY <1>1, <1>5 DEF CandInv, CandType, Staged
  <2>2. /\ m \notin loc.cands /\ Added(m) = 0
        /\ Request("subscribe", m.call) \notin net.up
        /\ call[m.call].pc \notin {"idle", "lock"}
    BY <1>1, <2>1 DEF CandInv, Once, SentInv, Asked
  <2>3. hist'.heard = hist.heard \cup {m}
    BY <1>2, <1>5 DEF Hist
  <2>4. CASE loc.remoted /\ peer' = AddTo(peer, {m}) /\ UNCHANGED loc
    <3>1. /\ {"cands", "remote"} \subseteq DOMAIN peer' /\ peer'.remote = peer.remote
          /\ peer'.cands \in [Key -> Nat]
          /\ \A x \in Cand : Added(x)' = Added(x) + (IF x \in {m} THEN 1 ELSE 0)
      <4>1. /\ {"cands", "remote"} \subseteq DOMAIN peer /\ peer.cands \in [Key -> Nat]
            /\ {m} \in SUBSET Cand
        BY <2>1 DEF CandInv, CandType
      <4>2. QED BY <2>4, <4>1, AddCounts DEF Added
    <3>2. CandType'
      BY <1>3, <2>1, <2>3, <2>4, <3>1 DEF CandInv, CandType
    <3>3. Once'
      <4> SUFFICES ASSUME NEW x \in Cand PROVE Once!(x)'
        BY DEF Once
      <4>1. Added(x) \in Nat
        BY CandIs DEF CandInv, CandType, Added
      <4>2. CASE x = m
        BY <1>2, <1>3, <2>2, <2>4, <3>1, <4>2
      <4>3. CASE x # m
        <5>1. Added(x)' = Added(x)
          BY <3>1, <4>1, <4>3
        <5>2. QED BY <1>2, <1>3, <2>3, <2>4, <4>3, <5>1 DEF CandInv, Once
      <4>4. QED BY <4>2, <4>3
    <3>4. Staged'
      BY <1>2, <2>1, <2>4, <3>1 DEF CandInv, Staged
    <3>5. QED BY <3>2, <3>3, <3>4 DEF CandInv
  <2>5. CASE ~ loc.remoted /\ loc' = [loc EXCEPT !.cands = loc.cands \cup {m}] /\ UNCHANGED peer
    <3>1. /\ {"on", "cands", "remoted"} \subseteq DOMAIN loc' /\ loc'.on = loc.on
          /\ loc'.cands = loc.cands \cup {m} /\ loc'.remoted = loc.remoted
      BY <1>2, <2>5
    <3>2. CandType'
      BY <1>3, <2>1, <2>3, <2>5, <3>1 DEF CandInv, CandType
    <3>3. \A x \in Cand : Added(x)' = Added(x)
      BY <2>5 DEF Added
    <3>4. Once'
      <4> SUFFICES ASSUME NEW x \in Cand PROVE Once!(x)'
        BY DEF Once
      <4>1. CASE x = m
        BY <1>2, <1>3, <2>2, <3>1, <3>3, <4>1
      <4>2. CASE x # m
        BY <1>2, <1>3, <2>3, <3>1, <3>3, <4>2 DEF CandInv, Once
      <4>3. QED BY <4>1, <4>2
    <3>5. Staged'
      BY <1>2, <2>1, <2>5, <3>1 DEF CandInv, Staged
    <3>6. QED BY <3>2, <3>4, <3>5 DEF CandInv
  <2>6. QED BY <1>5, <2>4, <2>5
<1>6. CASE m.kind # "candidate" \/ "candidate" \notin loc.on
  <2>1. hist' = hist \/ \E a : hist' = [hist EXCEPT !.acked = a]
    BY <1>1, <1>2, <1>6 DEF Hears, ProcessMsgCbs, Msg, Kind
  <2>2. hist'.heard = hist.heard
    BY <1>2, <2>1 DEF Hist
  <2>3. QED BY <1>1, <1>2, <1>4, <1>6, <2>2 DEF Hears, Msg, Kind
<1>7. CASE m.kind = "candidate" /\ "candidate" \in loc.on
  BY <1>1, <1>5, <1>7 DEF Hears, CandInv, CandType
<1>8. QED BY <1>6, <1>7

\* The candidates of a request are on their way when it is not any more.
LEMMA CandServes ==
    ASSUME OwnInv, SentInv, CandInv, Serves
    PROVE CandInv'
<1>1. PICK r \in net.up :
        net' = [net EXCEPT !.up = net.up \ {r}, !.down = net.down \cup Answers(r)]
  BY DEF Serves
<1>2. /\ net \in Net /\ hist \in Hist /\ r \in Req /\ UNCHANGED <<call, holder, loc, peer>>
  BY <1>1 DEF Serves, OwnInv, OwnType, Net
<1>3. net'.up = net.up \ {r} /\ net'.down = net.down \cup Answers(r)
  BY <1>1, <1>2 DEF Net
<1>4. hist'.heard = hist.heard
  BY <1>2 DEF Serves, Hist
<1>5. \A m \in Answers(r) : m.kind = "candidate" =>
         m \in Cand /\ m.call = r.call /\ r = Request("subscribe", m.call)
  <2> SUFFICES ASSUME NEW m \in Answers(r), m.kind = "candidate"
               PROVE m \in Cand /\ m.call = r.call /\ r = Request("subscribe", m.call)
    OBVIOUS
  <2>1. r.op = "subscribe" /\ \E n \in 1..MaxCands : m = Message("candidate", r.call, n)
    BY <1>2, MessageIs DEF Answers, Req
  <2>2. m \in Cand /\ m.call = r.call
    BY <1>2, <2>1 DEF Message, Cand, Req
  <2>3. r = Request("subscribe", r.call)
    BY <1>2, <2>1 DEF Request, Req
  <2>4. QED BY <2>1, <2>2, <2>3
<1>6. CandType'
  BY <1>2, <1>3, <1>4, <1>5 DEF CandInv, CandType
<1>7. \A m \in Cand : Added(m)' = Added(m) /\ m.kind = "candidate"
  BY <1>2 DEF Added, Cand
<1>8. Once'
  <2> SUFFICES ASSUME NEW m \in Cand PROVE Once!(m)'
    BY DEF Once
  <2>1. CASE m \in Answers(r)
    <3>1. Request("subscribe", m.call) \in net.up /\ Request("subscribe", m.call) \notin net'.up
      BY <1>3, <1>5, <1>7, <2>1
    <3>2. QED BY <1>2, <1>4, <1>7, <3>1 DEF CandInv, Once
  <2>2. CASE m \notin Answers(r)
    BY <1>2, <1>3, <1>4, <1>7, <2>2 DEF CandInv, Once
  <2>3. QED BY <2>1, <2>2
<1>9. Staged'
  BY <1>2, <1>4 DEF CandInv, Staged
<1>10. QED BY <1>6, <1>8, <1>9 DEF CandInv

LEMMA CandSends ==
    ASSUME OwnInv, CandInv, NEW c \in Caller, SendNoAck(c)
    PROVE CandInv'
<1>1. /\ call'[c].pc = "done" /\ call[c].pc = "idle"
      /\ \A d \in Caller : d # c => call'[d] = call[d]
      /\ UNCHANGED <<holder, loc, peer, hist>>
  BY DEF SendNoAck, Fresh, OwnInv, OwnType, Call
<1>2. net'.down = net.down /\ net'.up = net.up \cup {Request("no-ack", c)}
  BY DEF SendNoAck, OwnInv, OwnType, Net
<1>3. CandType'
  BY <1>1, <1>2 DEF CandInv, CandType
<1>4. \A m \in Cand : Added(m)' = Added(m)
  BY <1>1 DEF Added
<1>5. \A d : Request("subscribe", d) \in net'.up => Request("subscribe", d) \in net.up
  BY <1>2, RequestIs
<1>6. \A d \in Caller : call'[d].pc \in {"idle", "lock"} => call[d].pc \in {"idle", "lock"}
  BY <1>1
<1>7. Once'
  BY <1>1, <1>2, <1>4, <1>5, <1>6, CandIs DEF CandInv, Once
<1>8. Staged'
  BY <1>1 DEF CandInv, Staged, Flushed
<1>9. QED BY <1>3, <1>7, <1>8 DEF CandInv

LEMMA CandStep ==
    ASSUME OwnInv, SentInv, CandInv, [Next]_vars
    PROVE CandInv'
<1>1. /\ {"on", "cands", "remoted"} \subseteq DOMAIN loc
      /\ {"cands", "remote"} \subseteq DOMAIN peer
      /\ net \in Net /\ hist \in Hist
  BY DEF OwnInv, OwnType, CandInv, CandType
<1>2. ASSUME UNCHANGED <<call, holder, net, hist>>,
             peer' = peer \/ \E a : peer' = [peer EXCEPT !.state = a] \/ peer' = [peer EXCEPT !.toCome = a],
             {"on", "cands", "remoted"} \subseteq DOMAIN loc',
             loc'.on = loc.on, loc'.cands = loc.cands, loc'.remoted = loc.remoted
      PROVE CandInv'
  <2>1. /\ {"cands", "remote"} \subseteq DOMAIN peer'
        /\ peer'.cands = peer.cands /\ peer'.remote = peer.remote
    BY <1>1, <1>2
  <2>2. QED BY <1>2, <2>1, CandRests
<1>3. CASE UNCHANGED vars
  BY <1>1, <1>2, <1>3 DEF vars
<1>4. ASSUME NEW k \in Caller \cup {0}, Closes(k) PROVE CandInv'
  BY <1>1, <1>2, <1>4 DEF Closes
<1>5. ASSUME NEW s, PeerChanges(s) PROVE CandInv'
  <2>1. loc' = loc \/ loc' = [loc EXCEPT !.states = loc.states \cup {s}]
    BY <1>5 DEF PeerChanges
  <2>2. /\ {"on", "cands", "remoted"} \subseteq DOMAIN loc'
        /\ loc'.on = loc.on /\ loc'.cands = loc.cands /\ loc'.remoted = loc.remoted
    BY <1>1, <2>1
  <2>3. QED BY <1>2, <1>5, <2>2 DEF PeerChanges
<1>6. ASSUME NEW t, TrackComes(t) PROVE CandInv'
  <2>1. /\ {"on", "cands", "remoted"} \subseteq DOMAIN loc'
        /\ loc'.on = loc.on /\ loc'.cands = loc.cands /\ loc'.remoted = loc.remoted
    BY <1>1, <1>6 DEF TrackComes
  <2>2. QED BY <1>2, <1>6, <2>1 DEF TrackComes
<1>7. CASE SocketCloses
  <2>1. /\ net'.up = {} /\ net'.down = {} /\ hist'.heard = hist.heard
        /\ UNCHANGED <<call, holder, loc, peer>>
    BY <1>1, <1>7 DEF SocketCloses, Net, Hist
  <2>2. CandType'
    BY <2>1 DEF CandInv, CandType
  <2>3. \A m \in Cand : Added(m)' = Added(m)
    BY <2>1 DEF Added
  <2>4. Once'
    BY <2>1, <2>3 DEF CandInv, Once
  <2>5. Staged'
    BY <2>1 DEF CandInv, Staged
  <2>6. QED BY <2>2, <2>4, <2>5 DEF CandInv
<1>8. ASSUME NEW c \in Caller, NEW o \in {"subscribe", "unsubscribe", "custom"},
             NEW u \in {0, c}, Begin(c, o, u)
      PROVE CandInv'
  <2> DEFINE k == [call[c] EXCEPT !.pc = "lock", !.op = o, !.uses = u]
  <2>1. /\ call[c] \in Call /\ call \in [Caller -> Call] /\ call[c].pc = "idle"
        /\ UNCHANGED <<holder, net, loc, peer, hist>>
        /\ call' = [call EXCEPT ![c] = k]
    BY <1>8 DEF OwnInv, OwnType, Begin, Fresh
  <2>2. k \in Call /\ k.pc = "lock"
    BY <2>1 DEF Call
  <2> HIDE DEF k
  <2>3. QED BY <1>1, <2>1, <2>2, CandMoves DEF Flushed, CandInv, Staged
<1>9. ASSUME NEW c \in Caller, SendNoAck(c) PROVE CandInv'
  BY <1>9, CandSends
<1>10. QED
  BY <1>3, <1>4, <1>5, <1>6, <1>7, <1>8, <1>9, CandSteps, CandDelivers, CandServes DEF Next

LEMMA CandStarts == Init => CandInv
<1> SUFFICES ASSUME Init PROVE CandInv
  OBVIOUS
<1>1. /\ {"on", "cands", "remoted"} \subseteq DOMAIN loc
      /\ loc.on = {} /\ loc.cands = {} /\ loc.remoted = FALSE
  BY DEF Init, NoLocals
<1>2. /\ {"cands", "remote"} \subseteq DOMAIN peer
      /\ peer.cands = [k \in Key |-> 0]
  BY DEF Init, Key
<1>3. /\ \A c \in Caller : call[c].pc = "idle"
      /\ net.up = {} /\ net.down = {} /\ hist.heard = {} /\ holder = 0
  BY DEF Init
<1>4. CandType
  <2>1. peer.cands \in [Key -> Nat]
    BY <1>2
  <2>2. QED BY <1>1, <1>2, <1>3, <2>1 DEF CandType
<1>5. \A m \in Cand : Added(m) = 0 /\ m.call # 0
  BY <1>2, CandIs DEF Added
<1>6. Once
  BY <1>1, <1>3, <1>5 DEF Once
<1>7. Staged
  BY <1>1, <1>3 DEF Staged, Flushed
<1>8. QED BY <1>4, <1>6, <1>7 DEF CandInv

\* Each candidate that is heard is kept until there is a description and added
\* then, or added at once when there is one: never twice, and none is forgotten.
THEOREM CandidatesOnceEver == Spec => []CandidatesOnce
<1>1. CandInv => CandidatesOnce
  <2> SUFFICES ASSUME CandInv PROVE CandidatesOnce
    OBVIOUS
  <2>1. ASSUME NEW k \in DOMAIN peer.cands PROVE peer.cands[k] <= 1
    <3> DEFINE m == [kind |-> "candidate", call |-> k.call, n |-> k.n]
    <3>1. k \in Key
      BY DEF CandInv, CandType
    <3>2. m \in Cand /\ KeyOf(m) = k
      BY <3>1 DEF Cand, Key, KeyOf
    <3>3. QED BY <3>2 DEF CandInv, Once, Added
  <2>2. ASSUME NEW m \in hist.heard, m.call = holder
        PROVE /\ Added(m) = 1 => holder \in peer.remote
              /\ call[holder].pc \in {"state", "tracks", "bind"} => Added(m) = 1
    <3>1. m \in Cand /\ holder \in Caller
      BY <2>2, CandIs DEF CandInv, CandType
    <3>2. QED BY <2>2, <3>1 DEF CandInv, Once, Staged, Flushed
  <2>3. QED BY <2>1, <2>2 DEF CandidatesOnce, Added, KeyOf
<1>2. OwnInv /\ SentInv /\ CandInv /\ [Next]_vars => OwnInv' /\ SentInv' /\ CandInv'
  BY OwnStep, SentStep, CandStep
<1>3. Init => OwnInv /\ SentInv /\ CandInv
  BY OwnStarts, SentStarts, CandStarts
<1>4. QED BY <1>1, <1>2, <1>3, PTL DEF Spec
=============================================================================
