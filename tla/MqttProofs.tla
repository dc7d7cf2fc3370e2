-------------------------- MODULE MqttProofs --------------------------
(***************************************************************************)
(* The safety of the MQTT session, for any filters, packet identifiers and *)
(* sizes of the handler table: its types, and that client and broker agree *)
(* on what is acknowledged, subscribed and pinged for.  Then that of the   *)
(* application over it, and that the client keeps what MqttPromise states. *)
(***************************************************************************)
EXTENDS MqttApp, FiniteSetTheorems, TLAPS

Requests == {"subscribe", "unsubscribe", "publish"}

\* What a request puts on the way, to the broker and to the client.
RequestTypes == {"SUBSCRIBE", "UNSUBSCRIBE", "PUBLISH", "PUBREL"}
AckTypes == {"SUBACK", "UNSUBACK", "PUBACK", "PUBREC", "PUBCOMP"}
PacketTypes ==
  RequestTypes \cup AckTypes \cup {"CONNECT", "CONNACK", "DISCONNECT", "PINGREQ", "PINGRESP"}
Packet ==
  [type : PacketTypes, id : 0 .. MaxPacketId, filter : Filters \cup {None},
   qos : 0 .. 2, accepted : BOOLEAN]
Client ==
  [isconnected : BOOLEAN, configured : BOOLEAN, ping_outstanding : BOOLEAN,
   next_packetid : 1 .. MaxPacketId, handlers : SUBSET Filters,
   sockHandle : {"null", "open", "freed", "misused"},
   sent_expired : BOOLEAN, received_expired : BOOLEAN]
CallType ==
  [op : {"none", "connect", "yield"} \cup Requests, id : 0 .. MaxPacketId,
   filter : Filters \cup {None}, awaits : {"none", "CONNACK"} \cup AckTypes]
ResultType == {"none", "MQSUCCESS", "FAILURE", "refused"}

\* The packets of a queue, that none has a type of T, and that at most one has.
In(q) == {q[i] : i \in DOMAIN q}
Absent(q, T) == \A p \in In(q) : p.type \notin T
Single(q, T) == \A i, j \in DOMAIN q : q[i].type \in T /\ q[j].type \in T => i = j
-----------------------------------------------------------------------------
(* The invariant.                                                           *)

Typed ==
  /\ mc \in Client
  /\ IsFiniteSet(mc.handlers) /\ Cardinality(mc.handlers) <= MaxHandlers
  /\ link \in {"down", "up", "dead", "cut"}
  /\ toBroker \in Seq(Packet) /\ toClient \in Seq(Packet)
  /\ call \in CallType
  /\ result \in ResultType
  /\ broker \in [session : BOOLEAN, subs : SUBSET Filters]

\* The connection is that of the client's socket.
Linked ==
  /\ (link = "down") = (mc.sockHandle # "open")
  /\ link = "down" => toBroker = <<>> /\ toClient = <<>> /\ broker = NoSession

\* What a session has, and what is left of one that is closed.
Session ==
  /\ mc.isconnected => mc.sockHandle = "open" /\ mc.configured
  /\ ~mc.isconnected => mc.handlers = {}

\* A call waits for its own type of acknowledgement, and a request for it in a
\* session.
Calling ==
  /\ call.op = "connect" => call.awaits = "CONNACK" /\ mc.configured /\ ~mc.isconnected
  /\ call.op \in Requests => mc.configured /\ (mc.sockHandle = "open" => mc.isconnected)
  /\ call.op = "subscribe" => call.awaits = "SUBACK"
  /\ call.op = "unsubscribe" => call.awaits = "UNSUBACK" /\ call.filter \in Filters
  /\ call.op = "publish" => call.awaits \in {"PUBACK", "PUBCOMP"}

\* A packet of the call in progress.  The broker answers no empty filter, which
\* MqttApp may ask for.
Chain ==
  CASE call.op = "subscribe" -> {"SUBSCRIBE", "SUBACK"}
    [] call.op = "unsubscribe" -> {"UNSUBSCRIBE", "UNSUBACK"}
    [] OTHER -> {"PUBLISH", "PUBACK", "PUBREC", "PUBREL", "PUBCOMP"}
OfCall(p) ==
  /\ p.id = call.id
  /\ p.type \in Chain
  /\ p.type \in {"SUBSCRIBE", "UNSUBSCRIBE"} => p.filter = call.filter
  /\ p.type = "SUBACK" => call.filter \in Filters

\* A request is on the way at most once, as itself or as what answers it, and
\* none but that of the call in progress is.
Pending ==
  IF call.op \in Requests
  THEN /\ Single(toBroker, RequestTypes) /\ Single(toClient, AckTypes)
       /\ Absent(toBroker, RequestTypes) \/ Absent(toClient, AckTypes)
       /\ \A p \in In(toBroker) : p.type \in RequestTypes => OfCall(p)
       /\ \A p \in In(toClient) : p.type \in AckTypes => OfCall(p)
  ELSE Absent(toBroker, RequestTypes) /\ Absent(toClient, AckTypes)

\* The broker's subscriptions are the handlers, but for an answer on the way.
Acked(t) == \E p \in In(toClient) : p.type = t /\ p.accepted
Subs ==
  (mc.handlers \cup {f \in {call.filter} : call.op = "subscribe" /\ Acked("SUBACK")})
    \ {f \in {call.filter} : call.op = "unsubscribe" /\ Acked("UNSUBACK")}
Agreement ==
  link = "up" =>
    /\ mc.isconnected => broker.session /\ broker.subs = Subs
    /\ ~mc.isconnected => broker.subs = {} /\ (Acked("CONNACK") => broker.session)

\* A message on the way has its handler, or will have it when it is read.
Messages ==
  \A p \in In(toClient) : p.type = "PUBLISH" =>
    \/ p.filter \in mc.handlers
    \/ call.op = "subscribe" /\ p.filter = call.filter /\ Acked("SUBACK")

\* PingOnTheWay in terms of the packets of the queues.
Pinged ==
  mc.isconnected /\ mc.ping_outstanding /\ link = "up" =>
    \/ \E p \in In(toBroker) : p.type = "PINGREQ"
    \/ \E p \in In(toClient) : p.type = "PINGRESP"

IInv ==
  Typed /\ Linked /\ Session /\ Calling /\ Pending /\ Agreement /\ Messages /\ Pinged
-----------------------------------------------------------------------------
(* Queues.                                                                  *)

\* An empty queue has no packets.
LEMMA EmptyQueue ==
  /\ In(<<>>) = {}
  /\ \A T : Absent(<<>>, T) /\ Single(<<>>, T)
BY DEF In, Absent, Single

\* Joining two queues.
LEMMA Joined ==
  ASSUME NEW q \in Seq(Packet), NEW r \in Seq(Packet)
  PROVE  /\ q \o r \in Seq(Packet)
         /\ In(q \o r) = In(q) \cup In(r)
         /\ \A T : Absent(q \o r, T) <=> Absent(q, T) /\ Absent(r, T)
         /\ \A T : Single(q, T) /\ Absent(r, T) => Single(q \o r, T)
         /\ \A T : Absent(q, T) /\ Single(r, T) => Single(q \o r, T)
<1>1. q \o r \in Seq(Packet) /\ Len(q \o r) = Len(q) + Len(r)
  OBVIOUS
<1>2. \A i \in DOMAIN q : i \in DOMAIN (q \o r) /\ (q \o r)[i] = q[i]
  OBVIOUS
<1>3. \A i \in DOMAIN r : Len(q) + i \in DOMAIN (q \o r) /\ (q \o r)[Len(q) + i] = r[i]
  OBVIOUS
<1>4. \A i \in DOMAIN (q \o r) :
        \/ i \in DOMAIN q /\ (q \o r)[i] = q[i]
        \/ i - Len(q) \in DOMAIN r /\ (q \o r)[i] = r[i - Len(q)]
  OBVIOUS
<1>5. In(q \o r) = In(q) \cup In(r)
  <2>1. In(q) \subseteq In(q \o r) /\ In(r) \subseteq In(q \o r)
    BY <1>2, <1>3 DEF In
  <2>2. ASSUME NEW i \in DOMAIN (q \o r)
        PROVE  (q \o r)[i] \in In(q) \cup In(r)
    <3>1. CASE i \in DOMAIN q /\ (q \o r)[i] = q[i]
      BY <3>1 DEF In
    <3>2. CASE i - Len(q) \in DOMAIN r /\ (q \o r)[i] = r[i - Len(q)]
      BY <3>2 DEF In
    <3> QED
      BY <1>4, <3>1, <3>2
  <2> QED
    BY <2>1, <2>2 DEF In
<1>6. \A T : Absent(q \o r, T) <=> Absent(q, T) /\ Absent(r, T)
  BY <1>5 DEF Absent
<1>7. ASSUME NEW T, Single(q, T), Absent(r, T)
      PROVE  Single(q \o r, T)
  BY <1>4, <1>7 DEF Single, Absent, In
<1>8. ASSUME NEW T, Absent(q, T), Single(r, T)
      PROVE  Single(q \o r, T)
  <2>1. SUFFICES ASSUME NEW i \in DOMAIN (q \o r), NEW j \in DOMAIN (q \o r),
                        (q \o r)[i].type \in T, (q \o r)[j].type \in T
                 PROVE  i = j
    BY DEF Single
  <2>2. /\ i - Len(q) \in DOMAIN r /\ (q \o r)[i] = r[i - Len(q)]
        /\ j - Len(q) \in DOMAIN r /\ (q \o r)[j] = r[j - Len(q)]
    BY <1>4, <1>8, <2>1 DEF Absent, In
  <2>3. i - Len(q) = j - Len(q)
    BY <1>8, <2>1, <2>2 DEF Single
  <2>4. i \in Nat /\ j \in Nat /\ Len(q) \in Nat
    BY <1>1
  <2> QED
    BY <2>3, <2>4
<1> QED
  BY <1>1, <1>5, <1>6, <1>7, <1>8

\* A queue of one packet.
LEMMA One ==
  ASSUME NEW p \in Packet
  PROVE  /\ <<p>> \in Seq(Packet)
         /\ In(<<p>>) = {p}
         /\ \A T : Single(<<p>>, T)
         /\ \A q \in Seq(Packet) : Append(q, p) = q \o <<p>>
BY DEF In, Single

\* Taking the first packet off a queue.
LEMMA Taken ==
  ASSUME NEW q \in Seq(Packet), q # <<>>
  PROVE  /\ Tail(q) \in Seq(Packet)
         /\ Head(q) \in Packet /\ Head(q) \in In(q)
         /\ In(q) = {Head(q)} \cup In(Tail(q))
         /\ \A T : Single(q, T) => Single(Tail(q), T)
         /\ \A T : Single(q, T) /\ Head(q).type \in T => Absent(Tail(q), T)
<1>1. Tail(q) \in Seq(Packet) /\ Head(q) = q[1] /\ 1 \in DOMAIN q
  OBVIOUS
<1>2. \A i \in DOMAIN Tail(q) : i + 1 \in DOMAIN q /\ i + 1 # 1 /\ Tail(q)[i] = q[i + 1]
  OBVIOUS
<1>3. \A i \in DOMAIN q : i = 1 \/ (i - 1 \in DOMAIN Tail(q) /\ Tail(q)[i - 1] = q[i])
  OBVIOUS
<1>4. In(q) = {Head(q)} \cup In(Tail(q))
  <2>1. Head(q) \in In(q) /\ In(Tail(q)) \subseteq In(q)
    BY <1>1, <1>2 DEF In
  <2>2. ASSUME NEW i \in DOMAIN q
        PROVE  q[i] \in {Head(q)} \cup In(Tail(q))
    <3>1. CASE i = 1
      BY <1>1, <3>1
    <3>2. CASE i - 1 \in DOMAIN Tail(q) /\ Tail(q)[i - 1] = q[i]
      BY <3>2 DEF In
    <3> QED
      BY <1>3, <3>1, <3>2
  <2> QED
    BY <2>1, <2>2 DEF In
<1>5. ASSUME NEW T, Single(q, T)
      PROVE  Single(Tail(q), T)
  <2>1. SUFFICES ASSUME NEW i \in DOMAIN Tail(q), NEW j \in DOMAIN Tail(q),
                        Tail(q)[i].type \in T, Tail(q)[j].type \in T
                 PROVE  i = j
    BY DEF Single
  <2>2. i + 1 = j + 1
    BY <1>2, <1>5, <2>1 DEF Single
  <2>3. i \in Nat /\ j \in Nat
    BY <1>1
  <2> QED
    BY <2>2, <2>3
<1>6. ASSUME NEW T, Single(q, T), Head(q).type \in T
      PROVE  Absent(Tail(q), T)
  BY <1>1, <1>2, <1>6 DEF Single, Absent, In
<1> QED
  BY <1>1, <1>4, <1>5, <1>6
-----------------------------------------------------------------------------
(* The parts of a call.                                                     *)

\* What no send or read changes of a client.
Same(s, t) ==
  /\ t \in Client
  /\ t.configured = s.configured /\ t.isconnected = s.isconnected
  /\ t.handlers = s.handlers
  /\ t.sockHandle = "open" <=> s.sockHandle = "open"

\* What Pkt makes is a packet of its type and identifier, accepted.
LEMMA Packets ==
  ASSUME NEW t \in PacketTypes, NEW i \in 0 .. MaxPacketId
  PROVE  Pkt(t, i) \in Packet /\ Pkt(t, i).type = t /\ Pkt(t, i).id = i
                              /\ Pkt(t, i).accepted
BY DEF Pkt, Packet

\* A send changes nothing of the session, and puts the packet on the wire if it
\* reports success over a working connection.
LEMMA Send ==
  ASSUME NEW s \in Client, NEW p \in Packet, NEW o \in sendPacket(s, p)
  PROVE  /\ o = [ok |-> o.ok, s |-> o.s, out |-> o.out] /\ o.ok \in BOOLEAN
         /\ Same(s, o.s) /\ o.s.ping_outstanding = s.ping_outstanding
         /\ o.out \in {<<>>, <<p>>}
         /\ o.ok => s.sockHandle = "open" /\ (link = "up" => o.out = <<p>>)
         /\ ~o.ok => o.out = <<>>
<1> DEFINE fail(t) == [ok |-> FALSE, s |-> t, out |-> <<>>]
           sent == [s EXCEPT !.sent_expired = FALSE]
           done(out) == [ok |-> TRUE, s |-> sent, out |-> out]
<1>1. \/ o = fail(s)
      \/ s.sockHandle \in {"freed", "misused"} /\ o = fail(misused(s))
      \/ s.sockHandle = "open" /\ link = "up" /\ o = done(<<p>>)
      \/ s.sockHandle = "open" /\ link # "up" /\ o = done(<<>>)
  <2>1. s.sockHandle \in {"null", "open", "freed", "misused"}
    BY DEF Client
  <2> QED
    BY <2>1 DEF sendPacket
<1>2. Same(s, s) /\ Same(s, sent) /\ sent.ping_outstanding = s.ping_outstanding
  BY DEF Same, Client
<1>3. s.sockHandle \in {"freed", "misused"} =>
        Same(s, misused(s)) /\ misused(s).ping_outstanding = s.ping_outstanding
  BY DEF Same, Client, misused
<1> HIDE DEF sent
<1>4. CASE o = fail(s)
  BY <1>2, <1>4
<1>5. CASE s.sockHandle \in {"freed", "misused"} /\ o = fail(misused(s))
  BY <1>3, <1>5
<1>6. CASE s.sockHandle = "open" /\ link = "up" /\ o = done(<<p>>)
  BY <1>2, <1>6
<1>7. CASE s.sockHandle = "open" /\ link # "up" /\ o = done(<<>>)
  BY <1>2, <1>7
<1> QED
  BY <1>1, <1>4, <1>5, <1>6, <1>7

\* Closing a session that was configured ends the socket and its handlers.
LEMMA Close ==
  ASSUME NEW s \in Client
  PROVE  LET t == MQTTCloseSession(s)
         IN  /\ t \in Client /\ ~t.isconnected /\ t.configured = s.configured
             /\ s.configured => t.sockHandle # "open" /\ t.handlers = {}
             /\ ~s.configured => t.sockHandle = s.sockHandle /\ t.handlers = s.handlers
BY DEF MQTTCloseSession, network_disconnect, Client

\* A failed cycle: an open session is closed.
LEMMA FailedCycle ==
  ASSUME NEW s \in Client
  PROVE  LET t == failed(s)
         IN  /\ t \in Client /\ ~t.isconnected /\ t.configured = s.configured
             /\ ~s.isconnected => t = s
             /\ s.isconnected /\ s.configured => t.sockHandle # "open" /\ t.handlers = {}
BY Close DEF failed, Client

\* The answer to a packet that was read is one packet of its identifier, or none.
LEMMA Answer ==
  ASSUME NEW s \in Client, NEW p, p \in Packet \/ p.type \in {"timeout", "error"},
         NEW late \in BOOLEAN, NEW o \in answer(s, p, late)
  PROVE  /\ Same(s, o.s) /\ o.s.ping_outstanding = s.ping_outstanding /\ o.ok \in BOOLEAN
         /\ \/ o.out = <<>>
            \/ \E t \in {"PUBACK", "PUBREC", "PUBREL", "PUBCOMP"} :
                 /\ o.out = <<Pkt(t, p.id)>> /\ p \in Packet
                 /\ t = "PUBREL" => p.type = "PUBREC"
<1> DEFINE t == CASE p.type = "PUBLISH" /\ p.qos = 1 -> "PUBACK"
                  [] p.type = "PUBLISH" /\ p.qos = 2 -> "PUBREC"
                  [] p.type = "PUBREC" -> "PUBREL"
                  [] p.type = "PUBREL" -> "PUBCOMP"
                  [] OTHER -> "none"
<1>1. /\ t = "none" \/ t \in {"PUBACK", "PUBREC", "PUBREL", "PUBCOMP"}
      /\ t = "PUBREL" => p.type = "PUBREC"
      /\ t # "none" => p.type \notin {"timeout", "error"}
  OBVIOUS
<1>2. \/ t = "none" /\ o = [ok |-> TRUE, s |-> s, out |-> <<>>]
      \/ t # "none" /\ o = [ok |-> FALSE, s |-> s, out |-> <<>>]
      \/ t # "none" /\ o \in sendPacket(s, Pkt(t, p.id))
  BY DEF answer
<1>3. Same(s, s)
  BY DEF Same
<1> HIDE DEF t
<1>4. CASE o = [ok |-> TRUE, s |-> s, out |-> <<>>] \/ o = [ok |-> FALSE, s |-> s, out |-> <<>>]
  <2>1. o.s = s /\ o.ok \in BOOLEAN /\ o.out = <<>>
    <3>1. CASE o = [ok |-> TRUE, s |-> s, out |-> <<>>]
      BY <3>1
    <3>2. CASE o = [ok |-> FALSE, s |-> s, out |-> <<>>]
      BY <3>2
    <3> QED
      BY <1>4, <3>1, <3>2
  <2> QED
    BY <1>3, <2>1
<1>5. CASE t # "none" /\ o \in sendPacket(s, Pkt(t, p.id))
  <2>1. p \in Packet /\ t \in PacketTypes /\ p.id \in 0 .. MaxPacketId
    BY <1>1, <1>5 DEF Packet, PacketTypes, AckTypes, RequestTypes
  <2>2. Pkt(t, p.id) \in Packet
    BY <2>1, Packets
  <2>3. /\ Same(s, o.s) /\ o.s.ping_outstanding = s.ping_outstanding /\ o.ok \in BOOLEAN
        /\ o.out \in {<<>>, <<Pkt(t, p.id)>>}
    BY <1>5, <2>2, Send
  <2> QED
    BY <1>1, <1>5, <2>1, <2>3
<1> QED
  BY <1>2, <1>4, <1>5

\* A ping is outstanding after keepalive() only if it was, or is on the wire.
LEMMA Keepalive ==
  ASSUME NEW s \in Client, NEW o \in keepalive(s)
  PROVE  /\ Same(s, o.s) /\ o.ok \in BOOLEAN
         /\ ~o.ok => o.s.ping_outstanding = s.ping_outstanding
         /\ o.out \in {<<>>, <<Pkt("PINGREQ", 0)>>}
         /\ \/ o.s.ping_outstanding = s.ping_outstanding
            \/ link = "up" => o.out = <<Pkt("PINGREQ", 0)>>
<1>1. \/ o = [ok |-> TRUE, s |-> s, out |-> <<>>]
      \/ o = [ok |-> FALSE, s |-> s, out |-> <<>>]
      \/ \E k \in sendPacket(s, Pkt("PINGREQ", 0)) :
           o = [k EXCEPT !.s = IF k.ok THEN pinged(k.s) ELSE k.s]
  BY DEF keepalive
<1>2. Same(s, s)
  BY DEF Same
<1>3. CASE o = [ok |-> TRUE, s |-> s, out |-> <<>>] \/ o = [ok |-> FALSE, s |-> s, out |-> <<>>]
  <2>1. o.s = s /\ o.ok \in BOOLEAN /\ o.out = <<>>
    <3>1. CASE o = [ok |-> TRUE, s |-> s, out |-> <<>>]
      BY <3>1
    <3>2. CASE o = [ok |-> FALSE, s |-> s, out |-> <<>>]
      BY <3>2
    <3> QED
      BY <1>3, <3>1, <3>2
  <2> QED
    BY <1>2, <2>1
<1>4. ASSUME NEW k \in sendPacket(s, Pkt("PINGREQ", 0)),
             o = [k EXCEPT !.s = IF k.ok THEN pinged(k.s) ELSE k.s]
      PROVE  /\ Same(s, o.s) /\ o.ok \in BOOLEAN
             /\ ~o.ok => o.s.ping_outstanding = s.ping_outstanding
             /\ o.out \in {<<>>, <<Pkt("PINGREQ", 0)>>}
             /\ \/ o.s.ping_outstanding = s.ping_outstanding
                \/ link = "up" => o.out = <<Pkt("PINGREQ", 0)>>
  <2>1. Pkt("PINGREQ", 0) \in Packet
    BY Packets, LimitsAssumption DEF PacketTypes
  <2>2. /\ k = [ok |-> k.ok, s |-> k.s, out |-> k.out] /\ k.ok \in BOOLEAN
        /\ Same(s, k.s) /\ k.s.ping_outstanding = s.ping_outstanding
        /\ k.out \in {<<>>, <<Pkt("PINGREQ", 0)>>}
        /\ k.ok => (link = "up" => k.out = <<Pkt("PINGREQ", 0)>>)
    BY <2>1, Send
  <2>3. o.ok = k.ok /\ o.out = k.out /\ o.s = IF k.ok THEN pinged(k.s) ELSE k.s
    BY <1>4, <2>2
  <2>4. Same(s, pinged(k.s))
    BY <2>2 DEF Same, Client, pinged
  <2> QED
    BY <2>2, <2>3, <2>4
<1> QED
  BY <1>1, <1>3, <1>4

\* A packet is read, a timeout is over or the read fails.
LEMMA Read ==
  ASSUME Typed, NEW r \in readPacket(mc)
  PROVE  /\ Same(mc, r.s) /\ r.s.ping_outstanding = mc.ping_outstanding
         /\ mc.sockHandle # "open" => r.p.type = "error"
         /\ \/ r.read = TRUE /\ toClient # <<>> /\ r.p = Head(toClient)
            \/ r.read = FALSE /\ r.p.type \in {"timeout", "error"}
<1> DEFINE got(p, t, read) == [p |-> p, s |-> t, read |-> read]
           received == [mc EXCEPT !.received_expired = FALSE]
<1>1. \/ r = got(Pkt("error", 0), mc, FALSE)
      \/ mc.sockHandle \in {"freed", "misused"} /\ r = got(Pkt("error", 0), misused(mc), FALSE)
      \/ mc.sockHandle = "open" /\ r = got(Pkt("timeout", 0), mc, FALSE)
      \/ mc.sockHandle = "open" /\ toClient # <<>> /\ r = got(Head(toClient), received, TRUE)
  <2>1. mc.sockHandle \in {"null", "open", "freed", "misused"}
    BY DEF Typed, Client
  <2> QED
    BY <2>1 DEF readPacket
<1>2. Same(mc, mc) /\ Same(mc, received) /\ received.ping_outstanding = mc.ping_outstanding
  BY DEF Same, Client, Typed
<1>3. mc.sockHandle \in {"freed", "misused"} =>
        Same(mc, misused(mc)) /\ misused(mc).ping_outstanding = mc.ping_outstanding
  BY DEF Same, Client, Typed, misused
<1>4. Pkt("error", 0).type = "error" /\ Pkt("timeout", 0).type = "timeout"
  BY DEF Pkt
<1> HIDE DEF received
<1>5. CASE r = got(Pkt("error", 0), mc, FALSE)
  BY <1>2, <1>4, <1>5
<1>6. CASE mc.sockHandle \in {"freed", "misused"} /\ r = got(Pkt("error", 0), misused(mc), FALSE)
  BY <1>3, <1>4, <1>6
<1>7. CASE mc.sockHandle = "open" /\ r = got(Pkt("timeout", 0), mc, FALSE)
  BY <1>2, <1>4, <1>7
<1>8. CASE mc.sockHandle = "open" /\ toClient # <<>> /\ r = got(Head(toClient), received, TRUE)
  BY <1>2, <1>8
<1> QED
  BY <1>1, <1>5, <1>6, <1>7, <1>8

\* Taking a packet in ends no session, and a PINGRESP the ping outstanding.
LEMMA Handled ==
  ASSUME NEW s \in Client, NEW p
  PROVE  /\ Same(s, handled(s, p))
         /\ handled(s, p).ping_outstanding => s.ping_outstanding /\ p.type # "PINGRESP"
BY DEF handled, Same, Client

\* What a round sends: answers to the packet it read, of which one continues a
\* request, and at most a ping.
Replies(out, p) ==
  /\ out \in Seq(Packet)
  /\ Single(out, RequestTypes)
  /\ \A q \in In(out) :
       /\ q.type \in {"PUBACK", "PUBREC", "PUBREL", "PUBCOMP", "PINGREQ"}
       /\ q.type = "PUBREL" => p.type = "PUBREC" /\ q.id = p.id

\* A round of cycle() that leaves the socket open, one that closed it, and one
\* that fails.
Left(o) ==
  /\ Same(mc, o.s) /\ mc.sockHandle = "open"
  /\ Replies(o.out, o.p)
  /\ o.s.ping_outstanding /\ link = "up" =>
       \/ mc.ping_outstanding /\ ~(o.read /\ o.p.type = "PINGRESP")
       \/ \E q \in In(o.out) : q.type = "PINGREQ"
Shut(o) ==
  /\ mc.isconnected \/ mc.sockHandle # "open"
  /\ o.s \in Client /\ o.s.configured = mc.configured /\ ~o.s.isconnected
  /\ o.s.sockHandle # "open" /\ o.s.handlers = {}
Bad(o) == o.rc = "error" \/ o.rc \notin KnownTypes \cup {"timeout"}

Outcome(r, rc, t, out) == [rc |-> rc, p |-> r.p, s |-> t, out |-> out, read |-> r.read]

\* The outcomes of cycle(), by the packet read, the answer and the ping.
LEMMA ParsedCycle ==
  ASSUME NEW late \in BOOLEAN, NEW o \in cycle(mc, late)
  PROVE  \E r \in readPacket(mc) :
           \/ /\ r.p.type \notin KnownTypes \cup {"timeout"}
              /\ o = Outcome(r, r.p.type, failed(r.s), <<>>)
           \/ /\ r.p.type \in KnownTypes \cup {"timeout"}
              /\ \E a \in answer(handled(r.s, r.p), r.p, late) :
                   \/ o = Outcome(r, "error", failed(a.s), a.out)
                   \/ \E k \in keepalive(a.s) :
                        \/ o = Outcome(r, r.p.type, k.s, a.out \o k.out)
                        \/ ~k.ok /\ o = Outcome(r, "error", failed(k.s), a.out \o k.out)
<1> DEFINE ping(r, a, k) ==
             IF k.ok THEN Outcome(r, r.p.type, k.s, a.out \o k.out)
             ELSE Outcome(r, "error", failed(k.s), a.out \o k.out)
           reply(r, a) ==
             IF ~a.ok THEN {Outcome(r, "error", failed(a.s), a.out)}
             ELSE {ping(r, a, k) : k \in keepalive(a.s)}
           round(r) ==
             IF r.p.type \notin KnownTypes \cup {"timeout"}
             THEN {Outcome(r, r.p.type, failed(r.s), <<>>)}
             ELSE UNION {reply(r, a) : a \in answer(handled(r.s, r.p), r.p, late)}
<1>1. cycle(mc, late) = UNION {round(r) : r \in readPacket(mc)}
  BY DEF cycle, Outcome
<1>2. PICK r \in readPacket(mc) : o \in round(r)
  BY <1>1
<1>3. CASE r.p.type \notin KnownTypes \cup {"timeout"}
  BY <1>2, <1>3
<1>4. CASE r.p.type \in KnownTypes \cup {"timeout"}
  <2>1. PICK a \in answer(handled(r.s, r.p), r.p, late) : o \in reply(r, a)
    BY <1>2, <1>4
  <2>2. CASE ~a.ok
    BY <1>4, <2>1, <2>2
  <2>3. CASE a.ok
    <3>1. PICK k \in keepalive(a.s) : o = ping(r, a, k)
      BY <2>1, <2>3
    <3> QED
      BY <1>4, <3>1
  <2> QED
    BY <2>2, <2>3
<1> QED
  BY <1>3, <1>4

\* An answer, also with a ping behind it, carries at most one request on.
LEMMA Answers ==
  ASSUME Typed, NEW r \in readPacket(mc), NEW s \in Client, NEW late \in BOOLEAN,
         NEW a \in answer(s, r.p, late)
  PROVE  /\ Replies(a.out, r.p)
         /\ \A k \in {<<>>, <<Pkt("PINGREQ", 0)>>} : Replies(a.out \o k, r.p)
<1>1. Pkt("PINGREQ", 0) \in Packet /\ Pkt("PINGREQ", 0).type = "PINGREQ"
  BY Packets, LimitsAssumption DEF PacketTypes
<1>2. r.p \in Packet \/ r.p.type \in {"timeout", "error"}
  BY Read, Taken DEF Typed
<1>3. Replies(a.out, r.p)
  <2>1. CASE a.out = <<>>
    BY <2>1, EmptyQueue DEF Replies
  <2>2. ASSUME NEW t \in {"PUBACK", "PUBREC", "PUBREL", "PUBCOMP"},
               a.out = <<Pkt(t, r.p.id)>>, r.p \in Packet,
               t = "PUBREL" => r.p.type = "PUBREC"
        PROVE  Replies(a.out, r.p)
    <3>1. r.p.id \in 0 .. MaxPacketId /\ t \in PacketTypes
      BY <2>2 DEF Packet, PacketTypes, RequestTypes, AckTypes
    <3>2. Pkt(t, r.p.id) \in Packet /\ Pkt(t, r.p.id).type = t /\ Pkt(t, r.p.id).id = r.p.id
      BY <3>1, Packets
    <3> QED
      BY <2>2, <3>2, One DEF Replies
  <2> QED
    BY <1>2, <2>1, <2>2, Answer
<1>4. ASSUME NEW k \in {<<>>, <<Pkt("PINGREQ", 0)>>}
      PROVE  Replies(a.out \o k, r.p)
  <2>1. k \in Seq(Packet) /\ In(k) \subseteq {Pkt("PINGREQ", 0)}
    <3>1. CASE k = <<>>
      BY <3>1, EmptyQueue
    <3>2. CASE k = <<Pkt("PINGREQ", 0)>>
      BY <1>1, <3>2, One
    <3> QED
      BY <1>4, <3>1, <3>2
  <2>2. Absent(k, RequestTypes)
    BY <1>1, <2>1 DEF Absent, RequestTypes
  <2>3. /\ a.out \o k \in Seq(Packet) /\ In(a.out \o k) = In(a.out) \cup In(k)
        /\ Single(a.out \o k, RequestTypes)
    BY <1>3, <2>1, <2>2, Joined DEF Replies
  <2> QED
    BY <1>1, <1>3, <2>1, <2>3 DEF Replies
<1> QED
  BY <1>3, <1>4

\* A round that fails, with the client s before its exit.
LEMMA FailedRound ==
  ASSUME Typed, Session, NEW r \in readPacket(mc), NEW s, Same(mc, s),
         s.ping_outstanding => mc.ping_outstanding /\ r.p.type # "PINGRESP",
         NEW rc, NEW out, Replies(out, r.p),
         NEW o, o = Outcome(r, rc, failed(s), out)
  PROVE  (Left(o) /\ ~mc.isconnected) \/ Shut(o)
<1>1. o.s = failed(s) /\ o.out = out /\ o.p = r.p /\ o.read = r.read
  BY DEF Outcome
<1>2. s \in Client
  BY DEF Same
<1>3. /\ o.s \in Client /\ ~o.s.isconnected /\ o.s.configured = s.configured
      /\ ~s.isconnected => o.s = s
      /\ s.isconnected /\ s.configured => o.s.sockHandle # "open" /\ o.s.handlers = {}
  BY <1>1, <1>2, FailedCycle
<1>4. CASE mc.isconnected
  <2>1. s.isconnected /\ s.configured /\ s.configured = mc.configured
    BY <1>4 DEF Same, Session
  <2> QED
    BY <1>3, <1>4, <2>1 DEF Shut
<1>5. CASE ~mc.isconnected
  <2>1. o.s = s
    BY <1>2, <1>3, <1>5 DEF Same, Client
  <2>2. CASE mc.sockHandle = "open"
    BY <1>1, <1>5, <2>1, <2>2 DEF Same, Left
  <2>3. CASE mc.sockHandle # "open"
    BY <1>5, <2>1, <2>3 DEF Same, Session, Shut
  <2> QED
    BY <2>2, <2>3
<1> QED
  BY <1>4, <1>5

\* What one round of cycle() may do: keep the socket, or close the session for a
\* verdict that is no success.
LEMMA Cycle ==
  ASSUME Typed, Session, NEW late \in BOOLEAN, NEW o \in cycle(mc, late)
  PROVE  /\ o.rc # "error" => o.rc = o.p.type
         /\ \/ o.read = TRUE /\ toClient # <<>> /\ o.p = Head(toClient)
            \/ o.read = FALSE /\ {o.rc, o.p.type} \subseteq {"timeout", "error"}
         /\ (Left(o) /\ (Bad(o) => ~mc.isconnected)) \/ (Shut(o) /\ Bad(o))
<1>1. PICK r \in readPacket(mc) :
        \/ /\ r.p.type \notin KnownTypes \cup {"timeout"}
           /\ o = Outcome(r, r.p.type, failed(r.s), <<>>)
        \/ /\ r.p.type \in KnownTypes \cup {"timeout"}
           /\ \E a \in answer(handled(r.s, r.p), r.p, late) :
                \/ o = Outcome(r, "error", failed(a.s), a.out)
                \/ \E k \in keepalive(a.s) :
                     \/ o = Outcome(r, r.p.type, k.s, a.out \o k.out)
                     \/ ~k.ok /\ o = Outcome(r, "error", failed(k.s), a.out \o k.out)
  BY ParsedCycle
<1>2. /\ Same(mc, r.s) /\ r.s.ping_outstanding = mc.ping_outstanding
      /\ mc.sockHandle # "open" => r.p.type = "error"
      /\ \/ r.read = TRUE /\ toClient # <<>> /\ r.p = Head(toClient)
         \/ r.read = FALSE /\ r.p.type \in {"timeout", "error"}
  BY Read
<1>3. "PINGRESP" \in KnownTypes /\ "error" \notin KnownTypes \cup {"timeout"}
  BY DEF KnownTypes
<1>4. CASE /\ r.p.type \notin KnownTypes \cup {"timeout"}
           /\ o = Outcome(r, r.p.type, failed(r.s), <<>>)
  <2>1. Replies(<<>>, r.p)
    BY EmptyQueue DEF Replies
  <2>2. (Left(o) /\ ~mc.isconnected) \/ Shut(o)
    BY <1>2, <1>3, <1>4, <2>1, FailedRound
  <2>3. o.rc = r.p.type /\ o.p = r.p /\ o.read = r.read
    BY <1>4 DEF Outcome
  <2> QED
    BY <1>2, <1>4, <2>2, <2>3 DEF Bad
<1>5. ASSUME r.p.type \in KnownTypes \cup {"timeout"},
             NEW a \in answer(handled(r.s, r.p), r.p, late),
             \/ o = Outcome(r, "error", failed(a.s), a.out)
             \/ \E k \in keepalive(a.s) :
                  \/ o = Outcome(r, r.p.type, k.s, a.out \o k.out)
                  \/ ~k.ok /\ o = Outcome(r, "error", failed(k.s), a.out \o k.out)
      PROVE  /\ o.rc # "error" => o.rc = o.p.type
             /\ \/ o.read = TRUE /\ toClient # <<>> /\ o.p = Head(toClient)
                \/ o.read = FALSE /\ {o.rc, o.p.type} \subseteq {"timeout", "error"}
             /\ (Left(o) /\ (Bad(o) => ~mc.isconnected)) \/ (Shut(o) /\ Bad(o))
  <2>1. /\ Same(r.s, handled(r.s, r.p))
        /\ handled(r.s, r.p).ping_outstanding => r.s.ping_outstanding /\ r.p.type # "PINGRESP"
    BY <1>2, Handled DEF Same
  <2>2. r.p \in Packet \/ r.p.type \in {"timeout", "error"}
    BY <1>2, Taken DEF Typed
  <2>3. /\ Same(handled(r.s, r.p), a.s)
        /\ a.s.ping_outstanding = handled(r.s, r.p).ping_outstanding
    BY <2>1, <2>2, Answer DEF Same
  <2>4. Same(mc, a.s) /\ (a.s.ping_outstanding => mc.ping_outstanding /\ r.p.type # "PINGRESP")
    BY <1>2, <2>1, <2>3 DEF Same
  <2>5. /\ Replies(a.out, r.p)
        /\ \A k \in {<<>>, <<Pkt("PINGREQ", 0)>>} : Replies(a.out \o k, r.p)
    BY <2>1, Answers DEF Same
  <2>6. CASE o = Outcome(r, "error", failed(a.s), a.out)
    <3>1. (Left(o) /\ ~mc.isconnected) \/ Shut(o)
      BY <2>4, <2>5, <2>6, FailedRound
    <3>2. o.rc = "error" /\ o.p = r.p /\ o.read = r.read
      BY <2>6 DEF Outcome
    <3> QED
      BY <1>2, <3>1, <3>2 DEF Bad
  <2>7. ASSUME NEW k \in keepalive(a.s),
               \/ o = Outcome(r, r.p.type, k.s, a.out \o k.out)
               \/ ~k.ok /\ o = Outcome(r, "error", failed(k.s), a.out \o k.out)
        PROVE  /\ o.rc # "error" => o.rc = o.p.type
               /\ \/ o.read = TRUE /\ toClient # <<>> /\ o.p = Head(toClient)
                  \/ o.read = FALSE /\ {o.rc, o.p.type} \subseteq {"timeout", "error"}
               /\ (Left(o) /\ (Bad(o) => ~mc.isconnected)) \/ (Shut(o) /\ Bad(o))
    <3>1. /\ Same(a.s, k.s)
          /\ ~k.ok => k.s.ping_outstanding = a.s.ping_outstanding
          /\ k.out \in {<<>>, <<Pkt("PINGREQ", 0)>>}
          /\ \/ k.s.ping_outstanding = a.s.ping_outstanding
             \/ link = "up" => k.out = <<Pkt("PINGREQ", 0)>>
      BY <2>4, Keepalive DEF Same
    <3>2. Same(mc, k.s) /\ Replies(a.out \o k.out, r.p)
      BY <2>4, <2>5, <3>1 DEF Same
    <3>3. CASE o = Outcome(r, r.p.type, k.s, a.out \o k.out)
      <4>1. o.rc = r.p.type /\ o.p = r.p /\ o.read = r.read /\ o.s = k.s
            /\ o.out = a.out \o k.out
        BY <3>3 DEF Outcome
      <4>2. mc.sockHandle = "open" /\ ~Bad(o)
        BY <1>2, <1>3, <1>5, <4>1 DEF Bad
      <4>3. ASSUME link = "up", o.s.ping_outstanding
            PROVE  \/ mc.ping_outstanding /\ ~(o.read /\ o.p.type = "PINGRESP")
                   \/ \E q \in In(o.out) : q.type = "PINGREQ"
        <5>1. CASE k.s.ping_outstanding = a.s.ping_outstanding
          BY <2>4, <4>1, <4>3, <5>1
        <5>2. CASE k.out = <<Pkt("PINGREQ", 0)>>
          <6>1. Pkt("PINGREQ", 0) \in Packet /\ Pkt("PINGREQ", 0).type = "PINGREQ"
            BY Packets, LimitsAssumption DEF PacketTypes
          <6>2. a.out \in Seq(Packet) /\ k.out \in Seq(Packet) /\ In(k.out) = {Pkt("PINGREQ", 0)}
            BY <2>5, <5>2, <6>1, One DEF Replies
          <6>3. Pkt("PINGREQ", 0) \in In(o.out)
            BY <4>1, <6>2, Joined
          <6> QED
            BY <6>1, <6>3
        <5> QED
          BY <3>1, <4>3, <5>1, <5>2
      <4>4. Left(o)
        BY <3>2, <4>1, <4>2, <4>3 DEF Left
      <4> QED
        BY <1>2, <4>1, <4>2, <4>4
    <3>4. CASE ~k.ok /\ o = Outcome(r, "error", failed(k.s), a.out \o k.out)
      <4>1. (Left(o) /\ ~mc.isconnected) \/ Shut(o)
        BY <2>4, <3>1, <3>2, <3>4, FailedRound
      <4>2. o.rc = "error" /\ o.p = r.p /\ o.read = r.read
        BY <3>4 DEF Outcome
      <4> QED
        BY <1>2, <4>1, <4>2 DEF Bad
    <3> QED
      BY <2>7, <3>3, <3>4
  <2> QED
    BY <1>5, <2>6, <2>7
<1> QED
  BY <1>1, <1>4, <1>5

-----------------------------------------------------------------------------
(* What a step of the client does to the invariant.                         *)

\* The state between calls has its type.
LEMMA NoCallType == NoCall \in CallType /\ NoCall.op = "none" /\ "none" \notin Requests
BY LimitsAssumption DEF NoCall, CallType, Requests

\* The queues after a step over an open socket.
LEMMA Settled ==
  ASSUME Typed, NEW s \in Client, s.sockHandle = "open",
         NEW out \in Seq(Packet), NEW read \in BOOLEAN, read => toClient # <<>>,
         Settle(s, out, read)
  PROVE  /\ mc' = s /\ link' = link /\ broker' = broker
         /\ toBroker' \in Seq(Packet) /\ toClient' \in Seq(Packet)
         /\ In(toBroker') = In(toBroker) \cup In(out)
         /\ \A T : Absent(toBroker, T) /\ Absent(out, T) => Absent(toBroker', T)
         /\ \A T : Single(toBroker, T) /\ Absent(out, T) => Single(toBroker', T)
         /\ \A T : Absent(toBroker, T) /\ Single(out, T) => Single(toBroker', T)
         /\ In(toClient') \subseteq In(toClient)
         /\ ~read => toClient' = toClient
         /\ read => /\ Head(toClient) \in In(toClient) /\ Head(toClient) \in Packet
                    /\ In(toClient) = {Head(toClient)} \cup In(toClient')
         /\ \A T : Absent(toClient, T) => Absent(toClient', T)
         /\ \A T : Single(toClient, T) => Single(toClient', T)
         /\ \A T : read /\ Single(toClient, T) /\ Head(toClient).type \in T =>
                     Absent(toClient', T)
<1>1. /\ mc' = s /\ link' = link /\ broker' = broker
      /\ toBroker' = toBroker \o out
      /\ toClient' = IF read THEN Tail(toClient) ELSE toClient
  BY DEF Settle
<1>2. toBroker \in Seq(Packet) /\ toClient \in Seq(Packet)
  BY DEF Typed
<1>3. /\ toBroker' \in Seq(Packet)
      /\ In(toBroker') = In(toBroker) \cup In(out)
      /\ \A T : Absent(toBroker, T) /\ Absent(out, T) => Absent(toBroker', T)
      /\ \A T : Single(toBroker, T) /\ Absent(out, T) => Single(toBroker', T)
      /\ \A T : Absent(toBroker, T) /\ Single(out, T) => Single(toBroker', T)
  BY <1>1, <1>2, Joined
<1>4. CASE ~read
  <2>1. toClient' = toClient
    BY <1>1, <1>4
  <2> QED
    BY <1>1, <1>2, <1>3, <1>4, <2>1
<1>5. CASE read
  <2>1. toClient' = Tail(toClient) /\ toClient # <<>>
    BY <1>1, <1>5
  <2>2. /\ Tail(toClient) \in Seq(Packet)
        /\ Head(toClient) \in Packet /\ Head(toClient) \in In(toClient)
        /\ In(toClient) = {Head(toClient)} \cup In(Tail(toClient))
        /\ \A T : Single(toClient, T) => Single(Tail(toClient), T)
        /\ \A T : Single(toClient, T) /\ Head(toClient).type \in T => Absent(Tail(toClient), T)
    BY <1>2, <2>1, Taken
  <2>3. \A T : Absent(toClient, T) => Absent(toClient', T)
    BY <2>1, <2>2 DEF Absent
  <2> QED
    BY <1>1, <1>3, <1>5, <2>1, <2>2, <2>3
<1> QED
  BY <1>4, <1>5

\* A step that leaves no socket leaves nothing on the way.
LEMMA ShutStep ==
  ASSUME IInv, NEW s \in Client, NEW out, NEW read, Settle(s, out, read),
         s.sockHandle # "open", ~s.isconnected, s.handlers = {},
         call' \in CallType, result' \in ResultType,
         call'.op \in {"none", "yield"} \/ (call' = call /\ s.configured)
  PROVE  IInv'
<1>1. /\ mc' = s /\ link' = "down" /\ toBroker' = <<>> /\ toClient' = <<>>
      /\ broker' = NoSession
  BY DEF Settle
<1>2. Typed'
  <2>1. IsFiniteSet({}) /\ Cardinality({}) = 0
    BY FS_EmptySet
  <2>2. <<>> \in Seq(Packet) /\ NoSession \in [session : BOOLEAN, subs : SUBSET Filters]
    BY DEF NoSession
  <2>3. IsFiniteSet(mc'.handlers) /\ Cardinality(mc'.handlers) <= MaxHandlers
    <3>1. mc'.handlers = {}
      BY <1>1
    <3>2. 0 <= MaxHandlers
      BY LimitsAssumption
    <3> QED
      BY <2>1, <3>1, <3>2
  <2> QED
    BY <1>1, <2>2, <2>3 DEF Typed
<1>3. Linked' /\ Session'
  BY <1>1 DEF Linked, Session
<1>4. Calling'
  BY <1>1 DEF IInv, Calling, Requests
<1>5. Pending'
  BY <1>1, EmptyQueue DEF Pending
<1>6. Agreement' /\ Messages' /\ Pinged'
  BY <1>1, EmptyQueue DEF Agreement, Messages, Pinged
<1> QED
  BY <1>2, <1>3, <1>4, <1>5, <1>6 DEF IInv

\* A step over an open socket that keeps the session: it may end a call that is
\* no request, and may carry a request on.
LEMMA KeepStep ==
  ASSUME IInv, NEW s \in Client, s.sockHandle = "open", mc.sockHandle = "open",
         s.isconnected = mc.isconnected, s.handlers = mc.handlers,
         mc.configured => s.configured,
         NEW out \in Seq(Packet), NEW read \in BOOLEAN, read => toClient # <<>>,
         Settle(s, out, read), call' \in CallType, result' \in ResultType, Calling',
         \/ call' = call /\ (read => Head(toClient).type # call.awaits)
         \/ call.op \notin Requests /\ call'.op \notin Requests,
         Single(out, RequestTypes),
         \A p \in In(out) : p.type \in RequestTypes =>
           /\ p.type = "PUBREL" /\ p.id = Head(toClient).id
           /\ read /\ Head(toClient).type = "PUBREC",
         mc.isconnected /\ s.ping_outstanding /\ link = "up" =>
           \/ mc.ping_outstanding /\ ~(read /\ Head(toClient).type = "PINGRESP")
           \/ \E p \in In(out) : p.type = "PINGREQ"
  PROVE  IInv'
<1>1. /\ mc' = s /\ link' = link /\ broker' = broker
      /\ toBroker' \in Seq(Packet) /\ toClient' \in Seq(Packet)
      /\ In(toBroker') = In(toBroker) \cup In(out)
      /\ \A T : Absent(toBroker, T) /\ Absent(out, T) => Absent(toBroker', T)
      /\ \A T : Single(toBroker, T) /\ Absent(out, T) => Single(toBroker', T)
      /\ \A T : Absent(toBroker, T) /\ Single(out, T) => Single(toBroker', T)
      /\ In(toClient') \subseteq In(toClient)
      /\ ~read => toClient' = toClient
      /\ read => /\ Head(toClient) \in In(toClient) /\ Head(toClient) \in Packet
                 /\ In(toClient) = {Head(toClient)} \cup In(toClient')
      /\ \A T : Absent(toClient, T) => Absent(toClient', T)
      /\ \A T : Single(toClient, T) => Single(toClient', T)
      /\ \A T : read /\ Single(toClient, T) /\ Head(toClient).type \in T =>
                  Absent(toClient', T)
  BY Settled DEF IInv
<1>2. Typed'
  BY <1>1 DEF IInv, Typed
<1>3. Linked' /\ Session'
  BY <1>1 DEF IInv, Linked, Session
<1>4. Pinged'
  <2>1. SUFFICES ASSUME mc.isconnected, s.ping_outstanding, link = "up"
                 PROVE  \/ \E p \in In(toBroker') : p.type = "PINGREQ"
                        \/ \E p \in In(toClient') : p.type = "PINGRESP"
    BY <1>1 DEF Pinged
  <2>2. CASE \E p \in In(out) : p.type = "PINGREQ"
    BY <1>1, <2>2
  <2>3. CASE mc.ping_outstanding /\ ~(read /\ Head(toClient).type = "PINGRESP")
    <3>1. \/ \E p \in In(toBroker) : p.type = "PINGREQ"
          \/ \E p \in In(toClient) : p.type = "PINGRESP"
      BY <2>1, <2>3 DEF IInv, Pinged
    <3> QED
      BY <1>1, <2>3, <3>1
  <2> QED
    BY <2>1, <2>2, <2>3
<1>5. CASE call' = call /\ (read => Head(toClient).type # call.awaits)
  <2>1. /\ call.op = "subscribe" => (Acked("SUBACK") <=> Acked("SUBACK")')
        /\ call.op = "unsubscribe" => (Acked("UNSUBACK") <=> Acked("UNSUBACK")')
        /\ Acked("CONNACK")' => Acked("CONNACK")
    <3>1. \A t : Acked(t)' => Acked(t)
      BY <1>1 DEF Acked
    <3>2. \A t : t = call.awaits /\ Acked(t) => Acked(t)'
      BY <1>1, <1>5 DEF Acked
    <3> QED
      BY <3>1, <3>2 DEF IInv, Calling
  <2>2. Pending'
    <3>1. CASE call.op \in Requests
      <4>1. /\ Single(toBroker, RequestTypes) /\ Single(toClient, AckTypes)
            /\ Absent(toBroker, RequestTypes) \/ Absent(toClient, AckTypes)
            /\ \A p \in In(toBroker) : p.type \in RequestTypes => OfCall(p)
            /\ \A p \in In(toClient) : p.type \in AckTypes => OfCall(p)
        BY <3>1 DEF IInv, Pending
      <4>2. \A p : OfCall(p) => OfCall(p)'
        BY <1>5 DEF OfCall, Chain
      <4>3. \A p \in In(toClient') : p.type \in AckTypes => OfCall(p)'
        BY <1>1, <4>1, <4>2
      <4>4. CASE Absent(out, RequestTypes)
        <5>1. \A p \in In(toBroker') : p.type \in RequestTypes => OfCall(p)'
          BY <1>1, <4>1, <4>2, <4>4 DEF Absent
        <5>2. Single(toBroker', RequestTypes) /\ Single(toClient', AckTypes)
          BY <1>1, <4>1, <4>4
        <5>3. Absent(toBroker', RequestTypes) \/ Absent(toClient', AckTypes)
          BY <1>1, <4>1, <4>4
        <5> QED
          BY <1>5, <3>1, <4>3, <5>1, <5>2, <5>3 DEF Pending
      <4>5. CASE ~Absent(out, RequestTypes)
        <5>1. PICK p \in In(out) : p.type \in RequestTypes
          BY <4>5 DEF Absent
        <5>2. read /\ Head(toClient).type = "PUBREC" /\ Head(toClient).type \in AckTypes
          BY <5>1 DEF AckTypes
        <5>3. OfCall(Head(toClient)) /\ ~Absent(toClient, AckTypes)
          BY <1>1, <4>1, <5>2 DEF Absent
        <5>4. Absent(toBroker, RequestTypes) /\ Absent(toClient', AckTypes)
          BY <1>1, <4>1, <5>2, <5>3
        <5>5. Single(toBroker', RequestTypes) /\ Single(toClient', AckTypes)
          BY <1>1, <4>1, <5>4
        <5>6. \A q \in In(out) : q.type \in RequestTypes => OfCall(q)
          BY <5>2, <5>3 DEF OfCall, Chain
        <5>7. \A q \in In(toBroker') : q.type \in RequestTypes => OfCall(q)'
          BY <1>1, <4>2, <5>4, <5>6 DEF Absent
        <5> QED
          BY <1>5, <3>1, <4>3, <5>4, <5>5, <5>7 DEF Pending
      <4> QED
        BY <4>4, <4>5
    <3>2. CASE call.op \notin Requests
      <4>1. Absent(toBroker, RequestTypes) /\ Absent(toClient, AckTypes)
        BY <3>2 DEF IInv, Pending
      <4>2. Absent(out, RequestTypes)
        BY <1>1, <4>1 DEF Absent, AckTypes
      <4> QED
        BY <1>1, <1>5, <3>2, <4>1, <4>2 DEF Pending
    <3> QED
      BY <3>1, <3>2
  <2>3. Agreement'
    <3>1. Subs' = Subs
      BY <1>1, <1>5, <2>1 DEF Subs
    <3> QED
      BY <1>1, <2>1, <3>1 DEF IInv, Agreement
  <2>4. Messages'
    BY <1>1, <1>5, <2>1 DEF IInv, Messages
  <2> QED
    BY <1>2, <1>3, <1>4, <2>2, <2>3, <2>4 DEF IInv
<1>6. CASE call.op \notin Requests /\ call'.op \notin Requests
  <2>1. Absent(toBroker, RequestTypes) /\ Absent(toClient, AckTypes)
    BY <1>6 DEF IInv, Pending
  <2>2. Absent(out, RequestTypes)
    BY <1>1, <2>1 DEF Absent, AckTypes
  <2>3. Pending'
    BY <1>1, <1>6, <2>1, <2>2 DEF Pending
  <2>4. Subs = mc.handlers /\ Subs' = mc'.handlers
    BY <1>6 DEF Subs, Requests
  <2>5. Acked("CONNACK")' => Acked("CONNACK")
    BY <1>1 DEF Acked
  <2>6. Agreement'
    BY <1>1, <2>4, <2>5 DEF IInv, Agreement
  <2>7. Messages'
    BY <1>1, <1>6 DEF IInv, Messages, Requests
  <2> QED
    BY <1>2, <1>3, <1>4, <2>3, <2>6, <2>7 DEF IInv
<1> QED
  BY <1>5, <1>6

\* Sending nothing sends no request.
LEMMA NoPackets ==
  /\ <<>> \in Seq(Packet)
  /\ Single(<<>>, RequestTypes) /\ Absent(<<>>, RequestTypes)
  /\ \A p \in In(<<>>) : FALSE
BY EmptyQueue

\* A call that ends by closing the session.
LEMMA ClosedStep ==
  ASSUME IInv, NEW s \in Client, s.configured = mc.configured,
         \/ s.sockHandle = "open" /\ mc.sockHandle = "open" /\ s.handlers = mc.handlers
         \/ s.sockHandle # "open" /\ (s.handlers = {} \/ s.handlers = mc.handlers),
         mc.configured \/ ~mc.isconnected,
         NEW out \in Seq(Packet), Absent(out, RequestTypes),
         NEW read \in BOOLEAN, read => toClient # <<>>,
         Settle(MQTTCloseSession(s), out, read), call' = NoCall, result' \in ResultType
  PROVE  IInv'
<1> DEFINE t == MQTTCloseSession(s)
<1>1. /\ t \in Client /\ ~t.isconnected /\ t.configured = s.configured
      /\ s.configured => t.sockHandle # "open" /\ t.handlers = {}
      /\ ~s.configured => t.sockHandle = s.sockHandle /\ t.handlers = s.handlers
  BY Close
<1>2. Settle(t, out, read)
  OBVIOUS
<1> HIDE DEF t
<1>3. call'.op = "none" /\ call' \in CallType /\ call'.op \notin Requests
  BY NoCallType
<1>4. ~mc.isconnected => mc.handlers = {}
  BY DEF IInv, Session
<1>5. CASE t.sockHandle # "open"
  <2>1. t.handlers = {}
    BY <1>1, <1>4
  <2> QED
    BY <1>1, <1>2, <1>3, <1>5, <2>1, ShutStep
<1>6. CASE t.sockHandle = "open"
  <2>1. ~s.configured /\ s.sockHandle = "open" /\ t.handlers = mc.handlers
    BY <1>1, <1>6
  <2>2. ~mc.configured /\ ~mc.isconnected /\ call.op \notin Requests
    BY <2>1 DEF IInv, Calling
  <2>3. Single(out, RequestTypes)
    BY DEF Single, Absent, In
  <2>4. \A p \in In(out) : p.type \notin RequestTypes
    BY DEF Absent
  <2>5. Calling'
    BY <1>3 DEF Calling, Requests
  <2>6. mc.sockHandle = "open" /\ t.isconnected = mc.isconnected
    BY <1>1, <2>1, <2>2 DEF Client, IInv, Typed
  <2> QED
    BY <1>1, <1>2, <1>3, <1>6, <2>1, <2>2, <2>3, <2>4, <2>5, <2>6, KeepStep
<1> QED
  BY <1>5, <1>6

\* A connection accepted.
LEMMA ConnectedStep ==
  ASSUME IInv, NEW s \in Client, s.sockHandle = "open", mc.sockHandle = "open",
         s.isconnected, ~s.ping_outstanding, s.configured, s.handlers = mc.handlers,
         call.op = "connect", toClient # <<>>,
         Head(toClient).type = "CONNACK", Head(toClient).accepted,
         NEW out \in Seq(Packet), Absent(out, RequestTypes), Settle(s, out, TRUE),
         call' = NoCall, result' \in ResultType
  PROVE  IInv'
<1>1. /\ mc' = s /\ link' = link /\ broker' = broker
      /\ toBroker' \in Seq(Packet) /\ toClient' \in Seq(Packet)
      /\ \A T : Absent(toBroker, T) /\ Absent(out, T) => Absent(toBroker', T)
      /\ In(toClient') \subseteq In(toClient) /\ Head(toClient) \in In(toClient)
      /\ \A T : Absent(toClient, T) => Absent(toClient', T)
  BY Settled DEF IInv
<1>2. /\ call.op \notin Requests /\ ~mc.isconnected /\ mc.handlers = {}
      /\ call' \in CallType /\ call'.op = "none" /\ call'.op \notin Requests
  BY NoCallType DEF IInv, Calling, Session, Requests
<1>3. Typed' /\ Linked' /\ Session'
  BY <1>1, <1>2 DEF IInv, Typed, Linked, Session
<1>4. Calling'
  BY <1>2 DEF Calling, Requests
<1>5. Pending'
  BY <1>1, <1>2 DEF IInv, Pending
<1>6. Agreement'
  <2>1. Acked("CONNACK")
    BY <1>1 DEF Acked
  <2>2. Subs' = {}
    BY <1>1, <1>2 DEF Subs
  <2> QED
    BY <1>1, <1>2, <2>1, <2>2 DEF IInv, Agreement
<1>7. Messages' /\ Pinged'
  BY <1>1, <1>2 DEF IInv, Messages, Pinged
<1> QED
  BY <1>3, <1>4, <1>5, <1>6, <1>7 DEF IInv

\* A request acknowledged over an open socket.
LEMMA DoneStep ==
  ASSUME IInv, NEW s \in Client, s.sockHandle = "open", mc.sockHandle = "open",
         s.isconnected = mc.isconnected, s.configured = mc.configured,
         IsFiniteSet(s.handlers), Cardinality(s.handlers) <= MaxHandlers,
         call.op \in {"subscribe", "publish"}, toClient # <<>>,
         Head(toClient).type = call.awaits,
         s.handlers = mc.handlers \cup
           {f \in {call.filter} : call.op = "subscribe" /\ Head(toClient).accepted},
         NEW out \in Seq(Packet), Absent(out, RequestTypes), Settle(s, out, TRUE),
         call' = NoCall, result' \in ResultType,
         s.ping_outstanding /\ link = "up" =>
           \/ mc.ping_outstanding
           \/ \E p \in In(out) : p.type = "PINGREQ"
  PROVE  IInv'
<1>1. /\ mc' = s /\ link' = link /\ broker' = broker
      /\ toBroker' \in Seq(Packet) /\ toClient' \in Seq(Packet)
      /\ In(toBroker') = In(toBroker) \cup In(out)
      /\ \A T : Absent(toBroker, T) /\ Absent(out, T) => Absent(toBroker', T)
      /\ Head(toClient) \in In(toClient)
      /\ In(toClient) = {Head(toClient)} \cup In(toClient')
      /\ \A T : Single(toClient, T) /\ Head(toClient).type \in T => Absent(toClient', T)
  BY Settled DEF IInv
<1>2. /\ mc.isconnected /\ mc.configured
      /\ call' \in CallType /\ call'.op = "none" /\ call'.op \notin Requests
      /\ call.op \in Requests
  BY NoCallType DEF IInv, Calling, Requests
<1>3. call.awaits \in AckTypes /\ Head(toClient).type # "PINGRESP"
  BY DEF IInv, Calling, AckTypes
<1>4. Absent(toBroker, RequestTypes) /\ Absent(toClient', AckTypes)
  BY <1>1, <1>2, <1>3 DEF IInv, Pending, Absent
<1>5. Acked("SUBACK") <=> Head(toClient).type = "SUBACK" /\ Head(toClient).accepted
  BY <1>1, <1>4 DEF Acked, Absent, AckTypes
<1>6. s.handlers = Subs
  BY <1>5 DEF Subs, IInv, Calling
<1>7. Typed' /\ Linked' /\ Session'
  BY <1>1, <1>2 DEF IInv, Typed, Linked, Session
<1>8. Calling'
  BY <1>2 DEF Calling, Requests
<1>9. Pending'
  BY <1>1, <1>2, <1>4 DEF Pending
<1>10. Agreement'
  <2>1. Subs' = s.handlers
    BY <1>1, <1>2 DEF Subs
  <2> QED
    BY <1>1, <1>2, <1>6, <2>1 DEF IInv, Agreement
<1>11. Messages'
  BY <1>1, <1>5 DEF IInv, Messages
<1>12. Pinged'
  BY <1>1, <1>2, <1>3 DEF IInv, Pinged
<1> QED
  BY <1>7, <1>8, <1>9, <1>10, <1>11, <1>12 DEF IInv

\* A request sent.
LEMMA RequestStep ==
  ASSUME IInv, call.op = "none", mc.isconnected,
         NEW s \in Client, s.sockHandle = "open",
         s.isconnected = mc.isconnected, s.configured = mc.configured,
         s.handlers = mc.handlers, s.ping_outstanding = mc.ping_outstanding,
         NEW p \in Packet, NEW out \in {<<>>, <<p>>}, Settle(s, out, FALSE),
         call' \in CallType, call'.op \in Requests, Calling', result' \in ResultType,
         p.id = call'.id, p.type \in Chain',
         p.type \in {"SUBSCRIBE", "UNSUBSCRIBE"} => p.filter = call'.filter
  PROVE  IInv'
<1>1. out \in Seq(Packet) /\ In(out) \subseteq {p} /\ Single(out, RequestTypes)
  <2>1. CASE out = <<>>
    BY <2>1, EmptyQueue
  <2>2. CASE out = <<p>>
    BY <2>2, One
  <2> QED
    BY <2>1, <2>2
<1>2. /\ mc' = s /\ link' = link /\ broker' = broker
      /\ toBroker' \in Seq(Packet) /\ toClient' = toClient
      /\ In(toBroker') = In(toBroker) \cup In(out)
      /\ \A T : Absent(toBroker, T) /\ Single(out, T) => Single(toBroker', T)
  BY <1>1, Settled DEF IInv
<1>3. Absent(toBroker, RequestTypes) /\ Absent(toClient, AckTypes)
  BY DEF IInv, Pending, Requests
<1>4. Typed' /\ Linked' /\ Session'
  BY <1>2 DEF IInv, Typed, Linked, Session
<1>5. Pending'
  <2>1. Single(toClient', AckTypes)
    BY <1>2, <1>3 DEF Single, Absent, In
  <2>2. \A q \in In(toBroker') : q.type \in RequestTypes => OfCall(q)'
    BY <1>1, <1>2, <1>3 DEF Absent, OfCall, RequestTypes
  <2>3. \A q \in In(toClient') : q.type \in AckTypes => OfCall(q)'
    BY <1>2, <1>3 DEF Absent
  <2> QED
    BY <1>1, <1>2, <1>3, <2>1, <2>2, <2>3 DEF Pending
<1>6. Agreement'
  <2>1. ~Acked("SUBACK") /\ ~Acked("UNSUBACK") /\ ~Acked("SUBACK")' /\ ~Acked("UNSUBACK")'
    BY <1>2, <1>3 DEF Acked, Absent, AckTypes
  <2>2. Subs = mc.handlers /\ Subs' = s.handlers
    BY <1>2, <2>1 DEF Subs
  <2> QED
    BY <1>2, <2>2 DEF IInv, Agreement
<1>7. Messages' /\ Pinged'
  BY <1>2 DEF IInv, Messages, Pinged
<1> QED
  BY <1>4, <1>5, <1>6, <1>7 DEF IInv

-----------------------------------------------------------------------------
(* The calls.                                                               *)

\* A step that leaves client and connection alone.
LEMMA QuietStep ==
  ASSUME IInv, UNCHANGED <<mc, env>>, result' \in ResultType,
         \/ call' = call
         \/ /\ call' \in CallType /\ call.op = "none" /\ call'.op = "yield"
  PROVE  IInv'
<1>1. /\ mc' = mc /\ link' = link /\ toBroker' = toBroker /\ toClient' = toClient
      /\ broker' = broker
  BY DEF env
<1>2. CASE call' = call
  <2>1. Typed' /\ Linked' /\ Session' /\ Calling' /\ Pinged' /\ Messages'
    BY <1>1, <1>2 DEF IInv, Typed, Linked, Session, Calling, Pinged, Messages, Acked
  <2>2. \A p : OfCall(p)' <=> OfCall(p)
    BY <1>2 DEF OfCall, Chain
  <2>3. Pending'
    BY <1>1, <1>2, <2>2 DEF IInv, Pending
  <2>4. Subs' = Subs
    BY <1>1, <1>2 DEF Subs, Acked
  <2>5. Agreement'
    BY <1>1, <2>4 DEF IInv, Agreement, Acked
  <2> QED
    BY <2>1, <2>3, <2>5 DEF IInv
<1>3. CASE call' \in CallType /\ call.op = "none" /\ call'.op = "yield"
  <2>1. call.op \notin Requests /\ call'.op \notin Requests
    BY <1>3 DEF Requests
  <2>2. Typed' /\ Linked' /\ Session' /\ Pinged' /\ Messages'
    BY <1>1, <1>3 DEF IInv, Typed, Linked, Session, Pinged, Messages, Acked
  <2>3. Calling'
    BY <1>3 DEF Calling, Requests
  <2>4. Pending'
    BY <1>1, <2>1 DEF IInv, Pending
  <2>5. Subs = mc.handlers /\ Subs' = mc.handlers
    BY <1>1, <1>3 DEF Subs
  <2>6. Agreement'
    BY <1>1, <2>5 DEF IInv, Agreement, Acked
  <2> QED
    BY <2>2, <2>3, <2>4, <2>6 DEF IInv
<1> QED
  BY <1>2, <1>3

\* mqtt_network_init: nothing is on the way over a new connection.
LEMMA NewNetworkStep == IInv /\ NewNetwork => IInv'
<1> SUFFICES ASSUME IInv, NewNetwork
             PROVE  IInv'
  OBVIOUS
<1>1. /\ call.op = "none" /\ ~mc.isconnected /\ mc.sockHandle # "open"
      /\ mc' = [mc EXCEPT !.sockHandle = "open"] /\ link' = "up"
      /\ toBroker' = toBroker /\ toClient' = toClient /\ broker' = broker
      /\ call' = call /\ result' = result
  BY DEF NewNetwork, Idle
<1>2. mc \in Client
  BY DEF IInv, Typed
<1>3. /\ mc' \in Client /\ mc'.sockHandle = "open" /\ ~mc'.isconnected
      /\ mc'.handlers = mc.handlers /\ mc'.configured = mc.configured
  BY <1>1, <1>2 DEF Client
<1>4. link = "down" /\ toBroker = <<>> /\ toClient = <<>> /\ broker = NoSession
  BY <1>1 DEF IInv, Linked, Typed
<1>5. Typed' /\ Linked' /\ Session'
  BY <1>1, <1>3 DEF IInv, Typed, Linked, Session
<1>6. Calling'
  BY <1>1 DEF Calling, Requests
<1>7. Pending'
  BY <1>1, <1>4, EmptyQueue DEF Pending
<1>8. Agreement' /\ Messages' /\ Pinged'
  BY <1>1, <1>3, <1>4, EmptyQueue DEF Agreement, Messages, Pinged, Acked, NoSession
<1> QED
  BY <1>5, <1>6, <1>7, <1>8 DEF IInv

\* A socket that is closed and forgotten takes what is on the way with it.
LEMMA DropNetworkStep == IInv /\ DropNetwork => IInv'
<1> SUFFICES ASSUME IInv, DropNetwork
             PROVE  IInv'
  OBVIOUS
<1> DEFINE s == [mc EXCEPT !.sockHandle = "null"]
<1>1. call.op = "none" /\ ~mc.isconnected /\ Settle(s, <<>>, FALSE)
      /\ call' = call /\ result' = result
  BY DEF DropNetwork, Idle
<1>2. mc \in Client /\ call \in CallType /\ result \in ResultType /\ mc.handlers = {}
  BY <1>1 DEF IInv, Typed, Session
<1>3. s \in Client /\ s.sockHandle # "open" /\ ~s.isconnected /\ s.handlers = {}
  BY <1>1, <1>2 DEF Client
<1> HIDE DEF s
<1> QED
  BY <1>1, <1>2, <1>3, ShutStep

\* MQTTConnect sends a CONNECT that no request waits for.
LEMMA ConnectStep == IInv /\ MQTTConnect => IInv'
<1> SUFFICES ASSUME IInv, MQTTConnect
             PROVE  IInv'
  OBVIOUS
<1> DEFINE s == [mc EXCEPT !.configured = TRUE, !.received_expired = FALSE]
           p == Pkt("CONNECT", 0)
<1>1. call.op = "none"
  BY DEF MQTTConnect, Idle
<1>2. mc \in Client /\ result \in ResultType
  BY DEF IInv, Typed
<1>3. /\ s \in Client /\ s.configured /\ s.isconnected = mc.isconnected
      /\ s.handlers = mc.handlers /\ s.sockHandle = mc.sockHandle
      /\ s.ping_outstanding = mc.ping_outstanding
  BY <1>2 DEF Client
<1>4. p \in Packet /\ p.type = "CONNECT"
  BY Packets, LimitsAssumption DEF PacketTypes
<1>5. CASE mc.isconnected
  <2>1. UNCHANGED <<mc, env, call>> /\ result' = "FAILURE"
    BY <1>5 DEF MQTTConnect
  <2>2. result' \in ResultType /\ call' = call /\ UNCHANGED <<mc, env>>
    BY <2>1 DEF ResultType
  <2> QED
    BY <2>2, QuietStep
<1>6. CASE ~mc.isconnected
  <2>1. PICK o \in sendPacket(s, p) :
          /\ Settle(o.s, o.out, FALSE)
          /\ IF o.ok THEN /\ call' = [NoCall EXCEPT !.op = "connect", !.awaits = "CONNACK"]
                          /\ UNCHANGED result
             ELSE Return("FAILURE")
    BY <1>6 DEF MQTTConnect
  <2> HIDE DEF s, p
  <2>2. /\ o.ok \in BOOLEAN /\ Same(s, o.s)
        /\ o.s.ping_outstanding = s.ping_outstanding /\ o.out \in {<<>>, <<p>>}
        /\ o.ok => s.sockHandle = "open"
    BY <1>3, <1>4, <2>1, Send
  <2>3. o.out \in Seq(Packet) /\ In(o.out) \subseteq {p} /\ Single(o.out, RequestTypes)
    <3>1. CASE o.out = <<>>
      BY <3>1, EmptyQueue
    <3>2. CASE o.out = <<p>>
      BY <1>4, <3>2, One
    <3> QED
      BY <2>2, <3>1, <3>2
  <2>4. /\ o.s \in Client /\ o.s.configured /\ o.s.handlers = mc.handlers
        /\ ~o.s.isconnected /\ o.s.isconnected = mc.isconnected
        /\ (o.s.sockHandle = "open") <=> (mc.sockHandle = "open")
    BY <1>3, <1>6, <2>2 DEF Same
  <2>5. result' \in ResultType
    BY <1>2, <2>1 DEF Return, ResultType
  <2>6. /\ call' \in CallType /\ call'.op \notin Requests
        /\ call'.op = "connect" => o.ok /\ call'.awaits = "CONNACK"
        /\ call'.op \in {"none", "connect"}
    <3>1. CASE o.ok
      <4>1. call' = [op |-> "connect", id |-> 0, filter |-> None, awaits |-> "CONNACK"]
        BY <2>1, <3>1 DEF NoCall
      <4>2. 0 \in 0 .. MaxPacketId
        BY LimitsAssumption
      <4> QED
        BY <3>1, <4>1, <4>2 DEF CallType, Requests
    <3>2. CASE ~o.ok
      BY <2>1, <3>2, NoCallType DEF Return
    <3> QED
      BY <2>2, <3>1, <3>2
  <2>7. CASE mc.sockHandle = "open"
    <3>1. mc' = o.s
      BY <2>1 DEF Settle
    <3>2. Calling'
      BY <2>4, <2>6, <3>1 DEF Calling, Requests
    <3>3. call.op \notin Requests
      BY <1>1 DEF Requests
    <3>4. \A q \in In(o.out) : q.type \notin RequestTypes
      BY <1>4, <2>3 DEF RequestTypes
    <3> QED
      BY <1>6, <2>1, <2>3, <2>4, <2>5, <2>6, <2>7, <3>2, <3>3, <3>4, KeepStep
  <2>8. CASE mc.sockHandle # "open"
    <3>1. call'.op = "none"
      BY <1>3, <2>2, <2>6, <2>8
    <3>2. o.s.handlers = {}
      BY <1>6, <2>4 DEF IInv, Session
    <3> QED
      BY <2>1, <2>4, <2>5, <2>6, <2>8, <3>1, <3>2, ShutStep
  <2> QED
    BY <2>7, <2>8
<1> QED
  BY <1>5, <1>6

\* A call without a session closes what there is.
LEMMA RefusedCall ==
  ASSUME IInv, ~mc.isconnected, Settle(MQTTCloseSession(mc), <<>>, FALSE),
         call' = NoCall, result' \in ResultType
  PROVE  IInv'
<1>1. mc \in Client
  BY DEF IInv, Typed
<1> QED
  BY <1>1, NoPackets, ClosedStep

\* A packet that cannot be sent closes the session.
LEMMA SendClosed ==
  ASSUME IInv, NEW s \in Client, Same(mc, s), mc.configured \/ ~mc.isconnected,
         NEW p \in Packet, p.type \notin RequestTypes,
         NEW out \in {<<>>, <<p>>}, Settle(MQTTCloseSession(s), out, FALSE),
         call' = NoCall, result' \in ResultType
  PROVE  IInv'
<1>1. out \in Seq(Packet) /\ Absent(out, RequestTypes)
  <2>1. CASE out = <<>>
    BY <2>1, EmptyQueue
  <2>2. CASE out = <<p>>
    BY <2>2, One DEF Absent
  <2> QED
    BY <2>1, <2>2
<1> QED
  BY <1>1, ClosedStep DEF Same

\* MQTTSubscribe, MQTTUnsubscribe and MQTTPublish send the only request there is,
\* or close the session.
LEMMA RequestCall ==
  ASSUME IInv, NEW op \in Requests, NEW p \in Packet, NEW awaits,
         p.type \in {"SUBSCRIBE", "UNSUBSCRIBE", "PUBLISH"},
         op = "subscribe" => awaits = "SUBACK" /\ p.type = "SUBSCRIBE",
         op = "unsubscribe" =>
           awaits = "UNSUBACK" /\ p.type = "UNSUBSCRIBE" /\ p.filter \in Filters,
         op = "publish" => awaits \in {"PUBACK", "PUBCOMP"} /\ p.type = "PUBLISH",
         Request(op, p, awaits)
  PROVE  IInv'
<1>1. call.op = "none" /\ mc \in Client /\ result \in ResultType
  BY DEF Request, Idle, IInv, Typed
<1>2. CASE ~mc.isconnected
  <2>1. Settle(MQTTCloseSession(mc), <<>>, FALSE) /\ call' = NoCall /\ result' \in ResultType
    BY <1>2 DEF Request, Return, ResultType
  <2> QED
    BY <1>2, <2>1, RefusedCall
<1>3. CASE mc.isconnected
  <2> DEFINE i == getNextPacketId(mc)
             s == [mc EXCEPT !.next_packetid = i]
             q == [p EXCEPT !.id = i]
  <2>1. PICK o \in sendPacket(s, q) :
          IF o.ok
          THEN /\ Settle(o.s, o.out, FALSE)
               /\ call' = [op |-> op, id |-> i, filter |-> p.filter, awaits |-> awaits]
               /\ UNCHANGED result
          ELSE Settle(MQTTCloseSession(o.s), o.out, FALSE) /\ Return("FAILURE")
    BY <1>3 DEF Request
  <2>2. i \in 1 .. MaxPacketId /\ i \in 0 .. MaxPacketId
    <3>1. mc.next_packetid \in 1 .. MaxPacketId
      BY <1>1 DEF Client
    <3> QED
      BY <3>1, LimitsAssumption DEF getNextPacketId
  <2> HIDE DEF i
  <2>3. /\ s \in Client /\ Same(mc, s) /\ s.ping_outstanding = mc.ping_outstanding
        /\ s.sockHandle = mc.sockHandle
    BY <1>1, <2>2 DEF Client, Same
  <2>4. q \in Packet /\ q.type = p.type /\ q.id = i /\ q.filter = p.filter
    BY <2>2 DEF Packet
  <2> HIDE DEF s, q
  <2>5. /\ o.ok \in BOOLEAN /\ Same(s, o.s)
        /\ o.s.ping_outstanding = s.ping_outstanding /\ o.out \in {<<>>, <<q>>}
        /\ o.ok => s.sockHandle = "open"
        /\ ~o.ok => o.out = <<>>
    BY <2>1, <2>3, <2>4, Send
  <2>6. Same(mc, o.s) /\ o.s \in Client
    BY <2>3, <2>5 DEF Same
  <2>7. mc.configured
    BY <1>3 DEF IInv, Session
  <2>8. CASE o.ok
    <3>1. /\ Settle(o.s, o.out, FALSE) /\ result' = result
          /\ call' = [op |-> op, id |-> i, filter |-> p.filter, awaits |-> awaits]
      BY <2>1, <2>8
    <3>2. op \in {"subscribe", "unsubscribe", "publish"} /\ p.filter \in Filters \cup {None}
      BY DEF Requests, Packet
    <3>3. awaits \in AckTypes
      BY <3>2 DEF AckTypes
    <3>4. call' \in CallType /\ call'.op = op /\ call'.id = i /\ call'.filter = p.filter
          /\ call'.awaits = awaits
      BY <2>2, <3>1, <3>2, <3>3 DEF CallType
    <3>5. o.s.sockHandle = "open" /\ mc' = o.s /\ o.s.configured /\ o.s.isconnected
      BY <1>3, <2>3, <2>5, <2>6, <2>7, <2>8, <3>1 DEF Same, Settle
    <3>6. Calling'
      BY <3>2, <3>4, <3>5 DEF Calling
    <3>7. q.type \in Chain'
      BY <2>4, <3>2, <3>4 DEF Chain
    <3>8. call'.op \in Requests /\ result' \in ResultType
      BY <1>1, <3>1, <3>4
    <3>9. /\ o.s.isconnected = mc.isconnected /\ o.s.configured = mc.configured
          /\ o.s.handlers = mc.handlers /\ o.s.ping_outstanding = mc.ping_outstanding
      BY <2>3, <2>5, <2>6 DEF Same
    <3> QED
      BY <1>1, <1>3, <2>4, <2>5, <2>6, <3>1, <3>4, <3>5, <3>6, <3>7, <3>8, <3>9, RequestStep
  <2>9. CASE ~o.ok
    <3>1. Settle(MQTTCloseSession(o.s), <<>>, FALSE) /\ call' = NoCall /\ result' \in ResultType
      BY <2>1, <2>5, <2>9 DEF Return, ResultType
    <3> QED
      BY <2>6, <2>7, <3>1, NoPackets, ClosedStep DEF Same
  <2> QED
    BY <2>5, <2>8, <2>9
<1> QED
  BY <1>1, <1>2, <1>3 DEF Client

\* The packets made from those of Pkt.
LEMMA FormedAbout ==
  ASSUME NEW t \in PacketTypes, NEW f \in Filters \cup {None}
  PROVE  About(t, f) \in Packet /\ About(t, f).type = t /\ About(t, f).filter = f
<1>1. PICK p \in Packet : p = Pkt(t, 0) /\ p.type = t
  BY Packets, LimitsAssumption
<1>2. About(t, f) = [p EXCEPT !.filter = f]
  BY <1>1 DEF About
<1> QED
  BY <1>1, <1>2 DEF Packet

\* A message is a packet of type PUBLISH.
LEMMA FormedMessage ==
  ASSUME NEW f \in Filters \cup {None}, NEW q \in 0 .. 2
  PROVE  /\ Message(q, f) \in Packet /\ Message(q, f).type = "PUBLISH"
         /\ Message(q, f).filter = f /\ Message(q, f).accepted
<1>1. PICK p \in Packet : p = Pkt("PUBLISH", 0) /\ p.type = "PUBLISH" /\ p.accepted
  BY Packets, LimitsAssumption DEF PacketTypes, RequestTypes
<1>2. Message(q, f) = [p EXCEPT !.qos = q, !.filter = f]
  BY <1>1 DEF Message
<1> QED
  BY <1>1, <1>2 DEF Packet

\* The calls built on Request.
LEMMA RequestsStep ==
  /\ \A f \in Filters \cup {None} : IInv /\ MQTTSubscribe(f) => IInv'
  /\ \A f \in Filters : IInv /\ MQTTUnsubscribe(f) => IInv'
  /\ \A q \in {1, 2} : IInv /\ MQTTPublish(q) => IInv'
<1>1. ASSUME NEW f \in Filters \cup {None}, IInv, MQTTSubscribe(f)
      PROVE  IInv'
  <2>1. PICK p : p = About("SUBSCRIBE", f)
    OBVIOUS
  <2>2. p \in Packet /\ p.type = "SUBSCRIBE" /\ p.filter = f
    BY <2>1, FormedAbout DEF PacketTypes, RequestTypes
  <2>3. Request("subscribe", p, "SUBACK")
    BY <1>1, <2>1 DEF MQTTSubscribe
  <2> QED
    BY <1>1, <2>2, <2>3, RequestCall DEF Requests
<1>2. ASSUME NEW f \in Filters, IInv, MQTTUnsubscribe(f)
      PROVE  IInv'
  <2>1. PICK p : p = About("UNSUBSCRIBE", f)
    OBVIOUS
  <2>2. p \in Packet /\ p.type = "UNSUBSCRIBE" /\ p.filter = f
    BY <2>1, FormedAbout DEF PacketTypes, RequestTypes
  <2>3. Request("unsubscribe", p, "UNSUBACK")
    BY <1>2, <2>1 DEF MQTTUnsubscribe
  <2> QED
    BY <1>2, <2>2, <2>3, RequestCall DEF Requests
<1>3. ASSUME NEW q \in {1, 2}, IInv, MQTTPublish(q)
      PROVE  IInv'
  <2>1. PICK p : p = Message(q, None)
    OBVIOUS
  <2>2. p \in Packet /\ p.type = "PUBLISH"
    BY <2>1, FormedMessage
  <2>3. PICK awaits : awaits = IF q = 1 THEN "PUBACK" ELSE "PUBCOMP"
    OBVIOUS
  <2>4. Request("publish", p, awaits) /\ awaits \in {"PUBACK", "PUBCOMP"}
    BY <1>3, <2>1, <2>3 DEF MQTTPublish
  <2> QED
    BY <1>3, <2>2, <2>4, RequestCall DEF Requests
<1> QED
  BY <1>1, <1>2, <1>3

\* MQTTPublish at QoS 0 leaves the session as it was, or closes it.
LEMMA Publish0Step == IInv /\ MQTTPublish0 => IInv'
<1> SUFFICES ASSUME IInv, MQTTPublish0
             PROVE  IInv'
  OBVIOUS
<1>1. mc \in Client /\ Same(mc, mc)
  BY DEF IInv, Typed, Same
<1>2. CASE ~mc.isconnected
  <2>1. Settle(MQTTCloseSession(mc), <<>>, FALSE) /\ call' = NoCall /\ result' \in ResultType
    BY <1>2 DEF MQTTPublish0, Return, ResultType
  <2> QED
    BY <1>2, <2>1, RefusedCall
<1>3. CASE mc.isconnected
  <2> DEFINE p == Pkt("PUBLISH", 0)
  <2>1. PICK o \in sendPacket(mc, p) :
          IF o.ok THEN Settle(o.s, <<>>, FALSE) /\ Return("MQSUCCESS")
          ELSE Settle(MQTTCloseSession(o.s), <<>>, FALSE) /\ Return("FAILURE")
    BY <1>3 DEF MQTTPublish0
  <2>2. p \in Packet
    BY Packets, LimitsAssumption DEF PacketTypes, RequestTypes
  <2>3. /\ o.ok \in BOOLEAN /\ Same(mc, o.s)
        /\ o.s.ping_outstanding = mc.ping_outstanding
        /\ o.ok => mc.sockHandle = "open"
    BY <1>1, <2>1, <2>2, Send
  <2>4. call' = NoCall /\ result' \in ResultType
    BY <2>1 DEF Return, ResultType
  <2>5. mc.configured
    BY <1>3 DEF IInv, Session
  <2>6. CASE o.ok
    <3>1. Settle(o.s, <<>>, FALSE) /\ mc.sockHandle = "open"
      BY <2>1, <2>3, <2>6
    <3>2. call' \in CallType /\ call'.op = "none"
      BY <2>4, NoCallType
    <3>3. call'.op \notin Requests /\ call.op \notin Requests /\ Calling'
      BY <3>2 DEF Calling, Requests, MQTTPublish0, Idle
    <3> QED
      BY <2>3, <2>4, <3>1, <3>2, <3>3, NoPackets, KeepStep DEF Same
  <2>7. CASE ~o.ok
    <3>1. Settle(MQTTCloseSession(o.s), <<>>, FALSE)
      BY <2>1, <2>7
    <3> QED
      BY <2>3, <2>4, <2>5, <3>1, NoPackets, ClosedStep DEF Same
  <2> QED
    BY <2>3, <2>6, <2>7
<1> QED
  BY <1>1, <1>2, <1>3 DEF Client

\* MQTTDisconnect closes the session whether the packet was sent or not.
LEMMA DisconnectStep == IInv /\ MQTTDisconnect => IInv'
<1> SUFFICES ASSUME IInv, MQTTDisconnect
             PROVE  IInv'
  OBVIOUS
<1> DEFINE p == Pkt("DISCONNECT", 0)
<1>1. mc \in Client /\ (mc.configured \/ ~mc.isconnected)
  BY DEF IInv, Typed, Session
<1>2. PICK o \in sendPacket(mc, p) :
        /\ Settle(MQTTCloseSession(o.s), o.out, FALSE)
        /\ Return(IF o.ok THEN "MQSUCCESS" ELSE "FAILURE")
  BY DEF MQTTDisconnect
<1>3. p \in Packet /\ p.type \notin RequestTypes
  BY Packets, LimitsAssumption DEF PacketTypes, RequestTypes
<1> HIDE DEF p
<1>4. o.ok \in BOOLEAN /\ Same(mc, o.s) /\ o.out \in {<<>>, <<p>>} /\ o.s \in Client
  BY <1>1, <1>2, <1>3, Send DEF Same
<1>5. call' = NoCall /\ result' \in ResultType
  BY <1>2 DEF Return, ResultType
<1> QED
  BY <1>1, <1>2, <1>3, <1>4, <1>5, SendClosed

\* MQTTYield begins with the session as it is.
LEMMA YieldStep == IInv /\ MQTTYield => IInv'
<1> SUFFICES ASSUME IInv, MQTTYield
             PROVE  IInv'
  OBVIOUS
<1>1. call' = [NoCall EXCEPT !.op = "yield"] /\ UNCHANGED <<mc, env, result>> /\ call.op = "none"
  BY DEF MQTTYield, Idle
<1>2. call' = [op |-> "yield", id |-> 0, filter |-> None, awaits |-> "none"]
  BY <1>1 DEF NoCall
<1>3. 0 \in 0 .. MaxPacketId
  BY LimitsAssumption
<1>4. call' \in CallType /\ call'.op = "yield"
  BY <1>2, <1>3 DEF CallType
<1>5. result' \in ResultType /\ UNCHANGED <<mc, env>>
  BY <1>1 DEF IInv, Typed
<1> QED
  BY <1>1, <1>4, <1>5, QuietStep
-----------------------------------------------------------------------------
(* The rounds of a call that waits.                                         *)

\* A round that gives the call up.
LEMMA GiveUpStep ==
  ASSUME IInv, call.op \in Requests, NEW s \in Client, s.configured = mc.configured,
         \/ s.sockHandle = "open" /\ mc.sockHandle = "open" /\ s.handlers = mc.handlers
         \/ s.sockHandle # "open" /\ (s.handlers = {} \/ s.handlers = mc.handlers),
         NEW out, NEW read, Settle(MQTTCloseSession(s), out, read),
         call' = NoCall, result' \in ResultType
  PROVE  IInv'
<1> DEFINE t == MQTTCloseSession(s)
<1>1. mc.configured
  BY DEF IInv, Calling
<1>2. t \in Client /\ ~t.isconnected /\ t.sockHandle # "open" /\ t.handlers = {}
  BY <1>1, Close
<1>3. Settle(t, out, read) /\ call' \in CallType /\ call'.op = "none"
  BY NoCallType
<1> HIDE DEF t
<1> QED
  BY <1>2, <1>3, ShutStep

\* A round that keeps the socket and does not settle the call.
LEMMA LeftStep ==
  ASSUME IInv, NEW o, Left(o), o.read \in BOOLEAN,
         o.read => toClient # <<>> /\ o.p = Head(toClient),
         o.p.type = "PUBREC" => o.read,
         Settle(o.s, o.out, o.read), call' \in CallType, result' \in ResultType, Calling',
         \/ call' = call /\ (o.read => Head(toClient).type # call.awaits)
         \/ call.op \notin Requests /\ call'.op \notin Requests
  PROVE  IInv'
<1>1. /\ o.s \in Client /\ o.s.sockHandle = "open" /\ mc.sockHandle = "open"
      /\ o.s.isconnected = mc.isconnected /\ o.s.handlers = mc.handlers
      /\ o.s.configured = mc.configured
  BY DEF Left, Same
<1>2. /\ o.out \in Seq(Packet) /\ Single(o.out, RequestTypes)
      /\ \A p \in In(o.out) : p.type \in RequestTypes =>
           p.type = "PUBREL" /\ o.p.type = "PUBREC" /\ p.id = o.p.id
  BY DEF Left, Replies, RequestTypes
<1>3. o.s.ping_outstanding /\ link = "up" =>
        \/ mc.ping_outstanding /\ ~(o.read /\ o.p.type = "PINGRESP")
        \/ \E q \in In(o.out) : q.type = "PINGREQ"
  BY DEF Left
<1>4. \A p \in In(o.out) : p.type \in RequestTypes =>
        /\ p.type = "PUBREL" /\ p.id = Head(toClient).id
        /\ o.read /\ Head(toClient).type = "PUBREC"
  BY <1>2
<1>5. mc.isconnected /\ o.s.ping_outstanding /\ link = "up" =>
        \/ mc.ping_outstanding /\ ~(o.read /\ Head(toClient).type = "PINGRESP")
        \/ \E q \in In(o.out) : q.type = "PINGREQ"
  BY <1>3
<1> QED
  BY <1>1, <1>2, <1>4, <1>5, KeepStep

\* What the handler table does with a filter.
LEMMA Handler ==
  ASSUME NEW s \in Client, NEW f \in Filters,
         IsFiniteSet(s.handlers), Cardinality(s.handlers) <= MaxHandlers
  PROVE  LET h == MQTTSetMessageHandler(s, f)
             t == [s EXCEPT !.handlers = @ \cup {f}]
         IN  \/ /\ h.rc = "MQSUCCESS" /\ h.s = t
                /\ IsFiniteSet(t.handlers) /\ Cardinality(t.handlers) <= MaxHandlers
             \/ h.rc = "FAILURE"
<1> DEFINE t == [s EXCEPT !.handlers = @ \cup {f}]
<1>1. t.handlers = s.handlers \cup {f}
  BY DEF Client
<1>2. /\ IsFiniteSet(s.handlers \cup {f})
      /\ Cardinality(s.handlers \cup {f}) =
           IF f \in s.handlers THEN Cardinality(s.handlers) ELSE Cardinality(s.handlers) + 1
      /\ Cardinality(s.handlers) \in Nat
  BY FS_AddElement, FS_CardinalityType
<1>3. CASE f \in s.handlers \/ Cardinality(s.handlers) < MaxHandlers
  <2>1. MQTTSetMessageHandler(s, f) = [rc |-> "MQSUCCESS", s |-> t]
    BY <1>3 DEF MQTTSetMessageHandler
  <2>2. IsFiniteSet(t.handlers) /\ Cardinality(t.handlers) <= MaxHandlers
    BY <1>1, <1>2, <1>3, LimitsAssumption
  <2> QED
    BY <2>1, <2>2
<1>4. CASE ~(f \in s.handlers \/ Cardinality(s.handlers) < MaxHandlers)
  BY <1>4 DEF MQTTSetMessageHandler
<1> QED
  BY <1>3, <1>4

\* A request whose timer is over closes the session, a connect leaves it.
LEMMA WaitExpiresStep == IInv /\ WaitExpires => IInv'
<1> SUFFICES ASSUME IInv, WaitExpires
             PROVE  IInv'
  OBVIOUS
<1>1. call.op = "connect" \/ call.op \in Requests
  BY DEF WaitExpires, IInv, Typed, CallType
<1>2. Settle(GiveUp(mc), <<>>, FALSE) /\ call' = NoCall /\ result' \in ResultType
  BY DEF WaitExpires, Return, ResultType
<1>3. mc \in Client /\ call' \in CallType /\ call'.op = "none" /\ call'.op \notin Requests
  BY <1>2, NoCallType DEF IInv, Typed
<1>4. CASE call.op = "connect"
  <2>1. Settle(mc, <<>>, FALSE) /\ call.op \notin Requests /\ ~mc.isconnected /\ mc.handlers = {}
    BY <1>2, <1>4 DEF GiveUp, Requests, IInv, Calling, Session
  <2>2. Calling'
    BY <1>3 DEF Calling, Requests
  <2>3. CASE mc.sockHandle = "open"
    BY <1>2, <1>3, <2>1, <2>2, <2>3, NoPackets, KeepStep
  <2>4. CASE mc.sockHandle # "open"
    BY <1>2, <1>3, <2>1, <2>4, ShutStep
  <2> QED
    BY <2>3, <2>4
<1>5. CASE call.op \in Requests
  <2>1. Settle(MQTTCloseSession(mc), <<>>, FALSE)
    BY <1>2, <1>5 DEF GiveUp, Requests
  <2> QED
    BY <1>2, <1>3, <1>5, <2>1, GiveUpStep
<1> QED
  BY <1>1, <1>4, <1>5

\* A round of MQTTYield reads no acknowledgement: none is on the way.
LEMMA YieldCycleStep == IInv /\ YieldCycle => IInv'
<1> SUFFICES ASSUME IInv, YieldCycle
             PROVE  IInv'
  OBVIOUS
<1>1. PICK late \in BOOLEAN : \E o \in cycle(mc, late) :
        /\ Settle(o.s, o.out, o.read)
        /\ \/ o.rc = "error" /\ Return("FAILURE")
           \/ o.rc # "error" /\ Return("MQSUCCESS")
           \/ o.rc # "error" /\ ~late /\ UNCHANGED <<call, result>>
  BY DEF YieldCycle
<1>2. PICK o \in cycle(mc, late) :
        /\ Settle(o.s, o.out, o.read)
        /\ \/ o.rc = "error" /\ Return("FAILURE")
           \/ o.rc # "error" /\ Return("MQSUCCESS")
           \/ o.rc # "error" /\ ~late /\ UNCHANGED <<call, result>>
  BY <1>1
<1>3. /\ o.rc # "error" => o.rc = o.p.type
      /\ \/ o.read = TRUE /\ toClient # <<>> /\ o.p = Head(toClient)
         \/ o.read = FALSE /\ {o.rc, o.p.type} \subseteq {"timeout", "error"}
      /\ (Left(o) /\ (Bad(o) => ~mc.isconnected)) \/ (Shut(o) /\ Bad(o))
  BY Cycle DEF IInv
<1>4. call.op = "yield" /\ call \in CallType /\ result \in ResultType /\ call.op \notin Requests
  BY DEF YieldCycle, IInv, Typed, Requests
<1>5. call' \in CallType /\ call'.op \in {"none", "yield"} /\ result' \in ResultType
  BY <1>2, <1>4, NoCallType DEF Return, ResultType
<1>6. call'.op \notin Requests /\ Calling'
  BY <1>5 DEF Calling, Requests
<1>7. CASE Left(o)
  BY <1>2, <1>3, <1>4, <1>5, <1>6, <1>7, LeftStep
<1>8. CASE Shut(o)
  BY <1>2, <1>5, <1>8, ShutStep DEF Shut
<1> QED
  BY <1>3, <1>7, <1>8

\* A round that reads what the call waits for.
LEMMA AcceptedStep ==
  ASSUME IInv, call.op = "connect" \/ call.op \in Requests,
         NEW o, o.rc = call.awaits, o.rc # "error" => o.rc = o.p.type,
         \/ o.read = TRUE /\ toClient # <<>> /\ o.p = Head(toClient)
         \/ o.read = FALSE /\ {o.rc, o.p.type} \subseteq {"timeout", "error"},
         (Left(o) /\ (Bad(o) => ~mc.isconnected)) \/ (Shut(o) /\ Bad(o)),
         Settle(Accepted(o.s, o.p).s, o.out, o.read), Return(Accepted(o.s, o.p).rc)
  PROVE  IInv'
<1>1. /\ o.read = TRUE /\ toClient # <<>> /\ o.p = Head(toClient)
      /\ o.p.type = call.awaits /\ o.rc = o.p.type
  BY DEF IInv, Calling, Requests
<1>2. call' = NoCall /\ result' = Accepted(o.s, o.p).rc
  BY DEF Return
<1>3. call' \in CallType /\ call'.op = "none" /\ call'.op \notin Requests /\ Calling'
  BY <1>2, NoCallType DEF Calling, Requests
<1>4. CASE call.op = "connect"
  <2>1. o.p.type = "CONNACK" /\ Left(o) /\ ~mc.isconnected /\ mc.configured
    BY <1>1, <1>4 DEF IInv, Calling, Bad, KnownTypes
  <2>2. o.s \in Client /\ o.out \in Seq(Packet) /\ Absent(o.out, RequestTypes)
    BY <2>1 DEF Left, Same, Replies, Absent, RequestTypes
  <2>3. CASE o.p.accepted
    <3> DEFINE s == [o.s EXCEPT !.isconnected = TRUE, !.ping_outstanding = FALSE]
    <3>1. Accepted(o.s, o.p) = [rc |-> "MQSUCCESS", s |-> s]
      BY <1>4, <2>3 DEF Accepted
    <3>2. Accepted(o.s, o.p).s = s /\ result' \in ResultType
      BY <1>2, <3>1 DEF ResultType
    <3>3. /\ s \in Client /\ s.isconnected /\ ~s.ping_outstanding
          /\ s.sockHandle = o.s.sockHandle /\ s.handlers = o.s.handlers
          /\ s.configured = o.s.configured
      BY <2>2 DEF Client
    <3> HIDE DEF s
    <3> QED
      BY <1>1, <1>2, <1>4, <2>1, <2>2, <2>3, <3>2, <3>3, ConnectedStep DEF Left, Same
  <2>4. CASE ~o.p.accepted
    <3>1. Accepted(o.s, o.p) = [rc |-> "refused", s |-> o.s]
      BY <1>4, <2>4 DEF Accepted
    <3>2. Settle(o.s, o.out, o.read) /\ result' \in ResultType
      BY <1>2, <3>1 DEF ResultType
    <3>3. call.op \notin Requests
      BY <1>4 DEF Requests
    <3> QED
      BY <1>1, <1>3, <2>1, <3>2, <3>3, LeftStep
  <2> QED
    BY <2>3, <2>4
<1>5. CASE call.op = "unsubscribe"
  <2> DEFINE s == [o.s EXCEPT !.handlers = @ \ {call.filter}]
  <2>1. Bad(o)
    BY <1>1, <1>5 DEF IInv, Calling, Bad, KnownTypes
  <2>2. Shut(o) /\ mc.configured
    BY <1>5, <2>1 DEF IInv, Calling, Requests, Left
  <2>3. Accepted(o.s, o.p) = [rc |-> "MQSUCCESS", s |-> s]
    BY <1>5 DEF Accepted
  <2>4. Settle(s, o.out, o.read) /\ result' \in ResultType
    BY <1>2, <2>3 DEF ResultType
  <2>5. s \in Client /\ ~s.isconnected /\ s.sockHandle # "open" /\ s.handlers = {}
    BY <2>2 DEF Shut, Client
  <2> HIDE DEF s
  <2> QED
    BY <1>3, <2>4, <2>5, ShutStep
<1>6. CASE call.op \in {"subscribe", "publish"}
  <2>1. /\ Left(o) /\ o.p.type \in {"SUBACK", "PUBACK", "PUBCOMP"}
        /\ call.op \in Requests
    BY <1>1, <1>6 DEF IInv, Calling, Bad, KnownTypes, Requests
  <2>2. /\ o.s \in Client /\ o.out \in Seq(Packet) /\ Absent(o.out, RequestTypes)
        /\ o.s.sockHandle = "open" /\ mc.sockHandle = "open"
        /\ o.s.isconnected = mc.isconnected /\ o.s.configured = mc.configured
        /\ o.s.handlers = mc.handlers
    BY <2>1 DEF Left, Same, Replies, Absent, RequestTypes
  <2>3. o.s.ping_outstanding /\ link = "up" =>
          mc.ping_outstanding \/ \E q \in In(o.out) : q.type = "PINGREQ"
    BY <2>1 DEF Left
  <2>4. IsFiniteSet(mc.handlers) /\ Cardinality(mc.handlers) <= MaxHandlers
    BY DEF IInv, Typed
  <2>5. CASE call.op = "publish" \/ (call.op = "subscribe" /\ ~o.p.accepted)
    <3>1. Accepted(o.s, o.p) = [rc |-> "MQSUCCESS", s |-> o.s]
      BY <2>5 DEF Accepted
    <3>2. Settle(o.s, o.out, TRUE) /\ result' \in ResultType
      <4>1. Settle(o.s, o.out, o.read)
        BY <3>1
      <4>2. result' \in ResultType
        BY <1>2, <3>1 DEF ResultType
      <4> QED
        BY <1>1, <4>1, <4>2, Zenon
    <3>3. o.s.handlers = mc.handlers \cup
            {f \in {call.filter} : call.op = "subscribe" /\ Head(toClient).accepted}
      BY <1>1, <2>2, <2>5
    <3> QED
      BY <1>1, <1>2, <1>6, <2>2, <2>3, <2>4, <3>2, <3>3, DoneStep
  <2>6. CASE call.op = "subscribe" /\ o.p.accepted
    <3> DEFINE h == MQTTSetMessageHandler(o.s, call.filter)
               s == [o.s EXCEPT !.handlers = @ \cup {call.filter}]
    <3>1. call.filter \in Filters
      <4>1. Head(toClient) \in In(toClient) /\ Head(toClient).type = "SUBACK"
        BY <1>1, <2>6, Taken DEF IInv, Typed, Calling
      <4>2. OfCall(Head(toClient))
        BY <2>1, <4>1 DEF IInv, Pending, AckTypes
      <4> QED
        BY <4>1, <4>2 DEF OfCall
    <3>2. \/ /\ h.rc = "MQSUCCESS" /\ h.s = s
             /\ IsFiniteSet(s.handlers) /\ Cardinality(s.handlers) <= MaxHandlers
          \/ h.rc = "FAILURE"
      BY <2>2, <2>4, <3>1, Handler
    <3>3. Accepted(o.s, o.p) =
            IF h.rc = "MQSUCCESS" THEN h ELSE [h EXCEPT !.s = MQTTCloseSession(o.s)]
      BY <2>6 DEF Accepted
    <3>4. /\ s \in Client /\ s.sockHandle = o.s.sockHandle
          /\ s.isconnected = o.s.isconnected /\ s.configured = o.s.configured
          /\ s.ping_outstanding = o.s.ping_outstanding
          /\ s.handlers = o.s.handlers \cup {call.filter}
      BY <2>2, <3>1 DEF Client
    <3>5. h.rc = "FAILURE" => h = [rc |-> "FAILURE", s |-> o.s]
      BY DEF MQTTSetMessageHandler
    <3> HIDE DEF h, s
    <3>6. CASE h.rc = "MQSUCCESS"
      <4>1. Settle(s, o.out, TRUE) /\ result' \in ResultType
        BY <1>1, <1>2, <3>2, <3>3, <3>6 DEF ResultType
      <4>2. s.handlers = mc.handlers \cup
              {f \in {call.filter} : call.op = "subscribe" /\ Head(toClient).accepted}
        BY <1>1, <2>2, <2>6, <3>4
      <4> QED
        BY <1>1, <1>2, <1>6, <2>2, <2>3, <3>2, <3>4, <3>6, <4>1, <4>2, DoneStep
    <3>7. CASE h.rc = "FAILURE"
      <4>1. Accepted(o.s, o.p) = [rc |-> "FAILURE", s |-> MQTTCloseSession(o.s)]
        BY <3>3, <3>5, <3>7
      <4>2. Settle(MQTTCloseSession(o.s), o.out, o.read) /\ result' \in ResultType
        BY <1>2, <4>1 DEF ResultType
      <4> QED
        BY <1>2, <2>1, <2>2, <4>2, GiveUpStep
    <3> QED
      BY <3>2, <3>6, <3>7
  <2> QED
    BY <1>6, <2>5, <2>6
<1> QED
  BY <1>4, <1>5, <1>6 DEF Requests

\* A round of waitfor settles the call, gives it up or goes on.
LEMMA WaitCycleStep == IInv /\ WaitCycle => IInv'
<1> SUFFICES ASSUME IInv, WaitCycle
             PROVE  IInv'
  OBVIOUS
<1>1. call.op = "connect" \/ call.op \in Requests
  BY DEF WaitCycle, IInv, Typed, CallType
<1>2. PICK late \in BOOLEAN : \E o \in cycle(mc, late) :
        IF o.rc = call.awaits
        THEN /\ Settle(Accepted(o.s, o.p).s, o.out, o.read)
             /\ Return(Accepted(o.s, o.p).rc)
        ELSE IF o.rc = "error" \/ late
        THEN Settle(GiveUp(o.s), o.out, o.read) /\ Return("FAILURE")
        ELSE Settle(o.s, o.out, o.read) /\ UNCHANGED <<call, result>>
  BY DEF WaitCycle
<1>3. PICK o \in cycle(mc, late) :
        IF o.rc = call.awaits
        THEN /\ Settle(Accepted(o.s, o.p).s, o.out, o.read)
             /\ Return(Accepted(o.s, o.p).rc)
        ELSE IF o.rc = "error" \/ late
        THEN Settle(GiveUp(o.s), o.out, o.read) /\ Return("FAILURE")
        ELSE Settle(o.s, o.out, o.read) /\ UNCHANGED <<call, result>>
  BY <1>2
<1>4. /\ o.rc # "error" => o.rc = o.p.type
      /\ \/ o.read = TRUE /\ toClient # <<>> /\ o.p = Head(toClient)
         \/ o.read = FALSE /\ {o.rc, o.p.type} \subseteq {"timeout", "error"}
      /\ (Left(o) /\ (Bad(o) => ~mc.isconnected)) \/ (Shut(o) /\ Bad(o))
  BY Cycle DEF IInv
<1>5. call \in CallType /\ result \in ResultType /\ mc.configured
  BY <1>1 DEF IInv, Typed, Calling
<1>6. CASE o.rc = call.awaits
  BY <1>1, <1>3, <1>4, <1>6, AcceptedStep
<1>7. CASE o.rc # call.awaits /\ (o.rc = "error" \/ late)
  <2>1. Settle(GiveUp(o.s), o.out, o.read) /\ call' = NoCall /\ result' \in ResultType
    BY <1>3, <1>7 DEF Return, ResultType
  <2>2. call' \in CallType /\ call'.op = "none" /\ call'.op \notin Requests /\ Calling'
    BY <2>1, NoCallType DEF Calling, Requests
  <2>3. CASE call.op = "connect"
    <3>1. Settle(o.s, o.out, o.read) /\ call.op \notin Requests
      BY <2>1, <2>3 DEF GiveUp, Requests
    <3>2. CASE Left(o)
      BY <1>4, <2>1, <2>2, <3>1, <3>2, LeftStep
    <3>3. CASE Shut(o)
      BY <2>1, <2>2, <3>1, <3>3, ShutStep DEF Shut
    <3> QED
      BY <1>4, <3>2, <3>3
  <2>4. CASE call.op \in Requests
    <3>1. Settle(MQTTCloseSession(o.s), o.out, o.read)
      BY <2>1, <2>4 DEF GiveUp, Requests
    <3> QED
      BY <1>4, <2>1, <2>4, <3>1, GiveUpStep DEF Left, Same, Shut
  <2> QED
    BY <1>1, <2>3, <2>4
<1>8. CASE o.rc # call.awaits /\ ~(o.rc = "error" \/ late)
  <2>1. Settle(o.s, o.out, o.read) /\ call' = call /\ result' = result
    BY <1>3, <1>8
  <2>2. CASE Left(o)
    <3>1. Calling'
      BY <2>1, <2>2 DEF IInv, Calling, Left, Same, Settle
    <3>2. o.read => Head(toClient).type # call.awaits
      BY <1>4, <1>8
    <3> QED
      BY <1>4, <1>5, <2>1, <2>2, <3>1, <3>2, LeftStep
  <2>3. CASE Shut(o)
    BY <1>5, <2>1, <2>3, ShutStep DEF Shut
  <2> QED
    BY <1>4, <2>2, <2>3
<1> QED
  BY <1>6, <1>7, <1>8

-----------------------------------------------------------------------------
(* The timers, the broker and the connection.                               *)

\* The keepalive timers change nothing else.
LEMMA TimersStep == IInv /\ (SentExpires \/ ReceivedExpires) => IInv'
<1> SUFFICES ASSUME IInv, SentExpires \/ ReceivedExpires
             PROVE  IInv'
  OBVIOUS
<1>1. /\ mc.sockHandle = "open"
      /\ \/ mc' = [mc EXCEPT !.sent_expired = TRUE]
         \/ mc' = [mc EXCEPT !.received_expired = TRUE]
      /\ link' = link /\ toBroker' = toBroker /\ toClient' = toClient
      /\ broker' = broker /\ call' = call /\ result' = result
  BY DEF SentExpires, ReceivedExpires, env
<1>2. mc \in Client
  BY DEF IInv, Typed
<1>3. /\ mc' \in Client /\ mc'.sockHandle = mc.sockHandle
      /\ mc'.isconnected = mc.isconnected /\ mc'.configured = mc.configured
      /\ mc'.handlers = mc.handlers /\ mc'.ping_outstanding = mc.ping_outstanding
  <2>1. CASE mc' = [mc EXCEPT !.sent_expired = TRUE]
    BY <1>2, <2>1 DEF Client
  <2>2. CASE mc' = [mc EXCEPT !.received_expired = TRUE]
    BY <1>2, <2>2 DEF Client
  <2> QED
    BY <1>1, <2>1, <2>2
<1>4. Typed' /\ Linked' /\ Session' /\ Calling' /\ Messages' /\ Pinged'
  BY <1>1, <1>3 DEF IInv, Typed, Linked, Session, Calling, Messages, Pinged, Acked
<1>5. \A p : OfCall(p)' <=> OfCall(p)
  BY <1>1 DEF OfCall, Chain
<1>6. Pending'
  BY <1>1, <1>5 DEF IInv, Pending
<1>7. Subs' = Subs
  BY <1>1, <1>3 DEF Subs, Acked
<1>8. Agreement'
  BY <1>1, <1>3, <1>7 DEF IInv, Agreement, Acked
<1> QED
  BY <1>4, <1>6, <1>8 DEF IInv

\* A connection that is lost: what is on its way to the broker is gone.
LEMMA LossStep ==
  ASSUME IInv, link # "down", link' \in {"dead", "cut"},
         mc' = mc, call' = call, result' = result, broker' = broker, toBroker' = <<>>,
         toClient' \in Seq(Packet),
         toClient' = <<>> \/ In(toClient) \subseteq In(toClient'),
         \A p \in In(toClient') : p \in In(toClient) \/ p.type = "CONNACK",
         \A T : Absent(toClient, T) /\ "CONNACK" \notin T => Absent(toClient', T),
         \A T : Single(toClient, T) /\ "CONNACK" \notin T => Single(toClient', T)
  PROVE  IInv'
<1>1. <<>> \in Seq(Packet)
  OBVIOUS
<1>2. Typed'
  BY <1>1 DEF IInv, Typed
<1>3. Linked' /\ Session' /\ Calling'
  BY DEF IInv, Linked, Session, Calling
<1>4. \A p : OfCall(p)' <=> OfCall(p)
  BY DEF OfCall, Chain
<1>5. "CONNACK" \notin AckTypes
  BY DEF AckTypes
<1>6. Pending'
  <2>1. CASE call.op \in Requests
    <3>1. Single(toBroker', RequestTypes) /\ Absent(toBroker', RequestTypes)
          /\ In(toBroker') = {}
      BY EmptyQueue
    <3>2. Single(toClient', AckTypes)
      BY <1>5, <2>1 DEF IInv, Pending
    <3>3. \A p \in In(toClient') : p.type \in AckTypes => OfCall(p)'
      BY <1>4, <1>5, <2>1 DEF IInv, Pending
    <3> QED
      BY <2>1, <3>1, <3>2, <3>3 DEF Pending
  <2>2. CASE call.op \notin Requests
    BY <1>5, <2>2, EmptyQueue DEF IInv, Pending
  <2> QED
    BY <2>1, <2>2
<1>7. Messages'
  <2>1. CASE toClient' = <<>>
    BY <2>1, EmptyQueue DEF Messages
  <2>2. CASE In(toClient) \subseteq In(toClient')
    BY <2>2 DEF IInv, Messages, Acked
  <2> QED
    BY <2>1, <2>2
<1>8. Agreement' /\ Pinged'
  BY DEF Agreement, Pinged
<1> QED
  BY <1>2, <1>3, <1>6, <1>7, <1>8 DEF IInv

\* The broker ends the connection, or the connection falls silent or is reset.
LEMMA LossesStep ==
  IInv /\ (BrokerRefuses \/ BrokerEnds \/ LinkDies \/ LinkCut) => IInv'
<1>1. ASSUME IInv, LinkDies
      PROVE  IInv'
  BY <1>1, EmptyQueue, LossStep DEF LinkDies
<1>2. ASSUME IInv, LinkCut \/ BrokerEnds
      PROVE  IInv'
  <2>1. /\ link \in {"up", "dead"} /\ link' = "cut" /\ toBroker' = <<>>
        /\ mc' = mc /\ toClient' = toClient /\ call' = call /\ result' = result
        /\ broker' = broker
    BY <1>2 DEF LinkCut, BrokerEnds
  <2>2. toClient' \in Seq(Packet)
    BY <1>2, <2>1 DEF IInv, Typed
  <2> QED
    BY <1>2, <2>1, <2>2, LossStep
<1>3. ASSUME IInv, BrokerRefuses
      PROVE  IInv'
  <2>0. PICK q \in Packet : q = Pkt("CONNACK", 0) /\ q.type = "CONNACK"
    <3>1. "CONNACK" \in PacketTypes /\ 0 \in 0 .. MaxPacketId
      BY LimitsAssumption DEF PacketTypes
    <3> QED
      BY <3>1, Packets
  <2>1. PICK p : p = [Pkt("CONNACK", 0) EXCEPT !.accepted = FALSE]
    OBVIOUS
  <2>2. p \in Packet /\ p.type = "CONNACK"
    <3>1. p = [q EXCEPT !.accepted = FALSE]
      BY <2>0, <2>1
    <3> QED
      BY <2>0, <3>1 DEF Packet
  <2>3. /\ link = "up" /\ link' = "cut" /\ toBroker' = <<>> /\ toClient' = Append(toClient, p)
        /\ mc' = mc /\ call' = call /\ result' = result /\ broker' = broker
    BY <1>3, <2>1 DEF BrokerRefuses, Is
  <2>4. toClient \in Seq(Packet)
    BY <1>3 DEF IInv, Typed
  <2>5. toClient' = toClient \o <<p>> /\ <<p>> \in Seq(Packet) /\ In(<<p>>) = {p}
    BY <2>2, <2>3, <2>4, One
  <2>6. \A T : "CONNACK" \notin T => Absent(<<p>>, T)
    BY <2>2, <2>5 DEF Absent
  <2>7. /\ toClient' \in Seq(Packet) /\ In(toClient') = In(toClient) \cup {p}
        /\ \A T : Absent(toClient, T) /\ "CONNACK" \notin T => Absent(toClient', T)
        /\ \A T : Single(toClient, T) /\ "CONNACK" \notin T => Single(toClient', T)
    BY <2>4, <2>5, <2>6, Joined
  <2> QED
    BY <1>3, <2>2, <2>3, <2>7, LossStep
<1> QED
  BY <1>1, <1>2, <1>3

\* The broker takes a packet and sends an answer: to a request of the client its
\* acknowledgement, to a ping its response.
LEMMA ReplyStep ==
  ASSUME IInv, link = "up", toBroker # <<>>,
         NEW ps \in Seq(Packet), Reply(ps),
         broker' \in [session : BOOLEAN, subs : SUBSET Filters],
         Single(ps, AckTypes),
         \A p \in In(ps) : p.type \in AckTypes =>
           Head(toBroker).type \in RequestTypes /\ OfCall(p),
         \A p \in In(ps) : p.type = "PUBLISH" =>
           call.op = "subscribe" /\ p.filter = call.filter /\ Acked("SUBACK")',
         Head(toBroker).type = "PINGREQ" => \E p \in In(ps) : p.type = "PINGRESP",
         Agreement'
  PROVE  IInv'
<1>1. /\ mc' = mc /\ link' = link /\ call' = call /\ result' = result
      /\ toBroker' = Tail(toBroker) /\ toClient' = toClient \o ps
      /\ toBroker \in Seq(Packet) /\ toClient \in Seq(Packet)
  BY DEF Reply, IInv, Typed
<1>2. /\ toBroker' \in Seq(Packet)
      /\ Head(toBroker) \in Packet /\ Head(toBroker) \in In(toBroker)
      /\ In(toBroker) = {Head(toBroker)} \cup In(toBroker')
      /\ \A T : Single(toBroker, T) => Single(toBroker', T)
      /\ \A T : Single(toBroker, T) /\ Head(toBroker).type \in T => Absent(toBroker', T)
  BY <1>1, Taken
<1>3. /\ toClient' \in Seq(Packet)
      /\ In(toClient') = In(toClient) \cup In(ps)
      /\ \A T : Absent(toClient, T) /\ Absent(ps, T) => Absent(toClient', T)
      /\ \A T : Single(toClient, T) /\ Absent(ps, T) => Single(toClient', T)
      /\ \A T : Absent(toClient, T) /\ Single(ps, T) => Single(toClient', T)
  BY <1>1, Joined
<1>4. Typed' /\ Linked' /\ Session' /\ Calling'
  BY <1>1, <1>2, <1>3 DEF IInv, Typed, Linked, Session, Calling
<1>5. \A p : OfCall(p)' <=> OfCall(p)
  BY <1>1 DEF OfCall, Chain
<1>6. Pending'
  <2>1. CASE call.op \in Requests
    <3>1. /\ Single(toBroker, RequestTypes) /\ Single(toClient, AckTypes)
          /\ Absent(toBroker, RequestTypes) \/ Absent(toClient, AckTypes)
          /\ \A p \in In(toBroker) : p.type \in RequestTypes => OfCall(p)
          /\ \A p \in In(toClient) : p.type \in AckTypes => OfCall(p)
      BY <2>1 DEF IInv, Pending
    <3>2. \A p \in In(toBroker') : p.type \in RequestTypes => OfCall(p)'
      BY <1>2, <1>5, <3>1
    <3>3. \A p \in In(toClient') : p.type \in AckTypes => OfCall(p)'
      BY <1>3, <1>5, <3>1
    <3>4. CASE Head(toBroker).type \in RequestTypes
      <4>1. Absent(toBroker', RequestTypes) /\ Absent(toClient, AckTypes)
        BY <1>2, <3>1, <3>4 DEF Absent
      <4>2. Single(toClient', AckTypes) /\ Single(toBroker', RequestTypes)
        BY <1>2, <1>3, <3>1, <4>1
      <4> QED
        BY <1>1, <2>1, <3>2, <3>3, <4>1, <4>2 DEF Pending
    <3>5. CASE Head(toBroker).type \notin RequestTypes
      <4>1. Absent(ps, AckTypes)
        BY <3>5 DEF Absent
      <4>2. Absent(toBroker, RequestTypes) => Absent(toBroker', RequestTypes)
        BY <1>2 DEF Absent
      <4>3. Absent(toClient, AckTypes) => Absent(toClient', AckTypes)
        BY <1>3, <4>1
      <4>4. Single(toClient', AckTypes) /\ Single(toBroker', RequestTypes)
        BY <1>2, <1>3, <3>1, <4>1
      <4> QED
        BY <1>1, <2>1, <3>1, <3>2, <3>3, <4>2, <4>3, <4>4 DEF Pending
    <3> QED
      BY <3>4, <3>5
  <2>2. CASE call.op \notin Requests
    <3>1. Absent(toBroker, RequestTypes) /\ Absent(toClient, AckTypes)
      BY <2>2 DEF IInv, Pending
    <3>2. Head(toBroker).type \notin RequestTypes
      BY <1>2, <3>1 DEF Absent
    <3>3. Absent(ps, AckTypes) /\ Absent(toBroker', RequestTypes)
      BY <1>2, <3>1, <3>2 DEF Absent
    <3>4. Absent(toClient', AckTypes)
      BY <1>3, <3>1, <3>3
    <3> QED
      BY <1>1, <2>2, <3>3, <3>4 DEF Pending
  <2> QED
    BY <2>1, <2>2
<1>7. Messages'
  <2>1. Acked("SUBACK") => Acked("SUBACK")'
    BY <1>3 DEF Acked
  <2> QED
    BY <1>1, <1>3, <2>1 DEF IInv, Messages
<1>8. Pinged'
  BY <1>1, <1>2, <1>3 DEF IInv, Pinged
<1> QED
  BY <1>4, <1>6, <1>7, <1>8 DEF IInv

\* A packet taken by the broker, and a request: then it is that of the call.
LEMMA TakenByBroker ==
  ASSUME IInv, link = "up", toBroker # <<>>
  PROVE  /\ Head(toBroker) \in Packet /\ Head(toBroker) \in In(toBroker)
         /\ toClient \in Seq(Packet) /\ mc.sockHandle = "open"
         /\ Head(toBroker).type \in RequestTypes =>
              /\ call.op \in Requests /\ OfCall(Head(toBroker)) /\ mc.isconnected
              /\ Absent(toClient, AckTypes)
<1>1. /\ toBroker \in Seq(Packet) /\ toClient \in Seq(Packet) /\ mc.sockHandle = "open"
  BY DEF IInv, Typed, Linked
<1>2. Head(toBroker) \in Packet /\ Head(toBroker) \in In(toBroker)
  BY <1>1, Taken
<1>3. ASSUME Head(toBroker).type \in RequestTypes
      PROVE  /\ call.op \in Requests /\ OfCall(Head(toBroker)) /\ mc.isconnected
             /\ Absent(toClient, AckTypes)
  <2>1. ~Absent(toBroker, RequestTypes)
    BY <1>2, <1>3 DEF Absent
  <2>2. call.op \in Requests /\ OfCall(Head(toBroker)) /\ Absent(toClient, AckTypes)
    BY <1>2, <1>3, <2>1 DEF IInv, Pending
  <2> QED
    BY <1>1, <2>2 DEF IInv, Calling
<1> QED
  BY <1>1, <1>2, <1>3

\* The broker accepts a connection with no subscriptions.
LEMMA BrokerConnectStep == IInv /\ BrokerConnect => IInv'
<1> SUFFICES ASSUME IInv, BrokerConnect
             PROVE  IInv'
  OBVIOUS
<1>1. PICK p : p = Pkt("CONNACK", 0)
  OBVIOUS
<1>2. p \in Packet /\ p.type = "CONNACK"
  BY <1>1, Packets, LimitsAssumption DEF PacketTypes
<1>3. /\ link = "up" /\ toBroker # <<>> /\ Head(toBroker).type = "CONNECT" /\ ~broker.session
      /\ Reply(<<p>>) /\ broker' = [session |-> TRUE, subs |-> {}]
  BY <1>1 DEF BrokerConnect, Is
<1>4. /\ <<p>> \in Seq(Packet) /\ In(<<p>>) = {p} /\ Single(<<p>>, AckTypes)
      /\ p.type \notin AckTypes
  BY <1>2, One DEF AckTypes
<1>5. ~mc.isconnected
  BY <1>3 DEF IInv, Agreement
<1>6. broker' \in [session : BOOLEAN, subs : SUBSET Filters]
  BY <1>3
<1>7. Agreement'
  BY <1>3, <1>5 DEF Agreement, Reply
<1> QED
  BY <1>2, <1>3, <1>4, <1>6, <1>7, ReplyStep

\* The acknowledgement of a subscription or of its end, behind a retained message.
LEMMA SubscriptionReply ==
  ASSUME IInv, link = "up", toBroker # <<>>, Head(toBroker).type \in {"SUBSCRIBE", "UNSUBSCRIBE"},
         NEW a \in Packet, NEW ps \in {<<a>>, <<Message(0, Head(toBroker).filter), a>>},
         a.id = Head(toBroker).id,
         a.type = IF Head(toBroker).type = "SUBSCRIBE" THEN "SUBACK" ELSE "UNSUBACK",
         ps = <<a>> \/ (Head(toBroker).type = "SUBSCRIBE" /\ a.accepted),
         Head(toBroker).type = "UNSUBSCRIBE" => a.accepted,
         Head(toBroker).type = "SUBSCRIBE" => Head(toBroker).filter # None,
         Reply(ps),
         broker' = IF ~a.accepted THEN broker
                   ELSE [broker EXCEPT !.subs = IF Head(toBroker).type = "SUBSCRIBE"
                                                THEN @ \cup {Head(toBroker).filter}
                                                ELSE @ \ {Head(toBroker).filter}]
  PROVE  IInv'
<1> DEFINE h == Head(toBroker)
           m == Message(0, h.filter)
<1>1. /\ h \in Packet /\ toClient \in Seq(Packet) /\ mc.sockHandle = "open"
      /\ call.op \in Requests /\ OfCall(h) /\ mc.isconnected /\ Absent(toClient, AckTypes)
      /\ broker \in [session : BOOLEAN, subs : SUBSET Filters]
  BY TakenByBroker DEF RequestTypes, IInv, Typed
<1>2. h.id = call.id /\ h.filter = call.filter /\ h.type \in Chain
  BY <1>1 DEF OfCall
<1>3. /\ call.op = IF h.type = "SUBSCRIBE" THEN "subscribe" ELSE "unsubscribe"
      /\ a.type \in Chain /\ call.filter \in Filters
  <2>1. call.op \in {"subscribe", "unsubscribe", "publish"}
    BY <1>1 DEF Requests
  <2>2. CASE call.op = "subscribe"
    BY <1>1, <1>2, <2>2 DEF Chain, Packet
  <2>3. CASE call.op = "unsubscribe"
    BY <1>2, <2>3 DEF Chain, IInv, Calling
  <2>4. CASE call.op = "publish"
    BY <1>2, <2>4 DEF Chain
  <2> QED
    BY <2>1, <2>2, <2>3, <2>4
<1>4. m \in Packet /\ m.type = "PUBLISH" /\ m.filter = call.filter
  BY <1>2, <1>3, FormedMessage
<1> HIDE DEF m
<1>5. OfCall(a) /\ a.type \in {"SUBACK", "UNSUBACK"} /\ h.type \in RequestTypes
  BY <1>2, <1>3 DEF OfCall, RequestTypes
<1>6. /\ ps \in Seq(Packet) /\ a \in In(ps) /\ In(ps) \subseteq {m, a}
      /\ Single(ps, AckTypes)
      /\ m \in In(ps) => h.type = "SUBSCRIBE" /\ a.accepted
  <2>1. CASE ps = <<a>>
    <3>1. In(ps) = {a} /\ ps \in Seq(Packet) /\ Single(ps, AckTypes)
      BY <2>1, One
    <3>2. a # m
      BY <1>4, <1>5
    <3> QED
      BY <3>1, <3>2
  <2>2. CASE ps = <<m, a>> /\ h.type = "SUBSCRIBE" /\ a.accepted
    <3>1. DOMAIN ps = {1, 2} /\ ps[1] = m /\ ps[2] = a
      BY <2>2
    <3>2. In(ps) = {m, a}
      BY <3>1 DEF In
    <3>3. Single(ps, AckTypes)
      BY <1>4, <3>1 DEF Single, AckTypes
    <3>4. ps \in Seq(Packet)
      BY <1>4, <2>2
    <3> QED
      BY <2>2, <3>2, <3>3, <3>4
  <2> QED
    BY <2>1, <2>2 DEF m
<1>7. toClient' = toClient \o ps /\ mc' = mc /\ call' = call /\ link' = link
  BY DEF Reply
<1>8. In(toClient') = In(toClient) \cup In(ps)
  BY <1>1, <1>6, <1>7, Joined
<1>9. /\ ~Acked("SUBACK") /\ ~Acked("UNSUBACK")
      /\ \A t \in {"SUBACK", "UNSUBACK"} : Acked(t)' <=> a.type = t /\ a.accepted
  <2>1. \A p \in In(toClient) : p.type \notin {"SUBACK", "UNSUBACK"}
    BY <1>1 DEF Absent, AckTypes
  <2>2. \A p \in In(ps) : p.type # "PUBLISH" => p = a
    BY <1>4, <1>6
  <2> QED
    BY <1>6, <1>8, <2>1, <2>2 DEF Acked
<1>10. broker' \in [session : BOOLEAN, subs : SUBSET Filters] /\ broker'.session = broker.session
  BY <1>1, <1>2, <1>3
<1>11. broker'.subs = IF ~a.accepted THEN broker.subs
                      ELSE IF h.type = "SUBSCRIBE" THEN broker.subs \cup {call.filter}
                      ELSE broker.subs \ {call.filter}
  BY <1>1, <1>2
<1>12. Agreement'
  <2>1. broker.session /\ broker.subs = mc.handlers
    BY <1>1, <1>9 DEF IInv, Agreement, Subs
  <2>2. Subs' = IF ~a.accepted THEN mc.handlers
                ELSE IF h.type = "SUBSCRIBE" THEN mc.handlers \cup {call.filter}
                ELSE mc.handlers \ {call.filter}
    <3>1. CASE h.type = "SUBSCRIBE"
      BY <1>3, <1>7, <1>9, <3>1 DEF Subs
    <3>2. CASE h.type = "UNSUBSCRIBE"
      BY <1>3, <1>7, <1>9, <3>2 DEF Subs
    <3> QED
      BY <3>1, <3>2
  <2> QED
    BY <1>1, <1>7, <1>10, <1>11, <2>1, <2>2 DEF Agreement
<1>13. \A p \in In(ps) : p.type \in AckTypes => h.type \in RequestTypes /\ OfCall(p)
  BY <1>4, <1>5, <1>6 DEF AckTypes
<1>14. \A p \in In(ps) : p.type = "PUBLISH" =>
         call.op = "subscribe" /\ p.filter = call.filter /\ Acked("SUBACK")'
  BY <1>3, <1>4, <1>5, <1>6, <1>9
<1> QED
  BY <1>6, <1>10, <1>12, <1>13, <1>14, ReplyStep

\* The SUBACK, and a retained message that may go ahead of it.
LEMMA Subacks ==
  ASSUME IInv, BrokerSubscribe
  PROVE  \E a \in Packet, ps \in Seq(Packet) :
           /\ a.type = "SUBACK" /\ a.id = Head(toBroker).id
           /\ ps \in {<<a>>, <<Message(0, Head(toBroker).filter), a>>}
           /\ ps = <<a>> \/ a.accepted
           /\ Reply(ps)
           /\ broker' = IF ~a.accepted THEN broker
                        ELSE [broker EXCEPT !.subs = @ \cup {Head(toBroker).filter}]
<1> DEFINE h == Head(toBroker)
           suback(yes) == [Pkt("SUBACK", h.id) EXCEPT !.accepted = yes]
<1>1. /\ h.id \in 0 .. MaxPacketId /\ h.filter \in Filters \cup {None}
      /\ Message(0, h.filter) \in Packet
  BY TakenByBroker, FormedMessage DEF BrokerSubscribe, Is, Packet
<1>2. ASSUME NEW yes \in BOOLEAN
      PROVE  /\ suback(yes) \in Packet /\ suback(yes).type = "SUBACK"
             /\ suback(yes).id = h.id /\ suback(yes).accepted = yes
  <2>1. PICK q \in Packet : q = Pkt("SUBACK", h.id) /\ q.type = "SUBACK" /\ q.id = h.id
    BY <1>1, Packets DEF PacketTypes, AckTypes
  <2> HIDE DEF h
  <2>2. PICK r : r = [q EXCEPT !.accepted = yes]
    OBVIOUS
  <2>3. suback(yes) = r
    BY <2>1, <2>2
  <2>4. r \in Packet /\ r.type = "SUBACK" /\ r.id = h.id /\ r.accepted = yes
    BY <2>1, <2>2 DEF Packet
  <2> QED
    BY <2>3, <2>4
<1>3. \/ /\ broker' = [broker EXCEPT !.subs = @ \cup {h.filter}]
         /\ Reply(<<suback(TRUE)>>) \/ Reply(<<Message(0, h.filter), suback(TRUE)>>)
      \/ broker' = broker /\ Reply(<<suback(FALSE)>>)
  BY DEF BrokerSubscribe
<1> HIDE DEF suback
<1>4. CASE broker' = [broker EXCEPT !.subs = @ \cup {h.filter}] /\ Reply(<<suback(TRUE)>>)
  BY <1>2, <1>4, One
<1>5. CASE /\ broker' = [broker EXCEPT !.subs = @ \cup {h.filter}]
           /\ Reply(<<Message(0, h.filter), suback(TRUE)>>)
  <2>1. \A p, q \in Packet : <<p, q>> \in Seq(Packet)
    OBVIOUS
  <2>2. suback(TRUE) \in Packet
    BY <1>2
  <2>3. <<Message(0, h.filter), suback(TRUE)>> \in Seq(Packet)
    BY <1>1, <2>1, <2>2, Zenon
  <2> QED
    BY <1>2, <1>5, <2>3
<1>6. CASE broker' = broker /\ Reply(<<suback(FALSE)>>)
  BY <1>2, <1>6, One
<1> QED
  BY <1>3, <1>4, <1>5, <1>6

\* The broker takes a subscription or its end, and answers.
LEMMA SubscriptionsStep == IInv /\ (BrokerSubscribe \/ BrokerUnsubscribe) => IInv'
<1>1. ASSUME IInv, BrokerSubscribe
      PROVE  IInv'
  <2>1. /\ link = "up" /\ toBroker # <<>> /\ Head(toBroker).type = "SUBSCRIBE"
        /\ Head(toBroker).filter # None
    BY <1>1 DEF BrokerSubscribe, Is
  <2>2. PICK a \in Packet, ps \in Seq(Packet) :
          /\ a.type = "SUBACK" /\ a.id = Head(toBroker).id
          /\ ps \in {<<a>>, <<Message(0, Head(toBroker).filter), a>>}
          /\ ps = <<a>> \/ a.accepted
          /\ Reply(ps)
          /\ broker' = IF ~a.accepted THEN broker
                       ELSE [broker EXCEPT !.subs = @ \cup {Head(toBroker).filter}]
    BY <1>1, Subacks
  <2> QED
    BY <1>1, <2>1, <2>2, SubscriptionReply
<1>2. ASSUME IInv, BrokerUnsubscribe
      PROVE  IInv'
  <2> DEFINE h == Head(toBroker)
  <2>1. /\ link = "up" /\ toBroker # <<>> /\ h.type = "UNSUBSCRIBE"
        /\ h \in Packet /\ h.id \in 0 .. MaxPacketId
    BY <1>2, TakenByBroker DEF BrokerUnsubscribe, Is, Packet
  <2>2. PICK a : a = Pkt("UNSUBACK", h.id)
    OBVIOUS
  <2>3. a \in Packet /\ a.type = "UNSUBACK" /\ a.id = h.id /\ a.accepted
    BY <2>1, <2>2, Packets DEF PacketTypes, AckTypes
  <2>4. Reply(<<a>>) /\ broker' = [broker EXCEPT !.subs = @ \ {h.filter}]
    BY <1>2, <2>2 DEF BrokerUnsubscribe
  <2> QED
    BY <1>2, <2>1, <2>3, <2>4, SubscriptionReply
<1> QED
  BY <1>1, <1>2

\* What the broker answers a packet of the session with.
LEMMA Acks ==
  ASSUME IInv, BrokerAnswers
  PROVE  \E ps :
           /\ Reply(ps)
           /\ \/ ps = <<>> /\ Head(toBroker).type # "PINGREQ"
              \/ \E a \in Packet :
                   /\ ps = <<a>> /\ a.accepted
                   /\ a.type \in {"PINGRESP", "PUBACK", "PUBREC", "PUBREL", "PUBCOMP"}
                   /\ Head(toBroker).type = "PINGREQ" => a.type = "PINGRESP"
                   /\ a.type \in AckTypes =>
                        Head(toBroker).type \in {"PUBLISH", "PUBREL"} /\ a.id = Head(toBroker).id
<1> DEFINE h == Head(toBroker)
<1>1. /\ link = "up" /\ toBroker # <<>>
      /\ h.type \in {"PINGREQ", "PUBLISH", "PUBACK", "PUBREC", "PUBREL", "PUBCOMP"}
  BY DEF BrokerAnswers, Is
<1>2. PICK ps : Reply(ps) /\
        ps = CASE h.type = "PINGREQ" -> <<Pkt("PINGRESP", 0)>>
               [] h.type = "PUBLISH" -> <<Pkt(IF h.qos = 1 THEN "PUBACK" ELSE "PUBREC", h.id)>>
               [] h.type = "PUBREC" -> <<Pkt("PUBREL", h.id)>>
               [] h.type = "PUBREL" -> <<Pkt("PUBCOMP", h.id)>>
               [] OTHER -> <<>>
  BY DEF BrokerAnswers
<1>3. h.id \in 0 .. MaxPacketId /\ 0 \in 0 .. MaxPacketId
  BY <1>1, TakenByBroker, LimitsAssumption DEF Packet
<1>4. \A t \in {"PINGRESP", "PUBACK", "PUBREC", "PUBREL", "PUBCOMP"}, i \in 0 .. MaxPacketId :
        /\ Pkt(t, i) \in Packet /\ Pkt(t, i).accepted
        /\ Pkt(t, i).type = t /\ Pkt(t, i).id = i
  BY Packets DEF PacketTypes, AckTypes, RequestTypes
<1>5. CASE h.type = "PINGREQ"
  <2>1. ps = <<Pkt("PINGRESP", 0)>>
    BY <1>2, <1>5
  <2> QED
    BY <1>2, <1>3, <1>4, <1>5, <2>1 DEF AckTypes
<1>6. CASE h.type = "PUBLISH"
  <2>1. PICK t \in {"PUBACK", "PUBREC"} : ps = <<Pkt(t, h.id)>>
    BY <1>2, <1>6
  <2> QED
    BY <1>2, <1>3, <1>4, <1>6, <2>1
<1>7. CASE h.type = "PUBREC"
  <2>1. ps = <<Pkt("PUBREL", h.id)>>
    BY <1>2, <1>7
  <2> QED
    BY <1>2, <1>3, <1>4, <1>7, <2>1 DEF AckTypes
<1>8. CASE h.type = "PUBREL"
  <2>1. ps = <<Pkt("PUBCOMP", h.id)>>
    BY <1>2, <1>8
  <2> QED
    BY <1>2, <1>3, <1>4, <1>8, <2>1
<1>9. CASE h.type \in {"PUBACK", "PUBCOMP"}
  BY <1>2, <1>9
<1> QED
  BY <1>1, <1>5, <1>6, <1>7, <1>8, <1>9

\* The broker answers a ping or a packet of a publication.
LEMMA BrokerAnswersStep == IInv /\ BrokerAnswers => IInv'
<1> SUFFICES ASSUME IInv, BrokerAnswers
             PROVE  IInv'
  OBVIOUS
<1> DEFINE h == Head(toBroker)
<1>1. /\ link = "up" /\ toBroker # <<>> /\ broker' = broker
      /\ h.type \in {"PINGREQ", "PUBLISH", "PUBACK", "PUBREC", "PUBREL", "PUBCOMP"}
  BY DEF BrokerAnswers, Is
<1>2. PICK ps :
        /\ Reply(ps)
        /\ \/ ps = <<>> /\ h.type # "PINGREQ"
           \/ \E a \in Packet :
                /\ ps = <<a>> /\ a.accepted
                /\ a.type \in {"PINGRESP", "PUBACK", "PUBREC", "PUBREL", "PUBCOMP"}
                /\ h.type = "PINGREQ" => a.type = "PINGRESP"
                /\ a.type \in AckTypes => h.type \in {"PUBLISH", "PUBREL"} /\ a.id = h.id
  BY Acks
<1>3. /\ h \in Packet /\ toClient \in Seq(Packet)
      /\ h.type \in RequestTypes => call.op \in Requests /\ OfCall(h)
      /\ broker \in [session : BOOLEAN, subs : SUBSET Filters]
  BY <1>1, TakenByBroker DEF IInv, Typed
<1>4. \A p : p.id = h.id /\ p.type \in {"PUBACK", "PUBREC", "PUBCOMP"}
             /\ h.type \in {"PUBLISH", "PUBREL"} => OfCall(p)
  BY <1>3 DEF OfCall, RequestTypes, Chain
<1>5. /\ ps \in Seq(Packet) /\ Single(ps, AckTypes)
      /\ \A p \in In(ps) :
           /\ p.type \in {"PINGRESP", "PUBACK", "PUBREC", "PUBREL", "PUBCOMP"}
           /\ p.type \in AckTypes => h.type \in {"PUBLISH", "PUBREL"} /\ p.id = h.id
      /\ h.type = "PINGREQ" => \E p \in In(ps) : p.type = "PINGRESP"
  <2>1. CASE ps = <<>> /\ h.type # "PINGREQ"
    BY <2>1, EmptyQueue
  <2>2. CASE \E a \in Packet :
               /\ ps = <<a>> /\ a.accepted
               /\ a.type \in {"PINGRESP", "PUBACK", "PUBREC", "PUBREL", "PUBCOMP"}
               /\ h.type = "PINGREQ" => a.type = "PINGRESP"
               /\ a.type \in AckTypes => h.type \in {"PUBLISH", "PUBREL"} /\ a.id = h.id
    BY <2>2, One
  <2> QED
    BY <1>2, <2>1, <2>2
<1>6. \A p \in In(ps) : p.type # "PUBLISH"
  BY <1>5
<1>7. \A p \in In(ps) : p.type \in AckTypes => h.type \in RequestTypes /\ OfCall(p)
  BY <1>4, <1>5 DEF AckTypes, RequestTypes
<1>8. Agreement'
  <2>1. toClient' = toClient \o ps /\ mc' = mc /\ call' = call /\ link' = link
    BY <1>2 DEF Reply
  <2>2. In(toClient') = In(toClient) \cup In(ps)
    BY <1>3, <1>5, <2>1, Joined
  <2>3. \A t \in {"SUBACK", "UNSUBACK", "CONNACK"} : Acked(t)' <=> Acked(t)
    BY <1>5, <2>2 DEF Acked
  <2>4. Subs' = Subs
    BY <2>1, <2>3 DEF Subs
  <2> QED
    BY <1>1, <2>1, <2>3, <2>4 DEF IInv, Agreement
<1> QED
  BY <1>1, <1>2, <1>3, <1>5, <1>6, <1>7, <1>8, ReplyStep

\* A message of a subscribed filter finds its handler, or that of the SUBACK ahead.
LEMMA BrokerPublishesStep == IInv /\ BrokerPublishes => IInv'
<1> SUFFICES ASSUME IInv, BrokerPublishes
             PROVE  IInv'
  OBVIOUS
<1>1. PICK f \in broker.subs, q \in 0 .. MaxQos : toClient' = Append(toClient, Message(q, f))
  BY DEF BrokerPublishes
<1>2. PICK p : p = Message(q, f)
  OBVIOUS
<1>3. /\ link = "up" /\ mc' = mc /\ link' = link /\ toBroker' = toBroker /\ call' = call
      /\ result' = result /\ broker' = broker
  BY DEF BrokerPublishes
<1>4. /\ toClient \in Seq(Packet) /\ f \in Filters
      /\ broker \in [session : BOOLEAN, subs : SUBSET Filters]
  BY DEF IInv, Typed
<1>5. p \in Packet /\ p.type = "PUBLISH" /\ p.filter = f
  <2>1. q \in 0 .. 2
    BY LimitsAssumption
  <2> QED
    BY <1>2, <1>4, <2>1, FormedMessage
<1>6. toClient' = toClient \o <<p>> /\ <<p>> \in Seq(Packet) /\ In(<<p>>) = {p}
  BY <1>1, <1>2, <1>4, <1>5, One
<1>7. Absent(<<p>>, AckTypes)
  BY <1>5, <1>6 DEF Absent, AckTypes
<1>8. /\ toClient' \in Seq(Packet) /\ In(toClient') = In(toClient) \cup {p}
      /\ Absent(toClient, AckTypes) => Absent(toClient', AckTypes)
      /\ Single(toClient, AckTypes) => Single(toClient', AckTypes)
  BY <1>4, <1>6, <1>7, Joined
<1>9. \A t : t # "PUBLISH" => (Acked(t)' <=> Acked(t))
  BY <1>5, <1>8 DEF Acked
<1>10. Typed' /\ Linked' /\ Session' /\ Calling'
  BY <1>3, <1>8 DEF IInv, Typed, Linked, Session, Calling
<1>11. Pending'
  <2>1. \A r : OfCall(r)' <=> OfCall(r)
    BY <1>3 DEF OfCall, Chain
  <2>2. p.type \notin AckTypes
    BY <1>5 DEF AckTypes
  <2>3. \A r \in In(toClient') : r.type \in AckTypes => r \in In(toClient)
    BY <1>8, <2>2
  <2> QED
    BY <1>3, <1>8, <2>1, <2>3 DEF IInv, Pending
<1>12. Subs' = Subs
  BY <1>3, <1>9 DEF Subs
<1>13. Agreement'
  BY <1>3, <1>9, <1>12 DEF IInv, Agreement
<1>14. Messages'
  <2>1. mc.isconnected /\ f \in Subs
    BY <1>3 DEF IInv, Agreement
  <2>2. f \in mc.handlers \/ (call.op = "subscribe" /\ f = call.filter /\ Acked("SUBACK"))
    BY <2>1 DEF Subs
  <2> QED
    BY <1>3, <1>5, <1>8, <1>9, <2>2 DEF IInv, Messages
<1>15. Pinged'
  BY <1>3, <1>8 DEF IInv, Pinged
<1> QED
  BY <1>10, <1>11, <1>13, <1>14, <1>15 DEF IInv

-----------------------------------------------------------------------------
(* The invariant holds.                                                     *)

\* The client of MQTTClientInit has nothing to agree on.
LEMMA InitInv == Init => IInv
<1> SUFFICES ASSUME Init
             PROVE  IInv
  OBVIOUS
<1>1. /\ mc = [isconnected |-> FALSE, configured |-> FALSE, ping_outstanding |-> FALSE,
               next_packetid |-> 1, handlers |-> {}, sockHandle |-> "null",
               sent_expired |-> FALSE, received_expired |-> FALSE]
      /\ link = "down" /\ toBroker = <<>> /\ toClient = <<>> /\ call = NoCall
      /\ result = "none" /\ broker = NoSession
  BY DEF Init
<1>2. 1 \in 1 .. MaxPacketId /\ 0 <= MaxHandlers
  BY LimitsAssumption
<1>3. mc \in Client
  BY <1>1, <1>2 DEF Client
<1>4. mc.handlers = {} /\ IsFiniteSet(mc.handlers) /\ Cardinality(mc.handlers) = 0
  <2>1. mc.handlers = {}
    BY <1>1
  <2> QED
    BY <2>1, FS_EmptySet
<1>5. <<>> \in Seq(Packet) /\ NoSession \in [session : BOOLEAN, subs : SUBSET Filters]
  BY DEF NoSession
<1>6. call \in CallType /\ call.op = "none" /\ call.op \notin Requests
  BY <1>1, NoCallType
<1>7. Typed
  BY <1>1, <1>2, <1>3, <1>4, <1>5, <1>6 DEF Typed, ResultType
<1>8. Linked /\ Session
  BY <1>1 DEF Linked, Session
<1>9. Calling
  BY <1>6 DEF Calling, Requests
<1>10. Pending
  BY <1>1, <1>6, EmptyQueue DEF Pending
<1>11. Agreement /\ Messages /\ Pinged
  BY <1>1, EmptyQueue DEF Agreement, Messages, Pinged
<1> QED
  BY <1>7, <1>8, <1>9, <1>10, <1>11 DEF IInv

\* Every step keeps the invariant.
LEMMA NextInv == IInv /\ [Next]_vars => IInv'
<1>1. IInv /\ World => IInv'
  BY TimersStep, LossesStep, BrokerConnectStep, SubscriptionsStep, BrokerAnswersStep,
     BrokerPublishesStep DEF World
<1>2. IInv /\ Waiting => IInv'
  BY WaitCycleStep, WaitExpiresStep, YieldCycleStep DEF Waiting
<1>3. IInv /\ (NewNetwork \/ DropNetwork) => IInv'
  BY NewNetworkStep, DropNetworkStep
<1>4. IInv /\ (MQTTConnect \/ MQTTYield \/ MQTTDisconnect \/ MQTTPublish0) => IInv'
  BY ConnectStep, YieldStep, DisconnectStep, Publish0Step
<1>5. ASSUME IInv, \E f \in Filters : MQTTSubscribe(f) \/ MQTTUnsubscribe(f)
      PROVE  IInv'
  BY <1>5, RequestsStep
<1>6. ASSUME IInv, \E q \in {1, 2} : MQTTPublish(q)
      PROVE  IInv'
  BY <1>6, RequestsStep
<1>7. ASSUME IInv, UNCHANGED vars
      PROVE  IInv'
  <2>1. UNCHANGED <<mc, env>> /\ call' = call /\ result' = result
    BY <1>7 DEF vars
  <2>2. result' \in ResultType
    BY <1>7, <2>1 DEF IInv, Typed
  <2> QED
    BY <1>7, <2>1, <2>2, QuietStep
<1> QED
  BY <1>1, <1>2, <1>3, <1>4, <1>5, <1>6, <1>7 DEF Next

\* Client, broker and connection stay in the states the calls rely on.
THEOREM Inductive == Spec => []IInv
BY InitInv, NextInv, PTL DEF Spec

\* The invariant gives the fields of the client and the connection their types.
LEMMA InvTypes == IInv => TypeOK
<1> SUFFICES ASSUME IInv
             PROVE  TypeOK
  OBVIOUS
<1>1. mc \in Client /\ mc.handlers \in {H \in SUBSET Filters : Cardinality(H) <= MaxHandlers}
  BY DEF IInv, Typed, Client
<1>2. mc \in [isconnected : BOOLEAN, configured : BOOLEAN, ping_outstanding : BOOLEAN,
              next_packetid : 1 .. MaxPacketId,
              handlers : {H \in SUBSET Filters : Cardinality(H) <= MaxHandlers},
              sockHandle : {"null", "open", "freed", "misused"},
              sent_expired : BOOLEAN, received_expired : BOOLEAN]
  BY <1>1 DEF Client
<1>3. /\ call.op \in {"none", "connect", "subscribe", "unsubscribe", "publish", "yield"}
      /\ call.id \in 0 .. MaxPacketId
  BY DEF IInv, Typed, CallType, Requests
<1> QED
  BY <1>2, <1>3 DEF TypeOK, IInv, Typed, Linked, ResultType

\* It has the sockets, the subscriptions and the pings of a session agree.
LEMMA InvSession == IInv => ConnectedHasSocket /\ SubscriptionsAgree /\ PingOnTheWay
<1>1. IInv => ConnectedHasSocket
  BY DEF IInv, Session, ConnectedHasSocket
<1>2. IInv => SubscriptionsAgree
  BY DEF IInv, Agreement, Subs, SubscriptionsAgree, Idle
<1>3. IInv => PingOnTheWay
  BY DEF IInv, Pinged, In, PingOnTheWay
<1> QED
  BY <1>1, <1>2, <1>3

\* The fields of the client and the connection have their types, a socket that
\* is not open has nothing on the way, and the handler table never overflows.
THEOREM Types == Spec => []TypeOK
BY InvTypes, Inductive, PTL

\* A connected session has an open socket, whichever call failed before.
THEOREM Sockets == Spec => []ConnectedHasSocket
BY InvSession, Inductive, PTL

\* Between calls the handlers of a session are the broker's subscriptions.
THEOREM Subscriptions == Spec => []SubscriptionsAgree
BY InvSession, Inductive, PTL

\* An outstanding ping or its answer is on the way.
THEOREM Pings == Spec => []PingOnTheWay
BY InvSession, Inductive, PTL

\* A request that succeeds was settled by its own acknowledgement.
THEOREM Acknowledgements == Spec => AckMatches
<1> DEFINE Own == Succeeds /\ call.op \in {"subscribe", "unsubscribe", "publish"}
                    => Head(toClient).id = call.id
<1>1. IInv /\ [Next]_vars => [Own]_vars
  <2> SUFFICES ASSUME IInv, Next, Succeeds, call.op \in Requests
               PROVE  Head(toClient).id = call.id
    BY DEF Requests
  <2>1. call.op \notin {"none", "yield"} /\ call' # call /\ result' = "MQSUCCESS"
    BY DEF Succeeds, Requests, NoCall
  <2>2. WaitCycle
    BY <2>1 DEF Next, NewNetwork, DropNetwork, MQTTConnect, MQTTYield, MQTTDisconnect,
       MQTTPublish0, MQTTSubscribe, MQTTUnsubscribe, MQTTPublish, Request, Idle, Waiting,
       WaitExpires, YieldCycle, Return, World, SentExpires, ReceivedExpires, BrokerConnect,
       BrokerRefuses, BrokerEnds, BrokerSubscribe, BrokerUnsubscribe, BrokerAnswers,
       BrokerPublishes, LinkDies, LinkCut, Reply
  <2>3. PICK late \in BOOLEAN : \E o \in cycle(mc, late) :
          \/ o.rc = call.awaits
          \/ Return("FAILURE")
          \/ UNCHANGED <<call, result>>
    BY <2>2 DEF WaitCycle
  <2>4. PICK o \in cycle(mc, late) : o.rc = call.awaits
    BY <2>1, <2>3 DEF Return
  <2>5. call.awaits \in AckTypes
    BY DEF IInv, Calling, Requests, AckTypes
  <2>6. toClient # <<>> /\ Head(toClient).type = call.awaits
    BY <2>4, <2>5, Cycle DEF IInv, AckTypes
  <2>7. toClient \in Seq(Packet)
    BY DEF IInv, Typed
  <2>8. Head(toClient) \in In(toClient)
    BY <2>6, <2>7, Taken
  <2>9. OfCall(Head(toClient))
    BY <2>5, <2>6, <2>8 DEF IInv, Pending
  <2> QED
    BY <2>9 DEF OfCall
<1> QED
  BY <1>1, Inductive, PTL DEF Spec, AckMatches

\* A message that is read finds its handler.
THEOREM Handlers == Spec => MessageHasHandler
<1> DEFINE Found ==
      LET p == Head(toClient)
      IN  /\ Waiting /\ mc.isconnected
          /\ toClient # <<>> /\ toClient' = Tail(toClient) /\ p.type = "PUBLISH"
          => p.filter \in mc.handlers \/ (call.op = "subscribe" /\ call.filter = p.filter)
<1>1. IInv /\ [Next]_vars => [Found]_vars
  <2> SUFFICES ASSUME IInv, toClient # <<>>, Head(toClient).type = "PUBLISH"
               PROVE  \/ Head(toClient).filter \in mc.handlers
                      \/ call.op = "subscribe" /\ call.filter = Head(toClient).filter
    OBVIOUS
  <2>1. toClient \in Seq(Packet)
    BY DEF IInv, Typed
  <2>2. Head(toClient) \in In(toClient)
    BY <2>1, Taken
  <2> QED
    BY <2>2 DEF IInv, Messages
<1> QED
  BY <1>1, Inductive, PTL DEF Spec, MessageHasHandler
-----------------------------------------------------------------------------
(* The application.                                                         *)

\* The call of the client that a place of the application waits for.
OpAt(at) ==
  CASE at \in {"first_connect", "connect"} -> "connect"
    [] at \in {"first_subscribe", "subscribe"} -> "subscribe"
    [] at = "yield" -> "yield"
    [] OTHER -> "none"

AppTyped ==
  /\ pc \in {"init", "started", "first_connect", "first_subscribe", "connect", "subscribe",
             "yield", "publish", "failed", "closed"}
  /\ mqtt_subtopic \in {None, Topic}

\* Which call is in progress, and what it asks for.
InCall ==
  /\ call.op \in {"none", OpAt(pc)}
  /\ call.op = "subscribe" => call.filter \in {None, Topic}

\* Where there is no session.
Unconnected ==
  /\ pc \in {"init", "started", "closed"} => ~mc.isconnected
  /\ pc = "closed" => mc.sockHandle # "open"
  /\ pc \in {"first_connect", "connect"} /\ Idle /\ result # "MQSUCCESS" => ~mc.isconnected

\* Nothing but the topic has a handler, and it has one once a subscription is
\* over and the session is still there, unless the broker refused it.
Listening ==
  /\ mc.handlers \subseteq {Topic}
  /\ /\ ~Refusals
     /\ mc.isconnected /\ call.op # "subscribe"
     /\ pc \in {"first_subscribe", "subscribe", "yield", "publish", "failed"}
     => mc.handlers = {Topic}

NothingRefused == ~Refusals => \A p \in In(toClient) : p.accepted

AppState == AppTyped /\ InCall /\ Unconnected /\ Listening /\ NothingRefused
AppInv == IInv /\ AppState

\* A step of the client takes packets in and adds none to those it will read.
LEMMA Settles ==
  ASSUME IInv, NEW s, NEW out, NEW read, read => toClient # <<>>, Settle(s, out, read)
  PROVE  mc' = s /\ In(toClient') \subseteq In(toClient)
<1>1. mc' = s /\ (toClient' = <<>> \/ toClient' = IF read THEN Tail(toClient) ELSE toClient)
  BY DEF Settle
<1>2. toClient \in Seq(Packet)
  BY DEF IInv, Typed
<1>3. CASE toClient' = <<>>
  BY <1>1, <1>3, EmptyQueue
<1>4. CASE read /\ toClient' = Tail(toClient)
  BY <1>1, <1>2, <1>4, Taken
<1> QED
  BY <1>1, <1>3, <1>4

\* A call that returns is over.
LEMMA Returns ==
  ASSUME NEW rc, Return(rc)
  PROVE  call' = NoCall /\ call'.op = "none" /\ result' = rc
<1>1. call' = NoCall /\ result' = rc
  BY DEF Return
<1> QED
  BY <1>1, NoCallType

\* A send does not change what the application looks at.
LEMMA Sends ==
  ASSUME NEW s \in Client, NEW t \in PacketTypes, NEW i \in 0 .. MaxPacketId,
         NEW o \in sendPacket(s, Pkt(t, i))
  PROVE  /\ o.ok \in BOOLEAN /\ o.s \in Client
         /\ o.s.isconnected = s.isconnected /\ o.s.handlers = s.handlers
         /\ o.s.configured = s.configured
<1>1. Pkt(t, i) \in Packet
  BY Packets
<1> QED
  BY <1>1, Send DEF Same

\* A connection is asked for without a session, and there is none yet.
LEMMA ConnectCall ==
  ASSUME AppInv, ~mc.isconnected, MQTTConnect
  PROVE  /\ ~mc'.isconnected /\ In(toClient') \subseteq In(toClient)
         /\ call'.op = "connect" \/ (call'.op = "none" /\ result' # "MQSUCCESS")
<1> DEFINE s == [mc EXCEPT !.configured = TRUE, !.received_expired = FALSE]
<1>1. PICK o \in sendPacket(s, Pkt("CONNECT", 0)) :
        /\ Settle(o.s, o.out, FALSE)
        /\ IF o.ok THEN /\ call' = [NoCall EXCEPT !.op = "connect", !.awaits = "CONNACK"]
                        /\ UNCHANGED result
           ELSE Return("FAILURE")
  BY DEF MQTTConnect
<1>2. s \in Client /\ ~s.isconnected
  BY DEF AppInv, IInv, Typed, Client
<1>3. "CONNECT" \in PacketTypes /\ 0 \in 0 .. MaxPacketId
  BY LimitsAssumption DEF PacketTypes
<1> HIDE DEF s
<1>4. ~o.s.isconnected
  BY <1>1, <1>2, <1>3, Sends
<1>5. mc' = o.s /\ In(toClient') \subseteq In(toClient)
  BY <1>1, Settles DEF AppInv
<1>6. CASE o.ok
  <2>1. call' = [op |-> "connect", id |-> 0, filter |-> None, awaits |-> "CONNACK"]
    BY <1>1, <1>6 DEF NoCall
  <2> QED
    BY <1>4, <1>5, <2>1
<1>7. CASE ~o.ok
  <2>1. call'.op = "none" /\ result' = "FAILURE"
    BY <1>1, <1>7, Returns
  <2> QED
    BY <1>4, <1>5, <2>1
<1> QED
  BY <1>6, <1>7

\* A subscription that is asked for is in progress, or there is no session.
LEMMA SubscribeCall ==
  ASSUME AppInv, NEW f \in {None, Topic}, MQTTSubscribe(f)
  PROVE  /\ In(toClient') \subseteq In(toClient)
         /\ call'.op \in {"none", "subscribe"}
         /\ call'.op = "subscribe" => call'.filter = f
         /\ mc'.isconnected => call'.op = "subscribe" /\ mc'.handlers = mc.handlers
<1> DEFINE p == About("SUBSCRIBE", f)
           i == getNextPacketId(mc)
           s == [mc EXCEPT !.next_packetid = i]
           q == [p EXCEPT !.id = i]
<1>1. /\ mc \in Client /\ f \in Filters \cup {None}
      /\ Request("subscribe", p, "SUBACK")
  BY TopicAssumption DEF AppInv, IInv, Typed, MQTTSubscribe
<1>2. CASE ~mc.isconnected
  <2>1. Settle(MQTTCloseSession(mc), <<>>, FALSE) /\ call'.op = "none"
    BY <1>1, <1>2, Returns DEF Request
  <2>2. ~MQTTCloseSession(mc).isconnected
    BY <1>1, Close
  <2>3. mc' = MQTTCloseSession(mc) /\ In(toClient') \subseteq In(toClient)
    BY <2>1, Settles DEF AppInv
  <2> QED
    BY <2>1, <2>2, <2>3
<1>3. CASE mc.isconnected
  <2>1. PICK o \in sendPacket(s, q) :
          IF o.ok
          THEN /\ Settle(o.s, o.out, FALSE)
               /\ call' = [op |-> "subscribe", id |-> i, filter |-> p.filter,
                           awaits |-> "SUBACK"]
               /\ UNCHANGED result
          ELSE Settle(MQTTCloseSession(o.s), o.out, FALSE) /\ Return("FAILURE")
    BY <1>1, <1>3 DEF Request
  <2>2. i \in 1 .. MaxPacketId /\ i \in 0 .. MaxPacketId
    BY <1>1, LimitsAssumption DEF getNextPacketId, Client
  <2>3. p \in Packet /\ p.filter = f
    BY <1>1, FormedAbout DEF PacketTypes, RequestTypes
  <2> HIDE DEF i, p
  <2>4. s \in Client /\ s.isconnected /\ s.handlers = mc.handlers /\ q \in Packet
    BY <1>1, <1>3, <2>2, <2>3 DEF Client, Packet
  <2> HIDE DEF s, q
  <2>5. o.s \in Client /\ o.s.handlers = mc.handlers
    BY <2>1, <2>4, Send DEF Same
  <2>6. CASE o.ok
    <3>1. call'.op = "subscribe" /\ call'.filter = f
      BY <2>1, <2>3, <2>6
    <3>2. mc' = o.s /\ In(toClient') \subseteq In(toClient)
      BY <2>1, <2>6, Settles DEF AppInv
    <3> QED
      BY <2>5, <3>1, <3>2
  <2>7. CASE ~o.ok
    <3>1. Settle(MQTTCloseSession(o.s), o.out, FALSE) /\ call'.op = "none"
      BY <2>1, <2>7, Returns
    <3>2. mc' = MQTTCloseSession(o.s) /\ In(toClient') \subseteq In(toClient)
      BY <3>1, Settles DEF AppInv
    <3>3. ~MQTTCloseSession(o.s).isconnected
      BY <2>5, Close
    <3> QED
      BY <3>1, <3>2, <3>3
  <2> QED
    BY <2>6, <2>7
<1> QED
  BY <1>2, <1>3

\* A publication keeps the session as it is, or closes it.
LEMMA PublishCall ==
  ASSUME AppInv, MQTTPublish0
  PROVE  /\ In(toClient') \subseteq In(toClient)
         /\ call'.op = "none"
         /\ mc'.isconnected => mc.isconnected /\ mc'.handlers = mc.handlers
<1>1. mc \in Client
  BY DEF AppInv, IInv, Typed
<1>2. CASE ~mc.isconnected
  <2>1. Settle(MQTTCloseSession(mc), <<>>, FALSE) /\ call'.op = "none"
    BY <1>2, Returns DEF MQTTPublish0
  <2>2. mc' = MQTTCloseSession(mc) /\ In(toClient') \subseteq In(toClient)
    BY <2>1, Settles DEF AppInv
  <2>3. ~MQTTCloseSession(mc).isconnected
    BY <1>1, Close
  <2> QED
    BY <2>1, <2>2, <2>3
<1>3. CASE mc.isconnected
  <2>1. PICK o \in sendPacket(mc, Pkt("PUBLISH", 0)) :
          IF o.ok THEN Settle(o.s, <<>>, FALSE) /\ Return("MQSUCCESS")
          ELSE Settle(MQTTCloseSession(o.s), <<>>, FALSE) /\ Return("FAILURE")
    BY <1>3 DEF MQTTPublish0
  <2>2. call'.op = "none"
    BY <2>1, Returns
  <2>3. "PUBLISH" \in PacketTypes /\ 0 \in 0 .. MaxPacketId
    BY LimitsAssumption DEF PacketTypes, RequestTypes
  <2>4. o.s \in Client /\ o.s.handlers = mc.handlers
    BY <1>1, <2>1, <2>3, Sends
  <2>5. CASE o.ok
    <3>1. mc' = o.s /\ In(toClient') \subseteq In(toClient)
      BY <2>1, <2>5, Settles DEF AppInv
    <3> QED
      BY <1>3, <2>2, <2>4, <3>1
  <2>6. CASE ~o.ok
    <3>1. mc' = MQTTCloseSession(o.s) /\ In(toClient') \subseteq In(toClient)
      BY <2>1, <2>6, Settles DEF AppInv
    <3>2. ~MQTTCloseSession(o.s).isconnected
      BY <2>4, Close
    <3> QED
      BY <2>2, <3>1, <3>2
  <2> QED
    BY <2>5, <2>6
<1> QED
  BY <1>2, <1>3

\* What a step of a call that waits may come to: the session goes on as it is,
\* a connection is made, or the topic has its handler.
Goes ==
  /\ In(toClient') \subseteq In(toClient)
  /\ call.op # "none" /\ (call' = call \/ call'.op = "none")
  /\ mc'.isconnected =>
       \/ /\ mc.isconnected /\ mc'.handlers = mc.handlers
          /\ call.op = "subscribe" => call' = call
       \/ /\ call.op = "connect" /\ call'.op = "none" /\ result' = "MQSUCCESS"
          /\ mc'.handlers \subseteq {Topic}
       \/ /\ call.op = "subscribe" /\ call'.op = "none"
          /\ mc'.handlers \subseteq {Topic} /\ (~Refusals => mc'.handlers = {Topic})

\* A round that keeps the client's session or ends it.
LEMMA RoundGoes ==
  ASSUME AppInv, NEW o, Left(o) \/ Shut(o), o.read => toClient # <<>>,
         call.op # "none", call' = call \/ (call'.op = "none" /\ call.op # "subscribe"),
         Settle(o.s, o.out, o.read)
  PROVE  Goes
<1>1. mc' = o.s /\ In(toClient') \subseteq In(toClient)
  BY Settles DEF AppInv
<1>2. o.s.isconnected => mc.isconnected /\ o.s.handlers = mc.handlers
  BY DEF Left, Shut, Same
<1> QED
  BY <1>1, <1>2 DEF Goes

\* The timer of a call is over.
LEMMA ExpiresGoes == AppInv /\ WaitExpires => Goes
<1> SUFFICES ASSUME AppInv, WaitExpires PROVE Goes
  OBVIOUS
<1>1. Settle(GiveUp(mc), <<>>, FALSE) /\ call'.op = "none" /\ call.op # "none"
  BY Returns DEF WaitExpires
<1>2. mc' = GiveUp(mc) /\ In(toClient') \subseteq In(toClient)
  BY <1>1, Settles DEF AppInv
<1>3. mc \in Client
  BY DEF AppInv, IInv, Typed
<1>4. ~mc'.isconnected
  <2>1. CASE call.op = "connect"
    BY <1>2, <2>1 DEF GiveUp, AppInv, IInv, Calling
  <2>2. CASE call.op # "connect"
    BY <1>2, <1>3, <2>2, Close DEF GiveUp
  <2> QED
    BY <2>1, <2>2
<1> QED
  BY <1>1, <1>2, <1>4 DEF Goes

\* A round of MQTTYield.
LEMMA YieldGoes == AppInv /\ YieldCycle => Goes
<1> SUFFICES ASSUME AppInv, YieldCycle PROVE Goes
  OBVIOUS
<1>1. PICK late \in BOOLEAN : \E o \in cycle(mc, late) :
        /\ Settle(o.s, o.out, o.read)
        /\ \/ o.rc = "error" /\ Return("FAILURE")
           \/ o.rc # "error" /\ Return("MQSUCCESS")
           \/ o.rc # "error" /\ ~late /\ UNCHANGED <<call, result>>
  BY DEF YieldCycle
<1>2. PICK o \in cycle(mc, late) :
        /\ Settle(o.s, o.out, o.read)
        /\ \/ o.rc = "error" /\ Return("FAILURE")
           \/ o.rc # "error" /\ Return("MQSUCCESS")
           \/ o.rc # "error" /\ ~late /\ UNCHANGED <<call, result>>
  BY <1>1
<1>3. /\ o.read => toClient # <<>>
      /\ Left(o) \/ Shut(o)
  BY Cycle DEF AppInv, IInv
<1>4. call.op = "yield" /\ (call' = call \/ call'.op = "none")
  BY <1>2, Returns DEF YieldCycle
<1> QED
  BY <1>2, <1>3, <1>4, RoundGoes

\* A round that reads what the call waits for.
LEMMA AcceptedGoes ==
  ASSUME AppInv, call.op \in {"connect", "subscribe"},
         NEW o, o.rc = call.awaits, o.rc # "error" => o.rc = o.p.type,
         \/ o.read = TRUE /\ toClient # <<>> /\ o.p = Head(toClient)
         \/ o.read = FALSE /\ {o.rc, o.p.type} \subseteq {"timeout", "error"},
         (Left(o) /\ (Bad(o) => ~mc.isconnected)) \/ (Shut(o) /\ Bad(o)),
         Settle(Accepted(o.s, o.p).s, o.out, o.read), Return(Accepted(o.s, o.p).rc)
  PROVE  Goes
<1>1. /\ o.read = TRUE /\ toClient # <<>> /\ o.p = Head(toClient)
      /\ o.p.type = call.awaits /\ o.p.type \in {"CONNACK", "SUBACK"} /\ Left(o)
  BY DEF AppInv, IInv, Calling, Bad, KnownTypes
<1>2. /\ mc' = Accepted(o.s, o.p).s /\ In(toClient') \subseteq In(toClient)
      /\ call'.op = "none" /\ result' = Accepted(o.s, o.p).rc
  BY <1>1, Returns, Settles DEF AppInv
<1>3. /\ o.s \in Client /\ o.s.isconnected = mc.isconnected
      /\ o.s.handlers = mc.handlers /\ mc.handlers \subseteq {Topic}
  BY <1>1 DEF Left, Same, AppInv, AppState, Listening
<1>4. CASE call.op = "connect"
  <2>1. ~o.s.isconnected
    BY <1>3, <1>4 DEF AppInv, IInv, Calling
  <2>2. CASE o.p.accepted
    <3>1. Accepted(o.s, o.p) =
            [rc |-> "MQSUCCESS",
             s |-> [o.s EXCEPT !.isconnected = TRUE, !.ping_outstanding = FALSE]]
      BY <1>4, <2>2 DEF Accepted
    <3>2. result' = "MQSUCCESS"
      BY <1>2, <3>1
    <3>3. mc' = [o.s EXCEPT !.isconnected = TRUE, !.ping_outstanding = FALSE]
      BY <1>2, <3>1
    <3>4. mc'.handlers = mc.handlers
      BY <1>3, <3>3 DEF Client
    <3> QED
      BY <1>2, <1>3, <1>4, <3>2, <3>4 DEF Goes
  <2>3. CASE ~o.p.accepted
    <3>1. Accepted(o.s, o.p) = [rc |-> "refused", s |-> o.s]
      BY <1>4, <2>3 DEF Accepted
    <3>2. mc' = o.s
      BY <1>2, <3>1
    <3> QED
      BY <1>2, <1>4, <2>1, <3>2 DEF Goes
  <2> QED
    BY <2>2, <2>3
<1>5. CASE call.op = "subscribe"
  <2>1. Head(toClient) \in In(toClient) /\ o.p.type = "SUBACK"
    BY <1>1, <1>5, Taken DEF AppInv, IInv, Typed, Calling
  <2>2. OfCall(o.p)
    BY <1>1, <1>5, <2>1 DEF AppInv, IInv, Pending, AckTypes, Requests
  <2>3. call.filter = Topic
    BY <1>5, <2>1, <2>2, FiltersAssumption DEF OfCall, AppInv, AppState, InCall
  <2>4. ~Refusals => o.p.accepted
    BY <1>1, <2>1 DEF AppInv, AppState, NothingRefused
  <2>5. CASE ~o.p.accepted
    <3>1. Accepted(o.s, o.p) = [rc |-> "MQSUCCESS", s |-> o.s]
      BY <1>5, <2>5 DEF Accepted
    <3>2. mc' = o.s /\ Refusals
      BY <1>2, <2>4, <2>5, <3>1
    <3> QED
      BY <1>2, <1>3, <1>5, <3>2 DEF Goes
  <2>6. CASE o.p.accepted
    <3> DEFINE h == MQTTSetMessageHandler(o.s, Topic)
               t == [o.s EXCEPT !.handlers = @ \cup {Topic}]
    <3>1. Accepted(o.s, o.p) =
            IF h.rc = "MQSUCCESS" THEN h ELSE [h EXCEPT !.s = MQTTCloseSession(o.s)]
      BY <1>5, <2>3, <2>6 DEF Accepted
    <3>2. \/ h = [rc |-> "MQSUCCESS", s |-> t]
          \/ h = [rc |-> "FAILURE", s |-> o.s]
      BY DEF MQTTSetMessageHandler
    <3>3. t.handlers = {Topic}
      BY <1>3 DEF Client
    <3>4. ~MQTTCloseSession(o.s).isconnected
      BY <1>3, Close
    <3> HIDE DEF h, t
    <3>5. CASE h = [rc |-> "MQSUCCESS", s |-> t]
      <4>1. mc' = t
        BY <1>2, <3>1, <3>5
      <4> QED
        BY <1>2, <1>5, <3>3, <4>1 DEF Goes
    <3>6. CASE h = [rc |-> "FAILURE", s |-> o.s]
      <4>1. Accepted(o.s, o.p) = [rc |-> "FAILURE", s |-> MQTTCloseSession(o.s)]
        BY <3>1, <3>6
      <4>2. mc' = MQTTCloseSession(o.s)
        BY <1>2, <4>1
      <4> QED
        BY <1>2, <1>5, <3>4, <4>2 DEF Goes
    <3> QED
      BY <3>2, <3>5, <3>6
  <2> QED
    BY <2>5, <2>6
<1> QED
  BY <1>4, <1>5

\* A round of waitfor.
LEMMA WaitGoes == AppInv /\ WaitCycle => Goes
<1> SUFFICES ASSUME AppInv, WaitCycle PROVE Goes
  OBVIOUS
<1>1. call.op \in {"connect", "subscribe"}
  BY DEF WaitCycle, AppInv, AppState, InCall, OpAt
<1>2. PICK late \in BOOLEAN : \E o \in cycle(mc, late) :
        IF o.rc = call.awaits
        THEN /\ Settle(Accepted(o.s, o.p).s, o.out, o.read)
             /\ Return(Accepted(o.s, o.p).rc)
        ELSE IF o.rc = "error" \/ late
        THEN Settle(GiveUp(o.s), o.out, o.read) /\ Return("FAILURE")
        ELSE Settle(o.s, o.out, o.read) /\ UNCHANGED <<call, result>>
  BY DEF WaitCycle
<1>3. PICK o \in cycle(mc, late) :
        IF o.rc = call.awaits
        THEN /\ Settle(Accepted(o.s, o.p).s, o.out, o.read)
             /\ Return(Accepted(o.s, o.p).rc)
        ELSE IF o.rc = "error" \/ late
        THEN Settle(GiveUp(o.s), o.out, o.read) /\ Return("FAILURE")
        ELSE Settle(o.s, o.out, o.read) /\ UNCHANGED <<call, result>>
  BY <1>2
<1>4. /\ o.rc # "error" => o.rc = o.p.type
      /\ \/ o.read = TRUE /\ toClient # <<>> /\ o.p = Head(toClient)
         \/ o.read = FALSE /\ {o.rc, o.p.type} \subseteq {"timeout", "error"}
      /\ (Left(o) /\ (Bad(o) => ~mc.isconnected)) \/ (Shut(o) /\ Bad(o))
  BY Cycle DEF AppInv, IInv
<1>5. (o.read => toClient # <<>>) /\ (Left(o) \/ Shut(o)) /\ o.s \in Client
  BY <1>4 DEF Left, Shut, Same
<1>6. CASE o.rc = call.awaits
  BY <1>1, <1>3, <1>4, <1>6, AcceptedGoes
<1>7. CASE o.rc # call.awaits /\ (o.rc = "error" \/ late)
  <2>1. Settle(GiveUp(o.s), o.out, o.read) /\ call'.op = "none"
    BY <1>3, <1>7, Returns
  <2>2. CASE call.op = "connect"
    <3>1. Settle(o.s, o.out, o.read)
      BY <2>1, <2>2 DEF GiveUp
    <3> QED
      BY <1>1, <1>5, <2>1, <2>2, <3>1, RoundGoes
  <2>3. CASE call.op = "subscribe"
    <3>1. mc' = GiveUp(o.s) /\ In(toClient') \subseteq In(toClient)
      BY <1>5, <2>1, Settles DEF AppInv
    <3>2. ~GiveUp(o.s).isconnected
      BY <1>5, <2>3, Close DEF GiveUp
    <3> QED
      BY <2>1, <2>3, <3>1, <3>2 DEF Goes
  <2> QED
    BY <1>1, <2>2, <2>3
<1>8. CASE o.rc # call.awaits /\ ~(o.rc = "error" \/ late)
  <2>1. Settle(o.s, o.out, o.read) /\ call' = call /\ call.op # "none"
    BY <1>1, <1>3, <1>8
  <2> QED
    BY <1>5, <2>1, RoundGoes
<1> QED
  BY <1>6, <1>7, <1>8

\* A call that waits keeps the application where it is.
LEMMA WaitingKeeps ==
  ASSUME AppInv, Waiting, UNCHANGED <<pc, mqtt_subtopic>>
  PROVE  AppState'
<1>1. Goes
  BY WaitGoes, ExpiresGoes, YieldGoes DEF Waiting
<1>2. IInv' /\ (mc'.isconnected \in BOOLEAN) /\ (~mc'.isconnected => mc'.handlers = {})
  BY WaitCycleStep, WaitExpiresStep, YieldCycleStep DEF AppInv, Waiting, IInv, Session,
     Typed, Client
<1>3. AppTyped' /\ NothingRefused'
  BY <1>1 DEF Goes, AppInv, AppState, AppTyped, NothingRefused
<1>4. InCall'
  BY <1>1 DEF Goes, AppInv, AppState, InCall
<1>5. call.op = OpAt(pc) /\ call.op # "none"
  BY <1>1 DEF Goes, AppInv, AppState, InCall
<1>6. pc \notin {"init", "started", "closed", "publish", "failed"}
  BY <1>5 DEF OpAt
<1>7. pc \in {"first_connect", "connect"} <=> call.op = "connect"
  BY <1>5, <1>6 DEF OpAt, AppInv, AppState, AppTyped
<1>8. call.op = "connect" => ~mc.isconnected
  BY DEF AppInv, IInv, Calling
<1>9. Unconnected'
  BY <1>1, <1>6, <1>7, <1>8 DEF Goes, Unconnected
<1>10. Listening'
  <2>1. mc'.handlers \subseteq {Topic}
    BY <1>1, <1>2 DEF Goes, AppInv, AppState, Listening
  <2>2. ASSUME ~Refusals, mc'.isconnected, call'.op # "subscribe", call.op # "connect"
        PROVE  mc'.handlers = {Topic}
    BY <1>1, <1>5, <1>6, <1>7, <2>2 DEF Goes, AppInv, AppState, Listening, AppTyped
  <2> QED
    BY <1>7, <2>1, <2>2 DEF Listening
<1> QED
  BY <1>3, <1>4, <1>9, <1>10 DEF AppState

\* What the broker publishes refuses nothing.
LEMMA MessageAccepted ==
  ASSUME NEW f \in Filters \cup {None}, NEW q \in 0 .. 2
  PROVE  Message(q, f) \in Packet /\ Message(q, f).accepted
<1>1. PICK p \in Packet : p = Pkt("PUBLISH", 0) /\ p.accepted
  BY Packets, LimitsAssumption DEF PacketTypes, RequestTypes
<1>2. Message(q, f) = [p EXCEPT !.qos = q, !.filter = f]
  BY <1>1 DEF Message
<1> QED
  BY <1>1, <1>2 DEF Packet

\* A step of the timers, the broker or the connection leaves the session, and
\* a broker that refuses nothing sends nothing that refuses.
LEMMA WorldKeeps ==
  ASSUME AppInv, World, UNCHANGED <<pc, mqtt_subtopic>>
  PROVE  AppState'
<1>1. mc \in Client /\ toClient \in Seq(Packet) /\ toBroker \in Seq(Packet)
  BY DEF AppInv, IInv, Typed
<1>2. call' = call /\ result' = result
  BY DEF World, SentExpires, ReceivedExpires, BrokerConnect, BrokerRefuses, BrokerEnds,
     BrokerSubscribe, BrokerUnsubscribe, BrokerAnswers, BrokerPublishes, LinkDies, LinkCut, Reply
<1>3. /\ mc'.isconnected = mc.isconnected /\ mc'.handlers = mc.handlers
      /\ mc'.sockHandle = mc.sockHandle
  <2>1. mc' = mc \/ mc' = [mc EXCEPT !.sent_expired = TRUE]
        \/ mc' = [mc EXCEPT !.received_expired = TRUE]
    BY DEF World, SentExpires, ReceivedExpires, BrokerConnect, BrokerRefuses, BrokerEnds,
       BrokerSubscribe, BrokerUnsubscribe, BrokerAnswers, BrokerPublishes, LinkDies, LinkCut,
       Reply
  <2> QED
    BY <1>1, <2>1 DEF Client
<1>4. ASSUME ~Refusals
      PROVE  \A p \in In(toClient') : p \in In(toClient) \/ p.accepted
  <2>1. CASE toClient' = toClient \/ toClient' = <<>>
    BY <2>1, EmptyQueue
  <2>2. ASSUME NEW ps \in Seq(Packet), toClient' = toClient \o ps, \A p \in In(ps) : p.accepted
        PROVE  \A p \in In(toClient') : p \in In(toClient) \/ p.accepted
    BY <1>1, <2>2, Joined
  <2>3. \A p \in Packet : <<p>> \in Seq(Packet) /\ In(<<p>>) = {p}
    BY One
  <2>4. \A p, q \in Packet : <<p, q>> \in Seq(Packet) /\ In(<<p, q>>) = {p, q}
    BY DEF In
  <2>5. CASE SentExpires \/ ReceivedExpires \/ BrokerEnds \/ LinkDies \/ LinkCut
    BY <2>1, <2>5 DEF SentExpires, ReceivedExpires, BrokerEnds, LinkDies, LinkCut, env
  <2>6. CASE BrokerConnect
    <3>1. PICK p : p = Pkt("CONNACK", 0)
      OBVIOUS
    <3>2. p \in Packet /\ p.accepted
      BY <3>1, Packets, LimitsAssumption DEF PacketTypes
    <3>3. toClient' = toClient \o <<p>>
      BY <2>6, <3>1 DEF BrokerConnect, Reply
    <3> QED
      BY <2>2, <2>3, <3>2, <3>3
  <2>7. CASE BrokerSubscribe
    <3> DEFINE h == Head(toBroker)
    <3>1. h \in Packet
      BY <1>1, <2>7, Taken DEF BrokerSubscribe, Is
    <3>2. PICK a : a = [Pkt("SUBACK", h.id) EXCEPT !.accepted = TRUE]
      OBVIOUS
    <3>3. a \in Packet /\ a.accepted
      <4>1. PICK q \in Packet : q = Pkt("SUBACK", h.id)
        BY <3>1, Packets DEF Packet, PacketTypes, AckTypes
      <4>2. PICK r : r = [q EXCEPT !.accepted = TRUE]
        OBVIOUS
      <4>3. r \in Packet /\ r.accepted
        BY <4>1, <4>2 DEF Packet
      <4> QED
        BY <3>2, <4>1, <4>2, <4>3
    <3>4. PICK m : m = Message(0, h.filter)
      OBVIOUS
    <3>5. m \in Packet /\ m.accepted
      BY <3>1, <3>4, MessageAccepted DEF Packet
    <3>6. toClient' = toClient \o <<a>> \/ toClient' = toClient \o <<m, a>>
      BY <1>4, <2>7, <3>2, <3>4 DEF BrokerSubscribe, Reply
    <3>7. /\ <<a>> \in Seq(Packet) /\ \A p \in In(<<a>>) : p.accepted
          /\ <<m, a>> \in Seq(Packet) /\ \A p \in In(<<m, a>>) : p.accepted
      BY <2>3, <2>4, <3>3, <3>5
    <3> QED
      BY <2>2, <3>6, <3>7
  <2>8. CASE BrokerUnsubscribe
    <3>1. PICK p : p = Pkt("UNSUBACK", Head(toBroker).id)
      OBVIOUS
    <3>2. Head(toBroker) \in Packet
      BY <1>1, <2>8, Taken DEF BrokerUnsubscribe, Is
    <3>3. p \in Packet /\ p.accepted
      BY <3>1, <3>2, Packets DEF PacketTypes, AckTypes, Packet
    <3>4. toClient' = toClient \o <<p>>
      BY <2>8, <3>1 DEF BrokerUnsubscribe, Reply
    <3> QED
      BY <2>2, <2>3, <3>3, <3>4
  <2>9. CASE BrokerAnswers
    <3> DEFINE h == Head(toBroker)
    <3>1. h \in Packet
      BY <1>1, <2>9, Taken DEF BrokerAnswers, Is
    <3>2. PICK ps : Reply(ps) /\
            ps = CASE h.type = "PINGREQ" -> <<Pkt("PINGRESP", 0)>>
                   [] h.type = "PUBLISH" ->
                        <<Pkt(IF h.qos = 1 THEN "PUBACK" ELSE "PUBREC", h.id)>>
                   [] h.type = "PUBREC" -> <<Pkt("PUBREL", h.id)>>
                   [] h.type = "PUBREL" -> <<Pkt("PUBCOMP", h.id)>>
                   [] OTHER -> <<>>
      BY <2>9 DEF BrokerAnswers
    <3>3. \/ ps = <<>>
          \/ \E t \in {"PINGRESP", "PUBACK", "PUBREC", "PUBREL", "PUBCOMP"}, i \in {0, h.id} :
               ps = <<Pkt(t, i)>>
      BY <3>2
    <3>4. toClient' = toClient \o ps
      BY <3>2 DEF Reply
    <3>5. CASE ps = <<>>
      BY <2>2, <3>4, <3>5, EmptyQueue
    <3>6. ASSUME NEW t \in {"PINGRESP", "PUBACK", "PUBREC", "PUBREL", "PUBCOMP"},
                 NEW i \in {0, h.id}, ps = <<Pkt(t, i)>>
          PROVE  \A p \in In(toClient') : p \in In(toClient) \/ p.accepted
      <4>1. Pkt(t, i) \in Packet /\ Pkt(t, i).accepted
        BY <3>1, Packets, LimitsAssumption DEF PacketTypes, AckTypes, RequestTypes, Packet
      <4> QED
        BY <2>2, <2>3, <3>4, <3>6, <4>1
    <3> QED
      BY <3>3, <3>5, <3>6
  <2>10. CASE BrokerPublishes
    <3>1. PICK f \in broker.subs : \E q \in 0 .. MaxQos :
            toClient' = Append(toClient, Message(q, f))
      BY <2>10 DEF BrokerPublishes
    <3>2. PICK q \in 0 .. MaxQos : toClient' = Append(toClient, Message(q, f))
      BY <3>1
    <3>3. f \in Filters /\ q \in 0 .. 2
      BY <3>1, <3>2, LimitsAssumption DEF AppInv, IInv, Typed
    <3>4. PICK p : p = Message(q, f)
      OBVIOUS
    <3>5. p \in Packet /\ p.accepted
      BY <3>3, <3>4, MessageAccepted
    <3>6. toClient' = toClient \o <<p>>
      BY <1>1, <3>2, <3>4, <3>5
    <3> QED
      BY <2>2, <2>3, <3>5, <3>6
  <2>11. ~BrokerRefuses
    BY <1>4 DEF BrokerRefuses
  <2> QED
    BY <2>5, <2>6, <2>7, <2>8, <2>9, <2>10, <2>11 DEF World
<1>5. NothingRefused'
  BY <1>4 DEF AppInv, AppState, NothingRefused
<1>6. AppTyped' /\ InCall' /\ Unconnected' /\ Listening'
  BY <1>2, <1>3 DEF AppInv, AppState, AppTyped, InCall, Unconnected, Listening, Idle
<1> QED
  BY <1>5, <1>6 DEF AppState

\* mqtt_hard_reset keeps the client's invariant: nothing is left of the session
\* or of the connection.
LEMMA ResetKeeps ==
  ASSUME AppInv, mqtt_hard_reset
  PROVE  /\ IInv' /\ ~mc'.isconnected /\ mc'.sockHandle # "open"
         /\ In(toClient') \subseteq In(toClient) /\ call' = call /\ call.op = "none"
<1>1. /\ mc \in Client /\ call \in CallType /\ result \in ResultType
      /\ mc.isconnected => mc.configured
      /\ ~mc.isconnected => mc.handlers = {}
  BY DEF AppInv, IInv, Typed, Session
<1>2. call.op = "none" /\ call' = call /\ result' = result
  BY DEF mqtt_hard_reset, Failed, Returned, Idle, AppInv, AppState, InCall, OpAt
<1>3. PICK o : /\ \/ o \in sendPacket(mc, Pkt("DISCONNECT", 0))
                  \/ ~mc.isconnected /\ o = [ok |-> TRUE, s |-> mc, out |-> <<>>]
               /\ LET s == IF mc.isconnected THEN MQTTCloseSession(o.s) ELSE o.s
                  IN  Settle(IF s.sockHandle = "null" THEN s ELSE network_disconnect(s),
                             <<>>, FALSE)
  BY DEF mqtt_hard_reset
<1>4. "DISCONNECT" \in PacketTypes /\ 0 \in 0 .. MaxPacketId
  BY LimitsAssumption DEF PacketTypes
<1>5. /\ o.s \in Client /\ o.s.isconnected = mc.isconnected /\ o.s.handlers = mc.handlers
      /\ o.s.configured = mc.configured
  <2>1. CASE o \in sendPacket(mc, Pkt("DISCONNECT", 0))
    BY <1>1, <1>4, <2>1, Sends
  <2>2. CASE o = [ok |-> TRUE, s |-> mc, out |-> <<>>]
    BY <1>1, <2>2
  <2> QED
    BY <1>3, <2>1, <2>2
<1>6. PICK s : s = IF mc.isconnected THEN MQTTCloseSession(o.s) ELSE o.s
  OBVIOUS
<1>7. s \in Client /\ ~s.isconnected /\ s.handlers = {}
  BY <1>1, <1>5, <1>6, Close
<1>8. PICK t : t = IF s.sockHandle = "null" THEN s ELSE network_disconnect(s)
  OBVIOUS
<1>9. t \in Client /\ ~t.isconnected /\ t.handlers = {} /\ t.sockHandle # "open"
  BY <1>7, <1>8 DEF network_disconnect, Client
<1>10. Settle(t, <<>>, FALSE)
  BY <1>3, <1>6, <1>8
<1>11. IInv'
  BY <1>1, <1>2, <1>9, <1>10, ShutStep DEF AppInv
<1>12. mc' = t /\ In(toClient') \subseteq In(toClient)
  BY <1>10, Settles DEF AppInv
<1> QED
  BY <1>2, <1>9, <1>11, <1>12

\* Forgetting a socket that is gone changes nothing else.
LEMMA ForgetKeeps ==
  ASSUME AppInv, ForgetSocket
  PROVE  IInv' /\ mc'.isconnected = mc.isconnected /\ mc'.handlers = mc.handlers
               /\ mc'.sockHandle # "open"
<1>1. /\ mc \in Client /\ call \in CallType /\ result \in ResultType
      /\ ~mc.isconnected /\ mc.sockHandle # "open" /\ mc.handlers = {}
      /\ call.op = "none" /\ link = "down"
      /\ toBroker = <<>> /\ toClient = <<>> /\ broker = NoSession
  BY DEF ForgetSocket, AppInv, IInv, Typed, Session, Linked, AppState, Unconnected, InCall, OpAt
<1>2. mc' = [mc EXCEPT !.sockHandle = "null"] /\ UNCHANGED <<env, call, result>>
  BY DEF ForgetSocket
<1>3. /\ mc' \in Client /\ ~mc'.isconnected /\ mc'.sockHandle # "open" /\ mc'.handlers = {}
      /\ mc'.isconnected = mc.isconnected
  BY <1>1, <1>2 DEF Client
<1>4. Settle(mc', <<>>, FALSE)
  BY <1>1, <1>2, <1>3 DEF Settle, env
<1>5. IInv'
  BY <1>1, <1>2, <1>3, <1>4, ShutStep DEF AppInv
<1> QED
  BY <1>1, <1>3, <1>5

\* The client's invariant holds of the client in the application, which also
\* subscribes to the empty topic.
LEMMA ClientKept == AppInv /\ [AppNext]_appVars => IInv'
<1> SUFFICES ASSUME AppInv, [AppNext]_appVars PROVE IInv'
  OBVIOUS
<1>1. mqtt_subtopic \in Filters \cup {None} /\ Topic \in Filters \cup {None}
  BY TopicAssumption DEF AppInv, AppState, AppTyped
<1>2. ASSUME UNCHANGED vars
      PROVE  IInv'
  BY <1>2, NextInv DEF AppInv
<1>3. CASE mqtt_network_init
  BY <1>3, NewNetworkStep DEF mqtt_network_init, AppInv
<1>4. CASE FirstConnect \/ Connect
  BY <1>4, ConnectStep DEF FirstConnect, Connect, AppInv
<1>5. CASE FirstSubscribe \/ Subscribe
  BY <1>1, <1>5, RequestsStep DEF FirstSubscribe, Subscribe, AppInv
<1>6. CASE Yield \/ Publish
  BY <1>6, YieldStep, Publish0Step DEF Yield, Publish, AppInv
<1>7. CASE PublishNotFormatted
  BY <1>2, <1>7 DEF PublishNotFormatted
<1>8. CASE mqtt_hard_reset \/ ForgetSocket
  BY <1>8, ResetKeeps, ForgetKeeps
<1>9. CASE Waiting
  BY <1>9, WaitCycleStep, WaitExpiresStep, YieldCycleStep DEF Waiting, AppInv
<1>10. CASE World
  BY <1>10, NextInv DEF AppInv, Next
<1>11. CASE UNCHANGED appVars
  BY <1>2, <1>11 DEF appVars
<1> QED
  BY <1>3, <1>4, <1>5, <1>6, <1>7, <1>8, <1>9, <1>10, <1>11 DEF AppNext, App

\* A step from call to call: where it is left decides what holds there.
LEMMA StepKeeps ==
  ASSUME AppInv, IInv', AppTyped', InCall', In(toClient') \subseteq In(toClient),
         \/ ~mc'.isconnected /\ (pc' = "closed" => mc'.sockHandle # "open")
         \/ mc'.handlers = mc.handlers /\ call'.op = "subscribe"
            /\ pc' \in {"first_subscribe", "subscribe"}
         \/ mc.isconnected /\ mc'.handlers = mc.handlers /\ call.op # "subscribe"
            /\ pc \in {"first_subscribe", "subscribe", "yield", "publish"}
            /\ pc' \in {"yield", "publish", "failed"}
  PROVE  AppState'
<1>1. NothingRefused'
  BY DEF AppInv, AppState, NothingRefused
<1>2. ~mc'.isconnected => mc'.handlers = {}
  BY DEF IInv, Session
<1>3. Unconnected'
  BY DEF Unconnected
<1>4. Listening'
  BY <1>2 DEF AppInv, AppState, Listening
<1> QED
  BY <1>1, <1>3, <1>4 DEF AppState

\* The application is at the head of its loop with a session only after a
\* subscription.
LEMMA AtTopSubscribed ==
  ASSUME AppInv, AtTop, mc.isconnected
  PROVE  pc \in {"first_subscribe", "yield", "publish"} /\ call.op = "none"
BY DEF AtTop, Returned, Idle, AppInv, AppState, Unconnected

\* Every step of the application keeps its part of the invariant.
LEMMA AppKept == AppInv /\ [AppNext]_appVars => AppState'
<1> SUFFICES ASSUME AppInv, [AppNext]_appVars PROVE AppState'
  OBVIOUS
<1>1. IInv'
  BY ClientKept
<1>2. AppTyped /\ InCall /\ mqtt_subtopic \in {None, Topic}
  BY DEF AppInv, AppState, AppTyped
<1>3. CASE mqtt_network_init
  <2>1. /\ call.op = "none" /\ call' = call /\ toClient' = toClient /\ ~mc'.isconnected
        /\ pc' = "started" /\ mqtt_subtopic' = mqtt_subtopic
    BY <1>3 DEF mqtt_network_init, NewNetwork, Idle, AppInv, IInv, Typed, Client
  <2>2. AppTyped' /\ InCall'
    BY <1>2, <2>1 DEF AppTyped, InCall
  <2> QED
    BY <1>1, <2>1, <2>2, StepKeeps
<1>4. CASE FirstConnect \/ Connect
  <2>1. /\ ~mc.isconnected /\ MQTTConnect /\ pc' \in {"first_connect", "connect"}
        /\ mqtt_subtopic' = mqtt_subtopic
    BY <1>4 DEF FirstConnect, Connect, AppInv, AppState, Unconnected
  <2>2. /\ ~mc'.isconnected /\ In(toClient') \subseteq In(toClient)
        /\ call'.op \in {"none", "connect"}
    BY <2>1, ConnectCall
  <2>3. AppTyped' /\ InCall'
    BY <1>2, <2>1, <2>2 DEF AppTyped, InCall, OpAt
  <2> QED
    BY <1>1, <2>1, <2>2, <2>3, StepKeeps
<1>5. CASE FirstSubscribe \/ Subscribe
  <2>1. PICK f \in {None, Topic} : MQTTSubscribe(f)
    BY <1>2, <1>5 DEF FirstSubscribe, Subscribe
  <2>2. pc' \in {"first_subscribe", "subscribe"} /\ mqtt_subtopic' \in {None, Topic}
    BY <1>2, <1>5 DEF FirstSubscribe, Subscribe
  <2>3. /\ In(toClient') \subseteq In(toClient)
        /\ call'.op \in {"none", "subscribe"}
        /\ call'.op = "subscribe" => call'.filter = f
        /\ mc'.isconnected => call'.op = "subscribe" /\ mc'.handlers = mc.handlers
    BY <2>1, SubscribeCall
  <2>4. AppTyped' /\ InCall'
    BY <2>2, <2>3 DEF AppTyped, InCall, OpAt
  <2> QED
    BY <1>1, <2>2, <2>3, <2>4, StepKeeps
<1>6. CASE Yield
  <2>1. /\ call'.op = "yield" /\ call.op = "none" /\ mc' = mc /\ toClient' = toClient
        /\ pc' = "yield" /\ mqtt_subtopic' = mqtt_subtopic
    <3>1. call' = [op |-> "yield", id |-> 0, filter |-> None, awaits |-> "none"]
      BY <1>6 DEF Yield, MQTTYield, NoCall
    <3> QED
      BY <1>6, <3>1 DEF Yield, MQTTYield, Idle, env
  <2>2. mc.isconnected =>
          pc \in {"first_subscribe", "subscribe", "yield", "publish"}
    BY <1>6, AtTopSubscribed DEF Yield, Returned
  <2>3. AppTyped' /\ InCall'
    BY <1>2, <2>1 DEF AppTyped, InCall, OpAt
  <2>4. call.op # "subscribe" /\ mc'.handlers = mc.handlers /\ mc'.isconnected = mc.isconnected
    BY <2>1
  <2> QED
    BY <1>1, <2>1, <2>2, <2>3, <2>4, StepKeeps
<1>7. CASE Publish
  <2>1. /\ MQTTPublish0 /\ pc = "yield" /\ call.op = "none" /\ pc' = "publish"
        /\ mqtt_subtopic' = mqtt_subtopic
    BY <1>7 DEF Publish, Returned, Idle
  <2>2. /\ In(toClient') \subseteq In(toClient) /\ call'.op = "none"
        /\ mc'.isconnected => mc.isconnected /\ mc'.handlers = mc.handlers
    BY <2>1, PublishCall
  <2>3. AppTyped' /\ InCall'
    BY <1>2, <2>1, <2>2 DEF AppTyped, InCall
  <2> QED
    BY <1>1, <2>1, <2>2, <2>3, StepKeeps
<1>8. CASE PublishNotFormatted
  <2>1. /\ pc = "yield" /\ call.op = "none" /\ pc' = "failed"
        /\ call' = call /\ mc' = mc /\ toClient' = toClient /\ mqtt_subtopic' = mqtt_subtopic
    BY <1>8 DEF PublishNotFormatted, Returned, Idle, vars, env
  <2>2. AppTyped' /\ InCall'
    BY <1>2, <2>1 DEF AppTyped, InCall
  <2> QED
    BY <1>1, <2>1, <2>2, StepKeeps
<1>9. CASE mqtt_hard_reset
  <2>1. pc' = "closed" /\ mqtt_subtopic' = mqtt_subtopic
    BY <1>9 DEF mqtt_hard_reset
  <2>2. /\ ~mc'.isconnected /\ mc'.sockHandle # "open"
        /\ In(toClient') \subseteq In(toClient) /\ call' = call /\ call.op = "none"
    BY <1>9, ResetKeeps
  <2>3. AppTyped' /\ InCall'
    BY <1>2, <2>1, <2>2 DEF AppTyped, InCall
  <2> QED
    BY <1>1, <2>1, <2>2, <2>3, StepKeeps
<1>10. CASE ForgetSocket
  <2>1. pc = "closed" /\ pc' = pc /\ UNCHANGED <<mqtt_subtopic, call, toClient>>
    BY <1>10 DEF ForgetSocket, env
  <2>2. ~mc'.isconnected /\ mc'.sockHandle # "open"
    BY <1>10, <2>1, ForgetKeeps DEF AppInv, AppState, Unconnected
  <2>3. AppTyped' /\ InCall'
    BY <1>2, <2>1 DEF AppTyped, InCall
  <2> QED
    BY <1>1, <2>1, <2>2, <2>3, StepKeeps
<1>11. CASE Waiting /\ UNCHANGED <<pc, mqtt_subtopic>>
  BY <1>11, WaitingKeeps
<1>12. CASE World /\ UNCHANGED <<pc, mqtt_subtopic>>
  BY <1>12, WorldKeeps
<1>13. CASE UNCHANGED appVars
  BY <1>13 DEF appVars, vars, env, AppInv, AppState, AppTyped, InCall, Unconnected, Listening,
     NothingRefused, Idle
<1> QED
  BY <1>3, <1>4, <1>5, <1>6, <1>7, <1>8, <1>9, <1>10, <1>11, <1>12, <1>13 DEF AppNext, App

\* Whatever fails in its loop, the application keeps the client in the states
\* the calls rely on, with or without a broker that refuses.
THEOREM AppInductive == AppSpec => []AppInv
<1>1. AppInit => AppInv
  <2> SUFFICES ASSUME AppInit PROVE AppInv
    OBVIOUS
  <2>1. IInv
    BY InitInv DEF AppInit
  <2>2. /\ pc = "init" /\ mqtt_subtopic = None /\ call.op = "none"
        /\ ~mc.isconnected /\ mc.handlers = {} /\ toClient = <<>>
    BY NoCallType DEF AppInit, Init
  <2>3. AppTyped /\ InCall /\ Unconnected /\ Listening /\ NothingRefused
    BY <2>2, EmptyQueue DEF AppTyped, InCall, Unconnected, Listening, NothingRefused
  <2> QED
    BY <2>1, <2>3 DEF AppInv, AppState
<1>2. AppInv /\ [AppNext]_appVars => AppInv'
  BY ClientKept, AppKept DEF AppInv
<1> QED
  BY <1>1, <1>2, PTL DEF AppSpec

\* In its loop over a session the application handles the messages of its
\* control topic, whatever connected it and whatever failed before, with a
\* broker that refuses nothing.
THEOREM Listens ==
  ASSUME Refusals = FALSE
  PROVE  AppSpec => []ListensWhileConnected
<1>1. AppInv => ListensWhileConnected
  BY DEF AppInv, AppState, Listening, ListensWhileConnected, InCall, OpAt
<1> QED
  BY <1>1, AppInductive, PTL

\* The client's types and the agreement with the broker hold in the application
\* too, although it asks for the empty topic and destroys a socket twice.
THEOREM AppSessions ==
  AppSpec => [](TypeOK /\ ConnectedHasSocket /\ SubscriptionsAgree /\ PingOnTheWay)
<1>1. AppInv => TypeOK /\ ConnectedHasSocket /\ SubscriptionsAgree /\ PingOnTheWay
  BY InvTypes, InvSession DEF AppInv
<1> QED
  BY <1>1, AppInductive, PTL
-----------------------------------------------------------------------------
(* The promise.                                                             *)

\* What the answers on the way say about the broker, which no later packet
\* changes, and that a call over is none.
Told ==
  /\ call.op = "none" => call = NoCall
  /\ \A p \in In(toClient) :
       /\ p.type = "CONNACK" /\ p.accepted => broker.session
       /\ p.type = "CONNACK" /\ ~p.accepted => link = "cut" /\ ~broker.session
       /\ ~p.accepted => p.type \in {"CONNACK", "SUBACK"}

PInv == IInv /\ Told

\* The step is one of MqttPromise, or none.
Keeps == Promise!Next \/ UNCHANGED Promise!vars

\* A refusal of the type is on the way.
Denied(t) == \E p \in In(toClient) : p.type = t /\ ~p.accepted

\* What became of the call, in terms of the packets of the queue.
Fate ==
  IF call.op \in {"none", "yield"} THEN "no"
  ELSE IF Acked(call.awaits) THEN "yes"
  ELSE IF Denied(call.awaits) THEN "refused"
  ELSE IF link = "up" THEN "no" ELSE "lost"

\* What became of the call, from its type and its answers.
LEMMA SettledIs == Typed => settled = Fate
<1> SUFFICES ASSUME Typed PROVE settled = Fate
  OBVIOUS
<1>1. \A i \in DOMAIN toClient : toClient[i].accepted \in BOOLEAN
  <2>1. \A i \in DOMAIN toClient : toClient[i] \in Packet
    BY DEF Typed
  <2> QED
    BY <2>1 DEF Packet
<1>2. Answered(TRUE) <=> Acked(call.awaits)
  BY <1>1 DEF Answered, Acked, In
<1>3. Answered(FALSE) <=> Denied(call.awaits)
  BY <1>1 DEF Answered, Denied, In
<1> QED
  BY <1>2, <1>3 DEF settled, Fate

\* And after a step.
LEMMA SettledNext == Typed' => settled' = Fate'
<1> DEFINE P == Typed => settled = Fate
<1>1. P
  BY SettledIs
<1> HIDE DEF P
<1>2. P'
  BY <1>1, PTL
<1> QED
  BY <1>2 DEF P

\* The variables of the promise, after a step.
LEMMA NothingKept ==
  ASSUME mc'.isconnected = mc.isconnected, mc'.handlers = mc.handlers, broker' = broker,
         call' = call, result' = result, settled' = settled
  PROVE  Keeps
BY DEF Keeps, Promise!vars, Promise!sides

\* A call that returns.
LEMMA ReturnPromised ==
  ASSUME NEW rc, Return(rc)
  PROVE  Promise!Returns(rc)
<1>1. call' = NoCall /\ result' = rc
  BY DEF Return
<1>2. call'.op = "none" /\ call'.filter = None
  BY <1>1 DEF NoCall
<1>3. settled' = "no"
  BY <1>2 DEF settled
<1> QED
  BY <1>1, <1>2, <1>3 DEF Promise!Returns, Promise!NoRequest

\* A step of the client that keeps socket and session.
LEMMA SidesKept ==
  ASSUME IInv, NEW s, NEW out, NEW read, Settle(s, out, read),
         s.sockHandle = "open" <=> mc.sockHandle = "open",
         s.isconnected = mc.isconnected, s.handlers = mc.handlers
  PROVE  mc' = s /\ link' = link /\ broker' = broker /\ UNCHANGED Promise!sides
<1>1. mc' = s /\ link' = link /\ broker' = broker
  BY DEF Settle, IInv, Linked
<1> QED
  BY <1>1 DEF Promise!sides

\* A step of the client that leaves no socket.
LEMMA SidesEnd ==
  ASSUME NEW s, NEW out, NEW read, Settle(s, out, read),
         s.sockHandle # "open", ~s.isconnected, s.isconnected \in BOOLEAN, s.handlers = {}
  PROVE  Promise!Ends /\ link' = "down" /\ toClient' = <<>>
<1>1. mc' = s /\ link' = "down" /\ toClient' = <<>> /\ broker' = NoSession
  BY DEF Settle
<1> QED
  BY <1>1 DEF Promise!Ends, NoSession

\* Reading takes nothing back that was told.
LEMMA ToldStays ==
  ASSUME PInv, NEW s, NEW out, NEW read, read => toClient # <<>>, Settle(s, out, read),
         call'.op = "none" => call' = NoCall
  PROVE  Told'
<1>1. In(toClient') \subseteq In(toClient)
  BY Settles DEF PInv
<1>2. CASE s.sockHandle = "open"
  <2>1. link' = link /\ broker' = broker
    BY <1>2 DEF Settle
  <2> QED
    BY <1>1, <2>1 DEF PInv, Told
<1>3. CASE s.sockHandle # "open"
  <2>1. toClient' = <<>>
    BY <1>3 DEF Settle
  <2> QED
    BY <2>1, EmptyQueue DEF Told
<1> QED
  BY <1>2, <1>3

\* A call that closes the session.
LEMMA Closed ==
  ASSUME IInv, NEW s \in Client, Same(mc, s), NEW out, NEW read,
         Settle(MQTTCloseSession(s), out, read)
  PROVE  Promise!EndsAny /\ (mc.configured => Promise!Ends)
<1> DEFINE t == MQTTCloseSession(s)
<1>1. /\ t \in Client /\ ~t.isconnected /\ t.configured = s.configured
      /\ s.configured => t.sockHandle # "open" /\ t.handlers = {}
      /\ ~s.configured => t.sockHandle = s.sockHandle /\ t.handlers = s.handlers
  BY Close
<1>2. Settle(t, out, read)
  OBVIOUS
<1> HIDE DEF t
<1>3. t.isconnected \in BOOLEAN /\ mc.isconnected \in BOOLEAN
  BY <1>1 DEF IInv, Typed, Client
<1>4. CASE mc.configured
  BY <1>1, <1>2, <1>3, <1>4, SidesEnd DEF Same, Promise!EndsAny
<1>5. CASE ~mc.configured
  <2>1. ~mc.isconnected /\ t.isconnected = mc.isconnected
    BY <1>1, <1>3, <1>5 DEF IInv, Session
  <2>2. UNCHANGED Promise!sides
    BY <1>1, <1>2, <1>5, <2>1, SidesKept DEF Same
  <2> QED
    BY <1>5, <2>1, <2>2 DEF Promise!EndsAny
<1> QED
  BY <1>4, <1>5

\* A socket that is created or dropped between sessions.
LEMMA NetworkPromised ==
  ASSUME PInv, NewNetwork \/ DropNetwork
  PROVE  Told' /\ Keeps
<1>1. call.op = "none" /\ call' = call /\ result' = result /\ ~mc.isconnected /\ mc \in Client
  BY DEF NewNetwork, DropNetwork, Idle, PInv, IInv, Typed
<1>2. call' = NoCall /\ settled = "no" /\ settled' = "no"
  BY <1>1 DEF PInv, Told, settled
<1>3. CASE NewNetwork
  <2>1. /\ mc' = [mc EXCEPT !.sockHandle = "open"] /\ toClient' = toClient /\ broker' = broker
        /\ link = "down"
    BY <1>3 DEF NewNetwork, PInv, IInv, Linked
  <2>2. mc'.isconnected = mc.isconnected /\ mc'.handlers = mc.handlers
    BY <1>1, <2>1 DEF Client
  <2>3. toClient = <<>>
    BY <2>1 DEF PInv, IInv, Linked
  <2>4. Told'
    BY <1>2, <2>1, <2>3, EmptyQueue DEF Told
  <2> QED
    BY <1>1, <1>2, <2>1, <2>2, <2>4, NothingKept
<1>4. CASE DropNetwork
  <2> DEFINE s == [mc EXCEPT !.sockHandle = "null"]
  <2>1. Settle(s, <<>>, FALSE)
    BY <1>4 DEF DropNetwork
  <2>2. /\ s.sockHandle # "open" /\ ~s.isconnected /\ s.isconnected \in BOOLEAN
        /\ s.handlers = {}
    BY <1>1 DEF Client, PInv, IInv, Session
  <2> HIDE DEF s
  <2>3. Told'
    BY <1>2, <2>1, ToldStays
  <2>4. Promise!Ends
    BY <2>1, <2>2, SidesEnd
  <2>5. Promise!SessionEnds
    BY <1>1, <1>2, <2>4 DEF Promise!SessionEnds, Promise!Waits, Promise!Requests
  <2> QED
    BY <2>3, <2>5 DEF Keeps, Promise!Next
<1> QED
  BY <1>3, <1>4

\* Without a request on the way, none of its answers is.
LEMMA NoAnswer ==
  ASSUME PInv, call.op \notin Requests, NEW t \in AckTypes
  PROVE  ~Acked(t) /\ ~Denied(t)
BY DEF PInv, IInv, Pending, Absent, Acked, Denied

\* A connection that is cut takes nothing more.
LEMMA CutSend ==
  ASSUME NEW s \in Client, NEW p, NEW o \in sendPacket(s, p), o.ok
  PROVE  link # "cut"
BY DEF sendPacket, Client

\* MQTTConnect.
LEMMA ConnectPromised ==
  ASSUME PInv, IInv', MQTTConnect
  PROVE  Told' /\ Keeps
<1> DEFINE s == [mc EXCEPT !.configured = TRUE, !.received_expired = FALSE]
           p == Pkt("CONNECT", 0)
<1>1. call.op = "none" /\ call = NoCall /\ Promise!Idle
  BY DEF MQTTConnect, Idle, PInv, Told, Promise!Idle
<1>2. mc \in Client
  BY DEF PInv, IInv, Typed
<1>3. CASE mc.isconnected
  <2>1. UNCHANGED <<mc, env, call>> /\ result' = "FAILURE"
    BY <1>3 DEF MQTTConnect
  <2>2. Told'
    BY <2>1 DEF PInv, Told, env
  <2>3. Return("FAILURE")
    BY <1>1, <2>1 DEF Return
  <2>4. Promise!ConnectFails
    BY <1>1, <2>1, <2>3, ReturnPromised DEF Promise!ConnectFails, Promise!sides, env
  <2> QED
    BY <2>2, <2>4 DEF Keeps, Promise!Next
<1>4. CASE ~mc.isconnected
  <2>1. PICK o \in sendPacket(s, p) :
          /\ Settle(o.s, o.out, FALSE)
          /\ IF o.ok THEN /\ call' = [NoCall EXCEPT !.op = "connect", !.awaits = "CONNACK"]
                          /\ UNCHANGED result
             ELSE Return("FAILURE")
    BY <1>4 DEF MQTTConnect
  <2>2. /\ s \in Client /\ s.isconnected = mc.isconnected
        /\ s.handlers = mc.handlers /\ s.sockHandle = mc.sockHandle
    BY <1>2 DEF Client
  <2>3. p \in Packet
    BY Packets, LimitsAssumption DEF PacketTypes
  <2> HIDE DEF s, p
  <2>4. /\ o.ok \in BOOLEAN /\ Same(s, o.s)
        /\ o.ok => s.sockHandle = "open"
    BY <2>1, <2>2, <2>3, Send
  <2>5. /\ o.s.sockHandle = "open" <=> mc.sockHandle = "open"
        /\ o.s.isconnected = mc.isconnected /\ o.s.handlers = mc.handlers
    BY <2>2, <2>4 DEF Same
  <2>6. mc' = o.s /\ link' = link /\ broker' = broker /\ UNCHANGED Promise!sides
    BY <2>1, <2>5, SidesKept DEF PInv
  <2>7. call'.op = "none" => call' = NoCall
    BY <2>1, <2>4 DEF Return, NoCall
  <2>8. Told'
    BY <2>1, <2>7, ToldStays
  <2>9. CASE ~o.ok
    <3>1. Return("FAILURE")
      BY <2>1, <2>9
    <3>2. Promise!ConnectFails
      BY <1>1, <2>6, <3>1, ReturnPromised DEF Promise!ConnectFails
    <3> QED
      BY <2>8, <3>2 DEF Keeps, Promise!Next
  <2>10. CASE o.ok
    <3>1. /\ call'.op = "connect" /\ call'.filter = None /\ call'.awaits = "CONNACK"
          /\ result' = result
      BY <2>1, <2>10 DEF NoCall
    <3>2. settled' = Fate'
      BY SettledNext DEF IInv
    <3>3. toClient' = toClient
      BY <2>1, <2>2, <2>4, <2>5, <2>10 DEF Settle
    <3>4. link # "cut"
      BY <2>1, <2>2, <2>10, CutSend
    <3>5. ~Denied("CONNACK")
      BY <2>6, <3>4 DEF PInv, Told, Denied
    <3>6. settled' \in {"no", "lost", "yes"} /\ (settled' = "yes" => broker.session)
      BY <3>1, <3>2, <3>3, <3>5 DEF Fate, Acked, Denied, PInv, Told
    <3>7. Promise!Begins("connect", None, settled')
      BY <1>1, <2>6, <3>1 DEF Promise!Begins
    <3>8. Promise!Connect
      BY <1>4, <3>6, <3>7 DEF Promise!Connect
    <3> QED
      BY <2>8, <3>8 DEF Keeps, Promise!Next
  <2> QED
    BY <2>4, <2>9, <2>10
<1> QED
  BY <1>3, <1>4

\* MQTTYield.
LEMMA YieldPromised ==
  ASSUME PInv, MQTTYield
  PROVE  Told' /\ Keeps
<1>1. /\ call' = [NoCall EXCEPT !.op = "yield"] /\ UNCHANGED <<mc, env, result>>
      /\ call.op = "none"
  BY DEF MQTTYield, Idle
<1>2. call'.op = "yield" /\ call'.filter = None
  BY <1>1 DEF NoCall
<1>3. settled' = "no"
  BY <1>2 DEF settled
<1>4. Told'
  BY <1>1, <1>2 DEF PInv, Told, env
<1>5. Promise!Yields
  BY <1>1, <1>2, <1>3 DEF Promise!Yields, Promise!Begins, Promise!Idle, Promise!sides, env
<1> QED
  BY <1>4, <1>5 DEF Keeps, Promise!Next

\* A call without a session, or that cannot send its packet.
LEMMA FailsPromised ==
  ASSUME PInv, call.op = "none", NEW s \in Client, Same(mc, s), NEW out,
         Settle(MQTTCloseSession(s), out, FALSE), Return("FAILURE")
  PROVE  Told' /\ Keeps
<1>1. Told'
  BY ToldStays DEF Return
<1>2. Promise!EndsAny
  BY Closed DEF PInv
<1>3. Promise!CallFails
  BY <1>2, ReturnPromised DEF Promise!CallFails, Promise!Idle
<1> QED
  BY <1>1, <1>3 DEF Keeps, Promise!Next

\* A request begins.
LEMMA RequestPromised ==
  ASSUME PInv, IInv', NEW op \in Requests, NEW p \in Packet, NEW awaits \in AckTypes,
         Request(op, p, awaits)
  PROVE  Told' /\ Keeps
<1>1. call.op = "none" /\ mc \in Client /\ Same(mc, mc)
  BY DEF Request, Idle, PInv, IInv, Typed, Same
<1>2. CASE ~mc.isconnected
  <2>1. Settle(MQTTCloseSession(mc), <<>>, FALSE) /\ Return("FAILURE")
    BY <1>2 DEF Request
  <2> QED
    BY <1>1, <2>1, FailsPromised
<1>3. CASE mc.isconnected
  <2> DEFINE i == getNextPacketId(mc)
             s == [mc EXCEPT !.next_packetid = i]
             q == [p EXCEPT !.id = i]
  <2>1. PICK o \in sendPacket(s, q) :
          IF o.ok
          THEN /\ Settle(o.s, o.out, FALSE)
               /\ call' = [op |-> op, id |-> i, filter |-> p.filter, awaits |-> awaits]
               /\ UNCHANGED result
          ELSE Settle(MQTTCloseSession(o.s), o.out, FALSE) /\ Return("FAILURE")
    BY <1>3 DEF Request
  <2>2. i \in 1 .. MaxPacketId /\ i \in 0 .. MaxPacketId
    <3>1. mc.next_packetid \in 1 .. MaxPacketId
      BY <1>1 DEF Client
    <3> QED
      BY <3>1, LimitsAssumption DEF getNextPacketId
  <2> HIDE DEF i
  <2>3. s \in Client /\ Same(mc, s) /\ q \in Packet
    BY <1>1, <2>2 DEF Client, Same, Packet
  <2> HIDE DEF s, q
  <2>4. /\ o.ok \in BOOLEAN /\ Same(s, o.s)
        /\ o.ok => s.sockHandle = "open"
    BY <2>1, <2>3, Send
  <2>5. Same(mc, o.s) /\ o.s \in Client
    BY <2>3, <2>4 DEF Same
  <2>6. CASE ~o.ok
    <3>1. Settle(MQTTCloseSession(o.s), o.out, FALSE) /\ Return("FAILURE")
      BY <2>1, <2>6
    <3> QED
      BY <1>1, <2>5, <3>1, FailsPromised
  <2>7. CASE o.ok
    <3>1. /\ Settle(o.s, o.out, FALSE) /\ result' = result
          /\ call' = [op |-> op, id |-> i, filter |-> p.filter, awaits |-> awaits]
      BY <2>1, <2>7
    <3>2. call'.op = op /\ call'.filter = p.filter /\ call'.awaits = awaits
      BY <3>1
    <3>3. op \in {"subscribe", "unsubscribe", "publish"} /\ p.filter \in Filters \cup {None}
      BY DEF Requests, Packet
    <3>4. mc' = o.s /\ link' = link /\ broker' = broker /\ UNCHANGED Promise!sides
      BY <2>5, <3>1, SidesKept DEF PInv, Same
    <3>5. toClient' = toClient
      BY <2>3, <2>4, <2>7, <3>1 DEF Settle, Same
    <3>6. Told'
      BY <3>1, <3>2, <3>3, ToldStays
    <3>7. ~Acked(awaits) /\ ~Denied(awaits)
      BY <1>1, NoAnswer DEF Requests
    <3>8. settled' = Fate'
      BY SettledNext DEF IInv
    <3>9. settled' \in {"no", "lost"}
      BY <3>2, <3>3, <3>5, <3>7, <3>8 DEF Fate, Acked, Denied
    <3>10. Promise!Begins(op, p.filter, settled')
      BY <1>1, <3>1, <3>2, <3>4 DEF Promise!Begins, Promise!Idle
    <3>11. Promise!Asks
      BY <1>3, <3>3, <3>9, <3>10 DEF Promise!Asks, Promise!Requests
    <3> QED
      BY <3>6, <3>11 DEF Keeps, Promise!Next
  <2> QED
    BY <2>4, <2>6, <2>7
<1> QED
  BY <1>1, <1>2, <1>3 DEF Client

\* The calls built on Request.
LEMMA RequestsPromised ==
  ASSUME PInv, IInv',
         \/ \E f \in Filters : MQTTSubscribe(f) \/ MQTTUnsubscribe(f)
         \/ \E q \in {1, 2} : MQTTPublish(q)
  PROVE  Told' /\ Keeps
<1>1. ASSUME NEW f \in Filters, MQTTSubscribe(f)
      PROVE  Told' /\ Keeps
  <2>1. PICK p : p = About("SUBSCRIBE", f)
    OBVIOUS
  <2>2. p \in Packet
    BY <2>1, FormedAbout DEF PacketTypes, RequestTypes
  <2>3. Request("subscribe", p, "SUBACK")
    BY <1>1, <2>1 DEF MQTTSubscribe
  <2> QED
    BY <2>2, <2>3, RequestPromised DEF Requests, AckTypes
<1>2. ASSUME NEW f \in Filters, MQTTUnsubscribe(f)
      PROVE  Told' /\ Keeps
  <2>1. PICK p : p = About("UNSUBSCRIBE", f)
    OBVIOUS
  <2>2. p \in Packet
    BY <2>1, FormedAbout DEF PacketTypes, RequestTypes
  <2>3. Request("unsubscribe", p, "UNSUBACK")
    BY <1>2, <2>1 DEF MQTTUnsubscribe
  <2> QED
    BY <2>2, <2>3, RequestPromised DEF Requests, AckTypes
<1>3. ASSUME NEW q \in {1, 2}, MQTTPublish(q)
      PROVE  Told' /\ Keeps
  <2>1. PICK p : p = Message(q, None)
    OBVIOUS
  <2>2. p \in Packet
    BY <2>1, FormedMessage
  <2>3. PICK awaits : awaits = IF q = 1 THEN "PUBACK" ELSE "PUBCOMP"
    OBVIOUS
  <2>4. Request("publish", p, awaits) /\ awaits \in AckTypes
    BY <1>3, <2>1, <2>3 DEF MQTTPublish, AckTypes
  <2> QED
    BY <2>2, <2>4, RequestPromised DEF Requests
<1> QED
  BY <1>1, <1>2, <1>3

\* MQTTPublish at QoS 0.
LEMMA Publish0Promised ==
  ASSUME PInv, MQTTPublish0
  PROVE  Told' /\ Keeps
<1>1. call.op = "none" /\ mc \in Client /\ Same(mc, mc)
  BY DEF MQTTPublish0, Idle, PInv, IInv, Typed, Same
<1>2. CASE ~mc.isconnected
  <2>1. Settle(MQTTCloseSession(mc), <<>>, FALSE) /\ Return("FAILURE")
    BY <1>2 DEF MQTTPublish0
  <2> QED
    BY <1>1, <2>1, FailsPromised
<1>3. CASE mc.isconnected
  <2> DEFINE p == Pkt("PUBLISH", 0)
  <2>1. PICK o \in sendPacket(mc, p) :
          IF o.ok THEN Settle(o.s, <<>>, FALSE) /\ Return("MQSUCCESS")
          ELSE Settle(MQTTCloseSession(o.s), <<>>, FALSE) /\ Return("FAILURE")
    BY <1>3 DEF MQTTPublish0
  <2>2. p \in Packet
    BY Packets, LimitsAssumption DEF PacketTypes, RequestTypes
  <2> HIDE DEF p
  <2>3. o.ok \in BOOLEAN /\ Same(mc, o.s) /\ o.s \in Client
    BY <1>1, <2>1, <2>2, Send DEF Same
  <2>4. CASE ~o.ok
    <3>1. Settle(MQTTCloseSession(o.s), <<>>, FALSE) /\ Return("FAILURE")
      BY <2>1, <2>4
    <3> QED
      BY <1>1, <2>3, <3>1, FailsPromised
  <2>5. CASE o.ok
    <3>1. Settle(o.s, <<>>, FALSE) /\ Return("MQSUCCESS")
      BY <2>1, <2>5
    <3>2. UNCHANGED Promise!sides
      BY <2>3, <3>1, SidesKept DEF PInv, Same
    <3>3. Told'
      BY <3>1, ToldStays DEF Return
    <3>4. Promise!Sends
      BY <1>1, <1>3, <3>1, <3>2, ReturnPromised DEF Promise!Sends, Promise!Idle
    <3> QED
      BY <3>3, <3>4 DEF Keeps, Promise!Next
  <2> QED
    BY <2>3, <2>4, <2>5
<1> QED
  BY <1>1, <1>2, <1>3 DEF Client

\* MQTTDisconnect.
LEMMA DisconnectPromised ==
  ASSUME PInv, MQTTDisconnect
  PROVE  Told' /\ Keeps
<1> DEFINE p == Pkt("DISCONNECT", 0)
<1>1. PICK o \in sendPacket(mc, p) :
        /\ Settle(MQTTCloseSession(o.s), o.out, FALSE)
        /\ Return(IF o.ok THEN "MQSUCCESS" ELSE "FAILURE")
  BY DEF MQTTDisconnect
<1>2. call.op = "none" /\ mc \in Client /\ p \in Packet
  <2>1. p \in Packet
    BY Packets, LimitsAssumption DEF PacketTypes
  <2> HIDE DEF p
  <2> QED
    BY <2>1 DEF MQTTDisconnect, Idle, PInv, IInv, Typed
<1> HIDE DEF p
<1>3. o.ok \in BOOLEAN /\ Same(mc, o.s) /\ o.s \in Client
  BY <1>1, <1>2, Send DEF Same
<1>4. Promise!EndsAny
  BY <1>1, <1>3, Closed DEF PInv
<1>5. Told'
  BY <1>1, ToldStays DEF Return
<1>6. Return("MQSUCCESS") \/ Return("FAILURE")
  BY <1>1
<1>7. Promise!Disconnects
  BY <1>2, <1>4, <1>6, ReturnPromised DEF Promise!Disconnects, Promise!Idle
<1> QED
  BY <1>5, <1>7 DEF Keeps, Promise!Next

\* A configured client whose session is closed.
LEMMA ClosedEnds ==
  ASSUME NEW s \in Client, s.configured, NEW out, NEW read,
         Settle(MQTTCloseSession(s), out, read)
  PROVE  Promise!Ends
<1> DEFINE t == MQTTCloseSession(s)
<1>1. t \in Client /\ ~t.isconnected /\ t.sockHandle # "open" /\ t.handlers = {}
  BY Close
<1>2. Settle(t, out, read)
  OBVIOUS
<1> HIDE DEF t
<1> QED
  BY <1>1, <1>2, SidesEnd DEF Client

\* A request that is given up.
LEMMA GiveUpPromised ==
  ASSUME PInv, call.op \in Requests, NEW s \in Client, s.configured, NEW out,
         NEW read, read => toClient # <<>>, Settle(MQTTCloseSession(s), out, read),
         Return("FAILURE")
  PROVE  Told' /\ Keeps
<1>1. Told'
  BY ToldStays DEF Return
<1>2. Promise!Ends
  BY ClosedEnds
<1>3. Promise!GivesUp
  BY <1>2, ReturnPromised DEF Promise!GivesUp, Promise!Requests, Requests
<1> QED
  BY <1>1, <1>3 DEF Keeps, Promise!Next

\* A connect that is given up.
LEMMA NotConnectedPromised ==
  ASSUME PInv, call.op = "connect", NEW s, NEW out, NEW read, read => toClient # <<>>,
         Settle(s, out, read), s.sockHandle = "open" <=> mc.sockHandle = "open",
         s.isconnected = mc.isconnected, s.handlers = mc.handlers, Return("FAILURE")
  PROVE  Told' /\ Keeps
<1>1. Told'
  BY ToldStays DEF Return
<1>2. UNCHANGED Promise!sides
  BY SidesKept DEF PInv
<1>3. Promise!NotConnected
  BY <1>2, ReturnPromised DEF Promise!NotConnected
<1> QED
  BY <1>1, <1>3 DEF Keeps, Promise!Next

\* The timer of a call is over.
LEMMA ExpiresPromised ==
  ASSUME PInv, WaitExpires
  PROVE  Told' /\ Keeps
<1>1. call.op = "connect" \/ call.op \in Requests
  BY DEF WaitExpires, PInv, IInv, Typed, CallType
<1>2. Settle(GiveUp(mc), <<>>, FALSE) /\ Return("FAILURE")
  BY DEF WaitExpires
<1>3. mc \in Client /\ mc.configured
  BY <1>1 DEF PInv, IInv, Typed, Calling
<1>4. CASE call.op = "connect"
  <2>1. Settle(mc, <<>>, FALSE)
    BY <1>2, <1>4 DEF GiveUp
  <2> QED
    BY <1>2, <1>4, <2>1, NotConnectedPromised
<1>5. CASE call.op \in Requests
  <2>1. Settle(MQTTCloseSession(mc), <<>>, FALSE)
    BY <1>2, <1>5 DEF GiveUp, Requests
  <2> QED
    BY <1>2, <1>3, <1>5, <2>1, GiveUpPromised
<1> QED
  BY <1>1, <1>4, <1>5

\* A round that goes on, with the session or without.
LEMMA RoundPromised ==
  ASSUME PInv, IInv', NEW o, Left(o) \/ Shut(o), o.read \in BOOLEAN,
         o.read => toClient # <<>>, Settle(o.s, o.out, o.read),
         call.op # "none", call' = call, result' = result,
         call.op = "yield" \/ (o.read => Head(toClient).type # call.awaits)
  PROVE  Told' /\ Keeps
<1>1. Told'
  BY ToldStays
<1>2. CASE Left(o)
  <2>1. /\ o.s \in Client /\ o.s.sockHandle = "open" /\ mc.sockHandle = "open"
        /\ o.s.isconnected = mc.isconnected /\ o.s.handlers = mc.handlers
        /\ o.out \in Seq(Packet)
    BY <1>2 DEF Left, Same, Replies
  <2>2. /\ mc' = o.s /\ link' = link /\ broker' = broker
        /\ ~o.read => toClient' = toClient
        /\ o.read => In(toClient) = {Head(toClient)} \cup In(toClient')
    BY <2>1, Settled DEF PInv, IInv
  <2>3. settled' = settled
    <3>1. CASE call.op = "yield"
      BY <3>1 DEF settled
    <3>2. CASE o.read => Head(toClient).type # call.awaits
      <4>1. /\ Acked(call.awaits)' <=> Acked(call.awaits)
            /\ Denied(call.awaits)' <=> Denied(call.awaits)
        BY <2>2, <3>2 DEF Acked, Denied
      <4>2. settled = Fate /\ settled' = Fate'
        BY SettledIs, SettledNext DEF PInv, IInv
      <4> QED
        BY <2>2, <4>1, <4>2 DEF Fate
    <3> QED
      BY <3>1, <3>2
  <2> QED
    BY <1>1, <2>1, <2>2, <2>3, NothingKept
<1>3. CASE Shut(o)
  <2>1. Promise!Ends /\ link' = "down" /\ toClient' = <<>>
    BY <1>3, SidesEnd DEF Shut, Client
  <2>2. settled' = Fate' /\ settled = Fate
    BY SettledIs, SettledNext DEF PInv, IInv
  <2>3. settled' = IF Promise!Waits THEN "lost" ELSE settled
    <3>1. call.op = "yield" \/ call.op \in {"connect"} \cup Requests
      BY DEF PInv, IInv, Typed, CallType
    <3>2. ~Acked(call.awaits)' /\ ~Denied(call.awaits)'
      BY <2>1, EmptyQueue DEF Acked, Denied
    <3> QED
      BY <2>1, <2>2, <3>1, <3>2 DEF Fate, Promise!Waits, Promise!Requests, Requests
  <2>4. Promise!SessionEnds
    BY <2>1, <2>3 DEF Promise!SessionEnds, Promise!Idle
  <2> QED
    BY <1>1, <2>4 DEF Keeps, Promise!Next
<1> QED
  BY <1>2, <1>3

\* A round of MQTTYield.
LEMMA YieldCyclePromised ==
  ASSUME PInv, IInv', YieldCycle
  PROVE  Told' /\ Keeps
<1>1. PICK late \in BOOLEAN : \E o \in cycle(mc, late) :
        /\ Settle(o.s, o.out, o.read)
        /\ \/ o.rc = "error" /\ Return("FAILURE")
           \/ o.rc # "error" /\ Return("MQSUCCESS")
           \/ o.rc # "error" /\ ~late /\ UNCHANGED <<call, result>>
  BY DEF YieldCycle
<1>2. PICK o \in cycle(mc, late) :
        /\ Settle(o.s, o.out, o.read)
        /\ Return("FAILURE") \/ Return("MQSUCCESS") \/ UNCHANGED <<call, result>>
  BY <1>1
<1>3. /\ o.read \in BOOLEAN /\ (o.read => toClient # <<>>)
      /\ Left(o) \/ Shut(o)
  BY Cycle DEF PInv, IInv
<1>4. call.op = "yield"
  BY DEF YieldCycle
<1>5. CASE UNCHANGED <<call, result>>
  BY <1>2, <1>3, <1>4, <1>5, RoundPromised
<1>6. CASE Return("FAILURE") \/ Return("MQSUCCESS")
  <2>1. Told'
    BY <1>2, <1>3, <1>6, ToldStays DEF Return
  <2>2. Promise!Ends \/ UNCHANGED Promise!sides
    <3>1. CASE Left(o)
      BY <1>2, <3>1, SidesKept DEF PInv, Left, Same
    <3>2. CASE Shut(o)
      BY <1>2, <3>2, SidesEnd DEF Shut, Client
    <3> QED
      BY <1>3, <3>1, <3>2
  <2>3. Promise!Yielded
    BY <1>4, <1>6, <2>2, ReturnPromised DEF Promise!Yielded
  <2> QED
    BY <2>1, <2>3 DEF Keeps, Promise!Next
<1> QED
  BY <1>2, <1>5, <1>6

\* What became of a call whose answer is read.
LEMMA HeadSettles ==
  ASSUME PInv, call.op \in {"connect"} \cup Requests, toClient # <<>>,
         Head(toClient).type = call.awaits
  PROVE  /\ Head(toClient).accepted => settled = "yes"
         /\ ~Head(toClient).accepted => settled = "refused"
         /\ ~Head(toClient).accepted => call.op \in {"connect", "subscribe"}
<1>1. toClient \in Seq(Packet)
  BY DEF PInv, IInv, Typed
<1>2. /\ Head(toClient) \in In(toClient) /\ Head(toClient) \in Packet
      /\ In(toClient) = {Head(toClient)} \cup In(Tail(toClient))
      /\ \A T : Single(toClient, T) /\ Head(toClient).type \in T => Absent(Tail(toClient), T)
  BY <1>1, Taken
<1>3. settled = IF Acked(call.awaits) THEN "yes" ELSE IF Denied(call.awaits) THEN "refused"
                ELSE IF link = "up" THEN "no" ELSE "lost"
  BY SettledIs DEF PInv, IInv, Fate, Requests
<1>4. CASE Head(toClient).accepted
  <2>1. Acked(call.awaits)
    BY <1>2, <1>4 DEF Acked
  <2> QED
    BY <1>3, <1>4, <2>1
<1>5. CASE ~Head(toClient).accepted
  <2>1. Denied(call.awaits) /\ call.awaits \in {"CONNACK", "SUBACK"}
    BY <1>2, <1>5 DEF Denied, PInv, Told
  <2>2. ~Acked(call.awaits)
    <3>1. CASE call.op = "connect"
      BY <1>2, <1>5, <3>1 DEF PInv, IInv, Calling, Told, Acked
    <3>2. CASE call.op \in Requests
      <4>1. call.awaits \in AckTypes
        BY <3>2 DEF PInv, IInv, Calling, Requests, AckTypes
      <4>2. Absent(Tail(toClient), AckTypes)
        BY <1>2, <3>2, <4>1 DEF PInv, IInv, Pending
      <4> QED
        BY <1>2, <1>5, <4>1, <4>2 DEF Acked, Absent
    <3> QED
      BY <3>1, <3>2
  <2>3. call.op \in {"connect", "subscribe"}
    BY <2>1 DEF PInv, IInv, Calling, Requests
  <2> QED
    BY <1>3, <1>5, <2>1, <2>2, <2>3
<1> QED
  BY <1>4, <1>5

\* A round that reads what the call waits for.
LEMMA AcceptedPromised ==
  ASSUME PInv, call.op = "connect" \/ call.op \in Requests,
         NEW o, o.rc = call.awaits, o.rc # "error" => o.rc = o.p.type,
         \/ o.read = TRUE /\ toClient # <<>> /\ o.p = Head(toClient)
         \/ o.read = FALSE /\ {o.rc, o.p.type} \subseteq {"timeout", "error"},
         (Left(o) /\ (Bad(o) => ~mc.isconnected)) \/ (Shut(o) /\ Bad(o)),
         Settle(Accepted(o.s, o.p).s, o.out, o.read), Return(Accepted(o.s, o.p).rc)
  PROVE  Told' /\ Keeps
<1>1. /\ o.read = TRUE /\ toClient # <<>> /\ o.p = Head(toClient)
      /\ o.p.type = call.awaits /\ o.rc = o.p.type
  BY DEF PInv, IInv, Calling, Requests
<1>2. Told'
  BY <1>1, ToldStays DEF Return
<1>3. /\ o.p.accepted => settled = "yes"
      /\ ~o.p.accepted => settled = "refused"
      /\ ~o.p.accepted => call.op \in {"connect", "subscribe"}
  BY <1>1, HeadSettles
<1>4. CASE call.op = "connect"
  <2>1. Left(o) /\ ~mc.isconnected /\ o.s \in Client
    BY <1>1, <1>4 DEF PInv, IInv, Calling, Bad, KnownTypes, Left, Same
  <2>2. CASE o.p.accepted
    <3> DEFINE s == [o.s EXCEPT !.isconnected = TRUE, !.ping_outstanding = FALSE]
    <3>1. Accepted(o.s, o.p) = [rc |-> "MQSUCCESS", s |-> s]
      BY <1>4, <2>2 DEF Accepted
    <3>2. Settle(s, o.out, o.read) /\ Return("MQSUCCESS")
      BY <3>1
    <3>3. s.isconnected = TRUE /\ s.handlers = o.s.handlers /\ s.sockHandle = o.s.sockHandle
      BY <2>1 DEF Client
    <3> HIDE DEF s
    <3>4. mc'.isconnected = TRUE /\ mc'.handlers = mc.handlers /\ broker' = broker
      BY <2>1, <3>2, <3>3 DEF Settle, Left, Same
    <3>5. Promise!Connected
      BY <1>3, <1>4, <2>2, <3>2, <3>4, ReturnPromised DEF Promise!Connected
    <3> QED
      BY <1>2, <3>5 DEF Keeps, Promise!Next
  <2>3. CASE ~o.p.accepted
    <3>1. Accepted(o.s, o.p) = [rc |-> "refused", s |-> o.s]
      BY <1>4, <2>3 DEF Accepted
    <3>2. Settle(o.s, o.out, o.read) /\ Return("refused")
      BY <3>1
    <3>3. UNCHANGED Promise!sides
      BY <2>1, <3>2, SidesKept DEF PInv, Left, Same
    <3>4. Promise!NotConnected
      BY <1>3, <1>4, <2>3, <3>2, <3>3, ReturnPromised DEF Promise!NotConnected
    <3> QED
      BY <1>2, <3>4 DEF Keeps, Promise!Next
  <2> QED
    BY <2>2, <2>3
<1>5. CASE call.op = "unsubscribe"
  <2> DEFINE s == [o.s EXCEPT !.handlers = @ \ {call.filter}]
  <2>1. Bad(o)
    BY <1>1, <1>5 DEF PInv, IInv, Calling, Bad, KnownTypes
  <2>2. Shut(o)
    BY <1>5, <2>1 DEF PInv, IInv, Calling, Requests, Left
  <2>3. Accepted(o.s, o.p) = [rc |-> "MQSUCCESS", s |-> s]
    BY <1>5 DEF Accepted
  <2>4. Settle(s, o.out, o.read) /\ Return("MQSUCCESS")
    BY <2>3
  <2>5. s \in Client /\ ~s.isconnected /\ s.sockHandle # "open" /\ s.handlers = {}
    BY <2>2 DEF Shut, Client
  <2> HIDE DEF s
  <2>6. Promise!Ends
    BY <2>4, <2>5, SidesEnd DEF Client
  <2>7. Promise!Unsubscribed
    BY <1>3, <1>5, <2>4, <2>6, ReturnPromised DEF Promise!Unsubscribed
  <2> QED
    BY <1>2, <2>7 DEF Keeps, Promise!Next
<1>6. CASE call.op \in {"subscribe", "publish"}
  <2>1. Left(o) /\ o.s \in Client /\ call.op \in Requests /\ mc.configured
    BY <1>1, <1>6 DEF PInv, IInv, Calling, Bad, KnownTypes, Requests, Left, Same
  <2>2. CASE call.op = "publish" \/ ~o.p.accepted
    <3>1. Accepted(o.s, o.p) = [rc |-> "MQSUCCESS", s |-> o.s]
      BY <1>6, <2>2 DEF Accepted
    <3>2. Settle(o.s, o.out, o.read) /\ Return("MQSUCCESS")
      BY <3>1
    <3>3. UNCHANGED Promise!sides
      BY <2>1, <3>2, SidesKept DEF PInv, Left, Same
    <3>4. call.op = "publish" => Promise!Published
      BY <1>3, <3>2, <3>3, ReturnPromised DEF Promise!Published
    <3>5. call.op # "publish" => Promise!NotSubscribed
      BY <1>3, <1>6, <2>2, <3>2, <3>3, ReturnPromised DEF Promise!NotSubscribed
    <3> QED
      BY <1>2, <3>4, <3>5 DEF Keeps, Promise!Next
  <2>3. CASE call.op = "subscribe" /\ o.p.accepted
    <3> DEFINE h == MQTTSetMessageHandler(o.s, call.filter)
               s == [o.s EXCEPT !.handlers = @ \cup {call.filter}]
    <3>1. \/ h = [rc |-> "MQSUCCESS", s |-> s]
          \/ h = [rc |-> "FAILURE", s |-> o.s]
      BY DEF MQTTSetMessageHandler
    <3>2. Accepted(o.s, o.p) =
            IF h.rc = "MQSUCCESS" THEN h ELSE [h EXCEPT !.s = MQTTCloseSession(o.s)]
      BY <2>3 DEF Accepted
    <3>3. /\ s.sockHandle = o.s.sockHandle /\ s.isconnected = o.s.isconnected
          /\ s.handlers = o.s.handlers \cup {call.filter}
      BY <2>1 DEF Client
    <3> HIDE DEF h, s
    <3>4. CASE h = [rc |-> "MQSUCCESS", s |-> s]
      <4>1. Settle(s, o.out, o.read) /\ Return("MQSUCCESS")
        BY <3>2, <3>4
      <4>2. /\ mc'.isconnected = mc.isconnected
            /\ mc'.handlers = mc.handlers \cup {call.filter} /\ broker' = broker
        BY <2>1, <3>3, <4>1 DEF Settle, Left, Same
      <4>3. Promise!Subscribed
        BY <1>3, <2>3, <4>1, <4>2, ReturnPromised DEF Promise!Subscribed
      <4> QED
        BY <1>2, <4>3 DEF Keeps, Promise!Next
    <3>5. CASE h = [rc |-> "FAILURE", s |-> o.s]
      <4>1. Accepted(o.s, o.p) = [rc |-> "FAILURE", s |-> MQTTCloseSession(o.s)]
        BY <3>2, <3>5
      <4>2. Settle(MQTTCloseSession(o.s), o.out, o.read) /\ Return("FAILURE")
        BY <4>1
      <4>3. o.s.configured
        BY <2>1 DEF Left, Same
      <4> QED
        BY <1>1, <2>1, <4>2, <4>3, GiveUpPromised
    <3> QED
      BY <3>1, <3>4, <3>5
  <2> QED
    BY <1>6, <2>2, <2>3
<1> QED
  BY <1>4, <1>5, <1>6 DEF Requests

\* A round of waitfor.
LEMMA WaitCyclePromised ==
  ASSUME PInv, IInv', WaitCycle
  PROVE  Told' /\ Keeps
<1>1. call.op = "connect" \/ call.op \in Requests
  BY DEF WaitCycle, PInv, IInv, Typed, CallType
<1>2. PICK late \in BOOLEAN : \E o \in cycle(mc, late) :
        IF o.rc = call.awaits
        THEN /\ Settle(Accepted(o.s, o.p).s, o.out, o.read)
             /\ Return(Accepted(o.s, o.p).rc)
        ELSE IF o.rc = "error" \/ late
        THEN Settle(GiveUp(o.s), o.out, o.read) /\ Return("FAILURE")
        ELSE Settle(o.s, o.out, o.read) /\ UNCHANGED <<call, result>>
  BY DEF WaitCycle
<1>3. PICK o \in cycle(mc, late) :
        IF o.rc = call.awaits
        THEN /\ Settle(Accepted(o.s, o.p).s, o.out, o.read)
             /\ Return(Accepted(o.s, o.p).rc)
        ELSE IF o.rc = "error" \/ late
        THEN Settle(GiveUp(o.s), o.out, o.read) /\ Return("FAILURE")
        ELSE Settle(o.s, o.out, o.read) /\ UNCHANGED <<call, result>>
  BY <1>2
<1>4. /\ o.rc # "error" => o.rc = o.p.type
      /\ \/ o.read = TRUE /\ toClient # <<>> /\ o.p = Head(toClient)
         \/ o.read = FALSE /\ {o.rc, o.p.type} \subseteq {"timeout", "error"}
      /\ (Left(o) /\ (Bad(o) => ~mc.isconnected)) \/ (Shut(o) /\ Bad(o))
  BY Cycle DEF PInv, IInv
<1>5. o.read \in BOOLEAN /\ (o.read => toClient # <<>>)
  BY <1>4
<1>6. mc.configured /\ o.s \in Client /\ o.s.configured
  BY <1>1, <1>4 DEF PInv, IInv, Calling, Left, Same, Shut
<1>7. CASE o.rc = call.awaits
  BY <1>1, <1>3, <1>4, <1>7, AcceptedPromised
<1>8. CASE o.rc # call.awaits /\ (o.rc = "error" \/ late)
  <2>1. Settle(GiveUp(o.s), o.out, o.read) /\ Return("FAILURE")
    BY <1>3, <1>8
  <2>2. CASE call.op = "connect"
    <3>1. Settle(o.s, o.out, o.read) /\ ~mc.isconnected /\ mc.handlers = {}
      BY <2>1, <2>2 DEF GiveUp, PInv, IInv, Calling, Session
    <3>2. /\ o.s.sockHandle = "open" <=> mc.sockHandle = "open"
          /\ o.s.isconnected = mc.isconnected /\ o.s.handlers = mc.handlers
      <4>1. CASE Left(o)
        BY <4>1 DEF Left, Same
      <4>2. CASE Shut(o)
        <5>1. mc \in Client
          BY DEF PInv, IInv, Typed
        <5> QED
          BY <3>1, <4>2, <5>1 DEF Shut, Client
      <4> QED
        BY <1>4, <4>1, <4>2
    <3> QED
      BY <1>5, <2>1, <2>2, <3>1, <3>2, NotConnectedPromised
  <2>3. CASE call.op \in Requests
    <3>1. Settle(MQTTCloseSession(o.s), o.out, o.read)
      BY <2>1, <2>3 DEF GiveUp, Requests
    <3> QED
      BY <1>5, <1>6, <2>1, <2>3, <3>1, GiveUpPromised
  <2> QED
    BY <1>1, <2>2, <2>3
<1>9. CASE o.rc # call.awaits /\ ~(o.rc = "error" \/ late)
  <2>1. Settle(o.s, o.out, o.read) /\ call' = call /\ result' = result
    BY <1>3, <1>9
  <2>2. o.read => Head(toClient).type # call.awaits
    BY <1>4, <1>9
  <2>3. call.op # "none"
    BY <1>1 DEF Requests
  <2> QED
    BY <1>4, <1>5, <2>1, <2>2, <2>3, RoundPromised
<1> QED
  BY <1>7, <1>8, <1>9

\* A step that leaves the call, the connection and the answers alone.
LEMMA SameFate ==
  ASSUME PInv, IInv', call' = call, link' = link,
         Acked(call.awaits)' <=> Acked(call.awaits), Denied(call.awaits)' <=> Denied(call.awaits)
  PROVE  settled' = settled
<1>1. settled = Fate /\ settled' = Fate'
  BY SettledIs, SettledNext DEF PInv, IInv
<1> QED
  BY <1>1 DEF Fate

\* The keepalive timers.
LEMMA TimersPromised ==
  ASSUME PInv, IInv', SentExpires \/ ReceivedExpires
  PROVE  Told' /\ Keeps
<1>1. /\ mc'.isconnected = mc.isconnected /\ mc'.handlers = mc.handlers
      /\ link' = link /\ toClient' = toClient /\ broker' = broker
      /\ call' = call /\ result' = result
  BY DEF SentExpires, ReceivedExpires, env, PInv, IInv, Typed, Client
<1>2. Told'
  BY <1>1 DEF PInv, Told
<1>3. settled' = settled
  BY <1>1, SameFate DEF Acked, Denied
<1> QED
  BY <1>1, <1>2, <1>3, NothingKept

\* The connection is lost, or ended by the broker.
LEMMA LossesPromised ==
  ASSUME PInv, IInv', BrokerEnds \/ LinkDies \/ LinkCut
  PROVE  Told' /\ Keeps
<1>1. /\ mc' = mc /\ broker' = broker /\ call' = call /\ result' = result
      /\ link' \in {"dead", "cut"} /\ toClient' \in {toClient, <<>>}
      /\ toClient' = toClient => link' = "cut" \/ toClient = <<>>
  BY DEF BrokerEnds, LinkDies, LinkCut
<1>2. Told'
  <2>1. CASE toClient' = toClient /\ link' = "cut"
    BY <1>1, <2>1 DEF PInv, Told
  <2>2. CASE toClient' = <<>>
    BY <1>1, <2>2, EmptyQueue DEF PInv, Told
  <2> QED
    BY <1>1, <2>1, <2>2
<1>3. settled = Fate /\ settled' = Fate'
  BY SettledIs, SettledNext DEF PInv, IInv
<1>4. settled' = settled \/ (call.op \notin {"none", "yield"} /\ settled' = "lost")
  <2>1. CASE toClient' = toClient
    <3>1. Acked(call.awaits)' = Acked(call.awaits) /\ Denied(call.awaits)' = Denied(call.awaits)
      BY <1>1, <2>1 DEF Acked, Denied
    <3> QED
      BY <1>1, <1>3, <3>1 DEF Fate
  <2>2. CASE toClient' = <<>>
    <3>1. ~Acked(call.awaits)' /\ ~Denied(call.awaits)'
      BY <2>2, EmptyQueue DEF Acked, Denied
    <3> QED
      BY <1>1, <1>3, <3>1 DEF Fate
  <2> QED
    BY <1>1, <2>1, <2>2
<1>5. CASE settled' = settled
  BY <1>1, <1>2, <1>5, NothingKept
<1>6. CASE call.op \notin {"none", "yield"} /\ settled' = "lost"
  <2>1. Promise!Waits
    BY <1>6 DEF Promise!Waits, Promise!Requests, PInv, IInv, Typed, CallType, Requests
  <2>2. Promise!Loses
    BY <1>1, <1>6, <2>1 DEF Promise!Loses, Promise!sides
  <2> QED
    BY <1>2, <2>2 DEF Keeps, Promise!Next
<1> QED
  BY <1>4, <1>5, <1>6

\* A broker that gets a CONNECT has no session, and nobody waits for more.
LEMMA Connecting ==
  ASSUME PInv, Is("CONNECT"), ~broker.session
  PROVE  /\ call.op \notin Requests /\ ~mc.isconnected
         /\ ~Acked("CONNACK") /\ ~Denied("CONNACK")
         /\ call.op = "connect" => call.awaits = "CONNACK" /\ settled = "no"
<1>1. link = "up" /\ mc.sockHandle = "open"
  BY TakenByBroker DEF Is, PInv
<1>2. ~mc.isconnected
  BY <1>1 DEF PInv, IInv, Agreement
<1>3. ~Acked("CONNACK") /\ ~Denied("CONNACK")
  BY <1>1 DEF PInv, Told, Acked, Denied
<1>4. call.op \notin Requests
  BY <1>1, <1>2 DEF PInv, IInv, Calling
<1>5. ASSUME call.op = "connect"
      PROVE  call.awaits = "CONNACK" /\ settled = "no"
  BY <1>1, <1>3, <1>5, SettledIs DEF Fate, PInv, IInv, Calling
<1> QED
  BY <1>2, <1>3, <1>4, <1>5

\* What comes of a connect after the CONNACK, accepted or not.
LEMMA Connacked ==
  ASSUME PInv, IInv', Is("CONNECT"), ~broker.session, call' = call,
         NEW p \in Packet, p.type = "CONNACK", In(toClient') = In(toClient) \cup {p}
  PROVE  settled' = IF call.op # "connect" THEN settled
                    ELSE IF p.accepted THEN "yes" ELSE "refused"
<1>1. /\ call.op \notin Requests /\ ~Acked("CONNACK") /\ ~Denied("CONNACK")
      /\ call.op = "connect" => call.awaits = "CONNACK"
  BY Connecting
<1>2. settled = Fate /\ settled' = Fate'
  BY SettledIs, SettledNext DEF PInv, IInv
<1>3. call.op \in {"none", "yield", "connect"}
  BY <1>1 DEF PInv, IInv, Typed, CallType
<1>4. CASE call.op = "connect"
  <2>1. (Acked("CONNACK")' <=> p.accepted) /\ (Denied("CONNACK")' <=> ~p.accepted)
    BY <1>1 DEF Acked, Denied
  <2>2. (Acked(call.awaits)' <=> p.accepted) /\ (Denied(call.awaits)' <=> ~p.accepted)
    BY <1>1, <1>4, <2>1
  <2> QED
    BY <1>2, <1>4, <2>2 DEF Fate
<1>5. CASE call.op \in {"none", "yield"}
  BY <1>2, <1>5 DEF Fate
<1> QED
  BY <1>3, <1>4, <1>5

\* The broker accepts a connection.
LEMMA BrokerConnectPromised ==
  ASSUME PInv, IInv', BrokerConnect
  PROVE  Told' /\ Keeps
<1>1. PICK p : p = Pkt("CONNACK", 0)
  OBVIOUS
<1>2. p \in Packet /\ p.type = "CONNACK" /\ p.accepted
  BY <1>1, Packets, LimitsAssumption DEF PacketTypes
<1>3. /\ Is("CONNECT") /\ ~broker.session
      /\ toClient' = toClient \o <<p>> /\ broker' = [session |-> TRUE, subs |-> {}]
      /\ mc' = mc /\ link' = link /\ call' = call /\ result' = result
  BY <1>1 DEF BrokerConnect, Reply
<1>4. toClient \in Seq(Packet) /\ In(toClient') = In(toClient) \cup {p}
  BY <1>2, <1>3, One, Joined DEF PInv, IInv, Typed
<1>5. Told'
  <2>1. ~Denied("CONNACK")
    BY <1>3, Connecting
  <2> QED
    BY <1>2, <1>3, <1>4, <2>1 DEF PInv, Told, Denied
<1>6. settled' = IF call.op # "connect" THEN settled ELSE "yes"
  BY <1>2, <1>3, <1>4, Connacked
<1>7. ~mc.isconnected /\ (call.op = "connect" => settled = "no")
  BY <1>3, Connecting
<1>8. Promise!Accepts
  BY <1>3, <1>6, <1>7 DEF Promise!Accepts
<1> QED
  BY <1>5, <1>8 DEF Keeps, Promise!Next

\* The broker refuses a connection.
LEMMA BrokerRefusesPromised ==
  ASSUME PInv, IInv', BrokerRefuses
  PROVE  Told' /\ Keeps
<1>1. PICK p : p = [Pkt("CONNACK", 0) EXCEPT !.accepted = FALSE]
  OBVIOUS
<1>2. p \in Packet /\ p.type = "CONNACK" /\ ~p.accepted
  <2>1. PICK q \in Packet : q = Pkt("CONNACK", 0) /\ q.type = "CONNACK"
    BY Packets, LimitsAssumption DEF PacketTypes
  <2>2. p = [q EXCEPT !.accepted = FALSE]
    BY <1>1, <2>1
  <2> QED
    BY <2>1, <2>2 DEF Packet
<1>3. /\ Is("CONNECT") /\ ~broker.session
      /\ toClient' = Append(toClient, p) /\ broker' = broker
      /\ mc' = mc /\ link' = "cut" /\ call' = call /\ result' = result
  BY <1>1 DEF BrokerRefuses
<1>4. toClient \in Seq(Packet) /\ In(toClient') = In(toClient) \cup {p}
  <2>1. toClient \in Seq(Packet)
    BY DEF PInv, IInv, Typed
  <2>2. toClient' = toClient \o <<p>>
    BY <1>2, <1>3, <2>1, One
  <2> QED
    BY <1>2, <2>1, <2>2, One, Joined
<1>5. Told'
  BY <1>2, <1>3, <1>4 DEF PInv, Told
<1>6. settled' = IF call.op # "connect" THEN settled ELSE "refused"
  BY <1>2, <1>3, <1>4, Connacked
<1>7. CASE call.op # "connect"
  BY <1>3, <1>5, <1>6, <1>7, NothingKept
<1>8. CASE call.op = "connect"
  <2>1. settled = "no"
    BY <1>3, <1>8, Connecting
  <2>2. Promise!Settles("refused")
    BY <1>3, <1>6, <1>8, <2>1 DEF Promise!Settles
  <2>3. Promise!Refuses
    BY <1>3, <1>8, <2>2 DEF Promise!Refuses
  <2> QED
    BY <1>5, <2>3 DEF Keeps, Promise!Next
<1> QED
  BY <1>7, <1>8

\* The broker answers the request of the call.
LEMMA Settling ==
  ASSUME PInv, IInv', link = "up", toBroker # <<>>, Head(toBroker).type \in RequestTypes,
         NEW a \in Packet, a.type = call.awaits,
         a.accepted \/ (a.type = "SUBACK" /\ broker' = broker),
         NEW ps \in Seq(Packet), Reply(ps), a \in In(ps),
         \A p \in In(ps) : p = a \/ (p.type = "PUBLISH" /\ p.accepted),
         broker'.session = broker.session
  PROVE  /\ Told' /\ settled = "no"
         /\ settled' = IF a.accepted THEN "yes" ELSE "refused"
         /\ mc' = mc /\ call' = call /\ result' = result /\ call.op \in Requests
         /\ broker.session
<1>1. mc' = mc /\ link' = link /\ call' = call /\ result' = result
      /\ toClient' = toClient \o ps /\ toClient \in Seq(Packet)
  BY DEF Reply, PInv, IInv, Typed
<1>2. In(toClient') = In(toClient) \cup In(ps)
  BY <1>1, Joined
<1>3. call.op \in Requests /\ mc.isconnected /\ Absent(toClient, AckTypes)
  BY TakenByBroker DEF PInv
<1>4. broker.session
  BY <1>3 DEF PInv, IInv, Agreement
<1>5. /\ call.awaits \in AckTypes /\ call.awaits \notin {"PUBLISH", "CONNACK"}
      /\ call.op \notin {"none", "yield"}
  BY <1>3 DEF PInv, IInv, Calling, Requests, AckTypes
<1>6. Told'
  BY <1>1, <1>2, <1>4, <1>5 DEF PInv, Told
<1>7. ~Acked(call.awaits) /\ ~Denied(call.awaits)
  BY <1>3, <1>5 DEF Absent, Acked, Denied
<1>8. (Acked(call.awaits)' <=> a.accepted) /\ (Denied(call.awaits)' <=> ~a.accepted)
  BY <1>1, <1>2, <1>5, <1>7 DEF Acked, Denied
<1>9. settled = Fate /\ settled' = Fate'
  BY SettledIs, SettledNext DEF PInv, IInv
<1>10. settled = "no"
  BY <1>5, <1>7, <1>9 DEF Fate
<1>11. settled' = IF a.accepted THEN "yes" ELSE "refused"
  BY <1>1, <1>5, <1>8, <1>9 DEF Fate
<1> QED
  BY <1>1, <1>3, <1>4, <1>6, <1>10, <1>11

\* The broker takes a subscription, or refuses it.
LEMMA BrokerSubscribePromised ==
  ASSUME PInv, IInv', BrokerSubscribe
  PROVE  Told' /\ Keeps
<1> DEFINE h == Head(toBroker)
<1>1. /\ link = "up" /\ toBroker # <<>> /\ h.type = "SUBSCRIBE" /\ h.filter # None
      /\ h \in Packet /\ OfCall(h) /\ call.op \in Requests
  BY TakenByBroker DEF BrokerSubscribe, Is, PInv, RequestTypes
<1>2. /\ call.op = "subscribe" /\ call.awaits = "SUBACK"
      /\ call.filter = h.filter /\ h.filter \in Filters
  BY <1>1 DEF OfCall, Chain, Requests, Packet, PInv, IInv, Calling
<1>3. PICK a \in Packet, ps \in Seq(Packet) :
        /\ a.type = "SUBACK"
        /\ ps \in {<<a>>, <<Message(0, h.filter), a>>}
        /\ Reply(ps)
        /\ broker' = IF ~a.accepted THEN broker ELSE [broker EXCEPT !.subs = @ \cup {h.filter}]
  BY Subacks DEF PInv
<1>4. PICK m : m = Message(0, h.filter)
  OBVIOUS
<1>5. m \in Packet /\ m.type = "PUBLISH" /\ m.accepted
  BY <1>2, <1>4, FormedMessage
<1>6. /\ ps \in Seq(Packet) /\ a \in In(ps)
      /\ \A p \in In(ps) : p = a \/ (p.type = "PUBLISH" /\ p.accepted)
  <2>1. CASE ps = <<a>>
    BY <2>1, One
  <2>2. CASE ps = <<m, a>>
    <3>1. DOMAIN ps = {1, 2} /\ ps[1] = m /\ ps[2] = a /\ ps \in Seq(Packet)
      BY <1>5, <2>2
    <3>2. In(ps) = {m, a}
      BY <3>1 DEF In
    <3> QED
      BY <1>5, <3>1, <3>2
  <2> QED
    BY <1>3, <1>4, <2>1, <2>2
<1>7. /\ broker \in [session : BOOLEAN, subs : SUBSET Filters]
      /\ broker'.session = broker.session
      /\ broker'.subs = IF ~a.accepted THEN broker.subs ELSE broker.subs \cup {h.filter}
  BY <1>3 DEF PInv, IInv, Typed
<1>8. /\ Told' /\ settled = "no" /\ settled' = IF a.accepted THEN "yes" ELSE "refused"
      /\ mc' = mc /\ call' = call /\ result' = result /\ broker.session
  BY <1>1, <1>2, <1>3, <1>6, <1>7, Settling DEF RequestTypes
<1>9. CASE a.accepted
  <2>1. Promise!Performs
    BY <1>2, <1>7, <1>8, <1>9 DEF Promise!Performs, Promise!Settles, Promise!Requests
  <2> QED
    BY <1>8, <2>1 DEF Keeps, Promise!Next
<1>10. CASE ~a.accepted
  <2>1. Promise!Refuses
    BY <1>2, <1>7, <1>8, <1>10 DEF Promise!Refuses, Promise!Settles
  <2> QED
    BY <1>8, <2>1 DEF Keeps, Promise!Next
<1> QED
  BY <1>9, <1>10

\* The broker ends a subscription.
LEMMA BrokerUnsubscribePromised ==
  ASSUME PInv, IInv', BrokerUnsubscribe
  PROVE  Told' /\ Keeps
<1> DEFINE h == Head(toBroker)
<1>1. /\ link = "up" /\ toBroker # <<>> /\ h.type = "UNSUBSCRIBE"
      /\ h \in Packet /\ h.id \in 0 .. MaxPacketId /\ OfCall(h) /\ call.op \in Requests
  BY TakenByBroker DEF BrokerUnsubscribe, Is, PInv, RequestTypes, Packet
<1>2. call.op = "unsubscribe" /\ call.awaits = "UNSUBACK" /\ call.filter = h.filter
  BY <1>1 DEF OfCall, Chain, Requests, PInv, IInv, Calling
<1>3. PICK a : a = Pkt("UNSUBACK", h.id)
  OBVIOUS
<1>4. a \in Packet /\ a.type = "UNSUBACK" /\ a.accepted
  BY <1>1, <1>3, Packets DEF PacketTypes, AckTypes
<1>5. Reply(<<a>>) /\ broker' = [broker EXCEPT !.subs = @ \ {h.filter}]
  BY <1>3 DEF BrokerUnsubscribe
<1>6. /\ broker'.session = broker.session /\ broker'.subs = broker.subs \ {h.filter}
  BY <1>5 DEF PInv, IInv, Typed
<1>7. <<a>> \in Seq(Packet) /\ In(<<a>>) = {a}
  BY <1>4, One
<1>8. /\ Told' /\ settled = "no" /\ settled' = "yes"
      /\ mc' = mc /\ call' = call /\ result' = result /\ broker.session
  BY <1>1, <1>2, <1>4, <1>5, <1>6, <1>7, Settling DEF RequestTypes
<1>9. Promise!Performs
  BY <1>2, <1>6, <1>8 DEF Promise!Performs, Promise!Settles, Promise!Requests
<1> QED
  BY <1>8, <1>9 DEF Keeps, Promise!Next

\* A packet that answers nothing.
LEMMA OtherPacket ==
  ASSUME PInv, IInv', NEW p, p.accepted, p.type \notin {"CONNACK", call.awaits},
         In(toClient') = In(toClient) \cup {p},
         mc' = mc, link' = link, call' = call, result' = result, broker' = broker
  PROVE  Told' /\ Keeps
<1>1. Told'
  BY DEF PInv, Told
<1>2. settled' = settled
  BY SameFate DEF Acked, Denied
<1> QED
  BY <1>1, <1>2, NothingKept

\* The broker answers a ping, or a packet of a publication.
LEMMA BrokerAnswersPromised ==
  ASSUME PInv, IInv', BrokerAnswers
  PROVE  Told' /\ Keeps
<1>1. PICK ps :
        /\ Reply(ps)
        /\ \/ ps = <<>>
           \/ \E a \in Packet :
                /\ ps = <<a>> /\ a.accepted
                /\ a.type \in {"PINGRESP", "PUBACK", "PUBREC", "PUBREL", "PUBCOMP"}
                /\ a.type \in AckTypes => Head(toBroker).type \in {"PUBLISH", "PUBREL"}
  BY Acks DEF PInv
<1>2. /\ link = "up" /\ toBroker # <<>> /\ broker' = broker
      /\ toClient' = toClient \o ps /\ toClient \in Seq(Packet)
      /\ mc' = mc /\ link' = link /\ call' = call /\ result' = result
  BY <1>1 DEF BrokerAnswers, Is, Reply, PInv, IInv, Typed
<1>3. CASE ps = <<>>
  <2>1. toClient' = toClient
    BY <1>2, <1>3
  <2>2. Told'
    BY <1>2, <2>1 DEF PInv, Told
  <2>3. settled' = settled
    BY <1>2, <2>1, SameFate DEF Acked, Denied
  <2> QED
    BY <1>2, <2>2, <2>3, NothingKept
<1>4. ASSUME NEW a \in Packet, ps = <<a>>, a.accepted,
             a.type \in {"PINGRESP", "PUBACK", "PUBREC", "PUBREL", "PUBCOMP"},
             a.type \in AckTypes => Head(toBroker).type \in {"PUBLISH", "PUBREL"}
      PROVE  Told' /\ Keeps
  <2>1. ps \in Seq(Packet) /\ In(ps) = {a} /\ In(toClient') = In(toClient) \cup {a}
    BY <1>2, <1>4, One, Joined
  <2>2. CASE a.type # call.awaits
    BY <1>2, <1>4, <2>1, <2>2, OtherPacket
  <2>3. CASE a.type = call.awaits
    <3>1. Head(toBroker).type \in RequestTypes
      BY <1>4, <2>3 DEF PInv, IInv, Typed, CallType, AckTypes, RequestTypes
    <3>2. /\ Told' /\ settled = "no" /\ settled' = "yes" /\ call.op \in Requests
          /\ broker.session
      BY <1>1, <1>2, <1>4, <2>1, <2>3, <3>1, Settling
    <3>3. call.op = "publish"
      BY <1>4, <2>3, <3>2 DEF PInv, IInv, Calling, Requests
    <3>4. Promise!Performs
      BY <1>2, <3>2, <3>3 DEF Promise!Performs, Promise!Settles, Promise!Requests
    <3> QED
      BY <3>2, <3>4 DEF Keeps, Promise!Next
  <2> QED
    BY <2>2, <2>3
<1> QED
  BY <1>1, <1>3, <1>4

\* The broker sends a message.
LEMMA BrokerPublishesPromised ==
  ASSUME PInv, IInv', BrokerPublishes
  PROVE  Told' /\ Keeps
<1>1. PICK f \in broker.subs, q \in 0 .. MaxQos : toClient' = Append(toClient, Message(q, f))
  BY DEF BrokerPublishes
<1>2. /\ mc' = mc /\ link' = link /\ call' = call /\ result' = result /\ broker' = broker
      /\ toClient \in Seq(Packet) /\ f \in Filters
  BY DEF BrokerPublishes, PInv, IInv, Typed
<1>3. PICK p : p = Message(q, f)
  OBVIOUS
<1>4. q \in 0 .. 2
  BY LimitsAssumption
<1>5. p \in Packet /\ p.type = "PUBLISH" /\ p.accepted
  BY <1>2, <1>3, <1>4, FormedMessage
<1>6. toClient' = toClient \o <<p>>
  BY <1>1, <1>2, <1>3, <1>5, One
<1>7. In(toClient') = In(toClient) \cup {p}
  BY <1>2, <1>5, <1>6, One, Joined
<1>8. call.awaits # "PUBLISH"
  BY DEF PInv, IInv, Typed, CallType, AckTypes
<1> QED
  BY <1>2, <1>5, <1>7, <1>8, OtherPacket

\* Every step keeps the promise.
LEMMA NextPromised == PInv /\ [Next]_vars => PInv' /\ [Promise!Next]_(Promise!vars)
<1> SUFFICES ASSUME PInv, [Next]_vars
             PROVE  PInv' /\ [Promise!Next]_(Promise!vars)
  OBVIOUS
<1>1. IInv'
  BY NextInv DEF PInv
<1>2. ASSUME World
      PROVE  Told' /\ Keeps
  BY <1>1, <1>2, TimersPromised, LossesPromised, BrokerConnectPromised, BrokerRefusesPromised,
     BrokerSubscribePromised, BrokerUnsubscribePromised, BrokerAnswersPromised,
     BrokerPublishesPromised DEF World
<1>3. ASSUME Waiting
      PROVE  Told' /\ Keeps
  BY <1>1, <1>3, WaitCyclePromised, ExpiresPromised, YieldCyclePromised DEF Waiting
<1>4. ASSUME NewNetwork \/ DropNetwork
      PROVE  Told' /\ Keeps
  BY <1>1, <1>4, NetworkPromised
<1>5. ASSUME MQTTConnect \/ MQTTYield \/ MQTTDisconnect \/ MQTTPublish0
      PROVE  Told' /\ Keeps
  BY <1>1, <1>5, ConnectPromised, YieldPromised, DisconnectPromised, Publish0Promised
<1>6. ASSUME \/ \E f \in Filters : MQTTSubscribe(f) \/ MQTTUnsubscribe(f)
             \/ \E q \in {1, 2} : MQTTPublish(q)
      PROVE  Told' /\ Keeps
  BY <1>1, <1>6, RequestsPromised
<1>7. ASSUME UNCHANGED vars
      PROVE  Told' /\ Keeps
  <2>1. /\ mc' = mc /\ link' = link /\ toClient' = toClient /\ broker' = broker
        /\ call' = call /\ result' = result
    BY <1>7 DEF vars, env
  <2>2. Told'
    BY <2>1 DEF PInv, Told
  <2>3. settled' = settled
    BY <1>1, <2>1, SameFate DEF Acked, Denied
  <2> QED
    BY <2>1, <2>2, <2>3, NothingKept
<1>8. Told' /\ Keeps
  BY <1>2, <1>3, <1>4, <1>5, <1>6, <1>7 DEF Next
<1> QED
  BY <1>1, <1>8 DEF PInv, Keeps

\* A client with no socket has promised nothing.
LEMMA InitPromised == Init => PInv /\ Promise!Init
<1> SUFFICES ASSUME Init
             PROVE  PInv /\ Promise!Init
  OBVIOUS
<1>1. /\ ~mc.isconnected /\ mc.isconnected \in BOOLEAN /\ mc.handlers = {}
      /\ toClient = <<>> /\ call = NoCall /\ result = "none" /\ broker = NoSession
  BY DEF Init
<1>2. PInv
  BY <1>1, InitInv, EmptyQueue DEF PInv, Told
<1>3. call.op = "none" /\ call.filter = None
  BY <1>1 DEF NoCall
<1>4. settled = "no"
  BY <1>3 DEF settled
<1>5. Promise!Init
  BY <1>1, <1>3, <1>4 DEF Promise!Init, Promise!NoRequest, NoSession
<1> QED
  BY <1>2, <1>5

\* The client, over a broker and a connection that may fail at any point, keeps
\* what MqttPromise states: every step is one of its steps, or none.
THEOREM PromiseKept == Spec => KeepsPromise
BY InitPromised, NextPromised, PTL DEF Spec, KeepsPromise, Promise!Spec
=============================================================================
