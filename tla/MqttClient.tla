----------------------------- MODULE MqttClient ------------------------------
(***************************************************************************)
(* The session of the MQTT client, MQTTClient.c over the socket functions  *)
(* of net_mqtt.c, against a broker behind a connection that delivers in    *)
(* order, late, or no more.  A call of the client sends one packet and     *)
(* then runs cycle() until the awaited packet type, an error or its        *)
(* timeout; one cycle, from the read to the keepalive, is one step.        *)
(*                                                                         *)
(* The fields of an MQTTClient are the record mc, and the functions that   *)
(* change it map records to sets of outcomes.  configured stands for       *)
(* cleansession and keepAliveInterval, which are 0 until MQTTConnect takes *)
(* them from its options: 1 and 60, the defaults and what mqtt_app.c uses. *)
(* Use of a destroyed socket fails and does no more harm here: the build   *)
(* may do worse.                                                           *)
(***************************************************************************)
EXTENDS Integers, Sequences, FiniteSets

CONSTANTS
  Filters,       \* topic filters
  None,          \* no filter, or the empty one
  MaxHandlers,   \* MAX_MESSAGE_HANDLERS
  MaxPacketId,   \* MAX_PACKET_ID
  MaxQueue,      \* a bound on the packets on the way
  Refusals,      \* the broker may refuse a connection or a subscription
  MaxQos         \* the highest QoS of the messages the broker sends

ASSUME FiltersAssumption == None \notin Filters
ASSUME LimitsAssumption ==
  /\ MaxHandlers \in Nat \ {0}
  /\ MaxPacketId \in Nat \ {0}
  /\ MaxQueue \in Nat \ {0}
  /\ MaxQos \in 0 .. 2
ASSUME RefusalsAssumption == Refusals \in BOOLEAN

VARIABLES
  mc,        \* the MQTTClient and its Network
  link,      \* the connection: "down", "up", "dead" (silent), "cut" (reset)
  toBroker,  \* packets on their way to the broker
  toClient,  \* packets on their way to the client
  call,      \* the call in progress
  result,    \* what the last call returned
  broker     \* the broker's side of the session

env == <<link, toBroker, toClient, broker>>
vars == <<mc, env, call, result>>

Pkt(t, i) == [type |-> t, id |-> i, filter |-> None, qos |-> 0, accepted |-> TRUE]
Message(q, f) == [Pkt("PUBLISH", 0) EXCEPT !.qos = q, !.filter = f]

\* The types cycle() has a case for; UNSUBACK is not among them.
KnownTypes == {"CONNACK", "PUBACK", "SUBACK", "PUBLISH", "PUBREC", "PUBREL",
               "PUBCOMP", "PINGRESP"}
NoCall == [op |-> "none", id |-> 0, filter |-> None, awaits |-> "none"]
NoSession == [session |-> FALSE, subs |-> {}]

TypeOK ==
  /\ mc \in [isconnected : BOOLEAN, configured : BOOLEAN, ping_outstanding : BOOLEAN,
             next_packetid : 1 .. MaxPacketId,
             handlers : {H \in SUBSET Filters : Cardinality(H) <= MaxHandlers},
             sockHandle : {"null", "open", "freed", "misused"},
             sent_expired : BOOLEAN, received_expired : BOOLEAN]
  /\ link \in {"down", "up", "dead", "cut"}
  /\ (link = "down") = (mc.sockHandle # "open")
  /\ link = "down" => toBroker = <<>> /\ toClient = <<>> /\ broker = NoSession
  /\ call.op \in {"none", "connect", "subscribe", "unsubscribe", "publish", "yield"}
  /\ call.id \in 0 .. MaxPacketId
  /\ result \in {"none", "MQSUCCESS", "FAILURE", "refused"}
  /\ broker \in [session : BOOLEAN, subs : SUBSET Filters]

Init ==
  /\ mc = [isconnected |-> FALSE, configured |-> FALSE, ping_outstanding |-> FALSE,
           next_packetid |-> 1, handlers |-> {}, sockHandle |-> "null",
           sent_expired |-> FALSE, received_expired |-> FALSE]
  /\ link = "down"
  /\ toBroker = <<>>
  /\ toClient = <<>>
  /\ call = NoCall
  /\ result = "none"
  /\ broker = NoSession

-----------------------------------------------------------------------------
(* The parts of a call.  An outcome has a verdict ok or rc, the client      *)
(* after it, and the packets it put on the wire.                            *)

\* Mutant of getNextPacketId: the identifier wraps one step late.
getNextPacketIdLate(s) ==
  IF s.next_packetid > MaxPacketId THEN 1 ELSE s.next_packetid + 1

getNextPacketId(s) ==
  IF s.next_packetid = MaxPacketId THEN 1 ELSE s.next_packetid + 1

\* network_disconnect: the handle keeps pointing at the destroyed socket.
network_disconnect(s) ==
  [s EXCEPT !.sockHandle = IF @ = "open" THEN "freed" ELSE "misused"]

\* Mutant of MQTTCloseSession: the handlers stay.
CloseKeepsHandlers(s) ==
  LET t == [s EXCEPT !.ping_outstanding = FALSE, !.isconnected = FALSE]
  IN  IF s.configured THEN network_disconnect(t) ELSE t

MQTTCloseSession(s) ==
  LET t == [s EXCEPT !.ping_outstanding = FALSE, !.isconnected = FALSE]
  IN  IF s.configured THEN network_disconnect([t EXCEPT !.handlers = {}]) ELSE t

\* A send or a receive over a socket that was destroyed.
misused(s) == [s EXCEPT !.sockHandle = "misused"]

\* sendPacket with network_write.  Over a silent connection the bytes may
\* still be taken.
sendPacket(s, p) ==
  LET fail(t) == [ok |-> FALSE, s |-> t, out |-> <<>>]
      done(out) == [ok |-> TRUE, s |-> [s EXCEPT !.sent_expired = FALSE], out |-> out]
  IN  CASE s.sockHandle = "null" -> {fail(s)}
        [] s.sockHandle \in {"freed", "misused"} -> {fail(misused(s))}
        [] s.sockHandle = "open" /\ link = "up" -> {done(<<p>>)}
        [] s.sockHandle = "open" /\ link = "dead" -> {fail(s), done(<<>>)}
        [] OTHER -> {fail(s)}

\* readPacket with network_read: a packet, a timeout or an error.
readPacket(s) ==
  LET got(p, t, read) == [p |-> p, s |-> t, read |-> read]
      error(t) == got(Pkt("error", 0), t, FALSE)
      timeout == got(Pkt("timeout", 0), s, FALSE)
      packet == got(Head(toClient), [s EXCEPT !.received_expired = FALSE], TRUE)
  IN  CASE s.sockHandle = "null" -> {error(s)}
        [] s.sockHandle \in {"freed", "misused"} -> {error(misused(s))}
        [] s.sockHandle = "open" /\ toClient = <<>> ->
             {IF link = "cut" THEN error(s) ELSE timeout}
        [] OTHER -> {r \in {packet, timeout} : link # IF r.read THEN "dead" ELSE "cut"}

\* What cycle() sends in answer to a packet.  The read takes as long as the
\* socket waits, so the timer of the call may be over: then nothing is sent.
answer(s, p, late) ==
  LET t == CASE p.type = "PUBLISH" /\ p.qos = 1 -> "PUBACK"
             [] p.type = "PUBLISH" /\ p.qos = 2 -> "PUBREC"
             [] p.type = "PUBREC" -> "PUBREL"
             [] p.type = "PUBREL" -> "PUBCOMP"
             [] OTHER -> "none"
  IN  IF t = "none" THEN {[ok |-> TRUE, s |-> s, out |-> <<>>]}
      ELSE IF late THEN {[ok |-> FALSE, s |-> s, out |-> <<>>]}
      ELSE sendPacket(s, Pkt(t, p.id))

\* Mutant of handled: a PINGRESP is only counted as traffic.
handledNoPingresp(s, p) == s

\* The effect of a packet on the client: deliverMessage only calls a handler,
\* or nobody.
handled(s, p) ==
  IF p.type = "PINGRESP" THEN [s EXCEPT !.ping_outstanding = FALSE] ELSE s

pinged(s) == [s EXCEPT !.ping_outstanding = TRUE, !.received_expired = FALSE]

\* Mutant of keepalive: only what was sent is looked at.
keepaliveSentOnly(s) ==
  IF ~(s.configured /\ s.sent_expired) THEN {[ok |-> TRUE, s |-> s, out |-> <<>>]}
  ELSE IF s.ping_outstanding THEN {[ok |-> FALSE, s |-> s, out |-> <<>>]}
  ELSE {[o EXCEPT !.s = IF o.ok THEN pinged(o.s) ELSE o.s] :
          o \in sendPacket(s, Pkt("PINGREQ", 0))}

keepalive(s) ==
  IF ~(s.configured /\ (s.sent_expired \/ s.received_expired))
  THEN {[ok |-> TRUE, s |-> s, out |-> <<>>]}
  ELSE IF s.ping_outstanding THEN {[ok |-> FALSE, s |-> s, out |-> <<>>]}
  ELSE {[o EXCEPT !.s = IF o.ok THEN pinged(o.s) ELSE o.s] :
          o \in sendPacket(s, Pkt("PINGREQ", 0))}

\* Mutant of failed: the session is only marked as over.
failedMarked(s) == [s EXCEPT !.isconnected = FALSE]

\* The exit of cycle() with a verdict other than MQSUCCESS.
failed(s) == IF s.isconnected THEN MQTTCloseSession(s) ELSE s

\* One cycle(): its verdict is the type of the packet read, also when that is
\* a type it has no case for and the session is closed.
cycle(s, late) ==
  UNION {
    LET outcome(rc, t, out) ==
          [rc |-> rc, p |-> r.p, s |-> t, out |-> out, read |-> r.read]
    IN  IF r.p.type \notin KnownTypes \cup {"timeout"}   \* or an error
        THEN {outcome(r.p.type, failed(r.s), <<>>)}
        ELSE UNION {
               IF ~a.ok THEN {outcome("error", failed(a.s), a.out)}
               ELSE {IF k.ok THEN outcome(r.p.type, k.s, a.out \o k.out)
                     ELSE outcome("error", failed(k.s), a.out \o k.out)
                       : k \in keepalive(a.s)}
                 : a \in answer(handled(r.s, r.p), r.p, late)}
      : r \in readPacket(s)}

\* The client after a step, and the connection with it: a destroyed socket has
\* none, and the broker ends the session.
Settle(s, out, read) ==
  /\ mc' = s
  /\ IF s.sockHandle = "open"
     THEN /\ toBroker' = toBroker \o out
          /\ toClient' = IF read THEN Tail(toClient) ELSE toClient
          /\ UNCHANGED <<link, broker>>
     ELSE link' = "down" /\ toBroker' = <<>> /\ toClient' = <<>> /\ broker' = NoSession

Return(rc) == call' = NoCall /\ result' = rc

-----------------------------------------------------------------------------
(* The calls. *)

Idle == call.op = "none"

\* A socket is created and connected for the client: mqtt_network_init.
NewNetwork ==
  /\ Idle
  /\ ~mc.isconnected
  /\ mc.sockHandle # "open"
  /\ mc' = [mc EXCEPT !.sockHandle = "open"]
  /\ link' = "up"
  /\ UNCHANGED <<toBroker, toClient, broker, call, result>>

\* The user closes the socket and forgets it.
DropNetwork ==
  /\ Idle
  /\ ~mc.isconnected
  /\ mc.sockHandle # "null"
  /\ Settle([mc EXCEPT !.sockHandle = "null"], <<>>, FALSE)
  /\ UNCHANGED <<call, result>>

\* A failed MQTTConnect leaves the session and the socket alone.  MaxQueue
\* bounds how often it is repeated over a connection nobody reads.
MQTTConnect ==
  /\ Idle
  /\ Len(toBroker) + Len(toClient) < MaxQueue
  /\ IF mc.isconnected
     THEN result' = "FAILURE" /\ UNCHANGED <<mc, env, call>>
     ELSE \E o \in sendPacket([mc EXCEPT !.configured = TRUE, !.received_expired = FALSE],
                              Pkt("CONNECT", 0)) :
            /\ Settle(o.s, o.out, FALSE)
            /\ IF o.ok
               THEN /\ call' = [NoCall EXCEPT !.op = "connect", !.awaits = "CONNACK"]
                    /\ UNCHANGED result
               ELSE Return("FAILURE")

\* The head of MQTTSubscribe, MQTTUnsubscribe and MQTTPublish with an
\* acknowledgement: without a session, or when the request cannot be sent, the
\* session is closed.
Request(op, p, awaits) ==
  /\ Idle
  /\ IF ~mc.isconnected
     THEN Settle(MQTTCloseSession(mc), <<>>, FALSE) /\ Return("FAILURE")
     ELSE LET i == getNextPacketId(mc) IN
          \E o \in sendPacket([mc EXCEPT !.next_packetid = i], [p EXCEPT !.id = i]) :
            IF o.ok
            THEN /\ Settle(o.s, o.out, FALSE)
                 /\ call' = [op |-> op, id |-> i, filter |-> p.filter, awaits |-> awaits]
                 /\ UNCHANGED result
            ELSE Settle(MQTTCloseSession(o.s), o.out, FALSE) /\ Return("FAILURE")

About(t, f) == [Pkt(t, 0) EXCEPT !.filter = f]
MQTTSubscribe(f) == Request("subscribe", About("SUBSCRIBE", f), "SUBACK")
MQTTUnsubscribe(f) == Request("unsubscribe", About("UNSUBSCRIBE", f), "UNSUBACK")
MQTTPublish(q) ==
  Request("publish", Message(q, None), IF q = 1 THEN "PUBACK" ELSE "PUBCOMP")

\* MQTTPublish at QoS 0 ends with the send.  The broker's session does not
\* depend on the message, so it is not put on the wire.
MQTTPublish0 ==
  /\ Idle
  /\ IF ~mc.isconnected
     THEN Settle(MQTTCloseSession(mc), <<>>, FALSE) /\ Return("FAILURE")
     ELSE \E o \in sendPacket(mc, Pkt("PUBLISH", 0)) :
            IF o.ok THEN Settle(o.s, <<>>, FALSE) /\ Return("MQSUCCESS")
            ELSE Settle(MQTTCloseSession(o.s), <<>>, FALSE) /\ Return("FAILURE")

\* The session is closed whether the packet could be sent or not.
MQTTDisconnect ==
  /\ Idle
  /\ Len(toBroker) + Len(toClient) < MaxQueue
  /\ \E o \in sendPacket(mc, Pkt("DISCONNECT", 0)) :
       /\ Settle(MQTTCloseSession(o.s), o.out, FALSE)
       /\ Return(IF o.ok THEN "MQSUCCESS" ELSE "FAILURE")

MQTTYield ==
  /\ Idle
  /\ call' = [NoCall EXCEPT !.op = "yield"]
  /\ UNCHANGED <<mc, env, result>>

-----------------------------------------------------------------------------
(* The rest of a call that waits. *)

\* Mutant of GiveUp: a request that timed out leaves the session open.
GiveUpOpen(s) == s

\* A failed request closes the session, even if cycle() has closed it already.
GiveUp(s) == IF call.op = "connect" THEN s ELSE MQTTCloseSession(s)

\* Mutant of MQTTSetMessageHandler: a full table is not noticed.
MQTTSetMessageHandlerFull(s, f) ==
  [rc |-> "MQSUCCESS",
   s |-> IF Cardinality(s.handlers) < MaxHandlers
         THEN [s EXCEPT !.handlers = @ \cup {f}] ELSE s]

\* Adding a handler: a filter has one slot, and there are MaxHandlers of them.
MQTTSetMessageHandler(s, f) ==
  IF f \in s.handlers \/ Cardinality(s.handlers) < MaxHandlers
  THEN [rc |-> "MQSUCCESS", s |-> [s EXCEPT !.handlers = @ \cup {f}]]
  ELSE [rc |-> "FAILURE", s |-> s]

\* What the call does with the packet it waited for.  A refused subscription
\* leaves rc as sendPacket set it.
Accepted(s, p) ==
  CASE call.op = "connect" ->
         IF p.accepted
         THEN [rc |-> "MQSUCCESS",
               s |-> [s EXCEPT !.isconnected = TRUE, !.ping_outstanding = FALSE]]
         ELSE [rc |-> "refused", s |-> s]
    [] call.op = "subscribe" ->
         LET h == MQTTSetMessageHandler(s, call.filter)
         IN  CASE ~p.accepted -> [rc |-> "MQSUCCESS", s |-> s]
               [] p.accepted /\ h.rc = "MQSUCCESS" -> h
               [] OTHER -> [h EXCEPT !.s = MQTTCloseSession(s)]
    [] call.op = "unsubscribe" ->
         [rc |-> "MQSUCCESS", s |-> [s EXCEPT !.handlers = @ \ {call.filter}]]
    [] OTHER -> [rc |-> "MQSUCCESS", s |-> s]

\* One round of waitfor.
WaitCycle ==
  /\ call.op \notin {"none", "yield"}
  /\ \E late \in BOOLEAN : \E o \in cycle(mc, late) :
       IF o.rc = call.awaits
       THEN LET a == Accepted(o.s, o.p)
            IN  Settle(a.s, o.out, o.read) /\ Return(a.rc)
       ELSE IF o.rc = "error" \/ late
       THEN Settle(GiveUp(o.s), o.out, o.read) /\ Return("FAILURE")
       ELSE Settle(o.s, o.out, o.read) /\ UNCHANGED <<call, result>>

\* The timer of the call is over at the head of the loop.
WaitExpires ==
  /\ call.op \notin {"none", "yield"}
  /\ Settle(GiveUp(mc), <<>>, FALSE)
  /\ Return("FAILURE")

\* One round of MQTTYield, which goes on unless its timer is over.
YieldCycle ==
  /\ call.op = "yield"
  /\ \E late \in BOOLEAN : \E o \in cycle(mc, late) :
       /\ Settle(o.s, o.out, o.read)
       /\ \/ o.rc = "error" /\ Return("FAILURE")
          \/ o.rc # "error" /\ Return("MQSUCCESS")
          \/ o.rc # "error" /\ ~late /\ UNCHANGED <<call, result>>

\* The two keepalive timers run out.
SentExpires ==
  /\ mc.sockHandle = "open" /\ ~mc.sent_expired
  /\ mc' = [mc EXCEPT !.sent_expired = TRUE]
  /\ UNCHANGED <<env, call, result>>

ReceivedExpires ==
  /\ mc.sockHandle = "open" /\ ~mc.received_expired
  /\ mc' = [mc EXCEPT !.received_expired = TRUE]
  /\ UNCHANGED <<env, call, result>>

-----------------------------------------------------------------------------
(* The broker and the connection. *)

Reply(ps) ==
  /\ toClient' = toClient \o ps
  /\ toBroker' = Tail(toBroker)
  /\ UNCHANGED <<mc, link, call, result>>

Is(t) == link = "up" /\ toBroker # <<>> /\ Head(toBroker).type = t

BrokerConnect ==
  /\ Is("CONNECT") /\ ~broker.session
  /\ Reply(<<Pkt("CONNACK", 0)>>)
  /\ broker' = [session |-> TRUE, subs |-> {}]

\* A broker that refuses a connection ends it after the CONNACK.
BrokerRefuses ==
  /\ Refusals
  /\ Is("CONNECT") /\ ~broker.session
  /\ toClient' = Append(toClient, [Pkt("CONNACK", 0) EXCEPT !.accepted = FALSE])
  /\ toBroker' = <<>>
  /\ link' = "cut"
  /\ UNCHANGED <<mc, call, result, broker>>

\* A second CONNECT on one connection, a packet ahead of the CONNECT, an
\* empty topic filter and a DISCONNECT end the connection.
BrokerEnds ==
  /\ link = "up" /\ toBroker # <<>>
  /\ \/ Head(toBroker).type = "DISCONNECT"
     \/ Head(toBroker).type = "SUBSCRIBE" /\ Head(toBroker).filter = None
     \/ (Head(toBroker).type = "CONNECT") = broker.session
  /\ link' = "cut"
  /\ toBroker' = <<>>
  /\ UNCHANGED <<mc, toClient, call, result, broker>>

\* A retained message of the filter may go out ahead of the SUBACK.
BrokerSubscribe ==
  /\ broker.session /\ Is("SUBSCRIBE") /\ Head(toBroker).filter # None
  /\ LET p == Head(toBroker)
         suback(yes) == [Pkt("SUBACK", p.id) EXCEPT !.accepted = yes]
     IN  \/ /\ broker' = [broker EXCEPT !.subs = @ \cup {p.filter}]
            /\ \/ Reply(<<suback(TRUE)>>)
               \/ Reply(<<Message(0, p.filter), suback(TRUE)>>)
         \/ Refusals /\ Reply(<<suback(FALSE)>>) /\ UNCHANGED broker

BrokerUnsubscribe ==
  /\ broker.session /\ Is("UNSUBSCRIBE")
  /\ broker' = [broker EXCEPT !.subs = @ \ {Head(toBroker).filter}]
  /\ Reply(<<Pkt("UNSUBACK", Head(toBroker).id)>>)

\* The packets that do not change the broker's session.
BrokerAnswers ==
  LET p == Head(toBroker)
      a == CASE p.type = "PINGREQ" -> <<Pkt("PINGRESP", 0)>>
             [] p.type = "PUBLISH" -> <<Pkt(IF p.qos = 1 THEN "PUBACK" ELSE "PUBREC", p.id)>>
             [] p.type = "PUBREC" -> <<Pkt("PUBREL", p.id)>>
             [] p.type = "PUBREL" -> <<Pkt("PUBCOMP", p.id)>>
             [] OTHER -> <<>>
  IN  /\ broker.session
      /\ \E t \in {"PINGREQ", "PUBLISH", "PUBACK", "PUBREC", "PUBREL", "PUBCOMP"} : Is(t)
      /\ Reply(a)
      /\ UNCHANGED broker

BrokerPublishes ==
  /\ link = "up"
  /\ Len(toClient) + Len(toBroker) < MaxQueue
  /\ \E f \in broker.subs, q \in 0 .. MaxQos : toClient' = Append(toClient, Message(q, f))
  /\ UNCHANGED <<mc, link, toBroker, call, result, broker>>

\* The connection goes silent: what is on it is lost.
LinkDies ==
  /\ link = "up"
  /\ link' = "dead"
  /\ toBroker' = <<>>
  /\ toClient' = <<>>
  /\ UNCHANGED <<mc, call, result, broker>>

\* The connection is reset; what has arrived can still be read.
LinkCut ==
  /\ link \in {"up", "dead"}
  /\ link' = "cut"
  /\ toBroker' = <<>>
  /\ UNCHANGED <<mc, toClient, call, result, broker>>

World ==
  \/ SentExpires \/ ReceivedExpires
  \/ BrokerConnect \/ BrokerRefuses \/ BrokerEnds \/ BrokerSubscribe \/ BrokerUnsubscribe
  \/ BrokerAnswers \/ BrokerPublishes
  \/ LinkDies \/ LinkCut

Waiting == WaitCycle \/ WaitExpires \/ YieldCycle

Next ==
  \/ NewNetwork \/ DropNetwork
  \/ MQTTConnect \/ MQTTYield \/ MQTTDisconnect \/ MQTTPublish0
  \/ \E f \in Filters : MQTTSubscribe(f) \/ MQTTUnsubscribe(f)
  \/ \E q \in {1, 2} : MQTTPublish(q)
  \/ Waiting
  \/ World

Spec == Init /\ [][Next]_vars

-----------------------------------------------------------------------------
(* Properties. *)

Succeeds == call.op # "none" /\ call' = NoCall /\ result' = "MQSUCCESS"

\* A request that succeeds was settled by the acknowledgement of that request:
\* the client compares types only, and relies on the order of the connection
\* and on closing it after every request that was not answered in time.
AckMatches ==
  [][Succeeds /\ call.op \in {"subscribe", "unsubscribe", "publish"}
       => Head(toClient).id = call.id]_vars

\* Between calls a session over a working connection has a handler exactly for
\* the filters the broker has subscribed it to.
SubscriptionsAgree ==
  Idle /\ mc.isconnected /\ link = "up" => mc.handlers = broker.subs

\* A message that cycle() reads finds its handler, whatever was subscribed and
\* ended while it was on the way, except ahead of the SUBACK of its filter.
MessageHasHandler ==
  [][LET p == Head(toClient)
     IN  /\ Waiting /\ mc.isconnected
         /\ toClient # <<>> /\ toClient' = Tail(toClient) /\ p.type = "PUBLISH"
         => p.filter \in mc.handlers \/ (call.op = "subscribe" /\ call.filter = p.filter)]_vars

\* While a ping is outstanding on a working connection it or its answer is on
\* the way, so the keepalive never blames a connection that answered.
PingOnTheWay ==
  mc.isconnected /\ mc.ping_outstanding /\ link = "up" =>
    \/ \E i \in DOMAIN toBroker : toBroker[i].type = "PINGREQ"
    \/ \E i \in DOMAIN toClient : toClient[i].type = "PINGRESP"

\* A connected session has a socket.
ConnectedHasSocket == mc.isconnected => mc.sockHandle = "open"

-----------------------------------------------------------------------------
(* What all of it is for: the client implements MqttPromise.                *)

\* The answer to the call is on the way, with this verdict.
Answered(yes) ==
  \E i \in DOMAIN toClient : toClient[i].type = call.awaits /\ toClient[i].accepted = yes

\* What became of the call, for which nothing comes over a lost connection but
\* what has arrived.
settled ==
  CASE call.op \in {"none", "yield"} -> "no"
    [] call.op \notin {"none", "yield"} /\ Answered(TRUE) -> "yes"
    [] call.op \notin {"none", "yield"} /\ ~Answered(TRUE) /\ Answered(FALSE) -> "refused"
    [] OTHER -> IF link = "up" THEN "no" ELSE "lost"

Promise == INSTANCE MqttPromise WITH
  online <- mc.isconnected, handlers <- mc.handlers,
  session <- broker.session, subs <- broker.subs,
  request <- [op |-> call.op, filter |-> call.filter]

\* Whatever is lost, late or refused, a call that succeeds was performed by the
\* broker, once and during the call, one that fails leaves no session on either
\* side, and only a call loses a session.
KeepsPromise == Promise!Spec

=============================================================================
