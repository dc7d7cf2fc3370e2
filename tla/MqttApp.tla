------------------------------- MODULE MqttApp -------------------------------
(***************************************************************************)
(* The MQTT application, mqtt_app.c: mqtt_start and then the loop of       *)
(* mqtt_main over the client, the broker and the connection of MqttClient. *)
(*                                                                         *)
(* pc names the call of the client in progress or just ended.  Not         *)
(* modelled: the delays, which change nothing but time, and the reset of   *)
(* the board when mqtt_network_init fails, which starts all over.          *)
(***************************************************************************)
EXTENDS MqttClient

CONSTANT Topic   \* the control topic of the device

ASSUME TopicAssumption == Topic \in Filters

VARIABLES
  pc,
  mqtt_subtopic  \* the topic to subscribe to: empty until mqtt_start fills it

appVars == <<vars, pc, mqtt_subtopic>>

AppInit ==
  /\ Init
  /\ pc = "init"
  /\ mqtt_subtopic = None

Returned(at, ok) == pc = at /\ Idle /\ (result = "MQSUCCESS") = ok

-----------------------------------------------------------------------------
(* mqtt_start *)

mqtt_network_init ==
  /\ pc = "init"
  /\ NewNetwork
  /\ pc' = "started"
  /\ UNCHANGED mqtt_subtopic

FirstConnect ==
  /\ pc = "started"
  /\ MQTTConnect
  /\ pc' = "first_connect"
  /\ UNCHANGED mqtt_subtopic

\* Only a successful first connection fills in the topic.
FirstSubscribe ==
  /\ Returned("first_connect", TRUE)
  /\ mqtt_subtopic' = Topic
  /\ MQTTSubscribe(Topic)
  /\ pc' = "first_subscribe"

-----------------------------------------------------------------------------
(* mqtt_main *)

\* The head of the loop.  What mqtt_start came to is only logged, and the
\* interval between two publications may not be over after a yield.
AtTop ==
  \/ Returned("first_connect", FALSE)
  \/ pc = "first_subscribe" /\ Idle
  \/ Returned("yield", TRUE)
  \/ Returned("publish", TRUE)
  \/ pc = "closed" /\ mc.sockHandle = "null"

Connect ==
  /\ AtTop /\ ~mc.isconnected
  /\ MQTTConnect
  /\ pc' = "connect"
  /\ UNCHANGED mqtt_subtopic

Subscribe ==
  /\ Returned("connect", TRUE)
  /\ MQTTSubscribe(mqtt_subtopic)
  /\ pc' = "subscribe"
  /\ UNCHANGED mqtt_subtopic

Yield ==
  /\ (AtTop /\ mc.isconnected) \/ Returned("subscribe", TRUE)
  /\ MQTTYield
  /\ pc' = "yield"
  /\ UNCHANGED mqtt_subtopic

Publish ==
  /\ Returned("yield", TRUE)
  /\ MQTTPublish0
  /\ pc' = "publish"
  /\ UNCHANGED mqtt_subtopic

\* No memory or no room for the message: mqtt_client_publish fails before the client
\* is called.
PublishNotFormatted ==
  /\ Returned("yield", TRUE)
  /\ pc' = "failed"
  /\ UNCHANGED <<vars, mqtt_subtopic>>

Failed ==
  \/ \E at \in {"connect", "subscribe", "yield", "publish"} : Returned(at, FALSE)
  \/ pc = "failed"

\* mqtt_hard_reset up to net_sock_destroy: MQTTDisconnect if there is a
\* session, which destroys the socket, then the socket is destroyed again.
mqtt_hard_reset ==
  /\ Failed
  /\ \E o \in (IF mc.isconnected THEN sendPacket(mc, Pkt("DISCONNECT", 0))
               ELSE {[ok |-> TRUE, s |-> mc, out |-> <<>>]}) :
       LET s == IF mc.isconnected THEN MQTTCloseSession(o.s) ELSE o.s
       IN  Settle(IF s.sockHandle = "null" THEN s ELSE network_disconnect(s), <<>>, FALSE)
  /\ pc' = "closed"
  /\ UNCHANGED <<call, result, mqtt_subtopic>>

\* net->sockHandle = NULL, and back to the head of the loop.
ForgetSocket ==
  /\ pc = "closed" /\ mc.sockHandle # "null"
  /\ mc' = [mc EXCEPT !.sockHandle = "null"]
  /\ UNCHANGED <<env, call, result, pc, mqtt_subtopic>>

App ==
  \/ mqtt_network_init \/ FirstConnect \/ FirstSubscribe
  \/ Connect \/ Subscribe \/ Yield \/ Publish \/ PublishNotFormatted
  \/ mqtt_hard_reset \/ ForgetSocket
  \/ (Waiting /\ UNCHANGED <<pc, mqtt_subtopic>>)

AppNext == App \/ (World /\ UNCHANGED <<pc, mqtt_subtopic>>)

AppSpec == AppInit /\ [][AppNext]_appVars

\* The program keeps running, its timers run out, and a client that waits does
\* not wait for ever: each is the clock of the board.  Nothing is assumed of
\* the broker and the connection.
AppFairSpec ==
  /\ AppSpec
  /\ WF_appVars(App)
  /\ WF_appVars(WaitExpires /\ UNCHANGED <<pc, mqtt_subtopic>>)
  /\ WF_appVars(SentExpires /\ UNCHANGED <<pc, mqtt_subtopic>>)
  /\ WF_appVars(ReceivedExpires /\ UNCHANGED <<pc, mqtt_subtopic>>)

-----------------------------------------------------------------------------
(* Properties. *)

\* While it runs its loop over a session, the application handles the messages
\* of its control topic, whichever of the two places connected it and whatever
\* failed before.  A subscription that the broker refuses is the exception.
ListensWhileConnected ==
  mc.isconnected /\ pc \in {"yield", "publish"} => mc.handlers = {Topic}

\* A connection gone silent is noticed, although the application only sends
\* over it and its sends may succeed for ever: the keepalive ends the session.
DeadPeerNoticed == (mc.isconnected /\ link = "dead") ~> ~mc.isconnected

(* What the comments of the application say, and the code does not do.      *)

\* "Always close underlying socket/TLS", says the reset: an open socket is closed and
\* destroyed, once.  The clean disconnect before it has done so already.
ResetClosesSocket ==
  [][mqtt_hard_reset /\ mc.sockHandle = "open" => mc'.sockHandle = "freed"]_appVars

\* "Ensure connected", says the loop: when it connects, it has a socket to connect over.
\* The one of mqtt_start is gone with the first session, and nothing makes another.
ConnectsOverSocket == [][Connect => mc.sockHandle = "open"]_appVars

=============================================================================
