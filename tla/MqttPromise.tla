---------------------------- MODULE MqttPromise -----------------------------
(***************************************************************************)
(* What the MQTT client promises whoever calls it, with nothing left of    *)
(* the packets, the timers and the keepalive.  The broker performs a       *)
(* request at most once, in the course of its call.  The call succeeds     *)
(* only after that, or when the broker refused a subscription, and the     *)
(* client changes its handlers only then.  A request that fails leaves no  *)
(* doubt behind it: the session is over on both sides.  Between calls the  *)
(* client loses no session.                                                *)
(***************************************************************************)
CONSTANTS
  Filters,   \* topic filters
  None       \* no filter, or the empty one

VARIABLES
  online,    \* the client has a session
  handlers,  \* the filters it has a handler for
  session,   \* the broker has a session
  subs,      \* the filters it has subscribed the client to
  request,   \* the call in progress
  settled,   \* what became of it: "no" answer yet, "yes", "refused", "lost"
  result     \* what the last call returned

sides == <<online, handlers, session, subs>>
vars == <<sides, request, settled, result>>

Requests == {"subscribe", "unsubscribe", "publish"}
NoRequest == [op |-> "none", filter |-> None]

Init ==
  /\ online = FALSE /\ handlers = {}
  /\ session = FALSE /\ subs = {}
  /\ request = NoRequest /\ settled = "no"
  /\ result = "none"

Idle == request.op = "none"
Waits == request.op \in {"connect"} \cup Requests

Returns(rc) == request' = NoRequest /\ settled' = "no" /\ result' = rc

\* Both sides forget the session.
Ends == online' = FALSE /\ handlers' = {} /\ session' = FALSE /\ subs' = {}

\* Without a session a call has none to end, whatever the broker may keep.
EndsAny == Ends \/ (~online /\ UNCHANGED sides)
-----------------------------------------------------------------------------
(* A call begins, or is over at once.                                       *)

Begins(op, f, how) ==
  /\ Idle
  /\ request' = [op |-> op, filter |-> f] /\ settled' = how
  /\ UNCHANGED <<sides, result>>

\* The connection may be dead already.  The answer to an earlier connect, which
\* came too late for it, counts for this one.
Connect ==
  /\ ~online
  /\ \E how \in {"no", "lost", "yes"} : (how = "yes" => session) /\ Begins("connect", None, how)

Asks ==
  /\ online
  /\ \E op \in Requests, f \in Filters \cup {None}, how \in {"no", "lost"} : Begins(op, f, how)

Yields == Begins("yield", None, "no")

\* A connect that fails at once changes nothing, another call ends the session.
ConnectFails == Idle /\ UNCHANGED sides /\ Returns("FAILURE")
CallFails == Idle /\ EndsAny /\ Returns("FAILURE")

\* A message that needs no answer.
Sends == Idle /\ online /\ UNCHANGED sides /\ Returns("MQSUCCESS")

Disconnects == Idle /\ EndsAny /\ (Returns("MQSUCCESS") \/ Returns("FAILURE"))
-----------------------------------------------------------------------------
(* What becomes of a request.                                               *)

Settles(how) == settled = "no" /\ settled' = how /\ UNCHANGED <<online, handlers, request, result>>

\* The broker may also begin a session for a connect that was given up.
Accepts ==
  /\ ~online /\ ~session
  /\ session' = TRUE /\ subs' = {}
  /\ settled' = IF request.op = "connect" /\ settled = "no" THEN "yes" ELSE settled
  /\ UNCHANGED <<online, handlers, request, result>>

Performs ==
  /\ session
  /\ request.op \in Requests
  /\ request.op = "subscribe" => request.filter \in Filters
  /\ subs' = CASE request.op = "subscribe" -> subs \cup {request.filter}
               [] request.op = "unsubscribe" -> subs \ {request.filter}
               [] request.op = "publish" -> subs
  /\ Settles("yes")
  /\ UNCHANGED session

Refuses ==
  /\ request.op \in {"connect", "subscribe"}
  /\ Settles("refused")
  /\ UNCHANGED <<session, subs>>

\* With the connection, a request or its answer is lost.
Loses == Waits /\ settled' = "lost" /\ UNCHANGED <<sides, request, result>>

\* A call may find the session over and go on.
SessionEnds ==
  /\ online => ~Idle
  /\ Ends
  /\ settled' = IF Waits THEN "lost" ELSE settled
  /\ UNCHANGED <<request, result>>
-----------------------------------------------------------------------------
(* A call returns.                                                          *)

Connected ==
  /\ request.op = "connect" /\ settled = "yes"
  /\ online' = TRUE /\ UNCHANGED <<handlers, session, subs>>
  /\ Returns("MQSUCCESS")

NotConnected ==
  /\ request.op = "connect"
  /\ UNCHANGED sides
  /\ Returns("FAILURE") \/ (settled = "refused" /\ Returns("refused"))

Subscribed ==
  /\ request.op = "subscribe" /\ settled = "yes"
  /\ handlers' = handlers \cup {request.filter} /\ UNCHANGED <<online, session, subs>>
  /\ Returns("MQSUCCESS")

\* A refusal is not reported, and changes nothing.
NotSubscribed ==
  /\ request.op = "subscribe" /\ settled = "refused"
  /\ UNCHANGED sides
  /\ Returns("MQSUCCESS")

\* The client takes the answer for an error and ends the session, which ends the
\* subscription too.
Unsubscribed ==
  /\ request.op = "unsubscribe" /\ settled = "yes"
  /\ Ends
  /\ Returns("MQSUCCESS")

Published ==
  /\ request.op = "publish" /\ settled = "yes"
  /\ UNCHANGED sides
  /\ Returns("MQSUCCESS")

\* Whatever became of the request, or when there is no room for a handler.
GivesUp == request.op \in Requests /\ Ends /\ Returns("FAILURE")

Yielded ==
  /\ request.op = "yield"
  /\ Ends \/ UNCHANGED sides
  /\ Returns("MQSUCCESS") \/ Returns("FAILURE")
-----------------------------------------------------------------------------
Next ==
  \/ Connect \/ Asks \/ Yields \/ ConnectFails \/ CallFails \/ Sends \/ Disconnects
  \/ Accepts \/ Performs \/ Refuses \/ Loses \/ SessionEnds
  \/ Connected \/ NotConnected \/ Subscribed \/ NotSubscribed \/ Unsubscribed
  \/ Published \/ GivesUp \/ Yielded

Spec == Init /\ [][Next]_vars
=============================================================================
