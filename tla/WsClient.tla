------------------------------ MODULE WsClient ------------------------------
(***************************************************************************)
(* ws_client.c: one client structure after another, each connecting at     *)
(* most once.  cli.pc names the place in the client: "none" there is no    *)
(* structure; "idle" created; "request", "response" in ws_client_connect;  *)
(* "user" between calls; "recv" in ws_client_recv; "failed" and "closing"  *)
(* in ws_client_close.                                                     *)
(*                                                                         *)
(* A read that brings nothing within its 5 s is repeated by every caller,  *)
(* so it is no step; one that brings a part loses the frame boundary.  The *)
(* bytes kept from the handshake (ctx->pending) are read before any other, *)
(* so they are the head of the stream, unless they were more than 256.     *)
(***************************************************************************)
EXTENDS WsWire

VARIABLE cli
  \* pc; open, handshake_ok; sock: "none", "created", "connected"; over: the
  \* 2 s are over that ws_client_close gives the server

clientVars == <<wireVars, cli>>

NoClient == [pc |-> "none", open |-> FALSE, handshake_ok |-> FALSE,
             sock |-> "none", over |-> FALSE]

ClientInit == cli = NoClient

To(pc) == cli' = [cli EXCEPT !.pc = pc]
\* Mutant of Returns: open is not cleared.
ReturnsOpen(open) == To("user")

Returns(open) == cli' = [cli EXCEPT !.pc = "user", !.open = open]

ws_client_is_open == cli.pc = "user" /\ cli.open /\ cli.handshake_ok

ws_client_create ==
  /\ cli.pc = "none"
  /\ cli' = [NoClient EXCEPT !.pc = "idle", !.sock = "created"]
  /\ UNCHANGED wireVars

\* ws_client_connect to the end of net_sock_open; an open that fails leaves
\* the client as it was.
ClientDials ==
  /\ cli.pc = "idle"
  /\ Dialled
  /\ cli' = [cli EXCEPT !.pc = "request", !.open = TRUE, !.sock = "connected"]

\* ws_client_handshake: the request, then the wait for the response.
ClientRequests ==
  /\ cli.pc = "request"
  /\ LET f == F("c2s", "GET", Fits)
     IN  \/ Whole(wire, "c2s", f) /\ To("response")
         \/ NotSent(wire) /\ To("failed")
         \/ Cut(wire, "c2s") /\ To("failed")
  /\ UNCHANGED <<link, sent, last, noise, strange, accused>>
ClientUpgraded ==
  /\ cli.pc = "response"
  /\ wire["s2c"] # <<>>
  /\ Head(wire["s2c"]).op = "101"
  /\ broken["s2c"] = "no"
  /\ cli' = [cli EXCEPT !.pc = "user", !.handshake_ok = TRUE]
  /\ LET w == Rest("s2c")
     IN  \/ NotSent(w)
         \/ w["s2c"] # <<>> /\ MayFail /\ Skew(w, "s2c") /\ UNCHANGED closes
  /\ UNCHANGED <<link, sent, last, noise, strange, accused>>
\* The connection is over, or something else than the 101 came.
ClientNotUpgraded ==
  /\ cli.pc = "response"
  /\ ~Carries \/ broken["s2c"] # "no"
  /\ To("failed")
  /\ UNCHANGED wireVars

\* ws_client_send_text, ws_client_send_binary, ws_client_send_ping, ..._pong
ClientSends ==
  /\ ws_client_is_open
  /\ SendData("c2s") \/ SendControl("c2s")
  /\ UNCHANGED cli

-----------------------------------------------------------------------------
(* ws_client_recv                                                           *)

ClientCallsRecv ==
  /\ ws_client_is_open
  /\ To("recv")
  /\ UNCHANGED wireVars

NothingDelivered == UNCHANGED <<last, noise>>

\* ws_client_read_frame_hdr refuses these before it has read the mask.
Refused(f) == ~f.plain \/ BadControl(f)
\* ws_validate_frame_hdr with what is left of its checks.
Invalid(f) == f.masked \/ f.op = "OTHER" \/ (f.op = "CLOSE" /\ f.len = OneByte)

\* The frame without the bytes that follow its header is off the wire.
ReadToEnd(f) == f.len = Empty /\ ~f.masked

\* Mutant of DropTransport: open is not cleared.
DropTransportOpen ==
  /\ link' = Ended
  /\ cli' = [cli EXCEPT !.pc = "user", !.sock = "none"]

\* After a protocol error the socket is closed and destroyed.
DropTransport ==
  /\ link' = Ended
  /\ cli' = [cli EXCEPT !.pc = "user", !.open = FALSE, !.sock = "none"]

ClientReads ==
  /\ cli.pc = "recv"
  /\ \E f \in Arriving("s2c") :
       LET w == Rest("s2c")
           Reply(op) == ws_send_frame(w, "c2s", F("c2s", op, Fits))
           Quiet == wire' = w /\ UNCHANGED <<broken, closes>>
       IN  \/ /\ Refused(f)
              /\ Returns(TRUE)
              /\ IF ReadToEnd(f) THEN wire' = w /\ UNCHANGED broken ELSE Skew(w, "s2c")
              /\ UNCHANGED <<link, history>>
           \/ /\ ~Refused(f) /\ Invalid(f)
              /\ ws_send_frame(wire, "c2s", F("c2s", "CLOSE", Fits))
              /\ accused' = accused \union {"s2c"}
              /\ DropTransport
              /\ UNCHANGED <<sent, last, noise, strange>>
           \/ /\ ~Refused(f) /\ ~Invalid(f)
              /\ \/ f.len = Big /\ Quiet /\ Returns(TRUE) /\ NothingDelivered
                 \/ f.op = "CLOSE" /\ Reply("CLOSE") /\ Returns(FALSE) /\ NothingDelivered
                 \/ f.op = "PING" /\ Reply("PONG") /\ UNCHANGED cli /\ NothingDelivered
                 \/ f.op = "PONG" /\ Quiet /\ UNCHANGED cli /\ NothingDelivered
                 \/ /\ f.op = "DATA" /\ f.len # Big
                    /\ Quiet
                    /\ Returns(TRUE)
                    /\ Delivered("s2c", f)
              /\ UNCHANGED <<link, sent, strange, accused>>

\* recv_exact gave up inside a frame: a header is begun again, a payload is
\* reported as an error, and the session stays open in both cases.
ClientTimesOut ==
  /\ cli.pc = "recv"
  /\ wire["s2c"] # <<>>
  /\ MayFail
  /\ UNCHANGED cli \/ Returns(TRUE)
  /\ Skew(wire, "s2c")
  /\ UNCHANGED <<link, history>>

\* recv_exact returns WS_ERR for NET_EOF and NET_ERR.
ClientReadFails ==
  /\ cli.pc = "recv"
  /\ ~Carries
  /\ Returns(TRUE)
  /\ UNCHANGED wireVars

-----------------------------------------------------------------------------
(* ws_client_close                                                          *)

\* A client that is not open is freed, and its socket with it is forgotten.
ClientForgets ==
  /\ cli.pc \in {"idle", "user"}
  /\ ~cli.open
  /\ cli' = NoClient
  /\ UNCHANGED wireVars

SayClose ==
  /\ cli.open
  /\ ws_send_frame(wire, "c2s", F("c2s", "CLOSE", Fits))
  /\ To("closing")
  /\ UNCHANGED <<link, sent, last, noise, strange, accused>>

ClientSaysClose == cli.pc = "user" /\ SayClose
ClientGivesUp == cli.pc = "failed" /\ SayClose

\* The end of the wait: the transport is closed, the client freed.
HangUp ==
  /\ link' = Ended
  /\ cli' = NoClient

\* The 2 s pass wherever the wait is; "closing" is inside of a read.
ClosingTimeOver ==
  /\ cli.pc = "closing"
  /\ ~cli.over
  /\ cli' = [cli EXCEPT !.over = TRUE]
  /\ UNCHANGED wireVars

\* Mutant of ClosesAgain: the time is not looked at while frames arrive.
ClosesForEver == UNCHANGED <<cli, link>>

\* The head of the loop, which alone looks at the time: a frame that has begun
\* is first read to its end, or until a read of 5 s brings nothing of it.
ClosesAgain == IF cli.over THEN HangUp ELSE UNCHANGED <<cli, link>>

ClosingReads ==
  /\ cli.pc = "closing"
  /\ \E f \in Arriving("s2c") :
       \/ /\ Refused(f) \/ f.len = Big \/ f.op = "CLOSE"
          /\ HangUp
          /\ NotSent(Rest("s2c"))
       \/ /\ ~Refused(f) /\ f.len # Big /\ f.op = "PING"
          /\ ClosesAgain
          /\ ws_send_frame(Rest("s2c"), "c2s", F("c2s", "PONG", Fits))
       \/ /\ ~Refused(f) /\ f.len # Big /\ f.op \notin {"CLOSE", "PING"}
          /\ ClosesAgain
          /\ NotSent(Rest("s2c"))
  /\ UNCHANGED <<sent, last, noise, strange, accused>>

\* A read that brings nothing more in its 5 s, before a frame or inside of one: the
\* 2 s are over as well.
ClosingWaits ==
  /\ cli.pc = "closing"
  /\ cli.over
  /\ wire["s2c"] = <<>> \/ MayFail
  /\ HangUp
  /\ UNCHANGED <<wire, broken, history>>
ClosingReadFails ==
  /\ cli.pc = "closing"
  /\ ~Carries
  /\ HangUp
  /\ UNCHANGED <<wire, broken, history>>

\* The steps of a call that is in progress.
ClientCall ==
  \/ ClientRequests \/ ClientUpgraded \/ ClientNotUpgraded \/ ClientGivesUp
  \/ ClientReads \/ ClientTimesOut \/ ClientReadFails
  \/ ClosingReads \/ ClosingWaits \/ ClosingReadFails

ClientNext ==
  \/ ws_client_create \/ ClientDials \/ ClientSends \/ ClientCallsRecv
  \/ ClientForgets \/ ClientSaysClose \/ ClientCall \/ ClosingTimeOver
=============================================================================
