------------------------------ MODULE WsServer ------------------------------
(***************************************************************************)
(* ws_server.c: a server that has started, and its loop.  srv.pc names the *)
(* place: "listen" in net_srv_listen, "handshake", "serve" at the head of  *)
(* the loop of a session, where a user may also send, "recv" in            *)
(* ws_server_recv, "close" on the way into ws_server_client_close.         *)
(***************************************************************************)
EXTENDS WsWire

VARIABLE srv   \* pc; open

serverVars == <<wireVars, srv>>

Listening == [pc |-> "listen", open |-> FALSE]

ServerInit == srv = Listening

\* Mutant of Ends: open is not cleared.
EndsOpen == srv' = [srv EXCEPT !.pc = "close"]

At(pc) == srv' = [srv EXCEPT !.pc = pc]
Ends == srv' = [srv EXCEPT !.pc = "close", !.open = FALSE]

\* ws_server_accept: listen, then the handshake.
ServerAccepts ==
  /\ srv.pc = "listen"
  /\ link = "dialled"
  /\ link' = "up"
  /\ At("handshake")
  /\ UNCHANGED <<wire, broken, history>>
ServerUpgrades ==
  /\ srv.pc = "handshake"
  /\ wire["c2s"] # <<>>
  /\ Head(wire["c2s"]).op = "GET"
  /\ broken["c2s"] = "no"
  /\ LET f == F("s2c", "101", Fits)
         w == Rest("c2s")
     IN  \/ Whole(w, "s2c", f) /\ srv' = [srv EXCEPT !.pc = "serve", !.open = TRUE]
         \/ NotSent(w) /\ At("close")
         \/ Cut(w, "s2c") /\ At("close")
  /\ UNCHANGED <<link, sent, last, noise, strange, accused>>
\* ws_recv_until waits through every timeout for the end of the connection.
ServerNotAsked ==
  /\ srv.pc = "handshake"
  /\ ~Carries
  /\ At("close")
  /\ UNCHANGED wireVars

\* The loop of ws_server_run.
ServerLoops ==
  /\ srv.pc = "serve"
  /\ At(IF srv.open THEN "recv" ELSE "close")
  /\ UNCHANGED wireVars

\* ws_server_send_text and the like: an echo, or a user's own message.
ServerSends ==
  /\ srv.pc = "serve"
  /\ srv.open
  /\ SendData("s2c") \/ SendControl("s2c")
  /\ UNCHANGED srv

-----------------------------------------------------------------------------
(* ws_server_recv                                                           *)

Bad(f) == ~f.plain \/ ~f.masked \/ BadControl(f)

Accuse(w) ==
  /\ ws_send_frame(w, "s2c", F("s2c", "CLOSE", Fits))
  /\ accused' = accused \union {"c2s"}
  /\ Ends

ServerReads ==
  /\ srv.pc = "recv"
  /\ \E f \in Arriving("c2s") :
       LET w == Rest("c2s")
           Reply(op) == ws_send_frame(w, "s2c", F("s2c", op, Fits))
           Quiet == wire' = w /\ UNCHANGED <<broken, closes>>
       IN  \/ Bad(f) /\ Accuse(wire) /\ UNCHANGED <<last, noise>>
           \/ /\ ~Bad(f) /\ f.op = "OTHER" /\ f.len # Big
              /\ Accuse(w)
              /\ UNCHANGED <<last, noise>>
           \/ /\ ~Bad(f)
              /\ \/ f.len = Big /\ Quiet /\ At("serve") /\ UNCHANGED <<last, noise>>
                 \/ f.op = "PING" /\ Reply("PONG") /\ UNCHANGED <<srv, last, noise>>
                 \/ f.op = "PONG" /\ Quiet /\ UNCHANGED <<srv, last, noise>>
                 \/ f.op = "CLOSE" /\ Reply("CLOSE") /\ Ends /\ UNCHANGED <<last, noise>>
                 \/ /\ f.op = "DATA" /\ f.len # Big
                    /\ Quiet
                    /\ Delivered("c2s", f)
                    /\ At(IF f.len = Empty THEN "close" ELSE "serve")   \* n == 0
              /\ UNCHANGED accused
  /\ UNCHANGED <<link, sent, strange>>

\* A read that brings only a part of a frame before its timeout.  Whether it was
\* one of the header, of a payload too large, or of a payload, the session is no
\* longer open and the result is that of a clean close.
ServerTimesOut ==
  /\ srv.pc = "recv"
  /\ wire["c2s"] # <<>>
  /\ MayFail
  /\ Skew(wire, "c2s")
  /\ Ends
  /\ UNCHANGED <<link, history>>
\* Mutant of ServerReadFails: a silent client is waited for.
ServerWaits ==
  /\ srv.pc = "recv"
  /\ ~Carries
  /\ Ends
  /\ UNCHANGED wireVars

\* A read that brings nothing: a timeout, or the end of the connection.
ServerReadFails ==
  /\ srv.pc = "recv"
  /\ wire["c2s"] = <<>> \/ ~Carries
  /\ Ends
  /\ UNCHANGED wireVars

\* ws_server_client_close: CLOSE if the session is open, then the next
\* connection.  A user may call it in an open session.
ServerHangsUp ==
  /\ srv.pc = "close" \/ (srv.pc = "serve" /\ srv.open)
  /\ IF srv.open THEN ws_send_frame(wire, "s2c", F("s2c", "CLOSE", Fits))
                 ELSE NotSent(wire)
  /\ link' = "down"
  /\ srv' = Listening
  /\ UNCHANGED <<sent, last, noise, strange, accused>>

ServerCall ==
  \/ ServerUpgrades \/ ServerNotAsked \/ ServerLoops \/ ServerReads
  \/ ServerTimesOut \/ ServerReadFails \/ ServerHangsUp

ServerNext == ServerAccepts \/ ServerSends \/ ServerCall
=============================================================================
