------------------------------- MODULE WsLink -------------------------------
(***************************************************************************)
(* The WebSocket client and server of this repository on the two ends of a *)
(* connection that may end at any time, with peers that now and then send  *)
(* what this code would not.                                               *)
(***************************************************************************)
EXTENDS WsClient, WsServer

vars == <<wireVars, cli, srv>>

Init == WireInit /\ ClientInit /\ ServerInit

Environment ==
  /\ \/ Lost
     \/ srv.open /\ \E d \in Dir : ForeignSends(d)
  /\ UNCHANGED <<cli, srv>>

Next ==
  \/ ClientNext /\ UNCHANGED srv
  \/ ServerNext /\ UNCHANGED cli
  \/ Environment

Spec == Init /\ [][Next]_vars

\* The boards run, and so does the clock that the close of the client looks at; nothing is assumed of the network.
FairSpec ==
  /\ Spec
  /\ WF_vars(ClientCall /\ UNCHANGED srv)
  /\ WF_vars(ClosingTimeOver /\ UNCHANGED srv)
  /\ WF_vars(ServerCall /\ UNCHANGED cli)
-----------------------------------------------------------------------------
\* Types, and how the state of the two ends and of the link go together.
TypeOK ==
  /\ link \in {"down", "dialled", "up", "ended"}
  /\ wire \in [Dir -> Seq(Frame)]
  /\ broken \in [Dir -> {"no", "cut", "skew"}]
  /\ sent \in [Dir -> Seq({Empty, Fits, Big})]
  /\ last \in [Dir -> Nat]
  /\ closes \in [Dir -> Nat]
  /\ noise \in [Dir -> BOOLEAN]
  /\ strange \in [Dir -> BOOLEAN]
  /\ accused \subseteq Dir
  /\ cli \in [pc : {"none", "idle", "request", "response", "user", "recv",
                    "failed", "closing"},
              open : BOOLEAN, handshake_ok : BOOLEAN,
              sock : {"none", "created", "connected"}, over : BOOLEAN]
  /\ srv \in [pc : {"listen", "handshake", "serve", "recv", "close"},
              open : BOOLEAN]
  /\ cli.open => cli.sock = "connected"
  /\ (link \in {"up", "ended"}) = (srv.pc # "listen")

\* The two ends speak the same dialect: a CLOSE 1002 is never sent about a stream
\* of this code's own frames that has kept its boundaries, unless a user has sent a
\* ping or a pong on it that is longer than a control frame may be.
HonestPeersAgree == \A d \in accused : strange[d] \/ broken[d] # "no"

ToServer == INSTANCE WsChannel WITH
  MessageLengths <- {Empty, Fits, Big}, TooBig <- Big,
  sent <- sent["c2s"], last <- last["c2s"], closes <- closes["c2s"],
  broken <- broken["c2s"] # "no", noise <- noise["c2s"]
ToClient == INSTANCE WsChannel WITH
  MessageLengths <- {Empty, Fits, Big}, TooBig <- Big,
  sent <- sent["s2c"], last <- last["s2c"], closes <- closes["s2c"],
  broken <- broken["s2c"] # "no", noise <- noise["s2c"]

\* What the client sends reaches the server as WsChannel promises: in order,
\* nothing twice, nothing lost but what is too big, one CLOSE at the end.
MessagesToServer == ToServer!Spec
\* The same for what the server sends.
MessagesToClient == ToClient!Spec

\* ws_client_close ends, whatever the server goes on sending.
CloseEnds == cli.pc \in {"failed", "closing"} ~> cli.pc = "none"

\* A session whose client is gone, with its connection or without, makes
\* room for the next one.
ServerServesAgain ==
  (link = "ended" \/ (srv.open /\ cli.sock # "connected")) ~> srv.pc = "listen"
-----------------------------------------------------------------------------
(* What the comments say and the code does not do. *)

\* ws_client.c and ws_server.c: a control frame must have a "payload <=125", and more
\* is a protocol error.  Two ends of this code that nothing goes wrong between
\* never accuse one another of one.
NoProtocolError == accused = {}

\* ws_client_handshake: the bytes after the answer are preserved "so the frame parser
\* does not desync".
KeptBytesEnough ==
  [][cli.pc = "response" /\ cli'.pc = "user" => broken'["s2c"] = "no"]_vars

\* ws_client_read_frame_payload: "Drain and discard to keep stream aligned".  After a
\* message too large for its buffer an open session stands at the next frame.
DrainKeepsAligned ==
  [][cli.pc = "recv" /\ cli'.pc = "user" /\ cli'.open /\ broken["s2c"] = "no"
       /\ wire["s2c"] # <<>> /\ Head(wire["s2c"]).op = "DATA" /\ Head(wire["s2c"]).len = Big
     => broken'["s2c"] = "no"]_vars

\* ws_server_recv: 0 is "clean close (peer closed or CLOSE frame processed)".  A
\* session that no read has ended is given up for it only when the client has
\* said CLOSE or the connection is over.
CleanCloseIsClose ==
  [][srv.pc = "recv" /\ srv'.pc = "close" /\ srv'.open => closes["c2s"] > 0 \/ ~Carries]_vars
=============================================================================
