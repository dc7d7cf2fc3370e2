------------------------------- MODULE WsWire -------------------------------
(***************************************************************************)
(* The byte stream between the WebSocket client and the WebSocket server,  *)
(* and the frame functions of ws_common.c that both use.  A frame is     *)
(* read in one step: it is there as a whole, or its reader gives up in the *)
(* middle of it.  plain says that FIN is set, no RSV bit is and the frame  *)
(* is no continuation.  Lengths come in classes: Empty, OneByte, Fits, and *)
(* Big, which is larger than the buffer of any reader and than the 125     *)
(* bytes a control frame may have.                                         *)
(*                                                                         *)
(* broken[d] is why stream d has lost its frame boundaries: "cut" when a   *)
(* send failed in the middle of a frame, "skew" when a reader stopped in   *)
(* the middle of one.  What is read next from such a stream may look like  *)
(* any frame; Arriving has one frame for each way a reader goes on.        *)
(***************************************************************************)
EXTENDS Integers, Sequences, FiniteSets

CONSTANTS
  MaxFaults,     \* a bound on the broken streams and strange frames of a connection
  MaxMessages,   \* a bound on the messages sent on a connection, both ways together
  MaxToServer, MaxToClient   \* the windows: bounds on the frames on the way
ASSUME WireAssumption ==
  /\ {MaxMessages, MaxToServer, MaxToClient} \subseteq Nat \ {0}
  /\ MaxFaults \in Nat

VARIABLES
  link,      \* the connection: "down", "dialled", "up" or "ended"
  wire,      \* frames on the way
  broken,    \* "no", "cut" or "skew"
  sent, last, closes, noise,   \* history, see WsChannel
  strange,   \* history: the stream has carried a frame that the readers of this
             \* code refuse, of another peer or of a user of this code
  accused    \* history: the streams whose reader has sent CLOSE 1002

history == <<sent, last, closes, noise, strange, accused>>
wireVars == <<link, wire, broken, history>>

Dir == {"c2s", "s2c"}
Window(d) == IF d = "c2s" THEN MaxToServer ELSE MaxToClient
Empty == 0
OneByte == 1
Fits == 2
Big == 3
Control == {"CLOSE", "PING", "PONG"}
Ops == Control \union {"DATA", "OTHER"}
\* Only the server tells an empty message from another: ws_server_run takes
\* its length for the end of the session.
Lengths(d) == IF d = "c2s" THEN {Empty, Fits, Big} ELSE {Fits, Big}
Http == {"GET", "101"}
Noise == 0   \* the number of a message nobody sent

Frame == [op : Ops \union Http, plain : BOOLEAN, masked : BOOLEAN,
          len : Empty .. Big, id : Nat]

\* Mutant of F: the client forgets its mask.
FUnmasked(d, op, len) ==
  [op |-> op, plain |-> TRUE, masked |-> FALSE, len |-> len, id |-> Noise]

\* ws_send_frame: the client masks, the server does not.
F(d, op, len) ==
  [op |-> op, plain |-> TRUE, masked |-> d = "c2s", len |-> len, id |-> Noise]

\* Control frames with more than the 125 bytes they may have.
TooLong(d) == {F(d, op, Big) : op \in {"PING", "PONG"}}

\* Frames a peer that is not this code may send.
ForeignFrames(d) ==
  {[F(d, "DATA", Fits) EXCEPT !.plain = FALSE], [F(d, "DATA", Fits) EXCEPT !.masked = ~@],
   F(d, "CLOSE", OneByte)}

\* What the bytes at the head of stream d look like to its reader.
Arriving(d) ==
  IF wire[d] = <<>> THEN {}
  ELSE IF broken[d] = "no" THEN {Head(wire[d])}
  ELSE {F(d, op, Fits) : op \in Ops \ {"PONG"}} \union {F(d, "DATA", Big)}

Rest(d) == [wire EXCEPT ![d] = Tail(@)]

Carries == link \in {"dialled", "up"}

\* One thing more may go wrong with the streams of this connection.
MayFail ==
  Cardinality({d \in Dir : broken[d] # "no"}) + Cardinality({d \in Dir : strange[d]})
    < MaxFaults

\* Without their boundaries the frames on a stream are just bytes.
Bytes(d) == F(d, "OTHER", Empty)
Blurred(d, s) == [i \in DOMAIN s |-> Bytes(d)]

Broken(d, why) == broken' = [broken EXCEPT ![d] = IF @ = "no" THEN why ELSE @]

\* The reader of stream d stops inside a frame, when the wire is w.
Skew(w, d) ==
  /\ Broken(d, "skew")
  /\ wire' = [w EXCEPT ![d] = Blurred(d, @)]

\* A send to a peer that does not read fails when its window is full.
Room(w, d) == Len(w[d]) < Window(d)
Takes(w, d) == Carries /\ Room(w, d)

\* ws_send_frame on stream d, when the wire is w: the whole frame, none of
\* it, or a part of it.
Whole(w, d, f) ==
  /\ Takes(w, d)
  /\ wire' = [w EXCEPT ![d] = Append(@, IF broken[d] = "no" THEN f ELSE Bytes(d))]
  /\ closes' = [closes EXCEPT ![d] = IF f.op = "CLOSE" THEN @ + 1 ELSE @]
  /\ UNCHANGED broken
NotSent(w) ==
  /\ wire' = w
  /\ UNCHANGED <<broken, closes>>
Cut(w, d) ==
  /\ MayFail
  /\ Takes(w, d)
  /\ wire' = [w EXCEPT ![d] = Blurred(d, Append(@, Bytes(d)))]
  /\ Broken(d, "cut")
  /\ UNCHANGED closes
ws_send_frame(w, d, f) == Whole(w, d, f) \/ NotSent(w) \/ Cut(w, d)

\* ws_client_send, ws_server_send: a message of the user.
SendData(d) ==
  /\ Len(sent["c2s"]) + Len(sent["s2c"]) < MaxMessages
  /\ \/ \E n \in Lengths(d) :
        /\ Whole(wire, d, [F(d, "DATA", n) EXCEPT !.id = Len(sent[d]) + 1])
        /\ sent' = [sent EXCEPT ![d] = IF broken[d] = "no" THEN Append(@, n) ELSE @]
     \/ /\ Cut(wire, d)
        /\ UNCHANGED sent
  /\ UNCHANGED <<link, last, noise, strange, accused>>
\* ws_client_send_ping, ws_server_send_ping and the two for a pong: the length is
\* the user's, and nobody looks at it.
SendControl(d) ==
  /\ \/ /\ \E f \in {F(d, op, Fits) : op \in {"PING", "PONG"}} : Whole(wire, d, f)
        /\ UNCHANGED strange
     \/ /\ \E f \in TooLong(d) : Whole(wire, d, f)
        /\ strange' = [strange EXCEPT ![d] = @ \/ broken[d] = "no"]
     \/ Cut(wire, d) /\ UNCHANGED strange
  /\ UNCHANGED <<link, sent, last, noise, accused>>

\* A message handed to the user of stream d.
Delivered(d, f) ==
  /\ last' = [last EXCEPT ![d] = IF f.id = Noise THEN @ ELSE f.id]
  /\ noise' = [noise EXCEPT ![d] = @ \/ f.id <= last[d]]

\* ws_validate_frame_hdr without the mask: what both sides refuse.
BadControl(f) == f.op \in Control /\ f.len = Big

WireInit ==
  /\ link = "down"
  /\ wire = [d \in Dir |-> <<>>]
  /\ broken = [d \in Dir |-> "no"]
  /\ sent = [d \in Dir |-> <<>>]
  /\ last = [d \in Dir |-> 0]
  /\ closes = [d \in Dir |-> 0]
  /\ noise = [d \in Dir |-> FALSE]
  /\ strange = [d \in Dir |-> FALSE]
  /\ accused = {}

\* A connection to the board: the streams are new.
Dialled ==
  /\ link = "down"
  /\ link' = "dialled"
  /\ wire' = [d \in Dir |-> <<>>]
  /\ broken' = [d \in Dir |-> "no"]
  /\ sent' = [d \in Dir |-> <<>>]
  /\ last' = [d \in Dir |-> 0]
  /\ closes' = [d \in Dir |-> 0]
  /\ noise' = [d \in Dir |-> FALSE]
  /\ strange' = [d \in Dir |-> FALSE]
  /\ accused' = {}

\* The client's end or the network ends the connection: the server still
\* holds it when it has accepted it.
Ended == CASE link = "up" -> "ended" [] link = "dialled" -> "down" [] OTHER -> link

Lost ==
  /\ Carries
  /\ link' = Ended
  /\ UNCHANGED <<wire, broken, history>>

ForeignSends(d) ==
  /\ link = "up"
  /\ MayFail
  /\ ~strange[d]
  /\ Room(wire, d)
  /\ strange' = [strange EXCEPT ![d] = TRUE]
  /\ \E f \in ForeignFrames(d) : wire' = [wire EXCEPT ![d] = Append(@, f)]
  /\ UNCHANGED <<link, broken, sent, last, closes, noise, accused>>
=============================================================================
