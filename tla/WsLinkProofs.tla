----------------------------- MODULE WsLinkProofs -----------------------------
(***************************************************************************)
(* Proofs about WsLink for every window and every bound on faults.  All    *)
(* that a step of the client, the server or the network does to one stream *)
(* is one of the nine things StreamStep allows; the actions are looked at  *)
(* once, to show that.  The invariant of a stream, and that the stream is  *)
(* the channel WsChannel promises, then follow from StreamStep alone.      *)
(***************************************************************************)
EXTENDS WsLink, TLAPS

Sizes == {Empty, Fits, Big}

\* What ws_send_frame puts on stream d besides messages.
Own(d) == {F(d, op, Fits) : op \in Control \union Http}
\* The frames that the readers of this code refuse.
StrangeFrames(d) == ForeignFrames(d) \union TooLong(d)

Message(d, n, k) == [F(d, "DATA", n) EXCEPT !.id = k]

\* A frame that may lie on stream d when the messages s were sent, number l
\* was delivered last, and fgn says whether the peer has sent other frames.
Sendable(d, f, s, l, fgn) ==
  \/ f \in Own(d)
  \/ fgn /\ f \in StrangeFrames(d)
  \/ f.id \in l + 1 .. Len(s) /\ f = Message(d, s[f.id], f.id)

\* The messages among the frames q are in the order of their numbers.
Ordered(q) ==
  \A i, j \in 1 .. Len(q) :
    i < j /\ q[i].id # Noise /\ q[j].id # Noise => q[i].id < q[j].id

\* Of the messages after number l only those are missing in q that nobody
\* could have received.
Complete(q, s, l) ==
  \A k \in l + 1 .. Len(s) : s[k] = Big \/ \E i \in 1 .. Len(q) : q[i].id = k

\* Stream d has a reader that delivers: the client in ws_client_close reads
\* messages only to drop them.
Heard(d) == d = "c2s" \/ (cli.open /\ cli.pc # "closing")

StreamInv(d) ==
  broken[d] = "no" =>
    /\ \A i \in 1 .. Len(wire[d]) :
         Sendable(d, wire[d][i], sent[d], last[d], strange[d])
    /\ Ordered(wire[d])
    /\ last[d] <= Len(sent[d])
    /\ Heard(d) => Complete(wire[d], sent[d], last[d])

\* The writer of stream d may still say something after this state.
Speaks(d) ==
  IF d = "c2s" THEN cli.open /\ cli.pc # "closing"
  ELSE link = "dialled" \/ srv.pc = "handshake" \/ srv.open

\* A session that is read is open, and one that may speak has not said CLOSE.
EndsInv ==
  /\ cli.pc = "recv" => cli.open
  /\ srv.pc = "recv" => srv.open
  /\ \A d \in Dir : Speaks(d) => closes[d] = 0

IInv ==
  /\ TypeOK
  /\ EndsInv
  /\ HonestPeersAgree
  /\ \A d \in Dir : StreamInv(d)
-----------------------------------------------------------------------------
(* What a step may do to a stream.                                          *)

Quiescent(d) == UNCHANGED <<sent[d], last[d], closes[d], noise[d], strange[d]>>
Same(d) == UNCHANGED <<wire[d], broken[d]>> /\ Quiescent(d)

\* The stream of a new connection.
Fresh(d) ==
  /\ wire'[d] = <<>> /\ broken'[d] = "no"
  /\ sent'[d] = <<>> /\ last'[d] = 0 /\ closes'[d] = 0
  /\ noise'[d] = FALSE /\ strange'[d] = FALSE

\* A frame that is no message.
Puts(d) ==
  /\ broken[d] = "no" /\ broken'[d] = "no"
  /\ \E f \in Own(d) :
       /\ wire'[d] = Append(wire[d], f)
       /\ IF f.op = "CLOSE" THEN closes[d] = 0 /\ closes'[d] = 1
                            ELSE closes'[d] = closes[d]
  /\ UNCHANGED <<sent[d], last[d], noise[d], strange[d]>>

\* A message.
Posts(d) ==
  /\ broken[d] = "no" /\ broken'[d] = "no"
  /\ closes[d] = 0
  /\ \E n \in Sizes :
       /\ wire'[d] = Append(wire[d], Message(d, n, Len(sent[d]) + 1))
       /\ sent'[d] = Append(sent[d], n)
  /\ UNCHANGED <<last[d], closes[d], noise[d], strange[d]>>

\* A frame the readers of this code refuse.
Intrudes(d) ==
  /\ broken'[d] = broken[d]
  /\ strange'[d] = TRUE
  /\ \E f \in StrangeFrames(d) : wire'[d] = Append(wire[d], f)
  /\ UNCHANGED <<sent[d], last[d], closes[d], noise[d]>>

\* The first frame is taken off the stream and not delivered.
Skips(d) ==
  /\ broken[d] = "no" /\ broken'[d] = "no"
  /\ wire[d] # <<>>
  /\ wire'[d] = Tail(wire[d])
  /\ Head(wire[d]).id = Noise \/ Head(wire[d]).len = Big \/ ~Heard(d)'
  /\ Quiescent(d)

\* The first frame is a message and is delivered.
Hands(d) ==
  /\ broken[d] = "no" /\ broken'[d] = "no"
  /\ wire[d] # <<>>
  /\ wire'[d] = Tail(wire[d])
  /\ Head(wire[d]).id # Noise
  /\ Head(wire[d]).len # Big
  /\ last'[d] = Head(wire[d]).id
  /\ Heard(d)
  /\ UNCHANGED <<sent[d], closes[d], noise[d], strange[d]>>

\* The stream is without its boundaries after the step.
Breaks(d) ==
  /\ broken'[d] \in {"cut", "skew"}
  /\ wire'[d] \in Seq(Frame)
  /\ Quiescent(d)

\* A CLOSE on a stream without boundaries, or what looks like a message.
Babbles(d) ==
  /\ broken[d] # "no" /\ broken'[d] = broken[d]
  /\ wire'[d] \in Seq(Frame)
  /\ UNCHANGED <<sent[d], last[d], strange[d]>>
  /\ \/ closes[d] = 0 /\ closes'[d] = 1 /\ UNCHANGED noise[d]
     \/ noise'[d] = TRUE /\ UNCHANGED closes[d]

Moves(d) ==
  \/ Same(d) \/ Puts(d) \/ Posts(d) \/ Intrudes(d)
  \/ Skips(d) \/ Hands(d) \/ Breaks(d) \/ Babbles(d)

StreamStep(d) == Fresh(d) \/ Moves(d)

\* A stream gets a reader only with a new connection.
NewReader(d) == Heard(d)' => Heard(d) \/ Fresh(d)
-----------------------------------------------------------------------------
(* The frames.                                                              *)

\* Whatever ws_send_frame makes is a frame.
LEMMA FrameType ==
  ASSUME NEW d \in Dir, NEW op \in Ops \union Http, NEW n \in Empty .. Big, NEW k \in Nat
  PROVE  /\ F(d, op, n) \in Frame
         /\ [F(d, op, n) EXCEPT !.id = k] \in Frame
BY DEF F, Frame, Noise, Empty, Big

\* A message is a frame with its number and its length.
LEMMA MessageType ==
  ASSUME NEW d \in Dir, NEW n \in Sizes, NEW k \in Nat
  PROVE  /\ Message(d, n, k) \in Frame
         /\ Message(d, n, k).op = "DATA"
         /\ Message(d, n, k).plain
         /\ (Message(d, n, k).masked <=> d = "c2s")
         /\ Message(d, n, k).len = n
         /\ Message(d, n, k).id = k
<1>1. n \in Empty .. Big /\ "DATA" \in Ops \union Http
  BY DEF Sizes, Empty, Fits, Big, Ops
<1>2. PICK m \in Frame : m = F(d, "DATA", n)
  BY <1>1, FrameType DEF Noise
<1>3. m.op = "DATA" /\ m.plain /\ (m.masked <=> d = "c2s") /\ m.len = n
  BY <1>2 DEF F
<1>4. PICK r \in Frame : r = [m EXCEPT !.id = k]
  BY DEF Frame
<1>5. r.op = m.op /\ r.plain = m.plain /\ r.masked = m.masked /\ r.len = m.len /\ r.id = k
  BY <1>4 DEF Frame
<1>6. r = Message(d, n, k)
  BY <1>2, <1>4 DEF Message
<1> QED
  BY <1>3, <1>5, <1>6

\* The frames without a message are this code's: a header, no number.
LEMMA OwnType ==
  ASSUME NEW d \in Dir, NEW f \in Own(d)
  PROVE  /\ f \in Frame
         /\ f.op \in Control \union Http
         /\ f.plain
         /\ (f.masked <=> d = "c2s")
         /\ f.len = Fits
         /\ f.id = Noise
<1>1. PICK op \in Control \union Http : f = F(d, op, Fits)
  BY DEF Own
<1>2. f = [op |-> op, plain |-> TRUE, masked |-> d = "c2s", len |-> Fits, id |-> Noise]
  BY <1>1 DEF F
<1>3. Fits \in Empty .. Big /\ Noise \in Nat /\ op \in Ops \union Http
  BY DEF Empty, Fits, Big, Noise, Ops
<1> QED
  BY <1>2, <1>3 DEF Frame

\* The strange frames have no number, and a fault to be seen in them.
LEMMA StrangeType ==
  ASSUME NEW d \in Dir, NEW f \in StrangeFrames(d)
  PROVE  /\ f \in Frame
         /\ f.op \in Control \union {"DATA"}
         /\ f.id = Noise
         /\ f.op = "DATA" => ~f.plain \/ ~(f.masked <=> d = "c2s")
<1>0. /\ {Fits, OneByte, Big} \subseteq Empty .. Big /\ Noise \in Nat
      /\ Control \union {"DATA"} \subseteq Ops \union Http
  BY DEF Empty, OneByte, Fits, Big, Noise, Ops, Control
<1>1. CASE f = [F(d, "DATA", Fits) EXCEPT !.plain = FALSE]
  <2>1. f = [op |-> "DATA", plain |-> FALSE, masked |-> d = "c2s", len |-> Fits, id |-> Noise]
    BY <1>1 DEF F
  <2> QED
    BY <1>0, <2>1 DEF Frame
<1>2. CASE f = [F(d, "DATA", Fits) EXCEPT !.masked = ~@]
  <2>1. f = [op |-> "DATA", plain |-> TRUE, masked |-> ~(d = "c2s"), len |-> Fits,
             id |-> Noise]
    BY <1>2 DEF F
  <2> QED
    BY <1>0, <2>1 DEF Frame
<1>3. CASE f = F(d, "CLOSE", OneByte)
  <2>1. f = [op |-> "CLOSE", plain |-> TRUE, masked |-> d = "c2s", len |-> OneByte,
             id |-> Noise]
    BY <1>3 DEF F
  <2> QED
    BY <1>0, <2>1 DEF Frame, Control
<1>4. CASE f \in TooLong(d)
  <2>1. PICK op \in {"PING", "PONG"} : f = F(d, op, Big)
    BY <1>4 DEF TooLong
  <2>2. f = [op |-> op, plain |-> TRUE, masked |-> d = "c2s", len |-> Big, id |-> Noise]
    BY <2>1 DEF F
  <2> QED
    BY <1>0, <2>2 DEF Frame, Control
<1> QED
  BY <1>1, <1>2, <1>3, <1>4 DEF StrangeFrames, ForeignFrames

\* What a number says of a frame on a stream, and what the header does.
LEMMA SendableType ==
  ASSUME NEW d \in Dir, NEW s \in Seq(Sizes), NEW l \in Nat, NEW fgn \in BOOLEAN,
         NEW f, Sendable(d, f, s, l, fgn)
  PROVE  /\ f \in Frame
         /\ f.id # Noise => /\ f.id \in l + 1 .. Len(s)
                            /\ f.len = s[f.id]
                            /\ f.op = "DATA" /\ f.plain
         /\ ~fgn => /\ f.plain
                    /\ (f.masked <=> d = "c2s")
                    /\ f.op # "OTHER"
                    /\ f.op \in Control => f.len = Fits
         /\ f.op = "DATA" /\ f.plain /\ (f.masked <=> d = "c2s") => f.id # Noise
<1>1. CASE f \in Own(d)
  <2>1. /\ f \in Frame
        /\ f.op \in Control \union Http
        /\ f.plain
        /\ (f.masked <=> d = "c2s")
        /\ f.len = Fits
        /\ f.id = Noise
    BY <1>1, OwnType
  <2> QED
    BY <2>1 DEF Control, Http
<1>2. CASE fgn /\ f \in StrangeFrames(d)
  <2>1. /\ f \in Frame
        /\ f.id = Noise
        /\ f.op = "DATA" => ~f.plain \/ ~(f.masked <=> d = "c2s")
    BY <1>2, StrangeType
  <2> QED
    BY <1>2, <2>1
<1>3. CASE f.id \in l + 1 .. Len(s) /\ f = Message(d, s[f.id], f.id)
  <2>1. f.id \in Nat /\ f.id > 0 /\ s[f.id] \in Sizes
    BY <1>3
  <2> DEFINE n == s[f.id]
             k == f.id
  <2>2. f = Message(d, n, k) /\ n \in Sizes /\ k \in Nat
    BY <1>3, <2>1
  <2> HIDE DEF n, k
  <2>3. /\ f \in Frame /\ f.op = "DATA" /\ f.plain
        /\ (f.masked <=> d = "c2s") /\ f.len = n /\ f.id = k
    BY <2>2, MessageType
  <2>4. f.len = s[f.id] /\ f.id # Noise
    BY <2>1, <2>3 DEF n, k, Noise
  <2> QED
    BY <1>3, <2>3, <2>4 DEF Control
<1> QED
  BY <1>1, <1>2, <1>3 DEF Sendable

\* A frame may stay on its stream while more is sent and delivered before it.
LEMMA StillSendable ==
  ASSUME NEW d \in Dir, NEW s \in Seq(Sizes), NEW l \in Nat, NEW fgn \in BOOLEAN,
         NEW f, Sendable(d, f, s, l, fgn)
  PROVE  /\ Sendable(d, f, s, l, TRUE)
         /\ \A n \in Sizes : Sendable(d, f, Append(s, n), l, fgn)
         /\ \A k \in Nat : f.id # Noise /\ f.id > k => Sendable(d, f, s, k, fgn)
         /\ f.id = Noise => \A k \in Nat : Sendable(d, f, s, k, fgn)
<1>1. Sendable(d, f, s, l, TRUE)
  BY DEF Sendable
<1>2. ASSUME NEW n \in Sizes
      PROVE  Sendable(d, f, Append(s, n), l, fgn)
  <2>1. CASE f.id \in l + 1 .. Len(s) /\ f = Message(d, s[f.id], f.id)
    <3>1. f.id \in l + 1 .. Len(Append(s, n)) /\ Append(s, n)[f.id] = s[f.id]
      BY <2>1
    <3> QED
      BY <2>1, <3>1 DEF Sendable
  <2> QED
    BY <2>1 DEF Sendable
<1>3. ASSUME NEW k \in Nat, f.id # Noise, f.id > k
      PROVE  Sendable(d, f, s, k, fgn)
  <2>1. f.id \in l + 1 .. Len(s) /\ f = Message(d, s[f.id], f.id)
    <3>1. f \notin Own(d) /\ f \notin StrangeFrames(d)
      BY <1>3, OwnType, StrangeType
    <3> QED
      BY <3>1 DEF Sendable
  <2>2. f.id \in k + 1 .. Len(s)
    BY <1>3, <2>1
  <2> QED
    BY <2>1, <2>2 DEF Sendable
<1>4. ASSUME f.id = Noise, NEW k \in Nat
      PROVE  Sendable(d, f, s, k, fgn)
  <2>1. ~(f.id \in l + 1 .. Len(s))
    BY <1>4 DEF Noise
  <2> QED
    BY <2>1 DEF Sendable
<1> QED
  BY <1>1, <1>2, <1>3, <1>4

\* Sequences in the terms SMT needs: an element of each operation's result.
LEMMA AppendAt ==
  ASSUME NEW S, NEW q \in Seq(S), NEW f \in S
  PROVE  /\ Append(q, f) \in Seq(S)
         /\ Len(Append(q, f)) = Len(q) + 1
         /\ \A i \in 1 .. Len(q) : Append(q, f)[i] = q[i]
         /\ Append(q, f)[Len(q) + 1] = f
OBVIOUS

\* The same for the rest of a sequence.
LEMMA TailAt ==
  ASSUME NEW S, NEW q \in Seq(S), q # <<>>
  PROVE  /\ Tail(q) \in Seq(S)
         /\ Len(q) \in Nat /\ Len(q) > 0
         /\ Len(Tail(q)) = Len(q) - 1
         /\ \A i \in 1 .. Len(q) - 1 : Tail(q)[i] = q[i + 1]
         /\ Head(q) = q[1]
         /\ Head(q) \in S
OBVIOUS
-----------------------------------------------------------------------------
(* What StreamStep preserves, whoever takes the step.                       *)

StreamType(d) ==
  /\ wire[d] \in Seq(Frame)
  /\ broken[d] \in {"no", "cut", "skew"}
  /\ sent[d] \in Seq(Sizes)
  /\ last[d] \in Nat
  /\ closes[d] \in Nat
  /\ noise[d] \in BOOLEAN
  /\ strange[d] \in BOOLEAN

\* The first frame of a stream that has kept its boundaries.
LEMMA HeadSendable ==
  ASSUME NEW d \in Dir, StreamType(d), StreamInv(d), broken[d] = "no", wire[d] # <<>>
  PROVE  Sendable(d, Head(wire[d]), sent[d], last[d], strange[d])
<1>1. Len(wire[d]) > 0 /\ Len(wire[d]) \in Nat /\ Head(wire[d]) = wire[d][1]
  BY TailAt DEF StreamType
<1> QED
  BY <1>1 DEF StreamInv

\* A frame behind all others keeps the order when it has no number, or the
\* largest, and nothing that was there is lost.
LEMMA AppendOrdered ==
  ASSUME NEW q \in Seq(Frame), NEW f \in Frame, Ordered(q),
         f.id # Noise => \A i \in 1 .. Len(q) : q[i].id < f.id
  PROVE  Ordered(Append(q, f))
<1> SUFFICES ASSUME NEW i \in 1 .. Len(Append(q, f)), NEW j \in 1 .. Len(Append(q, f)),
                    i < j, Append(q, f)[i].id # Noise, Append(q, f)[j].id # Noise
             PROVE  Append(q, f)[i].id < Append(q, f)[j].id
  BY DEF Ordered
<1>1. /\ Len(Append(q, f)) = Len(q) + 1
      /\ \A m \in 1 .. Len(q) : Append(q, f)[m] = q[m]
      /\ Append(q, f)[Len(q) + 1] = f
  BY AppendAt
<1>2. Len(q) \in Nat
  OBVIOUS
<1>3. i \in 1 .. Len(q) /\ Append(q, f)[i] = q[i]
  BY <1>1, <1>2
<1>4. CASE j \in 1 .. Len(q)
  BY <1>1, <1>3, <1>4 DEF Ordered
<1>5. CASE j = Len(q) + 1
  BY <1>1, <1>3, <1>5
<1> QED
  BY <1>1, <1>2, <1>4, <1>5

\* The rest of an ordered stream is ordered.
LEMMA TailOrdered ==
  ASSUME NEW q \in Seq(Frame), q # <<>>, Ordered(q)
  PROVE  Ordered(Tail(q))
<1> SUFFICES ASSUME NEW i \in 1 .. Len(Tail(q)), NEW j \in 1 .. Len(Tail(q)),
                    i < j, Tail(q)[i].id # Noise, Tail(q)[j].id # Noise
             PROVE  Tail(q)[i].id < Tail(q)[j].id
  BY DEF Ordered
<1>1. /\ Len(q) \in Nat /\ Len(q) > 0 /\ Len(Tail(q)) = Len(q) - 1
      /\ Tail(q)[i] = q[i + 1] /\ Tail(q)[j] = q[j + 1]
  BY TailAt
<1>2. i + 1 \in 1 .. Len(q) /\ j + 1 \in 1 .. Len(q) /\ i + 1 < j + 1
  BY <1>1
<1> QED
  BY <1>1, <1>2 DEF Ordered

\* A frame more leaves nothing out.
LEMMA AppendComplete ==
  ASSUME NEW q \in Seq(Frame), NEW f \in Frame, NEW s \in Seq(Sizes), NEW l \in Nat,
         Complete(q, s, l)
  PROVE  Complete(Append(q, f), s, l)
<1> SUFFICES ASSUME NEW k \in l + 1 .. Len(s), s[k] # Big
             PROVE  \E i \in 1 .. Len(Append(q, f)) : Append(q, f)[i].id = k
  BY DEF Complete
<1>1. PICK i \in 1 .. Len(q) : q[i].id = k
  BY DEF Complete
<1>2. i \in 1 .. Len(Append(q, f)) /\ Append(q, f)[i] = q[i]
  BY AppendAt
<1> QED
  BY <1>1, <1>2

\* Nor does a frame less that nobody could receive, or that was received.
LEMMA TailComplete ==
  ASSUME NEW q \in Seq(Frame), q # <<>>, NEW s \in Seq(Sizes), NEW l \in Nat, NEW m \in Nat,
         l <= m, Complete(q, s, l),
         \A k \in m + 1 .. Len(s) : Head(q).id = k => s[k] = Big
  PROVE  Complete(Tail(q), s, m)
<1> SUFFICES ASSUME NEW k \in m + 1 .. Len(s), s[k] # Big
             PROVE  \E i \in 1 .. Len(Tail(q)) : Tail(q)[i].id = k
  BY DEF Complete
<1>1. Len(q) \in Nat /\ Len(q) > 0 /\ Len(Tail(q)) = Len(q) - 1 /\ Head(q) = q[1]
  BY TailAt
<1>2. k \in l + 1 .. Len(s)
  OBVIOUS
<1>3. PICK i \in 1 .. Len(q) : q[i].id = k
  BY <1>2 DEF Complete
<1>4. i # 1
  BY <1>1, <1>3
<1>5. i - 1 \in 1 .. Len(Tail(q)) /\ (i - 1) + 1 = i
  BY <1>1, <1>4
<1>6. Tail(q)[i - 1] = q[i]
  BY <1>1, <1>5, TailAt
<1> QED
  BY <1>3, <1>5, <1>6
-----------------------------------------------------------------------------
\* Every step keeps the invariant of a stream.
LEMMA StreamStepInv ==
  ASSUME NEW d \in Dir, StreamType(d), StreamInv(d), StreamStep(d), NewReader(d)
  PROVE  StreamInv(d)'
<1> SUFFICES ASSUME broken'[d] = "no"
             PROVE  /\ \A i \in 1 .. Len(wire'[d]) :
                         Sendable(d, wire'[d][i], sent'[d], last'[d], strange'[d])
                    /\ Ordered(wire'[d])
                    /\ last'[d] <= Len(sent'[d])
                    /\ Heard(d)' => Complete(wire'[d], sent'[d], last'[d])
  BY DEF StreamInv
<1> DEFINE q == wire[d]
           s == sent[d]
           l == last[d]
           fgn == strange[d]
<1>1. q \in Seq(Frame) /\ Len(q) \in Nat /\ s \in Seq(Sizes) /\ l \in Nat /\ fgn \in BOOLEAN
  BY DEF StreamType
<1>2. ASSUME broken[d] = "no"
      PROVE  /\ \A i \in 1 .. Len(q) : Sendable(d, q[i], s, l, fgn)
             /\ Ordered(q)
             /\ l <= Len(s)
             /\ Heard(d) => Complete(q, s, l)
  BY <1>2 DEF StreamInv
<1>3. Heard(d)' => Heard(d) \/ Fresh(d)
  BY DEF NewReader
<1>4. CASE Fresh(d)
  <2>1. wire'[d] = <<>> /\ sent'[d] = <<>> /\ last'[d] = 0
    BY <1>4 DEF Fresh
  <2>2. Len(wire'[d]) = 0 /\ Len(sent'[d]) = 0
    BY <2>1
  <2> QED
    BY <2>1, <2>2 DEF Ordered, Complete
<1> SUFFICES ASSUME Heard(d)' => Heard(d)
             PROVE  /\ \A i \in 1 .. Len(wire'[d]) :
                         Sendable(d, wire'[d][i], sent'[d], last'[d], strange'[d])
                    /\ Ordered(wire'[d])
                    /\ last'[d] <= Len(sent'[d])
                    /\ Heard(d)' => Complete(wire'[d], sent'[d], last'[d])
  BY <1>3, <1>4
<1>5. CASE Same(d)
  <2>1. /\ wire'[d] = q /\ broken'[d] = broken[d] /\ sent'[d] = s /\ last'[d] = l
        /\ strange'[d] = fgn
    BY <1>5 DEF Same, Quiescent
  <2> QED
    BY <1>2, <2>1
<1>6. CASE Puts(d)
  <2>1. PICK f \in Own(d) : wire'[d] = Append(q, f)
    BY <1>6 DEF Puts
  <2>2. broken[d] = "no" /\ sent'[d] = s /\ last'[d] = l /\ strange'[d] = fgn
    BY <1>6 DEF Puts
  <2>3. f \in Frame /\ f.id = Noise /\ Sendable(d, f, s, l, fgn)
    BY OwnType DEF Sendable
  <2>4. ASSUME NEW i \in 1 .. Len(wire'[d])
        PROVE  Sendable(d, wire'[d][i], s, l, fgn)
    <3>1. i \in 1 .. Len(q) \/ i = Len(q) + 1
      BY <1>1, <2>1, <2>3, AppendAt
    <3> QED
      BY <1>1, <1>2, <2>1, <2>2, <2>3, <3>1, AppendAt
  <2>5. Ordered(wire'[d])
    BY <1>1, <1>2, <2>1, <2>2, <2>3, AppendOrdered
  <2>6. Heard(d) => Complete(wire'[d], s, l)
    BY <1>1, <1>2, <2>1, <2>2, <2>3, AppendComplete
  <2> QED
    BY <1>2, <2>2, <2>4, <2>5, <2>6
<1>7. CASE Posts(d)
  <2> DEFINE k == Len(s) + 1
  <2>1. k \in Nat /\ k > 0
    BY <1>1
  <2>2. PICK n \in Sizes : wire'[d] = Append(q, Message(d, n, k)) /\ sent'[d] = Append(s, n)
    BY <1>7 DEF Posts
  <2> DEFINE f == Message(d, n, k)
  <2>3. broken[d] = "no" /\ last'[d] = l /\ strange'[d] = fgn
    BY <1>7 DEF Posts
  <2>4. f \in Frame /\ f.id = k
    BY <2>1, MessageType
  <2>5. Append(s, n) \in Seq(Sizes) /\ Len(Append(s, n)) = k /\ Append(s, n)[k] = n
    BY <1>1, AppendAt
  <2>6. \A i \in 1 .. Len(q) : q[i].id # Noise => q[i].id \in l + 1 .. Len(s)
    BY <1>1, <1>2, <2>3, SendableType
  <2>7. ASSUME NEW i \in 1 .. Len(wire'[d])
        PROVE  Sendable(d, wire'[d][i], Append(s, n), l, fgn)
    <3>1. CASE i \in 1 .. Len(q)
      <4>1. wire'[d][i] = q[i] /\ Sendable(d, q[i], s, l, fgn)
        BY <1>1, <1>2, <2>2, <2>3, <2>4, <3>1, AppendAt
      <4> QED
        BY <1>1, <4>1, StillSendable
    <3>2. CASE i = Len(q) + 1
      <4>1. wire'[d][i] = f
        BY <1>1, <2>2, <2>4, <3>2, AppendAt
      <4>2. CASE k \in l + 1 .. Len(Append(s, n))
        BY <2>4, <2>5, <4>1, <4>2 DEF Sendable
      <4>3. l <= Len(s)
        BY <1>2, <2>3
      <4> QED
        BY <1>1, <2>1, <2>5, <4>2, <4>3
    <3> QED
      BY <1>1, <2>2, <2>4, <3>1, <3>2, AppendAt
  <2>8. Ordered(wire'[d])
    <3>1. \A i \in 1 .. Len(q) : q[i].id # Noise => q[i].id < k
      BY <1>1, <2>6
    <3>2. \A i \in 1 .. Len(q) : q[i] \in Frame
      BY <1>1
    <3>3. \A i \in 1 .. Len(q) : q[i].id < k
      BY <2>1, <3>1 DEF Noise
    <3> QED
      BY <1>1, <1>2, <2>2, <2>3, <2>4, <3>3, AppendOrdered
  <2>9. ASSUME Heard(d)
        PROVE  Complete(wire'[d], Append(s, n), l)
    <3> SUFFICES ASSUME NEW j \in l + 1 .. Len(Append(s, n)), Append(s, n)[j] # Big
                 PROVE  \E i \in 1 .. Len(Append(q, f)) : Append(q, f)[i].id = j
      BY <2>2 DEF Complete
    <3>1. CASE j = k
      <4>1. Len(q) + 1 \in 1 .. Len(Append(q, f)) /\ Append(q, f)[Len(q) + 1] = f
        BY <1>1, <2>4, AppendAt
      <4> QED
        BY <2>4, <3>1, <4>1
    <3>2. CASE j \in l + 1 .. Len(s)
      <4>1. Append(s, n)[j] = s[j]
        BY <1>1, <3>2, AppendAt
      <4>2. Complete(Append(q, f), s, l)
        BY <1>1, <1>2, <2>3, <2>4, <2>9, AppendComplete
      <4> QED
        BY <3>2, <4>1, <4>2 DEF Complete
    <3>3. j = k \/ j \in l + 1 .. Len(s)
      <4>1. j \in l + 1 .. k
        BY <2>5
      <4> QED
        BY <1>1, <4>1
    <3> QED
      BY <3>1, <3>2, <3>3
  <2>10. l <= Len(Append(s, n))
    BY <1>1, <1>2, <2>3, <2>5
  <2> QED
    BY <2>2, <2>3, <2>7, <2>8, <2>9, <2>10
<1>8. CASE Intrudes(d)
  <2>1. PICK f \in StrangeFrames(d) : wire'[d] = Append(q, f)
    BY <1>8 DEF Intrudes
  <2>2. broken[d] = "no" /\ sent'[d] = s /\ last'[d] = l /\ strange'[d] = TRUE
    BY <1>8 DEF Intrudes
  <2>3. f \in Frame /\ f.id = Noise /\ Sendable(d, f, s, l, TRUE)
    BY StrangeType DEF Sendable
  <2>4. ASSUME NEW i \in 1 .. Len(wire'[d])
        PROVE  Sendable(d, wire'[d][i], s, l, TRUE)
    <3>1. CASE i \in 1 .. Len(q)
      <4>1. wire'[d][i] = q[i] /\ Sendable(d, q[i], s, l, fgn)
        BY <1>1, <1>2, <2>1, <2>2, <2>3, <3>1, AppendAt
      <4> QED
        BY <1>1, <4>1, StillSendable
    <3>2. CASE i = Len(q) + 1
      <4>1. wire'[d][i] = f
        BY <1>1, <2>1, <2>3, <3>2, AppendAt
      <4> QED
        BY <2>3, <4>1, Zenon
    <3>3. i \in 1 .. Len(q) \/ i = Len(q) + 1
      BY <1>1, <2>1, <2>3, AppendAt
    <3> QED
      BY <3>1, <3>2, <3>3
  <2>5. Ordered(wire'[d])
    BY <1>1, <1>2, <2>1, <2>2, <2>3, AppendOrdered
  <2>6. Heard(d) => Complete(wire'[d], s, l)
    BY <1>1, <1>2, <2>1, <2>2, <2>3, AppendComplete
  <2> QED
    BY <1>2, <2>2, <2>4, <2>5, <2>6
<1>9. CASE Skips(d)
  <2>1. /\ broken[d] = "no" /\ q # <<>> /\ wire'[d] = Tail(q)
        /\ sent'[d] = s /\ last'[d] = l /\ strange'[d] = fgn
    BY <1>9 DEF Skips, Quiescent
  <2>2. Sendable(d, Head(q), s, l, fgn)
    BY <2>1, HeadSendable
  <2>3. ASSUME NEW i \in 1 .. Len(wire'[d])
        PROVE  Sendable(d, wire'[d][i], s, l, fgn)
    <3>1. i + 1 \in 1 .. Len(q) /\ wire'[d][i] = q[i + 1]
      BY <1>1, <2>1, TailAt
    <3> QED
      BY <1>2, <2>1, <3>1
  <2>4. Ordered(wire'[d])
    BY <1>1, <1>2, <2>1, TailOrdered
  <2>5. ASSUME Heard(d)'
        PROVE  Complete(wire'[d], s, l)
    <3>1. Head(q).id = Noise \/ Head(q).len = Big
      BY <1>9, <2>5 DEF Skips
    <3>2. \A k \in l + 1 .. Len(s) : Head(q).id = k => s[k] = Big
      BY <1>1, <2>2, <3>1, SendableType DEF Noise
    <3> QED
      BY <1>1, <1>2, <2>1, <2>5, <3>2, TailComplete
  <2> QED
    BY <1>2, <2>1, <2>3, <2>4, <2>5
<1>10. CASE Hands(d)
  <2>1. /\ broken[d] = "no" /\ q # <<>> /\ wire'[d] = Tail(q)
        /\ Head(q).id # Noise /\ last'[d] = Head(q).id
        /\ sent'[d] = s /\ strange'[d] = fgn
    BY <1>10 DEF Hands
  <2> DEFINE m == Head(q).id
  <2>2. Sendable(d, Head(q), s, l, fgn)
    BY <2>1, HeadSendable
  <2>3. m \in l + 1 .. Len(s)
    BY <1>1, <2>1, <2>2, SendableType
  <2>4. m \in Nat /\ l <= m
    BY <1>1, <2>3
  <2>5. 1 \in 1 .. Len(q) /\ Head(q) = q[1]
    BY <1>1, <2>1, TailAt
  <2>6. ASSUME NEW i \in 1 .. Len(wire'[d])
        PROVE  Sendable(d, wire'[d][i], s, m, fgn)
    <3>1. i + 1 \in 1 .. Len(q) /\ wire'[d][i] = q[i + 1] /\ 1 < i + 1
      BY <1>1, <2>1, TailAt
    <3>2. Sendable(d, q[i + 1], s, l, fgn)
      BY <1>2, <2>1, <3>1
    <3>3. q[i + 1].id # Noise => m < q[i + 1].id
      BY <1>2, <2>1, <2>5, <3>1 DEF Ordered
    <3> HIDE DEF m, q, s, l, fgn
    <3> QED
      BY <1>1, <2>4, <3>1, <3>2, <3>3, StillSendable
  <2>7. Ordered(wire'[d])
    BY <1>1, <1>2, <2>1, TailOrdered
  <2>8. Complete(wire'[d], s, m)
    <3>1. \A k \in m + 1 .. Len(s) : Head(q).id = k => s[k] = Big
      BY <2>4
    <3>2. Complete(q, s, l)
      BY <1>2, <1>10, <2>1 DEF Hands
    <3> HIDE DEF m
    <3> QED
      BY <1>1, <2>1, <2>4, <3>1, <3>2, TailComplete
  <2> QED
    BY <2>1, <2>3, <2>6, <2>7, <2>8
<1>11. CASE Breaks(d)
  BY <1>11 DEF Breaks
<1>12. CASE Babbles(d)
  BY <1>12 DEF Babbles
<1> QED
  BY <1>4, <1>5, <1>6, <1>7, <1>8, <1>9, <1>10, <1>11, <1>12 DEF StreamStep, Moves
-----------------------------------------------------------------------------
\* What a message handed over on an unbroken stream is: the next that fits.
LEMMA HandsNext ==
  ASSUME NEW d \in Dir, StreamType(d), StreamInv(d), Hands(d)
  PROVE  /\ last'[d] \in last[d] + 1 .. Len(sent[d])
         /\ sent[d][last'[d]] # Big
         /\ \A j \in last[d] + 1 .. last'[d] - 1 : sent[d][j] = Big
<1> DEFINE q == wire[d]
           s == sent[d]
           l == last[d]
           m == Head(q).id
<1>1. q \in Seq(Frame) /\ Len(q) \in Nat /\ s \in Seq(Sizes) /\ l \in Nat
  BY DEF StreamType
<1>2. /\ broken[d] = "no" /\ q # <<>> /\ m # Noise /\ Head(q).len # Big
      /\ last'[d] = m /\ Heard(d)
  BY DEF Hands
<1>3. Ordered(q) /\ Complete(q, s, l)
  BY <1>2 DEF StreamInv
<1>4. m \in l + 1 .. Len(s) /\ Head(q).len = s[m]
  <2>1. Sendable(d, Head(q), s, l, strange[d])
    BY <1>2, HeadSendable
  <2> QED
    BY <1>1, <1>2, <2>1, SendableType DEF StreamType
<1>5. ASSUME NEW j \in l + 1 .. m - 1, s[j] # Big
      PROVE  FALSE
  <2>1. j \in l + 1 .. Len(s) /\ j < m /\ j > 0
    BY <1>1, <1>4
  <2>2. PICK i \in 1 .. Len(q) : q[i].id = j
    BY <1>3, <1>5, <2>1 DEF Complete
  <2>3. 1 \in 1 .. Len(q) /\ Head(q) = q[1]
    BY <1>1, <1>2, TailAt
  <2>4. i # 1
    BY <2>1, <2>2, <2>3
  <2>5. 1 < i
    BY <1>1, <2>4
  <2>6. m < j
    BY <1>2, <1>3, <2>1, <2>2, <2>3, <2>5 DEF Ordered, Noise
  <2> QED
    BY <1>1, <1>4, <2>1, <2>6
<1> QED
  BY <1>2, <1>4, <1>5

\* A step of the stream to the server is a step of the channel, or none.
LEMMA StepToServer ==
  ASSUME StreamType("c2s"), StreamInv("c2s"), StreamStep("c2s")
  PROVE  [ToServer!Next]_(ToServer!vars)
<1> DEFINE d == "c2s"
<1>0. d \in Dir
  BY DEF Dir
<1>1. CASE Same(d)
  <2>1. UNCHANGED ToServer!vars
    BY <1>1 DEF Same, Quiescent, ToServer!vars
  <2> QED
    BY <2>1
<1>2. CASE Fresh(d)
  <2>1. ToServer!Connect
    BY <1>2 DEF Fresh, ToServer!Connect
  <2> QED
    BY <2>1 DEF ToServer!Next
<1>3. CASE Puts(d)
  <2>1. CASE closes'[d] = closes[d]
    <3>1. UNCHANGED ToServer!vars
      BY <1>3, <2>1 DEF Puts, ToServer!vars
    <3> QED
      BY <3>1
  <2>2. CASE closes[d] = 0 /\ closes'[d] = 1
    <3>1. ToServer!Finish
      BY <1>3, <2>2 DEF Puts, ToServer!Finish
    <3> QED
      BY <3>1 DEF ToServer!Next
  <2> QED
    BY <1>3, <2>1, <2>2 DEF Puts
<1>4. CASE Posts(d)
  <2>1. ToServer!Send
    BY <1>4 DEF Posts, Sizes, ToServer!Send
  <2> QED
    BY <2>1 DEF ToServer!Next
<1>5. CASE Intrudes(d)
  <2>1. UNCHANGED ToServer!vars
    BY <1>5 DEF Intrudes, ToServer!vars
  <2> QED
    BY <2>1
<1>6. CASE Skips(d)
  <2>1. UNCHANGED ToServer!vars
    BY <1>6 DEF Skips, Quiescent, ToServer!vars
  <2> QED
    BY <2>1
<1>7. CASE Hands(d)
  <2>1. /\ last'[d] \in last[d] + 1 .. Len(sent[d])
        /\ sent[d][last'[d]] # Big
        /\ \A j \in last[d] + 1 .. last'[d] - 1 : sent[d][j] = Big
    BY <1>0, <1>7, HandsNext
  <2>2. UNCHANGED <<sent[d], closes[d], broken[d] # "no", noise[d]>>
    BY <1>7 DEF Hands
  <2>3. ToServer!Deliver
    BY <2>1, <2>2 DEF ToServer!Deliver
  <2> QED
    BY <2>3 DEF ToServer!Next
<1>8. CASE Breaks(d)
  <2>1. ToServer!Break
    BY <1>8 DEF Breaks, Quiescent, ToServer!Break
  <2> QED
    BY <2>1 DEF ToServer!Next
<1>9. CASE Babbles(d)
  <2>1. CASE closes[d] = 0 /\ closes'[d] = 1 /\ UNCHANGED noise[d]
    <3>1. ToServer!Finish
      BY <1>9, <2>1 DEF Babbles, ToServer!Finish
    <3> QED
      BY <3>1 DEF ToServer!Next
  <2>2. CASE noise'[d] = TRUE /\ UNCHANGED closes[d]
    <3>1. ToServer!Scramble
      BY <1>9, <2>2 DEF Babbles, ToServer!Scramble
    <3> QED
      BY <3>1 DEF ToServer!Next
  <2> QED
    BY <1>9, <2>1, <2>2 DEF Babbles
<1> QED
  BY <1>1, <1>2, <1>3, <1>4, <1>5, <1>6, <1>7, <1>8, <1>9 DEF StreamStep, Moves

\* A step of the stream to the client is a step of the channel, or none.
LEMMA StepToClient ==
  ASSUME StreamType("s2c"), StreamInv("s2c"), StreamStep("s2c")
  PROVE  [ToClient!Next]_(ToClient!vars)
<1> DEFINE d == "s2c"
<1>0. d \in Dir
  BY DEF Dir
<1>1. CASE Same(d)
  <2>1. UNCHANGED ToClient!vars
    BY <1>1 DEF Same, Quiescent, ToClient!vars
  <2> QED
    BY <2>1
<1>2. CASE Fresh(d)
  <2>1. ToClient!Connect
    BY <1>2 DEF Fresh, ToClient!Connect
  <2> QED
    BY <2>1 DEF ToClient!Next
<1>3. CASE Puts(d)
  <2>1. CASE closes'[d] = closes[d]
    <3>1. UNCHANGED ToClient!vars
      BY <1>3, <2>1 DEF Puts, ToClient!vars
    <3> QED
      BY <3>1
  <2>2. CASE closes[d] = 0 /\ closes'[d] = 1
    <3>1. ToClient!Finish
      BY <1>3, <2>2 DEF Puts, ToClient!Finish
    <3> QED
      BY <3>1 DEF ToClient!Next
  <2> QED
    BY <1>3, <2>1, <2>2 DEF Puts
<1>4. CASE Posts(d)
  <2>1. ToClient!Send
    BY <1>4 DEF Posts, Sizes, ToClient!Send
  <2> QED
    BY <2>1 DEF ToClient!Next
<1>5. CASE Intrudes(d)
  <2>1. UNCHANGED ToClient!vars
    BY <1>5 DEF Intrudes, ToClient!vars
  <2> QED
    BY <2>1
<1>6. CASE Skips(d)
  <2>1. UNCHANGED ToClient!vars
    BY <1>6 DEF Skips, Quiescent, ToClient!vars
  <2> QED
    BY <2>1
<1>7. CASE Hands(d)
  <2>1. /\ last'[d] \in last[d] + 1 .. Len(sent[d])
        /\ sent[d][last'[d]] # Big
        /\ \A j \in last[d] + 1 .. last'[d] - 1 : sent[d][j] = Big
    BY <1>0, <1>7, HandsNext
  <2>2. UNCHANGED <<sent[d], closes[d], broken[d] # "no", noise[d]>>
    BY <1>7 DEF Hands
  <2>3. ToClient!Deliver
    BY <2>1, <2>2 DEF ToClient!Deliver
  <2> QED
    BY <2>3 DEF ToClient!Next
<1>8. CASE Breaks(d)
  <2>1. ToClient!Break
    BY <1>8 DEF Breaks, Quiescent, ToClient!Break
  <2> QED
    BY <2>1 DEF ToClient!Next
<1>9. CASE Babbles(d)
  <2>1. CASE closes[d] = 0 /\ closes'[d] = 1 /\ UNCHANGED noise[d]
    <3>1. ToClient!Finish
      BY <1>9, <2>1 DEF Babbles, ToClient!Finish
    <3> QED
      BY <3>1 DEF ToClient!Next
  <2>2. CASE noise'[d] = TRUE /\ UNCHANGED closes[d]
    <3>1. ToClient!Scramble
      BY <1>9, <2>2 DEF Babbles, ToClient!Scramble
    <3> QED
      BY <3>1 DEF ToClient!Next
  <2> QED
    BY <1>9, <2>1, <2>2 DEF Babbles
<1> QED
  BY <1>1, <1>2, <1>3, <1>4, <1>5, <1>6, <1>7, <1>8, <1>9 DEF StreamStep, Moves

-----------------------------------------------------------------------------
(* The parts of the state, and how ws_send_frame and the readers change it. *)

StreamsType ==
  /\ wire \in [Dir -> Seq(Frame)]
  /\ broken \in [Dir -> {"no", "cut", "skew"}]
  /\ sent \in [Dir -> Seq(Sizes)]
  /\ last \in [Dir -> Nat]
  /\ closes \in [Dir -> Nat]
  /\ noise \in [Dir -> BOOLEAN]
  /\ strange \in [Dir -> BOOLEAN]

ClientPlaces ==
  {"none", "idle", "request", "response", "user", "recv", "failed", "closing"}
ClientState ==
  [pc : ClientPlaces, open : BOOLEAN, handshake_ok : BOOLEAN,
   sock : {"none", "created", "connected"}, over : BOOLEAN]
ServerPlaces == {"listen", "handshake", "serve", "recv", "close"}
ServerState == [pc : ServerPlaces, open : BOOLEAN]

EndsType ==
  /\ link \in {"down", "dialled", "up", "ended"}
  /\ accused \subseteq Dir
  /\ cli \in ClientState
  /\ srv \in ServerState
  /\ cli.open => cli.sock = "connected"
  /\ link \in {"up", "ended"} <=> srv.pc # "listen"

\* The types are those of the streams and those of the ends.
LEMMA TypeParts == TypeOK <=> StreamsType /\ EndsType
<1>1. (link \in {"up", "ended"}) = (srv.pc # "listen")
        <=> (link \in {"up", "ended"} <=> srv.pc # "listen")
  OBVIOUS
<1> QED
  BY <1>1, Zenon DEF TypeOK, StreamsType, EndsType, Sizes, ClientState, ClientPlaces,
                        ServerState, ServerPlaces

\* What holds of all streams holds of one.
LEMMA OneStream ==
  ASSUME StreamsType, NEW d \in Dir
  PROVE  StreamType(d)
BY DEF StreamsType, StreamType

\* Bytes are modelled by a frame.
LEMMA BytesType ==
  ASSUME NEW d \in Dir
  PROVE  Bytes(d) \in Frame
BY DEF Bytes, F, Frame, Ops, Empty, Big, Noise

\* Bytes take the place of the frames of a stream.
LEMMA BlurredType ==
  ASSUME NEW d \in Dir, NEW q \in Seq(Frame)
  PROVE  Blurred(d, q) \in Seq(Frame)
<1>1. Bytes(d) \in Frame
  BY BytesType
<1>2. Blurred(d, q) = [i \in 1 .. Len(q) |-> Bytes(d)] /\ Len(q) \in Nat
  BY DEF Blurred
<1> QED
  BY <1>1, <1>2

\* A whole frame goes to the end of its stream; the other stream is as w has it.
LEMMA WholeType ==
  ASSUME StreamsType, NEW d \in Dir, NEW w \in [Dir -> Seq(Frame)], NEW f \in Frame,
         Whole(w, d, f)
  PROVE  /\ wire' \in [Dir -> Seq(Frame)]
         /\ closes' \in [Dir -> Nat]
         /\ broken' = broken
         /\ wire'[d] = Append(w[d], IF broken[d] = "no" THEN f ELSE Bytes(d))
         /\ closes'[d] = IF f.op = "CLOSE" THEN closes[d] + 1 ELSE closes[d]
         /\ \A e \in Dir \ {d} : wire'[e] = w[e] /\ closes'[e] = closes[e]
<1> DEFINE g == IF broken[d] = "no" THEN f ELSE Bytes(d)
           c == IF f.op = "CLOSE" THEN closes[d] + 1 ELSE closes[d]
<1>1. g \in Frame
  BY BytesType
<1>2. Append(w[d], g) \in Seq(Frame)
  BY <1>1
<1>3. wire' = [w EXCEPT ![d] = Append(w[d], g)]
  BY DEF Whole
<1>4. closes \in [Dir -> Nat] /\ c \in Nat
  BY DEF StreamsType
<1>5. closes' = [closes EXCEPT ![d] = c] /\ broken' = broken
  BY DEF Whole
<1> HIDE DEF g, c
<1>6. wire' \in [Dir -> Seq(Frame)] /\ wire'[d] = Append(w[d], g)
      /\ \A e \in Dir \ {d} : wire'[e] = w[e]
  BY <1>2, <1>3
<1>7. closes' \in [Dir -> Nat] /\ closes'[d] = c
      /\ \A e \in Dir \ {d} : closes'[e] = closes[e]
  BY <1>4, <1>5
<1> QED
  BY <1>5, <1>6, <1>7 DEF g, c

\* A stream that loses its boundaries keeps its reason if it had one.
LEMMA BrokenType ==
  ASSUME StreamsType, NEW d \in Dir, NEW why \in {"cut", "skew"}, Broken(d, why)
  PROVE  /\ broken' \in [Dir -> {"no", "cut", "skew"}]
         /\ broken'[d] \in {"cut", "skew"}
         /\ broken'[d] \in {broken[d], why}
         /\ \A e \in Dir \ {d} : broken'[e] = broken[e]
BY DEF StreamsType, Broken

\* A frame cut short turns its stream into bytes.
LEMMA CutType ==
  ASSUME StreamsType, NEW d \in Dir, NEW w \in [Dir -> Seq(Frame)], Cut(w, d)
  PROVE  /\ wire' \in [Dir -> Seq(Frame)]
         /\ broken' \in [Dir -> {"no", "cut", "skew"}]
         /\ closes' = closes
         /\ broken'[d] \in {"cut", "skew"}
         /\ broken'[d] \in {broken[d], "cut"}
         /\ \A e \in Dir \ {d} : wire'[e] = w[e] /\ broken'[e] = broken[e]
<1>1. Broken(d, "cut") /\ closes' = closes
  BY DEF Cut
<1> DEFINE q == Blurred(d, Append(w[d], Bytes(d)))
<1>2. q \in Seq(Frame)
  <2>1. Append(w[d], Bytes(d)) \in Seq(Frame)
    BY BytesType
  <2> QED
    BY <2>1, BlurredType
<1>3. wire' = [w EXCEPT ![d] = q]
  BY DEF Cut
<1> HIDE DEF q
<1>4. wire' \in [Dir -> Seq(Frame)] /\ \A e \in Dir \ {d} : wire'[e] = w[e]
  BY <1>2, <1>3
<1> QED
  BY <1>1, <1>4, BrokenType

\* So does a reader that stops inside a frame.
LEMMA SkewType ==
  ASSUME StreamsType, NEW d \in Dir, NEW w \in [Dir -> Seq(Frame)], Skew(w, d)
  PROVE  /\ wire' \in [Dir -> Seq(Frame)]
         /\ broken' \in [Dir -> {"no", "cut", "skew"}]
         /\ broken'[d] \in {"cut", "skew"}
         /\ \A e \in Dir \ {d} : wire'[e] = w[e] /\ broken'[e] = broken[e]
<1>1. Broken(d, "skew")
  BY DEF Skew
<1> DEFINE q == Blurred(d, w[d])
<1>2. q \in Seq(Frame)
  BY BlurredType
<1>3. wire' = [w EXCEPT ![d] = q]
  BY DEF Skew
<1> HIDE DEF q
<1>4. wire' \in [Dir -> Seq(Frame)] /\ \A e \in Dir \ {d} : wire'[e] = w[e]
  BY <1>2, <1>3
<1> QED
  BY <1>1, <1>4, BrokenType

\* ws_send_frame moves its stream, and no other.  The CLOSE it may send is the
\* first.
LEMMA SendFrame ==
  ASSUME StreamsType, NEW d \in Dir, NEW w \in [Dir -> Seq(Frame)], w[d] = wire[d],
         NEW f \in Own(d), f.op = "CLOSE" => closes[d] = 0,
         ws_send_frame(w, d, f),
         UNCHANGED <<sent[d], last[d], noise[d], strange[d]>>
  PROVE  /\ wire' \in [Dir -> Seq(Frame)]
         /\ broken' \in [Dir -> {"no", "cut", "skew"}]
         /\ closes' \in [Dir -> Nat]
         /\ Moves(d)
         /\ broken'[d] \in {broken[d], "cut"}
         /\ f.op # "CLOSE" => closes'[d] = closes[d]
         /\ \A e \in Dir \ {d} :
              wire'[e] = w[e] /\ broken'[e] = broken[e] /\ closes'[e] = closes[e]
<1>1. CASE Whole(w, d, f)
  <2>1. /\ f \in Frame
        /\ broken \in [Dir -> {"no", "cut", "skew"}]
    BY OwnType DEF StreamsType
  <2>2. /\ wire' \in [Dir -> Seq(Frame)]
        /\ closes' \in [Dir -> Nat]
        /\ broken' = broken
        /\ wire'[d] = Append(w[d], IF broken[d] = "no" THEN f ELSE Bytes(d))
        /\ closes'[d] = IF f.op = "CLOSE" THEN closes[d] + 1 ELSE closes[d]
        /\ \A e \in Dir \ {d} : wire'[e] = w[e] /\ closes'[e] = closes[e]
    BY <1>1, <2>1, WholeType
  <2>3. CASE broken[d] = "no"
    <3>1. Puts(d)
      BY <2>2, <2>3 DEF Puts
    <3> QED
      BY <2>1, <2>2, <3>1 DEF Moves
  <2>4. CASE broken[d] # "no"
    <3>1. wire'[d] \in Seq(Frame)
      BY <2>2, Zenon
    <3>2. CASE f.op = "CLOSE"
      <4>1. Babbles(d)
        BY <2>2, <2>4, <3>1, <3>2 DEF Babbles
      <4> QED
        BY <2>1, <2>2, <4>1, <3>2 DEF Moves
    <3>3. CASE f.op # "CLOSE"
      <4>1. Breaks(d)
        BY <2>1, <2>2, <2>4, <3>1, <3>3 DEF Breaks, Quiescent
      <4> QED
        BY <2>1, <2>2, <4>1 DEF Moves
    <3> QED
      BY <3>2, <3>3
  <2> QED
    BY <2>3, <2>4
<1>2. CASE NotSent(w)
  <2>1. Same(d)
    BY <1>2 DEF NotSent, Same, Quiescent
  <2> QED
    BY <1>2, <2>1 DEF NotSent, Moves, StreamsType
<1>3. CASE Cut(w, d)
  <2>1. /\ wire' \in [Dir -> Seq(Frame)]
        /\ broken' \in [Dir -> {"no", "cut", "skew"}]
        /\ closes' = closes
        /\ broken'[d] \in {"cut", "skew"}
        /\ broken'[d] \in {broken[d], "cut"}
        /\ \A e \in Dir \ {d} : wire'[e] = w[e] /\ broken'[e] = broken[e]
    BY <1>3, CutType
  <2>2. Breaks(d)
    BY <2>1 DEF Breaks, Quiescent
  <2>3. closes' \in [Dir -> Nat]
    BY <2>1 DEF StreamsType
  <2> QED
    BY <2>1, <2>2, <2>3 DEF Moves
<1> QED
  BY <1>1, <1>2, <1>3 DEF ws_send_frame

\* The rest of a stream whose first frame is taken.
LEMMA RestType ==
  ASSUME StreamsType, NEW d \in Dir, wire[d] # <<>>
  PROVE  /\ Rest(d) \in [Dir -> Seq(Frame)]
         /\ Rest(d)[d] = Tail(wire[d])
         /\ \A e \in Dir \ {d} : Rest(d)[e] = wire[e]
<1>1. Tail(wire[d]) \in Seq(Frame) /\ wire \in [Dir -> Seq(Frame)]
  BY TailAt DEF StreamsType
<1> QED
  BY <1>1 DEF Rest

\* What a reader sees first.
LEMMA ArrivingType ==
  ASSUME StreamsType, NEW d \in Dir, StreamInv(d), NEW f \in Arriving(d)
  PROVE  /\ wire[d] # <<>>
         /\ f \in Frame
         /\ broken[d] = "no" =>
              f = Head(wire[d]) /\ Sendable(d, f, sent[d], last[d], strange[d])
         /\ broken[d] # "no" => f.id = Noise
<1>1. wire[d] # <<>>
  BY DEF Arriving
<1>2. CASE broken[d] = "no"
  <2>1. f = Head(wire[d])
    BY <1>1, <1>2 DEF Arriving
  <2>2. Sendable(d, f, sent[d], last[d], strange[d])
    BY <1>1, <1>2, <2>1, HeadSendable, OneStream
  <2> QED
    BY <1>1, <1>2, <2>1, <2>2, SendableType DEF StreamsType
<1>3. CASE broken[d] # "no"
  <2>1. f \in {F(d, op, Fits) : op \in Ops \ {"PONG"}} \union {F(d, "DATA", Big)}
    BY <1>1, <1>3 DEF Arriving
  <2>2. /\ Fits \in Empty .. Big /\ Big \in Empty .. Big
        /\ "DATA" \in Ops /\ Ops \ {"PONG"} \subseteq Ops \union Http /\ Noise \in Nat
    BY DEF Fits, Empty, Big, Ops, Noise
  <2>3. PICK op \in Ops \union Http, n \in Empty .. Big : f = F(d, op, n)
    BY <2>1, <2>2
  <2>4. f \in Frame
    BY <2>2, <2>3, FrameType
  <2>5. f.id = Noise
    BY <2>3 DEF F
  <2> QED
    BY <1>1, <1>3, <2>4, <2>5
<1> QED
  BY <1>2, <1>3

\* A frame that is taken and not delivered.
LEMMA Skipped ==
  ASSUME StreamsType, NEW d \in Dir, wire[d] # <<>>,
         broken[d] = "no" =>
           Head(wire[d]).id = Noise \/ Head(wire[d]).len = Big \/ ~Heard(d)',
         wire'[d] = Tail(wire[d]), broken'[d] = broken[d], Quiescent(d)
  PROVE  Moves(d)
<1>1. CASE broken[d] = "no"
  <2>1. Skips(d)
    BY <1>1 DEF Skips
  <2> QED
    BY <2>1 DEF Moves
<1>2. CASE broken[d] # "no"
  <2>1. Tail(wire[d]) \in Seq(Frame) /\ broken[d] \in {"no", "cut", "skew"}
    BY TailAt DEF StreamsType
  <2>2. Breaks(d)
    BY <1>2, <2>1 DEF Breaks
  <2> QED
    BY <2>2 DEF Moves
<1> QED
  BY <1>1, <1>2

\* A message that is taken and delivered.
LEMMA Received ==
  ASSUME StreamsType, NEW d \in Dir, StreamInv(d), Heard(d), NEW f \in Arriving(d),
         f.op = "DATA", f.len # Big, f.plain, f.masked <=> d = "c2s",
         Delivered(d, f),
         wire'[d] = Tail(wire[d]), broken'[d] = broken[d],
         UNCHANGED <<sent[d], closes[d], strange[d]>>
  PROVE  /\ Moves(d)
         /\ last' \in [Dir -> Nat]
         /\ noise' \in [Dir -> BOOLEAN]
         /\ \A e \in Dir \ {d} : UNCHANGED <<last[e], noise[e]>>
<1>1. /\ wire[d] # <<>>
      /\ f \in Frame
      /\ broken[d] = "no" =>
           f = Head(wire[d]) /\ Sendable(d, f, sent[d], last[d], strange[d])
      /\ broken[d] # "no" => f.id = Noise
  BY ArrivingType
<1>2. /\ last \in [Dir -> Nat] /\ noise \in [Dir -> BOOLEAN] /\ f.id \in Nat
      /\ sent[d] \in Seq(Sizes) /\ last[d] \in Nat /\ strange[d] \in BOOLEAN
      /\ noise[d] \in BOOLEAN
  BY <1>1 DEF StreamsType, Frame
<1>3. /\ last' \in [Dir -> Nat]
      /\ last'[d] = IF f.id = Noise THEN last[d] ELSE f.id
      /\ \A e \in Dir \ {d} : last'[e] = last[e]
  BY <1>2 DEF Delivered
<1>4. noise' = [noise EXCEPT ![d] = noise[d] \/ f.id <= last[d]]
  BY DEF Delivered
<1>5. /\ noise' \in [Dir -> BOOLEAN]
      /\ noise'[d] = (noise[d] \/ f.id <= last[d])
      /\ \A e \in Dir \ {d} : noise'[e] = noise[e]
  BY <1>2, <1>4
<1>6. CASE broken[d] = "no"
  <2>1. f.id # Noise /\ f.id \in last[d] + 1 .. Len(sent[d])
    BY <1>1, <1>2, <1>6, SendableType
  <2>2. ~(f.id <= last[d])
    BY <1>2, <2>1
  <2>3. noise'[d] = noise[d]
    BY <1>2, <1>5, <2>2, Zenon
  <2>4. Hands(d)
    BY <1>1, <1>3, <1>6, <2>1, <2>3 DEF Hands
  <2> QED
    BY <1>3, <1>5, <2>4 DEF Moves
<1>7. CASE broken[d] # "no"
  <2>1. f.id = Noise /\ f.id <= last[d] /\ last'[d] = last[d]
    BY <1>1, <1>2, <1>3, <1>7 DEF Noise
  <2>2. noise'[d] = TRUE
    BY <1>5, <2>1, Zenon
  <2>3. Tail(wire[d]) \in Seq(Frame)
    BY <1>1, TailAt DEF StreamsType
  <2>4. Babbles(d)
    BY <1>7, <2>1, <2>2, <2>3 DEF Babbles
  <2> QED
    BY <1>3, <1>5, <2>4 DEF Moves
<1> QED
  BY <1>6, <1>7
-----------------------------------------------------------------------------
(* The two ends.                                                            *)

\* What IInv says of the ends, stream by stream.
EndsNow ==
  /\ EndsType
  /\ cli.pc = "recv" => cli.open
  /\ srv.pc = "recv" => srv.open
  /\ cli.open /\ cli.pc # "closing" => closes["c2s"] = 0
  /\ link = "dialled" \/ srv.pc = "handshake" \/ srv.open => closes["s2c"] = 0

\* What a step that keeps the connection leaves of that, and what it may add.
EndsStep ==
  /\ EndsNow'
  /\ cli'.open /\ cli'.pc # "closing" => cli.open /\ cli.pc # "closing"
  /\ accused' \subseteq accused \union {d \in Dir : strange[d] \/ broken[d] # "no"}

StepInv ==
  /\ StreamsType'
  /\ EndsNow'
  /\ HonestPeersAgree'
  /\ \A d \in Dir : StreamStep(d) /\ NewReader(d)

\* There are two streams.
LEMMA TwoStreams == Dir = {"c2s", "s2c"} /\ "c2s" \in Dir /\ "s2c" \in Dir
BY DEF Dir

\* The invariant, taken apart.
LEMMA InvParts ==
  IInv <=> /\ StreamsType
           /\ EndsNow
           /\ HonestPeersAgree
           /\ \A d \in Dir : StreamInv(d)
<1>1. (\A d \in Dir : Speaks(d) => closes[d] = 0)
        <=> /\ cli.open /\ cli.pc # "closing" => closes["c2s"] = 0
            /\ link = "dialled" \/ srv.pc = "handshake" \/ srv.open => closes["s2c"] = 0
  BY TwoStreams DEF Speaks
<1> QED
  BY <1>1, TypeParts, Zenon DEF IInv, EndsInv, EndsNow

\* A stream never gets its boundaries back, and never forgets a strange frame.
LEMMA MoveKeeps ==
  ASSUME NEW d \in Dir, Moves(d)
  PROVE  /\ broken[d] # "no" => broken'[d] # "no"
         /\ strange[d] => strange'[d]
<1>1. broken[d] # "no" => broken'[d] # "no"
  BY DEF Moves, Same, Puts, Posts, Intrudes, Skips, Hands, Breaks, Babbles
<1>2. strange'[d] = strange[d] \/ strange'[d] = TRUE
  BY DEF Moves, Same, Quiescent, Puts, Posts, Intrudes, Skips, Hands, Breaks, Babbles
<1> QED
  BY <1>1, <1>2, Zenon

\* Moves of the streams and a step of the ends make a step.
LEMMA Together ==
  ASSUME HonestPeersAgree, StreamsType', \A d \in Dir : Moves(d), EndsStep
  PROVE  StepInv
<1>1. HonestPeersAgree'
  <2> SUFFICES ASSUME NEW d \in accused', ~strange'[d]
               PROVE  broken'[d] # "no"
    BY DEF HonestPeersAgree
  <2>1. accused' \subseteq Dir
    BY DEF EndsStep, EndsNow, EndsType
  <2>2. strange[d] \/ broken[d] # "no"
    BY DEF EndsStep, HonestPeersAgree
  <2> QED
    BY <2>1, <2>2, MoveKeeps
<1>2. \A d \in Dir : StreamStep(d)
  BY DEF StreamStep
<1>3. \A d \in Dir : NewReader(d)
  BY DEF NewReader, Heard, EndsStep
<1> QED
  BY <1>1, <1>2, <1>3 DEF StepInv, EndsStep

\* A step that leaves both streams alone.
LEMMA NoStream ==
  ASSUME StreamsType, UNCHANGED <<wire, broken, history>>
  PROVE  /\ StreamsType'
         /\ \A d \in Dir : Moves(d)
         /\ closes' = closes /\ broken' = broken /\ accused' = accused
<1>1. StreamsType'
  BY DEF StreamsType, history
<1>2. \A d \in Dir : Same(d)
  BY DEF Same, Quiescent, history
<1> QED
  BY <1>1, <1>2 DEF Moves, history

\* The client goes to another place.
LEMMA ToType ==
  ASSUME cli \in ClientState, NEW pc \in ClientPlaces, To(pc)
  PROVE  /\ cli' \in ClientState
         /\ cli'.pc = pc
         /\ cli'.open = cli.open
         /\ cli'.sock = cli.sock
BY DEF ClientState, To

\* ws_client_recv returns.
LEMMA ReturnsType ==
  ASSUME cli \in ClientState, NEW open \in BOOLEAN, Returns(open)
  PROVE  /\ cli' \in ClientState
         /\ cli'.pc = "user"
         /\ cli'.open = open
         /\ cli'.sock = cli.sock
BY DEF ClientState, ClientPlaces, Returns

\* There is no client structure.
LEMMA NoClientType ==
  /\ NoClient \in ClientState
  /\ NoClient.pc = "none"
  /\ ~NoClient.open
BY DEF ClientState, ClientPlaces, NoClient

\* The server goes to another place.
LEMMA AtType ==
  ASSUME srv \in ServerState, NEW pc \in ServerPlaces, At(pc)
  PROVE  /\ srv' \in ServerState
         /\ srv'.pc = pc
         /\ srv'.open = srv.open
BY DEF ServerState, At

\* The session of the server is over.
LEMMA EndsTypeAfter ==
  ASSUME srv \in ServerState, Ends
  PROVE  /\ srv' \in ServerState
         /\ srv'.pc = "close"
         /\ ~srv'.open
BY DEF ServerState, ServerPlaces, Ends

\* An end of the connection leaves it to the server as long as that holds it.
LEMMA EndedType ==
  ASSUME EndsType, link' = Ended
  PROVE  /\ link' \in {"down", "dialled", "up", "ended"}
         /\ link' \in {"up", "ended"} <=> link \in {"up", "ended"}
         /\ link' # "dialled"
BY DEF EndsType, Ended
-----------------------------------------------------------------------------
(* The actions.                                                             *)

\* ws_client_create, ws_client_recv begun or failed, the request unanswered,
\* a client freed: the streams do not change.
LEMMA ClientAlone ==
  ASSUME IInv, UNCHANGED srv,
         \/ ws_client_create \/ ClientNotUpgraded \/ ClientCallsRecv
         \/ ClientReadFails \/ ClientForgets
  PROVE  StepInv
<1>1. StreamsType /\ EndsNow /\ HonestPeersAgree
  BY InvParts
<1>2. UNCHANGED wireVars
  BY DEF ws_client_create, ClientNotUpgraded, ClientCallsRecv, ClientReadFails,
         ClientForgets
<1>3. /\ StreamsType' /\ (\A d \in Dir : Moves(d))
      /\ closes' = closes /\ broken' = broken /\ accused' = accused
  BY <1>1, <1>2, NoStream DEF wireVars
<1>4. cli \in ClientState
  BY <1>1 DEF EndsNow, EndsType
<1>5. /\ cli' \in ClientState
      /\ cli'.open => cli'.sock = "connected"
      /\ cli'.pc = "recv" => cli'.open
      /\ cli'.open /\ cli'.pc # "closing" => cli.open /\ cli.pc # "closing"
  <2>1. CASE ws_client_create
    <3>1. cli' = [pc |-> "idle", open |-> FALSE, handshake_ok |-> FALSE,
                  sock |-> "created", over |-> FALSE]
      BY <2>1 DEF ws_client_create, NoClient
    <3> QED
      BY <3>1 DEF ClientState, ClientPlaces
  <2>2. CASE ClientNotUpgraded
    <3>1. cli.pc = "response" /\ To("failed")
      BY <2>2 DEF ClientNotUpgraded
    <3> QED
      BY <1>1, <1>4, <3>1, ToType DEF ClientPlaces, EndsNow, EndsType
  <2>3. CASE ClientCallsRecv
    <3>1. cli.pc = "user" /\ cli.open /\ To("recv")
      BY <2>3 DEF ClientCallsRecv, ws_client_is_open
    <3> QED
      BY <1>1, <1>4, <3>1, ToType DEF ClientPlaces, EndsNow, EndsType
  <2>4. CASE ClientReadFails
    <3>1. cli.pc = "recv" /\ Returns(TRUE)
      BY <2>4 DEF ClientReadFails
    <3> QED
      BY <1>1, <1>4, <3>1, ReturnsType DEF EndsNow, EndsType
  <2>5. CASE ClientForgets
    <3>1. cli' = NoClient
      BY <2>5 DEF ClientForgets
    <3> QED
      BY <3>1, NoClientType
  <2> QED
    BY <2>1, <2>2, <2>3, <2>4, <2>5
<1>6. EndsStep
  BY <1>1, <1>2, <1>3, <1>5 DEF EndsStep, EndsNow, EndsType, wireVars
<1> QED
  BY <1>1, <1>3, <1>6, Together

\* The streams of a new connection are empty.
LEMMA ClientDialsStep ==
  ASSUME IInv, ClientDials, UNCHANGED srv
  PROVE  StepInv
<1>1. StreamsType /\ EndsNow
  BY InvParts
<1>2. /\ cli.pc = "idle"
      /\ link = "down" /\ link' = "dialled"
      /\ wire' = [d \in Dir |-> <<>>]
      /\ broken' = [d \in Dir |-> "no"]
      /\ sent' = [d \in Dir |-> <<>>]
      /\ last' = [d \in Dir |-> 0]
      /\ closes' = [d \in Dir |-> 0]
      /\ noise' = [d \in Dir |-> FALSE]
      /\ strange' = [d \in Dir |-> FALSE]
      /\ accused' = {}
      /\ cli' = [cli EXCEPT !.pc = "request", !.open = TRUE, !.sock = "connected"]
  BY DEF ClientDials, Dialled
<1>3. \A d \in Dir : Fresh(d)
  BY <1>2, Zenon DEF Fresh
<1>4. StreamsType'
  <2>1. <<>> \in Seq(Frame) /\ <<>> \in Seq(Sizes) /\ 0 \in Nat
    OBVIOUS
  <2> QED
    BY <1>2, <2>1 DEF StreamsType
<1>5. /\ cli' \in ClientState
      /\ cli'.pc = "request" /\ cli'.open /\ cli'.sock = "connected"
  BY <1>1, <1>2 DEF EndsNow, EndsType, ClientState, ClientPlaces
<1>6. EndsNow'
  <2>1. EndsType'
    BY <1>1, <1>2, <1>5 DEF EndsNow, EndsType
  <2>2. closes'["c2s"] = 0 /\ closes'["s2c"] = 0 /\ broken'["c2s"] = "no"
    BY <1>2, TwoStreams
  <2> QED
    BY <1>1, <1>5, <2>1, <2>2 DEF EndsNow
<1> QED
  BY <1>2, <1>3, <1>4, <1>6 DEF StepInv, StreamStep, NewReader, HonestPeersAgree

\* ws_send_frame on one stream when at most the first frame of the other was
\* taken.
LEMMA Sends ==
  ASSUME StreamsType, NEW d \in Dir, NEW w \in [Dir -> Seq(Frame)], w[d] = wire[d],
         \A e \in Dir \ {d} :
           \/ w[e] = wire[e]
           \/ /\ wire[e] # <<>>
              /\ w[e] = Tail(wire[e])
              /\ broken[e] = "no" => \/ Head(wire[e]).id = Noise
                                     \/ Head(wire[e]).len = Big
                                     \/ ~Heard(e)',
         NEW f \in Own(d), f.op = "CLOSE" => closes[d] = 0,
         ws_send_frame(w, d, f), UNCHANGED <<sent, last, noise, strange>>
  PROVE  /\ StreamsType'
         /\ \A e \in Dir : Moves(e)
         /\ \A e \in Dir \ {d} : closes'[e] = closes[e]
         /\ f.op # "CLOSE" => closes' = closes
<1>1. closes \in [Dir -> Nat]
  BY DEF StreamsType
<1>2. /\ wire' \in [Dir -> Seq(Frame)]
      /\ broken' \in [Dir -> {"no", "cut", "skew"}]
      /\ closes' \in [Dir -> Nat]
      /\ Moves(d)
      /\ broken'[d] \in {broken[d], "cut"}
      /\ f.op # "CLOSE" => closes'[d] = closes[d]
      /\ \A e \in Dir \ {d} :
           wire'[e] = w[e] /\ broken'[e] = broken[e] /\ closes'[e] = closes[e]
  BY SendFrame
<1>3. StreamsType'
  BY <1>2 DEF StreamsType
<1>4. ASSUME NEW e \in Dir \ {d}
      PROVE  Moves(e)
  <2>1. Quiescent(e)
    BY <1>2 DEF Quiescent
  <2>2. CASE w[e] = wire[e]
    BY <1>2, <2>1, <2>2 DEF Moves, Same
  <2>3. CASE /\ wire[e] # <<>>
             /\ w[e] = Tail(wire[e])
             /\ broken[e] = "no" => \/ Head(wire[e]).id = Noise
                                    \/ Head(wire[e]).len = Big
                                    \/ ~Heard(e)'
    BY <1>2, <2>1, <2>3, Skipped
  <2> QED
    BY <2>2, <2>3
<1>5. ASSUME f.op # "CLOSE"
      PROVE  closes' = closes
  <2>1. \A e \in Dir : closes'[e] = closes[e]
    BY <1>2, <1>5
  <2> QED
    BY <1>1, <1>2, <2>1
<1> QED
  BY <1>2, <1>3, <1>4, <1>5

\* One stream read, the other left alone.
LEMMA TakesOne ==
  ASSUME StreamsType, NEW d \in Dir, wire[d] # <<>>,
         broken[d] = "no" =>
           Head(wire[d]).id = Noise \/ Head(wire[d]).len = Big \/ ~Heard(d)',
         wire' = Rest(d), UNCHANGED <<broken, sent, last, closes, noise, strange>>
  PROVE  StreamsType' /\ \A e \in Dir : Moves(e)
<1>1. /\ Rest(d) \in [Dir -> Seq(Frame)]
      /\ Rest(d)[d] = Tail(wire[d])
      /\ \A e \in Dir \ {d} : Rest(d)[e] = wire[e]
  BY RestType
<1>2. StreamsType'
  BY <1>1 DEF StreamsType
<1>3. \A e \in Dir : Quiescent(e)
  BY DEF Quiescent
<1>4. Moves(d)
  BY <1>1, <1>3, Skipped
<1>5. \A e \in Dir \ {d} : Same(e)
  BY <1>1, <1>3 DEF Same
<1> QED
  BY <1>2, <1>4, <1>5 DEF Moves

\* A reader stops inside a frame, maybe after it has read another.
LEMMA Skews ==
  ASSUME StreamsType, NEW d \in Dir, NEW w \in [Dir -> Seq(Frame)],
         \A e \in Dir \ {d} : w[e] = wire[e],
         Skew(w, d), UNCHANGED <<sent, last, closes, noise, strange>>
  PROVE  /\ StreamsType'
         /\ \A e \in Dir : Moves(e)
         /\ \A e \in Dir \ {d} : broken'[e] = broken[e]
<1>1. /\ wire' \in [Dir -> Seq(Frame)]
      /\ broken' \in [Dir -> {"no", "cut", "skew"}]
      /\ broken'[d] \in {"cut", "skew"}
      /\ \A e \in Dir \ {d} : wire'[e] = w[e] /\ broken'[e] = broken[e]
  BY SkewType
<1>2. StreamsType'
  BY <1>1 DEF StreamsType
<1>3. \A e \in Dir : Quiescent(e)
  BY DEF Quiescent
<1>4. Breaks(d)
  BY <1>1, <1>3 DEF Breaks
<1>5. \A e \in Dir \ {d} : Same(e)
  BY <1>1, <1>3 DEF Same
<1> QED
  BY <1>1, <1>2, <1>4, <1>5 DEF Moves

\* SendData, SendControl: a message, a ping, a pong, or a part of one.
LEMMA UserSends ==
  ASSUME StreamsType, NEW d \in Dir, closes[d] = 0, SendData(d) \/ SendControl(d)
  PROVE  /\ StreamsType'
         /\ \A e \in Dir : Moves(e)
         /\ closes' = closes
         /\ UNCHANGED <<link, accused>>
<1>0. /\ wire \in [Dir -> Seq(Frame)] /\ closes \in [Dir -> Nat]
      /\ sent \in [Dir -> Seq(Sizes)] /\ broken \in [Dir -> {"no", "cut", "skew"}]
  BY DEF StreamsType
<1>1. CASE SendControl(d)
  <2>1. UNCHANGED <<link, sent, last, noise, accused>>
    BY <1>1 DEF SendControl
  <2>2. ASSUME NEW f \in {F(d, op, Fits) : op \in {"PING", "PONG"}},
               Whole(wire, d, f) \/ Cut(wire, d), UNCHANGED strange
        PROVE  StreamsType' /\ (\A e \in Dir : Moves(e)) /\ closes' = closes
    <3>1. f \in Own(d) /\ f.op # "CLOSE"
      BY DEF Own, Control, F
    <3>2. ws_send_frame(wire, d, f)
      BY <2>2 DEF ws_send_frame
    <3> QED
      BY <1>0, <2>1, <2>2, <3>1, <3>2, Sends
  <2>3. ASSUME NEW f \in TooLong(d), Whole(wire, d, f),
               strange' = [strange EXCEPT ![d] = @ \/ broken[d] = "no"]
        PROVE  StreamsType' /\ (\A e \in Dir : Moves(e)) /\ closes' = closes
    <3>1. f \in Frame /\ f.op # "CLOSE"
      <4>1. f \in StrangeFrames(d)
        BY DEF StrangeFrames
      <4>2. f \in Frame
        BY <4>1, StrangeType
      <4> QED
        BY <4>2 DEF TooLong, F
    <3>2. /\ wire' \in [Dir -> Seq(Frame)]
          /\ closes' \in [Dir -> Nat]
          /\ broken' = broken
          /\ wire'[d] = Append(wire[d], IF broken[d] = "no" THEN f ELSE Bytes(d))
          /\ closes'[d] = IF f.op = "CLOSE" THEN closes[d] + 1 ELSE closes[d]
          /\ \A e \in Dir \ {d} : wire'[e] = wire[e] /\ closes'[e] = closes[e]
      BY <1>0, <2>3, <3>1, WholeType
    <3>3. closes' = closes
      <4>1. \A e \in Dir : closes'[e] = closes[e]
        BY <3>1, <3>2
      <4> QED
        BY <1>0, <3>2, <4>1
    <3>4. strange \in [Dir -> BOOLEAN]
      BY DEF StreamsType
    <3>5. /\ strange' \in [Dir -> BOOLEAN]
          /\ \A e \in Dir \ {d} : strange'[e] = strange[e]
      BY <2>3, <3>4
    <3>6. StreamsType'
      BY <2>1, <3>2, <3>5 DEF StreamsType
    <3>7. \A e \in Dir \ {d} : Same(e)
      BY <2>1, <3>2, <3>3, <3>5 DEF Same, Quiescent
    <3>8. CASE broken[d] = "no"
      <4>1. strange'[d] = TRUE
        BY <2>3, <3>4, <3>8
      <4>2. Intrudes(d)
        BY <2>1, <3>2, <3>3, <3>8, <4>1 DEF Intrudes, StrangeFrames
      <4> QED
        BY <3>3, <3>6, <3>7, <4>2 DEF Moves
    <3>9. CASE broken[d] # "no"
      <4>1. strange'[d] = strange[d]
        BY <2>3, <3>4, <3>9
      <4>2. Breaks(d)
        BY <1>0, <2>1, <3>2, <3>3, <3>9, <4>1 DEF Breaks, Quiescent
      <4> QED
        BY <3>3, <3>6, <3>7, <4>2 DEF Moves
    <3> QED
      BY <3>8, <3>9
  <2>4. PICK f \in {F(d, op, Fits) : op \in {"PING", "PONG"}} : TRUE
    OBVIOUS
  <2> QED
    BY <1>1, <2>1, <2>2, <2>3, <2>4 DEF SendControl
<1>2. CASE SendData(d)
  <2>1. UNCHANGED <<link, last, noise, strange, accused>>
    BY <1>2 DEF SendData
  <2>2. ASSUME Cut(wire, d), UNCHANGED sent
        PROVE  /\ StreamsType' /\ (\A e \in Dir : Moves(e)) /\ closes' = closes
    <3>1. /\ wire' \in [Dir -> Seq(Frame)]
          /\ broken' \in [Dir -> {"no", "cut", "skew"}]
          /\ closes' = closes
          /\ broken'[d] \in {"cut", "skew"}
          /\ broken'[d] \in {broken[d], "cut"}
          /\ \A e \in Dir \ {d} : wire'[e] = wire[e] /\ broken'[e] = broken[e]
      BY <1>0, <2>2, CutType
    <3>2. StreamsType'
      BY <2>1, <2>2, <3>1 DEF StreamsType
    <3>3. Breaks(d)
      BY <2>1, <2>2, <3>1 DEF Breaks, Quiescent
    <3>4. \A e \in Dir \ {d} : Same(e)
      BY <2>1, <2>2, <3>1 DEF Same, Quiescent
    <3> QED
      BY <3>1, <3>2, <3>3, <3>4, TwoStreams DEF Moves
  <2>3. ASSUME NEW n \in Lengths(d),
               Whole(wire, d, [F(d, "DATA", n) EXCEPT !.id = Len(sent[d]) + 1]),
               sent' = [sent EXCEPT ![d] = IF broken[d] = "no" THEN Append(@, n) ELSE @]
        PROVE  /\ StreamsType' /\ (\A e \in Dir : Moves(e)) /\ closes' = closes
    <3> DEFINE k == Len(sent[d]) + 1
               f == Message(d, n, k)
    <3>1. n \in Sizes /\ k \in Nat /\ sent[d] \in Seq(Sizes)
      BY <1>0 DEF Lengths, Sizes
    <3>2. f \in Frame /\ f.op = "DATA"
      BY <3>1, MessageType
    <3>3. Whole(wire, d, f)
      BY <2>3 DEF Message
    <3>4. sent' = [sent EXCEPT ![d] = IF broken[d] = "no" THEN Append(sent[d], n)
                                      ELSE sent[d]]
      BY <2>3
    <3> HIDE DEF f
    <3>5. /\ wire' \in [Dir -> Seq(Frame)]
          /\ closes' \in [Dir -> Nat]
          /\ broken' = broken
          /\ wire'[d] = Append(wire[d], IF broken[d] = "no" THEN f ELSE Bytes(d))
          /\ closes'[d] = IF f.op = "CLOSE" THEN closes[d] + 1 ELSE closes[d]
          /\ \A e \in Dir \ {d} : wire'[e] = wire[e] /\ closes'[e] = closes[e]
      BY <1>0, <3>2, <3>3, WholeType
    <3>6. closes' = closes
      <4>1. \A e \in Dir : closes'[e] = closes[e]
        BY <3>2, <3>5
      <4> QED
        BY <1>0, <3>5, <4>1
    <3>7. CASE broken[d] = "no"
      <4>1. Append(sent[d], n) \in Seq(Sizes)
        BY <3>1, AppendAt
      <4>2. /\ sent' \in [Dir -> Seq(Sizes)]
            /\ sent'[d] = Append(sent[d], n)
            /\ \A e \in Dir \ {d} : sent'[e] = sent[e]
        BY <1>0, <3>4, <3>7, <4>1
      <4>3. Posts(d)
        <5>1. wire'[d] = Append(wire[d], Message(d, n, Len(sent[d]) + 1))
          BY <3>5, <3>7 DEF f
        <5> QED
          BY <2>1, <3>1, <3>5, <3>6, <3>7, <4>2, <5>1 DEF Posts
      <4>4. \A e \in Dir \ {d} : Same(e)
        BY <2>1, <3>5, <4>2 DEF Same, Quiescent
      <4>5. StreamsType'
        BY <2>1, <3>5, <4>2 DEF StreamsType
      <4> QED
        BY <3>5, <3>6, <4>3, <4>4, <4>5 DEF Moves
    <3>8. CASE broken[d] # "no"
      <4>1. sent' = sent
        BY <1>0, <3>4, <3>8
      <4>2. Breaks(d)
        BY <1>0, <2>1, <3>5, <3>6, <3>8, <4>1 DEF Breaks, Quiescent
      <4>3. \A e \in Dir \ {d} : Same(e)
        BY <2>1, <3>5, <4>1 DEF Same, Quiescent
      <4>4. StreamsType'
        BY <2>1, <3>5, <4>1 DEF StreamsType
      <4> QED
        BY <3>5, <3>6, <4>2, <4>3, <4>4 DEF Moves
    <3> QED
      BY <3>7, <3>8
  <2> QED
    BY <1>2, <2>1, <2>2, <2>3 DEF SendData
<1> QED
  BY <1>1, <1>2

\* The messages, pings and pongs of the client's user.
LEMMA ClientSendsStep ==
  ASSUME IInv, ClientSends, UNCHANGED srv
  PROVE  StepInv
<1>1. StreamsType /\ EndsNow /\ HonestPeersAgree
  BY InvParts
<1>2. /\ cli.pc = "user" /\ cli.open /\ cli' = cli
      /\ SendData("c2s") \/ SendControl("c2s")
  BY DEF ClientSends, ws_client_is_open
<1>3. closes["c2s"] = 0
  BY <1>1, <1>2 DEF EndsNow
<1>4. /\ StreamsType'
      /\ \A e \in Dir : Moves(e)
      /\ closes' = closes
      /\ UNCHANGED <<link, accused>>
  BY <1>1, <1>2, <1>3, TwoStreams, UserSends
<1>5. EndsStep
  BY <1>1, <1>2, <1>4 DEF EndsStep, EndsNow, EndsType
<1> QED
  BY <1>1, <1>4, <1>5, Together

\* The frames of the two ends that are no messages.
LEMMA OwnFrames ==
  ASSUME NEW d \in Dir, NEW op \in Control \union Http
  PROVE  F(d, op, Fits) \in Own(d) /\ F(d, op, Fits).op = op
BY DEF Own, F

\* The request.
LEMMA ClientRequestsStep ==
  ASSUME IInv, ClientRequests, UNCHANGED srv
  PROVE  StepInv
<1>1. StreamsType /\ EndsNow /\ HonestPeersAgree
  BY InvParts
<1>2. /\ cli.pc = "request"
      /\ To("response") \/ To("failed")
      /\ ws_send_frame(wire, "c2s", F("c2s", "GET", Fits))
      /\ UNCHANGED <<link, sent, last, noise, strange, accused>>
  BY DEF ClientRequests, ws_send_frame
<1>3. F("c2s", "GET", Fits) \in Own("c2s") /\ F("c2s", "GET", Fits).op # "CLOSE"
  BY OwnFrames, TwoStreams DEF Http
<1>4. wire \in [Dir -> Seq(Frame)]
  BY <1>1 DEF StreamsType
<1>5. /\ StreamsType'
      /\ \A e \in Dir : Moves(e)
      /\ closes' = closes
  BY <1>1, <1>2, <1>3, <1>4, TwoStreams, Sends
<1>6. /\ cli' \in ClientState /\ cli'.pc \in {"response", "failed"}
      /\ cli'.open = cli.open /\ cli'.sock = cli.sock
  BY <1>1, <1>2, ToType DEF ClientPlaces, EndsNow, EndsType
<1>7. EndsStep
  BY <1>1, <1>2, <1>5, <1>6 DEF EndsStep, EndsNow, EndsType
<1> QED
  BY <1>1, <1>5, <1>7, Together

\* The response, and the frames that came with it.
LEMMA ClientUpgradedStep ==
  ASSUME IInv, ClientUpgraded, UNCHANGED srv
  PROVE  StepInv
<1>1. /\ StreamsType /\ EndsNow /\ HonestPeersAgree
      /\ StreamInv("s2c")
  BY InvParts, TwoStreams
<1> DEFINE w == Rest("s2c")
<1>2. /\ cli.pc = "response"
      /\ wire["s2c"] # <<>>
      /\ Head(wire["s2c"]).op = "101"
      /\ broken["s2c"] = "no"
      /\ cli' = [cli EXCEPT !.pc = "user", !.handshake_ok = TRUE]
      /\ NotSent(w) \/ (Skew(w, "s2c") /\ UNCHANGED closes)
      /\ UNCHANGED <<link, sent, last, noise, strange, accused>>
  BY DEF ClientUpgraded
<1>3. Head(wire["s2c"]).id = Noise
  <2>1. /\ Sendable("s2c", Head(wire["s2c"]), sent["s2c"], last["s2c"], strange["s2c"])
        /\ StreamType("s2c")
    BY <1>1, <1>2, HeadSendable, OneStream, TwoStreams
  <2> QED
    BY <1>2, <2>1, SendableType, TwoStreams DEF StreamType
<1>4. StreamsType' /\ (\A e \in Dir : Moves(e)) /\ closes' = closes
      /\ broken'["c2s"] = broken["c2s"]
  <2>1. CASE NotSent(w)
    <3>1. wire' = w /\ UNCHANGED <<broken, closes>>
      BY <2>1 DEF NotSent
    <3> QED
      BY <1>1, <1>2, <1>3, <3>1, TakesOne, TwoStreams
  <2>2. CASE Skew(w, "s2c") /\ UNCHANGED closes
    <3>1. w \in [Dir -> Seq(Frame)] /\ \A e \in Dir \ {"s2c"} : w[e] = wire[e]
      BY <1>1, <1>2, RestType, TwoStreams
    <3> HIDE DEF w
    <3> QED
      BY <1>1, <1>2, <2>2, <3>1, Skews, TwoStreams
  <2> QED
    BY <1>2, <2>1, <2>2
<1>5. /\ cli' \in ClientState /\ cli'.pc = "user"
      /\ cli'.open = cli.open /\ cli'.sock = cli.sock
  BY <1>1, <1>2 DEF EndsNow, EndsType, ClientState, ClientPlaces
<1>6. EndsStep
  BY <1>1, <1>2, <1>4, <1>5 DEF EndsStep, EndsNow, EndsType
<1> QED
  BY <1>1, <1>4, <1>6, Together

\* ws_client_recv gives up inside a frame.
LEMMA ClientTimesOutStep ==
  ASSUME IInv, ClientTimesOut, UNCHANGED srv
  PROVE  StepInv
<1>1. StreamsType /\ EndsNow /\ HonestPeersAgree
  BY InvParts
<1>2. /\ cli.pc = "recv"
      /\ cli' = cli \/ Returns(TRUE)
      /\ Skew(wire, "s2c")
      /\ UNCHANGED <<link, history>>
  BY DEF ClientTimesOut
<1>3. wire \in [Dir -> Seq(Frame)]
  BY <1>1 DEF StreamsType
<1>4. StreamsType' /\ (\A e \in Dir : Moves(e)) /\ broken'["c2s"] = broken["c2s"]
  BY <1>1, <1>2, <1>3, Skews, TwoStreams DEF history
<1>5. /\ cli' \in ClientState /\ cli'.pc \in {"recv", "user"}
      /\ cli'.open /\ cli'.sock = cli.sock
  BY <1>1, <1>2, ReturnsType DEF EndsNow, EndsType
<1>6. EndsStep
  BY <1>1, <1>2, <1>4, <1>5 DEF EndsStep, EndsNow, EndsType, history
<1> QED
  BY <1>1, <1>4, <1>6, Together

\* ws_client_close says CLOSE, for the user or after a failed handshake.
LEMMA SayCloseStep ==
  ASSUME IInv, ClientSaysClose \/ ClientGivesUp, UNCHANGED srv
  PROVE  StepInv
<1>1. StreamsType /\ EndsNow /\ HonestPeersAgree
  BY InvParts
<1>2. /\ cli.pc # "closing" /\ cli.open
      /\ To("closing")
      /\ ws_send_frame(wire, "c2s", F("c2s", "CLOSE", Fits))
      /\ UNCHANGED <<link, sent, last, noise, strange, accused>>
  BY DEF ClientSaysClose, ClientGivesUp, SayClose
<1>3. F("c2s", "CLOSE", Fits) \in Own("c2s")
  BY OwnFrames, TwoStreams DEF Control
<1>4. wire \in [Dir -> Seq(Frame)] /\ closes["c2s"] = 0
  BY <1>1, <1>2 DEF StreamsType, EndsNow
<1>5. /\ StreamsType'
      /\ \A e \in Dir : Moves(e)
      /\ closes'["s2c"] = closes["s2c"]
  BY <1>1, <1>2, <1>3, <1>4, TwoStreams, Sends
<1>6. /\ cli' \in ClientState /\ cli'.pc = "closing"
      /\ cli'.open = cli.open /\ cli'.sock = cli.sock
  BY <1>1, <1>2, ToType DEF ClientPlaces, EndsNow, EndsType
<1>7. EndsStep
  BY <1>1, <1>2, <1>5, <1>6 DEF EndsStep, EndsNow, EndsType
<1> QED
  BY <1>1, <1>5, <1>7, Together

\* The client hangs up: what is on the streams stays there.
LEMMA HangUpEnds ==
  ASSUME EndsNow, HangUp, UNCHANGED <<srv, accused>>,
         closes'["s2c"] = closes["s2c"]
  PROVE  EndsStep
<1>1. cli' = NoClient /\ link' = Ended
  BY DEF HangUp
<1>2. cli' \in ClientState /\ cli'.pc = "none" /\ ~cli'.open
  BY <1>1, NoClientType
<1>3. /\ link' \in {"down", "dialled", "up", "ended"}
      /\ link' \in {"up", "ended"} <=> link \in {"up", "ended"}
      /\ link' # "dialled"
  BY <1>1, EndedType DEF EndsNow
<1> QED
  BY <1>2, <1>3 DEF EndsStep, EndsNow, EndsType

\* The wait of ws_client_close is over, or the connection is.
LEMMA ClosingOverStep ==
  ASSUME IInv, ClosingWaits \/ ClosingReadFails, UNCHANGED srv
  PROVE  StepInv
<1>1. StreamsType /\ EndsNow /\ HonestPeersAgree
  BY InvParts
<1>2. HangUp /\ UNCHANGED <<wire, broken, history>>
  BY DEF ClosingWaits, ClosingReadFails
<1>3. /\ StreamsType'
      /\ \A d \in Dir : Moves(d)
      /\ closes' = closes /\ broken' = broken /\ accused' = accused
  BY <1>1, <1>2, NoStream
<1>4. EndsStep
  BY <1>1, <1>2, <1>3, HangUpEnds
<1> QED
  BY <1>1, <1>3, <1>4, Together

\* The 2 s of ws_client_close pass.
LEMMA ClosingTimeOverStep ==
  ASSUME IInv, ClosingTimeOver, UNCHANGED srv
  PROVE  StepInv
<1>1. StreamsType /\ EndsNow /\ HonestPeersAgree
  BY InvParts
<1>2. /\ cli.pc = "closing" /\ cli' = [cli EXCEPT !.over = TRUE]
      /\ UNCHANGED <<link, wire, broken, history>>
  BY DEF ClosingTimeOver, wireVars
<1>3. /\ StreamsType'
      /\ \A d \in Dir : Moves(d)
      /\ closes' = closes /\ broken' = broken /\ accused' = accused
  BY <1>1, <1>2, NoStream
<1>4. /\ cli' \in ClientState /\ cli'.pc = cli.pc /\ cli'.open = cli.open
      /\ cli'.sock = cli.sock
  BY <1>1, <1>2 DEF EndsNow, EndsType, ClientState
<1>5. EndsStep
  BY <1>1, <1>2, <1>3, <1>4 DEF EndsStep, EndsNow, EndsType
<1> QED
  BY <1>1, <1>3, <1>5, Together

\* What the client reads first on an unbroken stream.
LEMMA ReadFirst ==
  ASSUME StreamsType, NEW d \in Dir, StreamInv(d), NEW f \in Arriving(d)
  PROVE  /\ wire[d] # <<>>
         /\ broken[d] = "no" => Head(wire[d]) = f
         /\ broken[d] = "no" /\ f.id # Noise => f.op = "DATA" /\ f.plain
         /\ broken[d] = "no" /\ ~strange[d] => /\ f.plain
                                               /\ f.masked <=> d = "c2s"
                                               /\ f.op # "OTHER"
                                               /\ f.op \in Control => f.len = Fits
<1>1. /\ wire[d] # <<>>
      /\ broken[d] = "no" =>
           f = Head(wire[d]) /\ Sendable(d, f, sent[d], last[d], strange[d])
  BY ArrivingType
<1>2. sent[d] \in Seq(Sizes) /\ last[d] \in Nat /\ strange[d] \in BOOLEAN
  BY DEF StreamsType
<1> QED
  BY <1>1, <1>2, SendableType

\* ws_client_recv meets a header it refuses and leaves the rest of the frame.
LEMMA ClientRefuses ==
  ASSUME StreamsType, StreamInv("s2c"), NEW f \in Arriving("s2c"), Refused(f),
         IF ReadToEnd(f) THEN wire' = Rest("s2c") /\ UNCHANGED broken
                         ELSE Skew(Rest("s2c"), "s2c"),
         UNCHANGED history
  PROVE  StreamsType' /\ (\A e \in Dir : Moves(e)) /\ broken'["c2s"] = broken["c2s"]
<1>1. /\ wire["s2c"] # <<>>
      /\ broken["s2c"] = "no" => Head(wire["s2c"]) = f
      /\ broken["s2c"] = "no" /\ f.id # Noise => f.op = "DATA" /\ f.plain
  BY ReadFirst, TwoStreams
<1>2. CASE wire' = Rest("s2c") /\ UNCHANGED broken
  <2>1. broken["s2c"] = "no" => f.id = Noise
    BY <1>1 DEF Refused, BadControl, Control
  <2> QED
    BY <1>1, <1>2, <2>1, TakesOne, TwoStreams DEF history
<1>3. CASE Skew(Rest("s2c"), "s2c")
  <2>1. Rest("s2c") \in [Dir -> Seq(Frame)]
        /\ \A e \in Dir \ {"s2c"} : Rest("s2c")[e] = wire[e]
    BY <1>1, RestType, TwoStreams
  <2> QED
    BY <1>3, <2>1, Skews, TwoStreams DEF history
<1> QED
  BY <1>2, <1>3

\* A reply on one stream to what was read on the other, d.
LEMMA Replies ==
  ASSUME StreamsType, NEW d \in Dir, NEW e \in Dir, d # e, StreamInv(d),
         NEW f \in Arriving(d), broken[d] = "no" => f.id = Noise \/ ~Heard(d)',
         NEW op \in Control, op = "CLOSE" => closes[e] = 0,
         ws_send_frame(Rest(d), e, F(e, op, Fits)),
         UNCHANGED <<sent, last, noise, strange>>
  PROVE  /\ StreamsType'
         /\ \A g \in Dir : Moves(g)
         /\ closes'[d] = closes[d]
         /\ op # "CLOSE" => closes' = closes
<1>1. wire[d] # <<>> /\ (broken[d] = "no" => Head(wire[d]) = f)
  BY ReadFirst
<1>2. /\ Rest(d) \in [Dir -> Seq(Frame)]
      /\ Rest(d)[d] = Tail(wire[d])
      /\ Rest(d)[e] = wire[e]
  BY <1>1, RestType
<1>3. F(e, op, Fits) \in Own(e) /\ F(e, op, Fits).op = op
  BY OwnFrames
<1>4. \A g \in Dir \ {e} : g = d
  BY TwoStreams
<1>5. \A g \in Dir \ {e} :
        /\ wire[g] # <<>>
        /\ Rest(d)[g] = Tail(wire[g])
        /\ broken[g] = "no" => \/ Head(wire[g]).id = Noise
                               \/ Head(wire[g]).len = Big
                               \/ ~Heard(g)'
  BY <1>1, <1>2, <1>4
<1> DEFINE w == Rest(d)
           s == F(e, op, Fits)
<1>6. /\ w \in [Dir -> Seq(Frame)] /\ w[e] = wire[e] /\ s \in Own(e)
      /\ s.op = "CLOSE" => closes[e] = 0
      /\ ws_send_frame(w, e, s)
      /\ \A g \in Dir \ {e} :
           /\ wire[g] # <<>>
           /\ w[g] = Tail(wire[g])
           /\ broken[g] = "no" => \/ Head(wire[g]).id = Noise
                                  \/ Head(wire[g]).len = Big
                                  \/ ~Heard(g)'
  BY <1>2, <1>3, <1>5
<1> HIDE DEF w, s
<1>7. /\ StreamsType'
      /\ \A g \in Dir : Moves(g)
      /\ \A g \in Dir \ {e} : closes'[g] = closes[g]
      /\ s.op # "CLOSE" => closes' = closes
  BY <1>6, Sends
<1> QED
  BY <1>3, <1>7 DEF s

\* A message for the user of stream d.
LEMMA Delivers ==
  ASSUME StreamsType, NEW d \in Dir, StreamInv(d), Heard(d), NEW f \in Arriving(d),
         f.op = "DATA", f.len # Big, f.plain, f.masked <=> d = "c2s",
         Delivered(d, f),
         wire' = Rest(d), UNCHANGED <<broken, sent, closes, strange>>
  PROVE  StreamsType' /\ \A e \in Dir : Moves(e)
<1>1. wire[d] # <<>>
  BY ReadFirst
<1>2. /\ Rest(d) \in [Dir -> Seq(Frame)]
      /\ Rest(d)[d] = Tail(wire[d])
      /\ \A e \in Dir \ {d} : Rest(d)[e] = wire[e]
  BY <1>1, RestType
<1>3. /\ Moves(d)
      /\ last' \in [Dir -> Nat]
      /\ noise' \in [Dir -> BOOLEAN]
      /\ \A e \in Dir \ {d} : UNCHANGED <<last[e], noise[e]>>
  BY <1>2, Received
<1>4. StreamsType'
  BY <1>2, <1>3 DEF StreamsType
<1>5. \A e \in Dir \ {d} : Same(e)
  BY <1>2, <1>3 DEF Same, Quiescent
<1> QED
  BY <1>3, <1>4, <1>5 DEF Moves

\* ws_client_recv.
LEMMA ClientReadsStep ==
  ASSUME IInv, ClientReads, UNCHANGED srv
  PROVE  StepInv
<1>1. StreamsType /\ EndsNow /\ HonestPeersAgree /\ StreamInv("s2c")
  BY InvParts, TwoStreams
<1>2. cli.pc = "recv" /\ cli.open /\ closes["c2s"] = 0 /\ cli \in ClientState
  BY <1>1 DEF ClientReads, EndsNow, EndsType
<1>3. PICK f \in Arriving("s2c") :
        \/ /\ Refused(f)
           /\ Returns(TRUE)
           /\ IF ReadToEnd(f) THEN wire' = Rest("s2c") /\ UNCHANGED broken
                              ELSE Skew(Rest("s2c"), "s2c")
           /\ UNCHANGED <<link, history>>
        \/ /\ Invalid(f)
           /\ ws_send_frame(wire, "c2s", F("c2s", "CLOSE", Fits))
           /\ accused' = accused \union {"s2c"}
           /\ DropTransport
           /\ UNCHANGED <<sent, last, noise, strange>>
        \/ /\ ~Refused(f) /\ ~Invalid(f)
           /\ \/ f.len = Big /\ Returns(TRUE) /\ wire' = Rest("s2c")
                 /\ UNCHANGED <<broken, closes, last, noise>>
              \/ /\ f.op = "CLOSE" /\ Returns(FALSE)
                 /\ ws_send_frame(Rest("s2c"), "c2s", F("c2s", "CLOSE", Fits))
                 /\ UNCHANGED <<last, noise>>
              \/ /\ f.op = "PING" /\ UNCHANGED cli
                 /\ ws_send_frame(Rest("s2c"), "c2s", F("c2s", "PONG", Fits))
                 /\ UNCHANGED <<last, noise>>
              \/ f.op = "PONG" /\ UNCHANGED cli /\ wire' = Rest("s2c")
                 /\ UNCHANGED <<broken, closes, last, noise>>
              \/ f.op = "DATA" /\ f.len # Big /\ Returns(TRUE) /\ wire' = Rest("s2c")
                 /\ UNCHANGED <<broken, closes>> /\ Delivered("s2c", f)
           /\ UNCHANGED <<link, sent, strange, accused>>
  BY DEF ClientReads, NothingDelivered
<1>4. /\ wire["s2c"] # <<>>
      /\ broken["s2c"] = "no" => Head(wire["s2c"]) = f
      /\ broken["s2c"] = "no" /\ f.id # Noise => f.op = "DATA" /\ f.plain
      /\ broken["s2c"] = "no" /\ ~strange["s2c"] => /\ f.plain
                                                    /\ ~f.masked
                                                    /\ f.op # "OTHER"
                                                    /\ f.op \in Control => f.len = Fits
  BY <1>1, ReadFirst, TwoStreams
<1>5. ASSUME Returns(TRUE)
      PROVE  /\ cli' \in ClientState /\ cli'.pc = "user"
             /\ cli'.open /\ cli'.sock = cli.sock
  BY <1>2, <1>5, ReturnsType
<1>6. CASE /\ Refused(f)
           /\ Returns(TRUE)
           /\ IF ReadToEnd(f) THEN wire' = Rest("s2c") /\ UNCHANGED broken
                              ELSE Skew(Rest("s2c"), "s2c")
           /\ UNCHANGED <<link, history>>
  <2>1. StreamsType' /\ (\A e \in Dir : Moves(e)) /\ broken'["c2s"] = broken["c2s"]
    BY <1>1, <1>6, ClientRefuses
  <2>2. EndsStep
    BY <1>1, <1>2, <1>5, <1>6, <2>1 DEF EndsStep, EndsNow, EndsType, history
  <2> QED
    BY <1>1, <2>1, <2>2, Together
<1>7. CASE /\ Invalid(f)
           /\ ws_send_frame(wire, "c2s", F("c2s", "CLOSE", Fits))
           /\ accused' = accused \union {"s2c"}
           /\ DropTransport
           /\ UNCHANGED <<sent, last, noise, strange>>
  <2>1. wire \in [Dir -> Seq(Frame)] /\ F("c2s", "CLOSE", Fits) \in Own("c2s")
    BY <1>1, OwnFrames, TwoStreams DEF StreamsType, Control
  <2>2. /\ StreamsType' /\ (\A e \in Dir : Moves(e))
        /\ closes'["s2c"] = closes["s2c"]
    BY <1>1, <1>2, <1>7, <2>1, Sends, TwoStreams
  <2>3. strange["s2c"] \/ broken["s2c"] # "no"
    BY <1>4, <1>7 DEF Invalid, Control, OneByte, Fits
  <2>4. accused' \subseteq accused \union {d \in Dir : strange[d] \/ broken[d] # "no"}
    BY <1>7, <2>3, TwoStreams
  <2>5. cli' \in ClientState /\ cli'.pc = "user" /\ ~cli'.open
    BY <1>2, <1>7 DEF DropTransport, ClientState, ClientPlaces
  <2>6. /\ link' \in {"down", "dialled", "up", "ended"}
        /\ link' \in {"up", "ended"} <=> link \in {"up", "ended"}
        /\ link' # "dialled"
    BY <1>1, <1>7, EndedType DEF EndsNow, DropTransport
  <2>7. accused' \subseteq Dir
    BY <1>1, <1>7, TwoStreams DEF EndsNow, EndsType
  <2>8. EndsType'
    BY <1>1, <2>5, <2>6, <2>7 DEF EndsNow, EndsType
  <2>9. EndsStep
    BY <1>1, <2>2, <2>4, <2>5, <2>6, <2>8 DEF EndsStep, EndsNow
  <2> QED
    BY <1>1, <2>2, <2>9, Together
<1>8. CASE UNCHANGED <<link, sent, strange, accused>> /\ ~Refused(f) /\ ~Invalid(f)
  <2>1. CASE f.len = Big /\ Returns(TRUE) /\ wire' = Rest("s2c")
             /\ UNCHANGED <<broken, closes, last, noise>>
    <3>1. StreamsType' /\ \A e \in Dir : Moves(e)
      BY <1>1, <1>4, <1>8, <2>1, TakesOne, TwoStreams
    <3>2. EndsStep
      BY <1>1, <1>2, <1>5, <1>8, <2>1 DEF EndsStep, EndsNow, EndsType
    <3> QED
      BY <1>1, <3>1, <3>2, Together
  <2>2. CASE /\ f.op = "CLOSE" /\ Returns(FALSE)
             /\ ws_send_frame(Rest("s2c"), "c2s", F("c2s", "CLOSE", Fits))
             /\ UNCHANGED <<last, noise>>
    <3>1. /\ StreamsType'
          /\ \A e \in Dir : Moves(e)
          /\ closes'["s2c"] = closes["s2c"]
      BY <1>1, <1>2, <1>4, <1>8, <2>2, Replies, TwoStreams DEF Control
    <3>2. /\ cli' \in ClientState /\ cli'.pc = "user"
          /\ ~cli'.open /\ cli'.sock = cli.sock
      BY <1>2, <2>2, ReturnsType
    <3>3. EndsStep
      BY <1>1, <1>2, <1>8, <3>1, <3>2 DEF EndsStep, EndsNow, EndsType
    <3> QED
      BY <1>1, <3>1, <3>3, Together
  <2>3. CASE /\ f.op = "PING" /\ UNCHANGED cli
             /\ ws_send_frame(Rest("s2c"), "c2s", F("c2s", "PONG", Fits))
             /\ UNCHANGED <<last, noise>>
    <3>1. /\ StreamsType'
          /\ \A e \in Dir : Moves(e)
          /\ closes' = closes
      BY <1>1, <1>2, <1>4, <1>8, <2>3, Replies, TwoStreams DEF Control
    <3>2. EndsStep
      BY <1>1, <1>2, <1>8, <2>3, <3>1 DEF EndsStep, EndsNow, EndsType
    <3> QED
      BY <1>1, <3>1, <3>2, Together
  <2>4. CASE f.op = "PONG" /\ UNCHANGED cli /\ wire' = Rest("s2c")
             /\ UNCHANGED <<broken, closes, last, noise>>
    <3>1. StreamsType' /\ \A e \in Dir : Moves(e)
      BY <1>1, <1>4, <1>8, <2>4, TakesOne, TwoStreams
    <3>2. EndsStep
      BY <1>1, <1>2, <1>8, <2>4 DEF EndsStep, EndsNow, EndsType
    <3> QED
      BY <1>1, <3>1, <3>2, Together
  <2>5. CASE f.op = "DATA" /\ f.len # Big /\ Returns(TRUE) /\ wire' = Rest("s2c")
             /\ UNCHANGED <<broken, closes>> /\ Delivered("s2c", f)
    <3>1. Heard("s2c")
      BY <1>2 DEF Heard
    <3>2. f.plain /\ (f.masked <=> "s2c" = "c2s")
      BY <1>8 DEF Refused, Invalid
    <3>3. StreamsType' /\ \A e \in Dir : Moves(e)
      BY <1>1, <1>8, <2>5, <3>1, <3>2, Delivers, TwoStreams
    <3>4. EndsStep
      BY <1>1, <1>2, <1>5, <1>8, <2>5 DEF EndsStep, EndsNow, EndsType
    <3> QED
      BY <1>1, <3>3, <3>4, Together
  <2> QED
    BY <1>3, <1>6, <1>7, <1>8, <2>1, <2>2, <2>3, <2>4, <2>5
<1> QED
  BY <1>3, <1>6, <1>7, <1>8

\* ws_client_close reads until the CLOSE of the server.
LEMMA ClosingReadsStep ==
  ASSUME IInv, ClosingReads, UNCHANGED srv
  PROVE  StepInv
<1>1. StreamsType /\ EndsNow /\ HonestPeersAgree /\ StreamInv("s2c")
  BY InvParts, TwoStreams
<1>2. cli.pc = "closing" /\ UNCHANGED <<sent, last, noise, strange, accused>>
  BY DEF ClosingReads
<1>3. PICK f \in Arriving("s2c") :
        \/ HangUp /\ NotSent(Rest("s2c"))
        \/ /\ f.op = "PING"
           /\ HangUp \/ UNCHANGED <<cli, link>>
           /\ ws_send_frame(Rest("s2c"), "c2s", F("c2s", "PONG", Fits))
        \/ UNCHANGED <<cli, link>> /\ NotSent(Rest("s2c"))
  BY DEF ClosingReads, ClosesAgain
<1>4. wire["s2c"] # <<>>
  BY <1>1, ReadFirst, TwoStreams
<1>5. ASSUME HangUp \/ UNCHANGED cli
      PROVE  ~Heard("s2c")'
  BY <1>2, <1>5, NoClientType DEF Heard, HangUp
<1>6. CASE NotSent(Rest("s2c")) /\ (HangUp \/ UNCHANGED <<cli, link>>)
  <2>1. wire' = Rest("s2c") /\ UNCHANGED <<broken, closes>>
    BY <1>6 DEF NotSent
  <2>2. ~Heard("s2c")'
    BY <1>5, <1>6
  <2>3. StreamsType' /\ \A e \in Dir : Moves(e)
    BY <1>1, <1>2, <1>4, <2>1, <2>2, TakesOne, TwoStreams
  <2>4. EndsStep
    <3>1. CASE HangUp
      BY <1>1, <1>2, <2>1, <3>1, HangUpEnds
    <3>2. CASE UNCHANGED <<cli, link>>
      BY <1>1, <1>2, <2>1, <3>2 DEF EndsStep, EndsNow, EndsType
    <3> QED
      BY <1>6, <3>1, <3>2
  <2> QED
    BY <1>1, <2>3, <2>4, Together
<1>7. CASE /\ HangUp \/ UNCHANGED <<cli, link>>
           /\ ws_send_frame(Rest("s2c"), "c2s", F("c2s", "PONG", Fits))
  <2>1. ~Heard("s2c")'
    BY <1>5, <1>7
  <2>2. /\ StreamsType'
        /\ \A e \in Dir : Moves(e)
        /\ closes' = closes
    BY <1>1, <1>2, <1>7, <2>1, Replies, TwoStreams DEF Control
  <2>3. EndsStep
    <3>1. CASE HangUp
      BY <1>1, <1>2, <2>2, <3>1, HangUpEnds
    <3>2. CASE UNCHANGED <<cli, link>>
      BY <1>1, <1>2, <2>2, <3>2 DEF EndsStep, EndsNow, EndsType
    <3> QED
      BY <1>7, <3>1, <3>2
  <2> QED
    BY <1>1, <2>2, <2>3, Together
<1> QED
  BY <1>3, <1>6, <1>7

\* Every step of the client.
LEMMA ClientStep ==
  ASSUME IInv, ClientNext, UNCHANGED srv
  PROVE  StepInv
BY ClientAlone, ClientDialsStep, ClientSendsStep, ClientRequestsStep, ClientUpgradedStep,
   ClientTimesOutStep, SayCloseStep, ClosingOverStep, ClosingTimeOverStep,
   ClientReadsStep, ClosingReadsStep
   DEF ClientNext, ClientCall
-----------------------------------------------------------------------------
\* The server accepts a connection, loops, or sees the end of one: the
\* streams do not change.
LEMMA ServerAlone ==
  ASSUME IInv, UNCHANGED cli,
         ServerAccepts \/ ServerNotAsked \/ ServerLoops \/ ServerReadFails
  PROVE  StepInv
<1>1. StreamsType /\ EndsNow /\ HonestPeersAgree
  BY InvParts
<1>2. UNCHANGED <<wire, broken, history>>
  BY DEF ServerAccepts, ServerNotAsked, ServerLoops, ServerReadFails, wireVars
<1>3. /\ StreamsType' /\ (\A d \in Dir : Moves(d))
      /\ closes' = closes /\ broken' = broken /\ accused' = accused
  BY <1>1, <1>2, NoStream
<1>4. srv \in ServerState
  BY <1>1 DEF EndsNow, EndsType
<1>5. EndsStep
  <2>1. CASE ServerAccepts
    <3>1. /\ srv.pc = "listen" /\ link = "dialled" /\ link' = "up" /\ At("handshake")
      BY <2>1 DEF ServerAccepts
    <3>2. srv' \in ServerState /\ srv'.pc = "handshake" /\ srv'.open = srv.open
      BY <1>4, <3>1, AtType DEF ServerPlaces
    <3> QED
      BY <1>1, <1>3, <3>1, <3>2 DEF EndsStep, EndsNow, EndsType
  <2>2. CASE ServerNotAsked
    <3>1. link' = link /\ srv.pc = "handshake" /\ At("close")
      BY <2>2 DEF ServerNotAsked, wireVars
    <3>2. srv' \in ServerState /\ srv'.pc = "close" /\ srv'.open = srv.open
      BY <1>4, <3>1, AtType DEF ServerPlaces
    <3> QED
      BY <1>1, <1>3, <3>1, <3>2 DEF EndsStep, EndsNow, EndsType
  <2>3. CASE ServerLoops
    <3>1. link' = link /\ srv.pc = "serve" /\ At(IF srv.open THEN "recv" ELSE "close")
      BY <2>3 DEF ServerLoops, wireVars
    <3>2. /\ srv' \in ServerState /\ srv'.open = srv.open
          /\ srv'.pc = IF srv.open THEN "recv" ELSE "close"
      BY <1>4, <3>1, AtType DEF ServerPlaces
    <3> QED
      BY <1>1, <1>3, <3>1, <3>2 DEF EndsStep, EndsNow, EndsType
  <2>4. CASE ServerReadFails
    <3>1. link' = link /\ srv.pc = "recv" /\ Ends
      BY <2>4 DEF ServerReadFails, wireVars
    <3>2. srv' \in ServerState /\ srv'.pc = "close" /\ ~srv'.open
      BY <1>4, <3>1, EndsTypeAfter
    <3> QED
      BY <1>1, <1>3, <3>1, <3>2 DEF EndsStep, EndsNow, EndsType
  <2> QED
    BY <2>1, <2>2, <2>3, <2>4
<1> QED
  BY <1>1, <1>3, <1>5, Together

\* The answer to the request.
LEMMA ServerUpgradesStep ==
  ASSUME IInv, ServerUpgrades, UNCHANGED cli
  PROVE  StepInv
<1>1. /\ StreamsType /\ EndsNow /\ HonestPeersAgree
      /\ StreamInv("c2s")
  BY InvParts, TwoStreams
<1> DEFINE w == Rest("c2s")
           f == F("s2c", "101", Fits)
<1>2. /\ srv.pc = "handshake"
      /\ wire["c2s"] # <<>>
      /\ Head(wire["c2s"]).op = "GET"
      /\ broken["c2s"] = "no"
      /\ srv' = [srv EXCEPT !.pc = "serve", !.open = TRUE] \/ At("close")
      /\ ws_send_frame(w, "s2c", f)
      /\ UNCHANGED <<link, sent, last, noise, strange, accused>>
  BY DEF ServerUpgrades, ws_send_frame
<1>3. Head(wire["c2s"]).id = Noise
  <2>1. /\ Sendable("c2s", Head(wire["c2s"]), sent["c2s"], last["c2s"], strange["c2s"])
        /\ StreamType("c2s")
    BY <1>1, <1>2, HeadSendable, OneStream, TwoStreams
  <2> QED
    BY <1>2, <2>1, SendableType, TwoStreams DEF StreamType
<1>4. /\ w \in [Dir -> Seq(Frame)] /\ w["s2c"] = wire["s2c"]
      /\ w["c2s"] = Tail(wire["c2s"])
  BY <1>1, <1>2, RestType, TwoStreams
<1>5. f \in Own("s2c") /\ f.op # "CLOSE"
  BY OwnFrames, TwoStreams DEF Http
<1>6. \A e \in Dir \ {"s2c"} :
        /\ wire[e] # <<>>
        /\ w[e] = Tail(wire[e])
        /\ Head(wire[e]).id = Noise
  BY <1>2, <1>3, <1>4, TwoStreams
<1> HIDE DEF w, f
<1>7. /\ StreamsType' /\ (\A e \in Dir : Moves(e)) /\ closes' = closes
  BY <1>1, <1>2, <1>4, <1>5, <1>6, Sends, TwoStreams
<1>8. /\ srv' \in ServerState /\ srv'.pc \in {"serve", "close"}
  BY <1>1, <1>2, AtType DEF EndsNow, EndsType, ServerState, ServerPlaces
<1>9. EndsStep
  BY <1>1, <1>2, <1>7, <1>8 DEF EndsStep, EndsNow, EndsType
<1> QED
  BY <1>1, <1>7, <1>9, Together

\* The messages and pings of the server's user.
LEMMA ServerSendsStep ==
  ASSUME IInv, ServerSends, UNCHANGED cli
  PROVE  StepInv
<1>1. StreamsType /\ EndsNow /\ HonestPeersAgree
  BY InvParts
<1>2. /\ srv.pc = "serve" /\ srv.open /\ srv' = srv
      /\ SendData("s2c") \/ SendControl("s2c")
  BY DEF ServerSends
<1>3. closes["s2c"] = 0
  BY <1>1, <1>2 DEF EndsNow
<1>4. /\ StreamsType'
      /\ \A e \in Dir : Moves(e)
      /\ closes' = closes
      /\ UNCHANGED <<link, accused>>
  BY <1>1, <1>2, <1>3, TwoStreams, UserSends
<1>5. EndsStep
  BY <1>1, <1>2, <1>4 DEF EndsStep, EndsNow, EndsType
<1> QED
  BY <1>1, <1>4, <1>5, Together

\* ws_server_recv gives up inside a frame, and the session with it.
LEMMA ServerTimesOutStep ==
  ASSUME IInv, ServerTimesOut, UNCHANGED cli
  PROVE  StepInv
<1>1. StreamsType /\ EndsNow /\ HonestPeersAgree
  BY InvParts
<1>2. srv.pc = "recv" /\ Skew(wire, "c2s") /\ Ends /\ UNCHANGED <<link, history>>
  BY DEF ServerTimesOut
<1>3. wire \in [Dir -> Seq(Frame)]
  BY <1>1 DEF StreamsType
<1>4. StreamsType' /\ (\A e \in Dir : Moves(e))
  BY <1>1, <1>2, <1>3, Skews, TwoStreams DEF history
<1>5. srv' \in ServerState /\ srv'.pc = "close" /\ ~srv'.open
  BY <1>1, <1>2, EndsTypeAfter DEF EndsNow, EndsType
<1>6. EndsStep
  BY <1>1, <1>2, <1>5 DEF EndsStep, EndsNow, EndsType, history
<1> QED
  BY <1>1, <1>4, <1>6, Together

\* ws_server_client_close.
LEMMA ServerHangsUpStep ==
  ASSUME IInv, ServerHangsUp, UNCHANGED cli
  PROVE  StepInv
<1>1. StreamsType /\ EndsNow /\ HonestPeersAgree
  BY InvParts
<1>2. /\ IF srv.open THEN ws_send_frame(wire, "s2c", F("s2c", "CLOSE", Fits))
                     ELSE NotSent(wire)
      /\ link' = "down"
      /\ srv' = Listening
      /\ UNCHANGED <<sent, last, noise, strange, accused>>
  BY DEF ServerHangsUp
<1>3. /\ StreamsType' /\ (\A e \in Dir : Moves(e))
      /\ closes'["c2s"] = closes["c2s"]
  <2>1. CASE srv.open
    <3>1. F("s2c", "CLOSE", Fits) \in Own("s2c")
      BY OwnFrames, TwoStreams DEF Control
    <3>2. wire \in [Dir -> Seq(Frame)] /\ closes["s2c"] = 0
      BY <1>1, <2>1 DEF StreamsType, EndsNow
    <3> QED
      BY <1>1, <1>2, <2>1, <3>1, <3>2, Sends, TwoStreams
  <2>2. CASE ~srv.open
    BY <1>1, <1>2, <2>2, NoStream DEF NotSent, history
  <2> QED
    BY <2>1, <2>2
<1>4. srv' \in ServerState /\ srv'.pc = "listen" /\ ~srv'.open
  BY <1>2 DEF Listening, ServerState, ServerPlaces
<1>5. EndsStep
  BY <1>1, <1>2, <1>3, <1>4 DEF EndsStep, EndsNow, EndsType
<1> QED
  BY <1>1, <1>3, <1>5, Together

\* A CLOSE 1002 of the server, about a frame it has read or not.
LEMMA AccuseEnds ==
  ASSUME EndsNow, srv.pc = "recv", Ends,
         UNCHANGED <<link, cli>>, accused' = accused \union {"c2s"},
         strange["c2s"] \/ broken["c2s"] # "no",
         closes'["c2s"] = closes["c2s"]
  PROVE  EndsStep
<1>1. srv' \in ServerState /\ srv'.pc = "close" /\ ~srv'.open
  BY EndsTypeAfter DEF EndsNow, EndsType
<1>2. /\ accused' \subseteq accused \union {d \in Dir : strange[d] \/ broken[d] # "no"}
      /\ accused' \subseteq Dir
  BY TwoStreams DEF EndsNow, EndsType
<1>3. EndsType'
  BY <1>1, <1>2 DEF EndsNow, EndsType
<1> QED
  BY <1>1, <1>2, <1>3 DEF EndsStep, EndsNow, EndsType

\* ws_server_recv.
LEMMA ServerReadsStep ==
  ASSUME IInv, ServerReads, UNCHANGED cli
  PROVE  StepInv
<1>1. StreamsType /\ EndsNow /\ HonestPeersAgree /\ StreamInv("c2s")
  BY InvParts, TwoStreams
<1>2. /\ srv.pc = "recv" /\ srv.open /\ closes["s2c"] = 0 /\ srv \in ServerState
      /\ UNCHANGED <<link, sent, strange>>
  BY <1>1 DEF ServerReads, EndsNow, EndsType
<1>3. PICK f \in Arriving("c2s") :
        \/ Bad(f) /\ Accuse(wire) /\ UNCHANGED <<last, noise>>
        \/ f.op = "OTHER" /\ Accuse(Rest("c2s")) /\ UNCHANGED <<last, noise>>
        \/ /\ ~Bad(f)
           /\ \/ f.len = Big /\ wire' = Rest("c2s") /\ At("serve")
                 /\ UNCHANGED <<broken, closes, last, noise>>
              \/ f.op = "PING" /\ UNCHANGED <<srv, last, noise>>
                 /\ ws_send_frame(Rest("c2s"), "s2c", F("s2c", "PONG", Fits))
              \/ f.op = "PONG" /\ wire' = Rest("c2s") /\ UNCHANGED srv
                 /\ UNCHANGED <<broken, closes, last, noise>>
              \/ f.op = "CLOSE" /\ Ends /\ UNCHANGED <<last, noise>>
                 /\ ws_send_frame(Rest("c2s"), "s2c", F("s2c", "CLOSE", Fits))
              \/ f.op = "DATA" /\ f.len # Big /\ wire' = Rest("c2s")
                 /\ UNCHANGED <<broken, closes>> /\ Delivered("c2s", f)
                 /\ At(IF f.len = Empty THEN "close" ELSE "serve")
           /\ UNCHANGED accused
  BY DEF ServerReads
<1>4. /\ wire["c2s"] # <<>>
      /\ broken["c2s"] = "no" => Head(wire["c2s"]) = f
      /\ broken["c2s"] = "no" /\ f.id # Noise => f.op = "DATA" /\ f.plain
      /\ broken["c2s"] = "no" /\ ~strange["c2s"] => /\ f.plain
                                                    /\ f.masked
                                                    /\ f.op # "OTHER"
                                                    /\ f.op \in Control => f.len = Fits
  BY <1>1, ReadFirst, TwoStreams
<1>5. CASE Bad(f) /\ Accuse(wire) /\ UNCHANGED <<last, noise>>
  <2>1. /\ ws_send_frame(wire, "s2c", F("s2c", "CLOSE", Fits)) /\ Ends
        /\ accused' = accused \union {"c2s"}
    BY <1>5 DEF Accuse
  <2>2. wire \in [Dir -> Seq(Frame)] /\ F("s2c", "CLOSE", Fits) \in Own("s2c")
    BY <1>1, OwnFrames, TwoStreams DEF StreamsType, Control
  <2>3. /\ StreamsType' /\ (\A e \in Dir : Moves(e))
        /\ closes'["c2s"] = closes["c2s"]
    BY <1>1, <1>2, <1>5, <2>1, <2>2, Sends, TwoStreams
  <2>4. strange["c2s"] \/ broken["c2s"] # "no"
    BY <1>4, <1>5 DEF Bad, BadControl, Fits, Big
  <2> QED
    BY <1>1, <1>2, <2>1, <2>3, <2>4, AccuseEnds, Together
<1>6. CASE f.op = "OTHER" /\ Accuse(Rest("c2s")) /\ UNCHANGED <<last, noise>>
  <2>1. /\ ws_send_frame(Rest("c2s"), "s2c", F("s2c", "CLOSE", Fits)) /\ Ends
        /\ accused' = accused \union {"c2s"}
    BY <1>6 DEF Accuse
  <2>2. /\ StreamsType' /\ (\A e \in Dir : Moves(e))
        /\ closes'["c2s"] = closes["c2s"]
    BY <1>1, <1>2, <1>4, <1>6, <2>1, Replies, TwoStreams DEF Control
  <2>3. strange["c2s"] \/ broken["c2s"] # "no"
    BY <1>4, <1>6
  <2> QED
    BY <1>1, <1>2, <2>1, <2>2, <2>3, AccuseEnds, Together
<1>7. CASE ~Bad(f) /\ UNCHANGED accused
  <2>1. CASE f.len = Big /\ wire' = Rest("c2s") /\ At("serve")
             /\ UNCHANGED <<broken, closes, last, noise>>
    <3>1. StreamsType' /\ \A e \in Dir : Moves(e)
      BY <1>1, <1>2, <1>4, <2>1, TakesOne, TwoStreams
    <3>2. srv' \in ServerState /\ srv'.pc = "serve" /\ srv'.open = srv.open
      BY <1>2, <2>1, AtType DEF ServerPlaces
    <3>3. EndsStep
      BY <1>1, <1>2, <1>7, <2>1, <3>2 DEF EndsStep, EndsNow, EndsType
    <3> QED
      BY <1>1, <3>1, <3>3, Together
  <2>2. CASE f.op = "PING" /\ UNCHANGED <<srv, last, noise>>
             /\ ws_send_frame(Rest("c2s"), "s2c", F("s2c", "PONG", Fits))
    <3>1. /\ StreamsType'
          /\ \A e \in Dir : Moves(e)
          /\ closes' = closes
      BY <1>1, <1>2, <1>4, <2>2, Replies, TwoStreams DEF Control
    <3>2. EndsStep
      BY <1>1, <1>2, <1>7, <2>2, <3>1 DEF EndsStep, EndsNow, EndsType
    <3> QED
      BY <1>1, <3>1, <3>2, Together
  <2>3. CASE f.op = "PONG" /\ wire' = Rest("c2s") /\ UNCHANGED srv
             /\ UNCHANGED <<broken, closes, last, noise>>
    <3>1. StreamsType' /\ \A e \in Dir : Moves(e)
      BY <1>1, <1>2, <1>4, <2>3, TakesOne, TwoStreams
    <3>2. EndsStep
      BY <1>1, <1>2, <1>7, <2>3 DEF EndsStep, EndsNow, EndsType
    <3> QED
      BY <1>1, <3>1, <3>2, Together
  <2>4. CASE f.op = "CLOSE" /\ Ends /\ UNCHANGED <<last, noise>>
             /\ ws_send_frame(Rest("c2s"), "s2c", F("s2c", "CLOSE", Fits))
    <3>1. /\ StreamsType'
          /\ \A e \in Dir : Moves(e)
          /\ closes'["c2s"] = closes["c2s"]
      BY <1>1, <1>2, <1>4, <2>4, Replies, TwoStreams DEF Control
    <3>2. srv' \in ServerState /\ srv'.pc = "close" /\ ~srv'.open
      BY <1>2, <2>4, EndsTypeAfter
    <3>3. EndsStep
      BY <1>1, <1>2, <1>7, <3>1, <3>2 DEF EndsStep, EndsNow, EndsType
    <3> QED
      BY <1>1, <3>1, <3>3, Together
  <2>5. CASE f.op = "DATA" /\ f.len # Big /\ wire' = Rest("c2s")
             /\ UNCHANGED <<broken, closes>> /\ Delivered("c2s", f)
             /\ At(IF f.len = Empty THEN "close" ELSE "serve")
    <3>1. Heard("c2s")
      BY DEF Heard
    <3>2. f.plain /\ (f.masked <=> "c2s" = "c2s")
      BY <1>7 DEF Bad
    <3>3. StreamsType' /\ \A e \in Dir : Moves(e)
      BY <1>1, <1>2, <2>5, <3>1, <3>2, Delivers, TwoStreams
    <3>4. srv' \in ServerState /\ srv'.pc \in {"serve", "close"} /\ srv'.open = srv.open
      BY <1>2, <2>5, AtType DEF ServerPlaces
    <3>5. EndsStep
      BY <1>1, <1>2, <1>7, <2>5, <3>4 DEF EndsStep, EndsNow, EndsType
    <3> QED
      BY <1>1, <3>3, <3>5, Together
  <2> QED
    BY <1>3, <1>5, <1>6, <1>7, <2>1, <2>2, <2>3, <2>4, <2>5
<1> QED
  BY <1>3, <1>5, <1>6, <1>7

\* Every step of the server.
LEMMA ServerStep ==
  ASSUME IInv, ServerNext, UNCHANGED cli
  PROVE  StepInv
BY ServerAlone, ServerUpgradesStep, ServerSendsStep, ServerReadsStep,
   ServerTimesOutStep, ServerHangsUpStep
   DEF ServerNext, ServerCall

\* A connection that ends, and a frame of other code.
LEMMA EnvironmentStep ==
  ASSUME IInv, Environment
  PROVE  StepInv
<1>1. StreamsType /\ EndsNow /\ HonestPeersAgree
  BY InvParts
<1>2. UNCHANGED <<cli, srv>>
  BY DEF Environment
<1>3. CASE Lost
  <2>1. link' = Ended /\ UNCHANGED <<wire, broken, history>>
    BY <1>3 DEF Lost
  <2>2. /\ StreamsType' /\ (\A d \in Dir : Moves(d))
        /\ closes' = closes /\ broken' = broken /\ accused' = accused
    BY <1>1, <2>1, NoStream
  <2>3. /\ link' \in {"down", "dialled", "up", "ended"}
        /\ link' \in {"up", "ended"} <=> link \in {"up", "ended"}
        /\ link' # "dialled"
    BY <1>1, <2>1, EndedType DEF EndsNow
  <2>4. EndsStep
    BY <1>1, <1>2, <2>2, <2>3 DEF EndsStep, EndsNow, EndsType
  <2> QED
    BY <1>1, <2>2, <2>4, Together
<1>4. ASSUME NEW d \in Dir, ForeignSends(d)
      PROVE  StepInv
  <2>1. /\ strange' = [strange EXCEPT ![d] = TRUE]
        /\ UNCHANGED <<link, broken, sent, last, closes, noise, accused>>
    BY <1>4 DEF ForeignSends
  <2>2. PICK f \in StrangeFrames(d) : wire' = [wire EXCEPT ![d] = Append(wire[d], f)]
    BY <1>4 DEF ForeignSends, StrangeFrames
  <2>3. /\ wire \in [Dir -> Seq(Frame)] /\ strange \in [Dir -> BOOLEAN]
        /\ Append(wire[d], f) \in Seq(Frame)
    BY <1>1, StrangeType, AppendAt DEF StreamsType
  <2>4. /\ wire' \in [Dir -> Seq(Frame)]
        /\ wire'[d] = Append(wire[d], f)
        /\ \A e \in Dir \ {d} : wire'[e] = wire[e]
    BY <2>2, <2>3
  <2>5. /\ strange' \in [Dir -> BOOLEAN]
        /\ \A e \in Dir \ {d} : strange'[e] = strange[e]
    BY <2>1, <2>3
  <2>6. strange'[d] = TRUE
    BY <2>1, <2>3, Zenon
  <2>7. StreamsType'
    BY <1>1, <2>1, <2>4, <2>5 DEF StreamsType
  <2>8. Intrudes(d)
    BY <2>1, <2>4, <2>6 DEF Intrudes
  <2>9. \A e \in Dir \ {d} : Same(e)
    BY <2>1, <2>4, <2>5 DEF Same, Quiescent
  <2>10. \A e \in Dir : Moves(e)
    BY <2>8, <2>9 DEF Moves
  <2>11. EndsStep
    BY <1>1, <1>2, <2>1 DEF EndsStep, EndsNow, EndsType
  <2> QED
    BY <1>1, <2>7, <2>10, <2>11, Together
<1> QED
  BY <1>3, <1>4 DEF Environment
-----------------------------------------------------------------------------
(* The invariant and the theorems.                                          *)

\* The link before the first connection.
LEMMA Initially ==
  ASSUME Init
  PROVE  IInv
<1> USE DEF Init, WireInit, ClientInit, ServerInit
<1>1. StreamsType
  <2>1. <<>> \in Seq(Frame) /\ <<>> \in Seq(Sizes) /\ 0 \in Nat
    OBVIOUS
  <2> QED
    BY <2>1 DEF StreamsType
<1>2. cli = NoClient /\ srv = Listening /\ link = "down" /\ accused = {}
  OBVIOUS
<1>3. /\ cli \in ClientState /\ cli.pc = "none" /\ ~cli.open
      /\ srv \in ServerState /\ srv.pc = "listen" /\ ~srv.open
  BY <1>2, NoClientType DEF Listening, ServerState, ServerPlaces
<1>4. EndsNow
  BY <1>2, <1>3 DEF EndsNow, EndsType
<1>5. HonestPeersAgree
  BY <1>2 DEF HonestPeersAgree
<1>6. ASSUME NEW d \in Dir
      PROVE  StreamInv(d)
  <2>1. wire[d] = <<>> /\ sent[d] = <<>> /\ last[d] = 0
    OBVIOUS
  <2>2. Len(wire[d]) = 0 /\ Len(sent[d]) = 0
    BY <2>1
  <2> QED
    BY <2>1, <2>2 DEF StreamInv, Ordered, Complete
<1> QED
  BY <1>1, <1>4, <1>5, <1>6, InvParts

\* What every step does, the step that changes nothing included.
LEMMA EveryStep ==
  ASSUME IInv, [Next]_vars
  PROVE  StepInv
<1>1. CASE Next
  BY <1>1, ClientStep, ServerStep, EnvironmentStep DEF Next
<1>2. CASE UNCHANGED vars
  <2>1. StreamsType /\ EndsNow /\ HonestPeersAgree
    BY InvParts
  <2>2. UNCHANGED <<link, wire, broken, history, cli, srv>>
    BY <1>2 DEF vars, wireVars
  <2>3. /\ StreamsType' /\ (\A d \in Dir : Moves(d))
        /\ closes' = closes /\ broken' = broken /\ accused' = accused
    BY <2>1, <2>2, NoStream
  <2>4. EndsStep
    BY <2>1, <2>2, <2>3 DEF EndsStep, EndsNow, EndsType
  <2> QED
    BY <2>1, <2>3, <2>4, Together
<1> QED
  BY <1>1, <1>2

\* Every step keeps the invariant.
LEMMA KeepsInv ==
  ASSUME IInv, [Next]_vars
  PROVE  IInv'
<1>1. StepInv
  BY EveryStep
<1>2. ASSUME NEW d \in Dir
      PROVE  StreamInv(d)'
  BY <1>1, <1>2, InvParts, OneStream, StreamStepInv DEF StepInv
<1>3. StreamsType' /\ EndsNow' /\ HonestPeersAgree' /\ (\A d \in Dir : StreamInv(d))'
  BY <1>1, <1>2 DEF StepInv
<1> QED
  BY <1>3, InvParts, PTL

\* The inductive invariant of the link: the ends, and on every stream that
\* has kept its boundaries the messages not yet delivered, in order.
THEOREM Invariance == Spec => []IInv
<1>1. Init => IInv
  BY Initially
<1>2. IInv /\ [Next]_vars => IInv'
  BY KeepsInv
<1> QED
  BY <1>1, <1>2, PTL DEF Spec

\* The states of the two ends of ws_client.c and ws_server.c and of the link
\* have the right types and go together.
THEOREM Typing == Spec => []TypeOK
<1>1. IInv => TypeOK
  BY DEF IInv
<1> QED
  BY <1>1, Invariance, PTL

\* Neither end takes a frame of the other for a protocol error, unless its user made
\* a ping or a pong of it that no control frame may be.
THEOREM Agreement == Spec => []HonestPeersAgree
<1>1. IInv => HonestPeersAgree
  BY DEF IInv
<1> QED
  BY <1>1, Invariance, PTL

\* The way from the client to the server is the channel of WsChannel: in
\* order, nothing twice or invented, nothing lost that fits, one CLOSE.
THEOREM ToServerRefines == Spec => MessagesToServer
<1>1. Init => ToServer!Init
  BY TwoStreams DEF Init, WireInit, ToServer!Init
<1>2. IInv /\ [Next]_vars => [ToServer!Next]_(ToServer!vars)
  <2> SUFFICES ASSUME IInv, [Next]_vars
               PROVE  [ToServer!Next]_(ToServer!vars)
    OBVIOUS
  <2>1. StreamType("c2s") /\ StreamInv("c2s")
    BY InvParts, OneStream, TwoStreams
  <2>2. StreamStep("c2s")
    BY EveryStep, TwoStreams DEF StepInv
  <2> QED
    BY <2>1, <2>2, StepToServer
<1> QED
  BY <1>1, <1>2, Invariance, PTL DEF Spec, MessagesToServer, ToServer!Spec

\* So is the way from the server to the client.
THEOREM ToClientRefines == Spec => MessagesToClient
<1>1. Init => ToClient!Init
  BY TwoStreams DEF Init, WireInit, ToClient!Init
<1>2. IInv /\ [Next]_vars => [ToClient!Next]_(ToClient!vars)
  <2> SUFFICES ASSUME IInv, [Next]_vars
               PROVE  [ToClient!Next]_(ToClient!vars)
    OBVIOUS
  <2>1. StreamType("s2c") /\ StreamInv("s2c")
    BY InvParts, OneStream, TwoStreams
  <2>2. StreamStep("s2c")
    BY EveryStep, TwoStreams DEF StepInv
  <2> QED
    BY <2>1, <2>2, StepToClient
<1> QED
  BY <1>1, <1>2, Invariance, PTL DEF Spec, MessagesToClient, ToClient!Spec
=============================================================================
