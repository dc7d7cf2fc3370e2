----------------------------- MODULE NetTlsProofs -----------------------------
(***************************************************************************)
(* What a TLS socket keeps, for any setups of its two ends and any number  *)
(* of messages: the types of the contexts and of the records, that every   *)
(* message an end makes a record of arrives once and in order before its   *)
(* close notification, and that the two ends of a handshake understand one *)
(* another, share their secrets and are through only when both proved it.  *)
(***************************************************************************)
EXTENDS NetTls, FiniteSetTheorems, TLAPS

\* The other end of the other end.
LEMMA Peers ==
  \A s \in Side : Peer(s) \in Side /\ Peer(s) # s /\ Peer(Peer(s)) = s
BY DEF Side, Peer

\* The states of a handshake are numbered in their order.
LEMMA States ==
  /\ HELLO_REQUEST = 0 /\ CLIENT_HELLO = 1 /\ SERVER_HELLO = 2 /\ SERVER_CERTIFICATE = 3
  /\ SERVER_KEY_EXCHANGE = 4 /\ CERTIFICATE_REQUEST = 5 /\ SERVER_HELLO_DONE = 6
  /\ CLIENT_CERTIFICATE = 7 /\ CLIENT_KEY_EXCHANGE = 8 /\ CERTIFICATE_VERIFY = 9
  /\ CLIENT_CHANGE_CIPHER_SPEC = 10 /\ CLIENT_FINISHED = 11
  /\ SERVER_CHANGE_CIPHER_SPEC = 12 /\ SERVER_FINISHED = 13 /\ FLUSH_BUFFERS = 14
  /\ HANDSHAKE_WRAPUP = 15 /\ HANDSHAKE_OVER = 16 /\ SERVER_NEW_SESSION_TICKET = 17
BY DEF HELLO_REQUEST, CLIENT_HELLO, SERVER_HELLO, SERVER_CERTIFICATE, SERVER_KEY_EXCHANGE,
  CERTIFICATE_REQUEST, SERVER_HELLO_DONE, CLIENT_CERTIFICATE, CLIENT_KEY_EXCHANGE,
  CERTIFICATE_VERIFY, CLIENT_CHANGE_CIPHER_SPEC, CLIENT_FINISHED, SERVER_CHANGE_CIPHER_SPEC,
  SERVER_FINISHED, FLUSH_BUFFERS, HANDSHAKE_WRAPUP, HANDSHAKE_OVER, SERVER_NEW_SESSION_TICKET
-----------------------------------------------------------------------------
(* Contexts and records.                                                    *)

\* The transcript of no message, and of one more.
LEMMA Transcripts ==
  /\ <<>> \in Transcript
  /\ \A t \in Transcript, m \in Handshake, body \in Body :
       Append(t, <<m, body>>) \in Transcript
BY DEF Transcript

\* The fields the steps of a handshake go by.
Same(d, c) == d.fail = c.fail /\ d.ke = c.ke /\ d.state = c.state

\* A context in which one field is set.
LEMMA SetFlags ==
  ASSUME NEW c \in Context, NEW v \in BOOLEAN
  PROVE  /\ [c EXCEPT !.auth = v] \in Context /\ Same([c EXCEPT !.auth = v], c)
         /\ [c EXCEPT !.tick = v] \in Context /\ Same([c EXCEPT !.tick = v], c)
         /\ [c EXCEPT !.tin = v] \in Context /\ Same([c EXCEPT !.tin = v], c)
         /\ [c EXCEPT !.tout = v] \in Context /\ Same([c EXCEPT !.tout = v], c)
         /\ [c EXCEPT !.kept = v] \in Context /\ Same([c EXCEPT !.kept = v], c)
BY DEF Context, Same

\* A context in which a transcript is set.
LEMMA SetTranscripts ==
  ASSUME NEW c \in Context, NEW t \in Transcript
  PROVE  /\ [c EXCEPT !.heard = t] \in Context /\ Same([c EXCEPT !.heard = t], c)
         /\ [c EXCEPT !.key = t] \in Context /\ Same([c EXCEPT !.key = t], c)
BY DEF Context, Same

\* A context whose peer has shown a certificate.
LEMMA SetPeer ==
  ASSUME NEW c \in Context, NEW p \in {"none", "trusted", "unknown"}
  PROVE  [c EXCEPT !.peer = p] \in Context /\ Same([c EXCEPT !.peer = p], c)
BY DEF Context, Same

\* A context whose suite is chosen.
LEMMA SetSuite ==
  ASSUME NEW c \in Context, NEW k \in KeyExchange, NEW v \in BOOLEAN
  PROVE  LET d == [c EXCEPT !.ke = k, !.tick = v]
         IN  d \in Context /\ d.fail = c.fail /\ d.ke = k /\ d.state = c.state
BY DEF Context

\* A context that has failed.
LEMMA SetFail ==
  ASSUME NEW c \in Context, NEW f \in Failure
  PROVE  LET d == [c EXCEPT !.fail = f]
         IN  d \in Context /\ d.fail = f /\ d.ke = c.ke /\ d.state = c.state
BY DEF Context

\* The step to the next state.
LEMMA SetState ==
  ASSUME NEW c \in Context, c.state <= 16
  PROVE  LET d == Stepped(c)
         IN  d \in Context /\ d.fail = c.fail /\ d.ke = c.ke /\ d.state = c.state + 1
<1>1. c.state \in 0 .. 17
  BY States DEF Context
<1>2. c.state + 1 \in HELLO_REQUEST .. SERVER_NEW_SESSION_TICKET
  BY <1>1, States
<1> QED
  BY <1>2 DEF Context, Stepped

\* A new context.
LEMMA FreshContext == Fresh \in Context /\ Fresh.fail = "none" /\ Fresh.state = 0
<1>1. <<>> \in Transcript /\ HELLO_REQUEST \in HELLO_REQUEST .. SERVER_NEW_SESSION_TICKET
  BY Transcripts, States
<1> QED
  BY <1>1, States DEF Fresh, Context

\* The transcript with the message that was read.
LEMMA HearsContext ==
  ASSUME NEW c \in Context, NEW r \in Record
  PROVE  Hears(c, r) \in Context /\ Same(Hears(c, r), c)
<1>1. CASE c.kept \/ r.msg \notin Handshake
  BY <1>1, SetFlags DEF Hears
<1>2. CASE ~(c.kept \/ r.msg \notin Handshake)
  <2>1. Append(c.heard, <<r.msg, r.body>>) \in Transcript
    BY <1>2, Transcripts DEF Record, Context
  <2>2. Hears(c, r) = [c EXCEPT !.heard = Append(c.heard, <<r.msg, r.body>>)]
    BY <1>2 DEF Hears, Context
  <2> QED
    BY <2>1, <2>2, SetTranscripts
<1> QED
  BY <1>1, <1>2

\* The record of a message.
LEMMA SealedRecord ==
  ASSUME NEW c \in Context, NEW m \in Message, NEW body \in Body, NEW t \in Transcript
  PROVE  Sealed(c, m, body, t) \in Record /\ Sealed(c, m, body, t).msg = m
           /\ Sealed(c, m, body, t).body = body
<1>1. (IF c.tout THEN c.key ELSE <<>>) \in Transcript
  BY Transcripts DEF Context
<1> QED
  BY <1>1 DEF Sealed, Record
-----------------------------------------------------------------------------
(* What the steps of a handshake do, whichever message they are about.      *)

Plain == Handshake \union {"ChangeCipherSpec"}

\* What a message says, of those whose content is used.
Formed(r) ==
  /\ r.msg = "ServerHello" => r.body \intersect KeyExchange # {}
  /\ r.msg = "Certificate" => r.body \subseteq {"trusted", "unknown"}

\* The server has chosen a suite from its ServerHello on.
Chosen(s, c) == s = "server" /\ c.state > CLIENT_HELLO => c.ke \in KeyExchange

\* The messages between the ends are formed, those that wait no notification.
AllFormed(q) == \A i \in DOMAIN q : Formed(q[i])

Content ==
  \A s \in Side :
    /\ Chosen(s, ssl[s])
    /\ out[s] # None => Formed(out[s]) /\ out[s].msg # "CloseNotify"
    /\ AllFormed(in[s])

\* The context goes on, and is one the rest of the handshake can start from.
Goes(s, c) ==
  /\ c \in Context /\ c.fail = ssl[s].fail /\ Chosen(s, c)
  /\ Becomes(s, c)

\* Nothing is written or read.
Moves(s) ==
  \E c \in Context : Goes(s, c) /\ UNCHANGED <<conf, out, in, gone, link>>

\* A record is written that waits for the flush.
Writes(s) ==
  \E c \in Context, r \in Record :
    /\ Goes(s, c)
    /\ out[s] = None /\ r.msg \in Plain /\ Formed(r)
    /\ out' = [out EXCEPT ![s] = r]
    /\ UNCHANGED <<conf, in, gone, link>>

\* A record is read.
Takes(s) ==
  \E c \in Context :
    /\ Goes(s, c)
    /\ in[s] # <<>> /\ Head(in[s]).msg \in Plain
    /\ in' = [in EXCEPT ![s] = Tail(@)]
    /\ UNCHANGED <<conf, out, gone, link>>

\* The handshake fails.
Fails(s) == \E why \in Failure : Ends(s, why, {}) \/ Ends(s, why, FatalAlert(s))

\* A step of the state the handshake of s is in.
Works(s) == Handshaking(s) /\ (Moves(s) \/ Writes(s) \/ Takes(s) \/ Fails(s))

\* The messages of a handshake are messages, and of the plain ones.
LEMMA PlainMessages == Plain \subseteq Message /\ Handshake \subseteq Plain
BY DEF Plain, Message, Handshake

\* What s has, well typed.
LEMMA Contexts ==
  ASSUME TypeOK, NEW s \in Side
  PROVE  /\ ssl[s] \in Context /\ ssl[s].state \in 0 .. 17
         /\ in[s] \in Seq(Record) /\ (in[s] # <<>> => Head(in[s]) \in Record)
         /\ (out[s] # None => out[s] \in Record)
         /\ conf \in Setup
<1>1. ssl[s] \in Context /\ in[s] \in Seq(Record) /\ out[s] \in Record \union {None}
  BY DEF TypeOK
<1>2. ssl[s].state \in 0 .. 17
  BY <1>1, States DEF Context
<1>3. conf \in Setup
  BY SetupsAssumption DEF TypeOK
<1> QED
  BY <1>1, <1>2, <1>3

\* What the next record of s says is formed.
LEMMA NextFormed ==
  ASSUME TypeOK, Content, NEW s \in Side, in[s] # <<>>
  PROVE  Formed(Head(in[s]))
<1>1. in[s] \in Seq(Record) /\ 1 \in DOMAIN in[s] /\ Head(in[s]) = in[s][1]
  BY Contexts
<1> QED
  BY <1>1 DEF Content, AllFormed

\* A record of the handshake is written.
LEMMA WriteWorks ==
  ASSUME TypeOK, NEW s \in Side, Handshaking(s), out[s] = None, NEW c \in Context,
         c.fail = ssl[s].fail, Chosen(s, c), NEW m \in Plain, NEW body \in Body,
         m = "ServerHello" => body \intersect KeyExchange # {},
         m = "Certificate" => body \subseteq {"trusted", "unknown"},
         NEW t \in Transcript, WriteRecord(s, c, m, body, t)
  PROVE  Works(s)
<1> DEFINE d == IF m \in Handshake THEN [c EXCEPT !.heard = Append(@, <<m, body>>)] ELSE c
<1>1. d \in Context /\ Same(d, c)
  <2>1. CASE m \in Handshake
    <3>1. Append(c.heard, <<m, body>>) \in Transcript
      BY <2>1, Transcripts DEF Context
    <3>2. d = [c EXCEPT !.heard = Append(c.heard, <<m, body>>)]
      BY <2>1 DEF Context
    <3> QED
      BY <3>1, <3>2, SetTranscripts
  <2> QED
    BY <2>1 DEF Same
<1>2. Goes(s, d)
  BY <1>1 DEF Goes, Same, Chosen, WriteRecord
<1>3. Sealed(c, m, body, t) \in Record /\ Sealed(c, m, body, t).msg = m
        /\ Sealed(c, m, body, t).body = body
  BY SealedRecord, PlainMessages
<1>4. Formed(Sealed(c, m, body, t))
  BY <1>3 DEF Formed
<1> HIDE DEF d
<1> QED
  BY <1>1, <1>2, <1>3, <1>4 DEF Works, Writes, WriteRecord

\* A message is written in a state, and the next one follows.
LEMMA MessageWorks ==
  ASSUME TypeOK, Content, NEW s \in Side, NEW n \in 0 .. 15, n > 1 \/ s = "client",
         At(s, n), NEW m \in Handshake, NEW body \in Body,
         m = "ServerHello" => body \intersect KeyExchange # {},
         m = "Certificate" => body \subseteq {"trusted", "unknown"},
         WriteMessage(s, m, body)
  PROVE  Works(s)
<1>1. ssl[s] \in Context /\ ssl[s].state = n /\ Handshaking(s) /\ out[s] = None
  BY Contexts DEF At
<1>2. Stepped(ssl[s]) \in Context /\ Stepped(ssl[s]).fail = ssl[s].fail
        /\ Chosen(s, Stepped(ssl[s]))
  BY <1>1, SetState, States DEF Chosen, Content
<1> QED
  BY <1>1, <1>2, WriteWorks, Transcripts, PlainMessages DEF WriteMessage

\* The next record is read.
LEMMA TakeWorks ==
  ASSUME TypeOK, NEW s \in Side, Handshaking(s), NEW c \in Context,
         c.fail = ssl[s].fail, Chosen(s, c),
         in[s] # <<>>, Head(in[s]).msg \in Plain, Took(s, c)
  PROVE  Works(s)
BY DEF Works, Takes, Took, Goes

\* What the next record adds to the context, and the next state.
LEMMA HeardWorks ==
  ASSUME TypeOK, Content, NEW s \in Side, NEW n \in 0 .. 15, n > 1 \/ s = "client",
         At(s, n), in[s] # <<>>
  PROVE  LET d == Stepped(Heard(s))
         IN  /\ d \in Context /\ d.fail = ssl[s].fail /\ Chosen(s, d)
             /\ d.state = n + 1 /\ d.ke = ssl[s].ke
<1>1. ssl[s] \in Context /\ ssl[s].state = n /\ Head(in[s]) \in Record
  BY Contexts DEF At
<1>2. Heard(s) \in Context /\ Same(Heard(s), ssl[s])
  BY <1>1, HearsContext DEF Heard
<1> QED
  BY <1>1, <1>2, SetState, States DEF Same, Chosen, Content

\* A step without a message.
LEMMA StepWorks ==
  ASSUME TypeOK, Content, NEW s \in Side, NEW n \in 0 .. 15, n # 1, Steps(s, n)
  PROVE  Works(s)
<1>1. ssl[s] \in Context /\ ssl[s].state = n /\ Handshaking(s)
  BY Contexts DEF Steps, At
<1>2. Goes(s, Stepped(ssl[s]))
  BY <1>1, SetState, States DEF Goes, Chosen, Content, Steps
<1> QED
  BY <1>1, <1>2, SetState DEF Works, Moves, Steps

\* A step that fails.
LEMMA FailWorks ==
  ASSUME NEW s \in Side, Handshaking(s), NEW why \in Failure,
         Ends(s, why, {}) \/ Ends(s, why, FatalAlert(s))
  PROVE  Works(s)
BY DEF Works, Fails

\* What may go wrong in a step.
LEMMA TroubleWorks ==
  ASSUME NEW s \in Side, NEW expected, HandshakeTrouble(s, expected)
  PROVE  Works(s)
<1>1. CASE FlushFails(s)
  BY <1>1, FailWorks DEF FlushFails, Failure
<1>2. CASE Aborts(s, expected)
  BY <1>2, FailWorks DEF Aborts, Failure
<1> QED
  BY <1>1, <1>2 DEF HandshakeTrouble

\* A record that is not acceptable, or none.
LEMMA ReadFailsWorks ==
  ASSUME NEW s \in Side, NEW expected, ReadFails(s, expected)
  PROVE  Works(s)
<1>1. CASE Misreads(s, expected)
  <2>1. Reason(ssl[s], Head(in[s])) \in Failure
    BY DEF Reason, Failure
  <2> QED
    BY <1>1, <2>1, FailWorks DEF Misreads, ReadFails
<1>2. CASE ReadEnds(s)
  BY <1>2, FailWorks DEF ReadEnds, ReadFails, Failure
<1> QED
  BY <1>1, <1>2 DEF ReadFails

\* The transcript goes with the handshake.
LEMMA WrapupWorks ==
  ASSUME TypeOK, Content, NEW s \in Side, Wrapup(s)
  PROVE  Works(s)
<1>1. ssl[s] \in Context /\ ssl[s].state = 15 /\ Handshaking(s)
  BY Contexts, States DEF Wrapup, At
<1>2. Stepped(ssl[s]) \in Context /\ Stepped(ssl[s]).fail = ssl[s].fail
        /\ Stepped(ssl[s]).ke = ssl[s].ke
  BY <1>1, SetState
<1> DEFINE d == [Stepped(ssl[s]) EXCEPT !.heard = <<>>]
<1>3. d \in Context /\ Same(d, Stepped(ssl[s]))
  BY <1>2, SetTranscripts, Transcripts
<1>4. Goes(s, d)
  BY <1>1, <1>2, <1>3, States DEF Goes, Same, Chosen, Content, Wrapup
<1> HIDE DEF d
<1> QED
  BY <1>1, <1>3, <1>4 DEF Works, Moves, Wrapup

\* The certificate of the other end.
LEMMA CertificateWorks ==
  ASSUME TypeOK, Content, NEW s \in Side, NEW n \in 2 .. 15, ParseCertificate(s, n)
  PROVE  Works(s)
<1> DEFINE chain == Head(in[s]).body
<1>1. At(s, n) /\ in[s] # <<>> /\ Head(in[s]).msg = "Certificate"
  BY DEF ParseCertificate, Arrived, Acceptable
<1>2. chain \subseteq {"trusted", "unknown"}
  BY <1>1, NextFormed DEF Formed
<1>3. Presented(chain) \in {"none", "trusted", "unknown"}
  BY <1>2 DEF Presented
<1>4. Stepped(Heard(s)) \in Context /\ Stepped(Heard(s)).fail = ssl[s].fail
        /\ Chosen(s, Stepped(Heard(s)))
  BY <1>1, HeardWorks
<1> DEFINE d == [Stepped(Heard(s)) EXCEPT !.peer = Presented(chain)]
<1>5. d \in Context /\ Same(d, Stepped(Heard(s)))
  BY <1>3, <1>4, SetPeer
<1>6. d.fail = ssl[s].fail /\ Chosen(s, d)
  BY <1>4, <1>5 DEF Same, Chosen
<1>7. Took(s, d) \/ Ends(s, "cert", {}) \/ Ends(s, "cert", FatalAlert(s))
  BY DEF ParseCertificate
<1> HIDE DEF d, chain
<1>8. CASE Took(s, d)
  BY <1>1, <1>5, <1>6, <1>8, TakeWorks DEF At, Plain, Handshake
<1>9. CASE Ends(s, "cert", {}) \/ Ends(s, "cert", FatalAlert(s))
  BY <1>1, <1>9, FailWorks DEF At, Failure
<1> QED
  BY <1>7, <1>8, <1>9

\* The certificate of this end.
LEMMA ChainWorks ==
  ASSUME TypeOK, Content, NEW s \in Side, NEW n \in 2 .. 15, WriteCertificate(s, n)
  PROVE  Works(s)
<1>1. At(s, n) /\ WriteMessage(s, "Certificate", Chain(s))
  BY DEF WriteCertificate
<1>2. Chain(s) \subseteq {"trusted", "unknown"}
  BY Contexts DEF Chain, Setup
<1>3. Chain(s) \in Body /\ "Certificate" \in Handshake
  BY <1>2 DEF Body, Handshake
<1> QED
  BY <1>1, <1>2, <1>3, MessageWorks

\* ChangeCipherSpec and Finished, of either end.
LEMMA ChangeWorks ==
  ASSUME TypeOK, Content, NEW s \in Side, NEW n \in 2 .. 15, WriteChangeCipherSpec(s, n)
  PROVE  Works(s)
<1>1. ssl[s] \in Context /\ ssl[s].state = n /\ Handshaking(s) /\ out[s] = None
  BY Contexts DEF WriteChangeCipherSpec, At
<1>2. Stepped(ssl[s]) \in Context /\ Stepped(ssl[s]).fail = ssl[s].fail
        /\ Chosen(s, Stepped(ssl[s]))
  BY <1>1, SetState, States DEF Chosen, Content
<1>3. "ChangeCipherSpec" \in Plain /\ {} \in Body
  BY DEF Plain, Body
<1> QED
  BY <1>1, <1>2, <1>3, WriteWorks, Transcripts DEF WriteChangeCipherSpec

\* The Finished signs the transcript before it, and is the first record sealed.
LEMMA FinishedWorks ==
  ASSUME TypeOK, Content, NEW s \in Side, NEW n \in 2 .. 15, WriteFinished(s, n)
  PROVE  Works(s)
<1>1. ssl[s] \in Context /\ ssl[s].state = n /\ Handshaking(s) /\ out[s] = None
  BY Contexts DEF WriteFinished, At
<1>2. Stepped(ssl[s]) \in Context /\ Stepped(ssl[s]).fail = ssl[s].fail
        /\ Chosen(s, Stepped(ssl[s]))
  BY <1>1, SetState, States DEF Chosen, Content
<1> DEFINE d == [Stepped(ssl[s]) EXCEPT !.tout = TRUE]
<1>3. d \in Context /\ Same(d, Stepped(ssl[s]))
  BY <1>2, SetFlags
<1>4. d.fail = ssl[s].fail /\ Chosen(s, d)
  BY <1>2, <1>3 DEF Same, Chosen
<1>5. "Finished" \in Plain /\ {} \in Body /\ ssl[s].heard \in Transcript
  BY <1>1 DEF Plain, Handshake, Body, Context
<1>6. WriteRecord(s, d, "Finished", {}, ssl[s].heard)
  BY DEF WriteFinished
<1> HIDE DEF d
<1> QED
  BY <1>1, <1>3, <1>4, <1>5, <1>6, WriteWorks

\* The peer's ChangeCipherSpec: what it sends from now on is sealed.
LEMMA ChangedWorks ==
  ASSUME TypeOK, Content, NEW s \in Side, NEW n \in 2 .. 15, ParseChangeCipherSpec(s, n)
  PROVE  Works(s)
<1>1. At(s, n) /\ in[s] # <<>> /\ Head(in[s]).msg \in Plain
  BY DEF ParseChangeCipherSpec, Arrived, Acceptable, Plain
<1>2. Stepped(Heard(s)) \in Context /\ Stepped(Heard(s)).fail = ssl[s].fail
        /\ Chosen(s, Stepped(Heard(s)))
  BY <1>1, HeardWorks
<1> DEFINE d == [Stepped(Heard(s)) EXCEPT !.tin = TRUE]
<1>3. d \in Context /\ Same(d, Stepped(Heard(s)))
  BY <1>2, SetFlags
<1>4. d.fail = ssl[s].fail /\ Chosen(s, d)
  BY <1>2, <1>3 DEF Same, Chosen
<1>5. Took(s, d)
  BY DEF ParseChangeCipherSpec
<1> HIDE DEF d
<1> QED
  BY <1>1, <1>3, <1>4, <1>5, TakeWorks DEF At

\* A message that is only read.
LEMMA ReadWorks ==
  ASSUME TypeOK, Content, NEW s \in Side, NEW n \in 2 .. 15, At(s, n), NEW m \in Handshake,
         Arrived(s, {m}), Took(s, Stepped(Heard(s)))
  PROVE  Works(s)
<1>1. in[s] # <<>> /\ Head(in[s]).msg \in Plain
  BY PlainMessages DEF Arrived, Acceptable
<1>2. Stepped(Heard(s)) \in Context /\ Stepped(Heard(s)).fail = ssl[s].fail
        /\ Chosen(s, Stepped(Heard(s)))
  BY <1>1, HeardWorks
<1> QED
  BY <1>1, <1>2, TakeWorks DEF At

\* What both ends do.
LEMMA SharedWorks ==
  ASSUME TypeOK, Content, NEW s \in Side, NEW expected, HandshakeStep(s, expected)
  PROVE  Works(s) \/ FlushOutput(s)
<1>1. CASE Steps(s, HELLO_REQUEST) \/ Steps(s, FLUSH_BUFFERS)
  BY <1>1, States, StepWorks
<1>2. CASE Wrapup(s)
  BY <1>2, WrapupWorks
<1>3. CASE ReadFails(s, expected)
  BY <1>3, ReadFailsWorks
<1> QED
  BY <1>1, <1>2, <1>3 DEF HandshakeStep

\* The client's step goes on, fails, or sends what waits.
LEMMA ClientWorks ==
  ASSUME TypeOK, Content, ClientStep
  PROVE  Works("client") \/ FlushOutput("client")
<1> DEFINE s == "client"
<1> DEFINE h == Stepped(Heard(s))
<1>0. s \in Side /\ Chosen(s, h)
  BY DEF Side, Chosen
<1>1. CASE WriteClientHello
  <2>1. {"ticket"} \in Body /\ "ClientHello" \in Handshake
    BY DEF Body, Handshake
  <2> QED
    BY <1>0, <1>1, <2>1, MessageWorks, States DEF WriteClientHello
<1>2. CASE ParseServerHello
  <2> DEFINE said == Head(in[s]).body
  <2>1. At(s, SERVER_HELLO) /\ in[s] # <<>> /\ Head(in[s]).msg = "ServerHello"
    BY <1>2 DEF ParseServerHello, Arrived, Acceptable
  <2>2. PICK k \in KeyExchange : k = CHOOSE ke \in said \intersect KeyExchange : TRUE
    BY <1>0, <2>1, NextFormed DEF Formed
  <2>3. h \in Context /\ h.fail = ssl[s].fail
    BY <1>0, <2>1, HeardWorks, States
  <2> DEFINE d == [h EXCEPT !.ke = k, !.tick = "ticket" \in said]
  <2>4. d \in Context /\ d.fail = h.fail
    <3>1. ("ticket" \in said) \in BOOLEAN
      OBVIOUS
    <3> HIDE DEF h, said
    <3> QED
      BY <2>3, <3>1, SetSuite, ZenonT(60)
  <2>5. Took(s, d)
    BY <1>2, <2>2 DEF ParseServerHello
  <2>6. Chosen(s, d) /\ "ServerHello" \in Plain
    BY DEF Chosen, Plain, Handshake
  <2> HIDE DEF d
  <2> QED
    BY <1>0, <2>1, <2>3, <2>4, <2>5, <2>6, TakeWorks DEF At
<1>3. CASE ParseServerKeyExchange
  <2>1. CASE ssl[s].ke = "ECDHE"
    BY <1>0, <1>3, <2>1, ReadWorks, States DEF ParseServerKeyExchange, Handshake
  <2>2. CASE ssl[s].ke # "ECDHE"
    BY <1>0, <1>3, <2>2, StepWorks, States DEF ParseServerKeyExchange
  <2> QED
    BY <2>1, <2>2
<1>4. CASE ParseCertificateRequest
  <2>1. At(s, CERTIFICATE_REQUEST) /\ in[s] # <<>> /\ Head(in[s]).msg \in Plain
    BY <1>4, PlainMessages DEF ParseCertificateRequest, Arrived, Acceptable
  <2>2. h \in Context /\ h.fail = ssl[s].fail
    BY <1>0, <2>1, HeardWorks, States
  <2>3. CASE Took(s, [h EXCEPT !.auth = TRUE])
    <3> DEFINE d == [h EXCEPT !.auth = TRUE]
    <3>1. d \in Context /\ Same(d, h) /\ Chosen(s, d)
      BY <2>2, SetFlags DEF Chosen
    <3>2. Took(s, d) /\ d.fail = ssl[s].fail
      BY <2>2, <2>3, <3>1 DEF Same
    <3> HIDE DEF d, h
    <3> QED
      BY <1>0, <2>1, <3>1, <3>2, TakeWorks DEF At
  <2>4. CASE /\ Becomes(s, [h EXCEPT !.kept = TRUE])
             /\ UNCHANGED <<conf, in, out, gone, link>>
    <3> DEFINE d == [h EXCEPT !.kept = TRUE]
    <3>1. d \in Context /\ Same(d, h) /\ Chosen(s, d)
      BY <2>2, SetFlags DEF Chosen
    <3>2. d.fail = ssl[s].fail /\ Becomes(s, d)
      BY <2>2, <2>4, <3>1 DEF Same
    <3> HIDE DEF d, h
    <3> QED
      BY <2>1, <2>4, <3>1, <3>2 DEF At, Works, Moves, Goes
  <2> QED
    BY <1>4, <2>3, <2>4 DEF ParseCertificateRequest
<1>5. CASE ParseServerHelloDone
  BY <1>0, <1>5, ReadWorks, States DEF ParseServerHelloDone, Handshake
<1>6. CASE SkipCertificate
  BY <1>0, <1>6, StepWorks, States DEF SkipCertificate
<1>7. CASE WriteClientKeyExchange
  <2>1. {} \in Body /\ "ClientKeyExchange" \in Handshake
    BY DEF Body, Handshake
  <2> QED
    BY <1>0, <1>7, <2>1, MessageWorks, States DEF WriteClientKeyExchange
<1>8. CASE WriteCertificateVerify
  <2> DEFINE k == DeriveKeys(ssl[s])
  <2> DEFINE d == Stepped(k)
  <2>1. /\ ssl[s] \in Context /\ ssl[s].state = 9 /\ Handshaking(s) /\ out[s] = None
    BY <1>0, <1>8, Contexts, States DEF WriteCertificateVerify, At
  <2>2. ssl[s].heard \in Transcript
    BY <2>1 DEF Context
  <2>3. k \in Context /\ Same(k, ssl[s])
    BY <2>1, <2>2, SetTranscripts DEF DeriveKeys
  <2>4. d \in Context /\ d.fail = ssl[s].fail /\ Chosen(s, d)
    <3> HIDE DEF k
    <3> QED
      BY <2>1, <2>3, SetState DEF Same, Chosen
  <2>5. CASE WriteRecord(s, d, "CertificateVerify", {}, ssl[s].heard)
    <3>1. {} \in Body /\ "CertificateVerify" \in Plain
      BY DEF Body, Plain, Handshake
    <3> HIDE DEF d
    <3> QED
      BY <1>0, <2>1, <2>2, <2>4, <2>5, <3>1, WriteWorks
  <2>6. CASE Becomes(s, d) /\ UNCHANGED <<conf, in, out, gone, link>>
    <3> HIDE DEF d
    <3> QED
      BY <2>1, <2>4, <2>6 DEF Works, Moves, Goes
  <2> QED
    BY <1>8, <2>5, <2>6 DEF WriteCertificateVerify
<1>9. CASE ParseNewSessionTicket
  <2>1. At(s, 12) /\ in[s] # <<>> /\ Head(in[s]).msg \in Plain
    BY <1>9, States DEF ParseNewSessionTicket, Arrived, Acceptable, Plain, Handshake
  <2>2. ssl[s] \in Context /\ Head(in[s]) \in Record
    BY <1>0, <2>1, Contexts
  <2>3. Heard(s) \in Context /\ Same(Heard(s), ssl[s])
    BY <2>2, HearsContext DEF Heard
  <2> DEFINE d == [Heard(s) EXCEPT !.tick = FALSE]
  <2>4. d \in Context /\ Same(d, Heard(s)) /\ Chosen(s, d)
    BY <2>3, SetFlags DEF Chosen
  <2>5. Took(s, d) /\ d.fail = ssl[s].fail
    BY <1>9, <2>3, <2>4 DEF ParseNewSessionTicket, Same
  <2> HIDE DEF d
  <2> QED
    BY <1>0, <2>1, <2>4, <2>5, TakeWorks DEF At
<1>10. CASE ParseFinished(s, SERVER_FINISHED)
  BY <1>0, <1>10, ReadWorks, States DEF ParseFinished, Handshake
<1> QED
  BY <1>0, <1>1, <1>2, <1>3, <1>4, <1>5, <1>6, <1>7, <1>8, <1>9, <1>10, States,
     CertificateWorks, ChainWorks, ChangeWorks, FinishedWorks, ChangedWorks, SharedWorks
     DEF ClientStep

\* So does the server's.
LEMMA ServerWorks ==
  ASSUME TypeOK, Content, ServerStep
  PROVE  Works("server") \/ FlushOutput("server")
<1> DEFINE s == "server"
<1> DEFINE c == ssl[s]
<1>0. s \in Side /\ {} \in Body
  BY DEF Side, Body
<1>1. CASE ParseClientHello
  <2> DEFINE h == Stepped(Heard(s))
  <2> DEFINE t == conf.ticket /\ "ticket" \in Head(in[s]).body
  <2>1. At(s, 1) /\ in[s] # <<>> /\ Head(in[s]).msg \in Plain
    BY <1>1, States DEF ParseClientHello, Arrived, Acceptable, Plain, Handshake
  <2>2. ssl[s] \in Context /\ ssl[s].state = 1 /\ Head(in[s]) \in Record /\ conf \in Setup
    BY <1>0, <2>1, Contexts DEF At
  <2>3. Heard(s) \in Context /\ Same(Heard(s), ssl[s])
    BY <2>2, HearsContext DEF Heard
  <2>4. h \in Context /\ h.fail = ssl[s].fail
    BY <2>2, <2>3, SetState DEF Same
  <2>5. conf.ke \in KeyExchange /\ t \in BOOLEAN
    BY <2>2 DEF Setup
  <2> DEFINE d == [h EXCEPT !.ke = conf.ke, !.tick = t]
  <2>6. d \in Context /\ d.fail = h.fail /\ d.ke = conf.ke
    <3>1. \A k \in KeyExchange, v \in BOOLEAN :
            LET e == [h EXCEPT !.ke = k, !.tick = v]
            IN  e \in Context /\ e.fail = h.fail /\ e.ke = k
      <4> SUFFICES ASSUME NEW k \in KeyExchange, NEW v \in BOOLEAN
                   PROVE  LET e == [h EXCEPT !.ke = k, !.tick = v]
                          IN  e \in Context /\ e.fail = h.fail /\ e.ke = k
        OBVIOUS
      <4> HIDE DEF h, t
      <4>1. h \in Context
        BY <2>4
      <4> QED
        BY <4>1, SetSuite
    <3> HIDE DEF h, t
    <3> QED
      BY <2>5, <3>1, Zenon
  <2>7. Took(s, d)
    BY <1>1 DEF ParseClientHello
  <2>8. Chosen(s, d)
    BY <2>5, <2>6 DEF Chosen
  <2> HIDE DEF d
  <2> QED
    BY <1>0, <2>1, <2>4, <2>6, <2>7, <2>8, TakeWorks DEF At
<1>2. CASE WriteServerHello
  <2> DEFINE said == {c.ke} \union IF c.tick THEN {"ticket"} ELSE {}
  <2>1. At(s, 2) /\ WriteMessage(s, "ServerHello", said)
    BY <1>2, States DEF WriteServerHello
  <2>2. c.ke \in KeyExchange
    BY <1>0, <2>1, States DEF Content, Chosen, At
  <2>3. said \in Body /\ said \intersect KeyExchange # {} /\ "ServerHello" \in Handshake
    BY <2>2 DEF Body, Handshake
  <2> HIDE DEF said
  <2> QED
    BY <1>0, <2>1, <2>3, MessageWorks
<1>3. CASE WriteServerKeyExchange
  <2>1. CASE c.ke = "ECDHE"
    <3>1. At(s, 4) /\ WriteMessage(s, "ServerKeyExchange", {})
      BY <1>3, <2>1, States DEF WriteServerKeyExchange
    <3> QED
      BY <1>0, <3>1, MessageWorks DEF Handshake
  <2>2. CASE c.ke # "ECDHE"
    BY <1>0, <1>3, <2>2, StepWorks, States DEF WriteServerKeyExchange
  <2> QED
    BY <2>1, <2>2
<1>4. CASE WriteCertificateRequest
  <2>1. CASE conf.authmode["server"] # "none"
    <3>1. At(s, 5) /\ WriteMessage(s, "CertificateRequest", {})
      BY <1>4, <2>1, States DEF WriteCertificateRequest
    <3> QED
      BY <1>0, <3>1, MessageWorks DEF Handshake
  <2>2. CASE conf.authmode["server"] = "none"
    BY <1>0, <1>4, <2>2, StepWorks, States DEF WriteCertificateRequest
  <2> QED
    BY <2>1, <2>2
<1>5. CASE WriteServerHelloDone
  <2>1. At(s, 6) /\ WriteMessage(s, "ServerHelloDone", {})
    BY <1>5, States DEF WriteServerHelloDone
  <2> QED
    BY <1>0, <2>1, MessageWorks DEF Handshake
<1>6. CASE SkipClientCertificate
  BY <1>0, <1>6, StepWorks, States DEF SkipClientCertificate
<1>7. CASE ParseClientKeyExchange
  <2>1. At(s, 8) /\ in[s] # <<>> /\ Head(in[s]).msg \in Plain
    BY <1>7, States DEF ParseClientKeyExchange, Arrived, Acceptable, Plain, Handshake
  <2>2. ssl[s] \in Context /\ ssl[s].state = 8 /\ Head(in[s]) \in Record
    BY <1>0, <2>1, Contexts DEF At
  <2>3. Heard(s) \in Context /\ Same(Heard(s), ssl[s]) /\ Heard(s).heard \in Transcript
    BY <2>2, HearsContext DEF Heard, Context
  <2> DEFINE k == DeriveKeys(Heard(s))
  <2>4. k \in Context /\ Same(k, Heard(s))
    BY <2>3, SetTranscripts DEF DeriveKeys
  <2> HIDE DEF k
  <2>5. Stepped(k) \in Context /\ Stepped(k).fail = ssl[s].fail /\ Chosen(s, Stepped(k))
    BY <1>0, <2>2, <2>3, <2>4, SetState, States DEF Same, Chosen, Content
  <2>6. Took(s, Stepped(k))
    BY <1>7 DEF ParseClientKeyExchange, k
  <2> QED
    BY <1>0, <2>1, <2>5, <2>6, TakeWorks DEF At
<1>8. CASE ParseCertificateVerify
  <2>1. CASE c.peer # "none"
    <3>1. At(s, 9) /\ Arrived(s, {"CertificateVerify"}) /\ Took(s, Stepped(Heard(s)))
      BY <1>8, <2>1, States DEF ParseCertificateVerify
    <3> QED
      BY <1>0, <3>1, ReadWorks DEF Handshake
  <2>2. CASE c.peer = "none"
    BY <1>0, <1>8, <2>2, StepWorks, States DEF ParseCertificateVerify
  <2> QED
    BY <2>1, <2>2
<1>9. CASE WriteNewSessionTicket
  <2>1. ssl[s] \in Context /\ ssl[s].state = 12 /\ Handshaking(s) /\ out[s] = None
    BY <1>0, <1>9, Contexts, States DEF WriteNewSessionTicket, At
  <2> DEFINE d == [ssl[s] EXCEPT !.tick = FALSE]
  <2>2. d \in Context /\ Same(d, ssl[s])
    BY <2>1, SetFlags
  <2>3. d.fail = ssl[s].fail /\ Chosen(s, d)
    BY <1>0, <2>2 DEF Same, Chosen, Content
  <2>4. WriteRecord(s, d, "NewSessionTicket", {}, <<>>)
    BY <1>9 DEF WriteNewSessionTicket
  <2>5. "NewSessionTicket" \in Plain
    BY DEF Plain, Handshake
  <2> HIDE DEF d
  <2> QED
    BY <1>0, <2>1, <2>2, <2>3, <2>4, <2>5, WriteWorks, Transcripts
<1>10. CASE ParseFinished(s, CLIENT_FINISHED)
  BY <1>0, <1>10, ReadWorks, States DEF ParseFinished, Handshake
<1> QED
  BY <1>0, <1>1, <1>2, <1>3, <1>4, <1>5, <1>6, <1>7, <1>8, <1>9, <1>10, States,
     CertificateWorks, ChainWorks, ChangeWorks, FinishedWorks, ChangedWorks, SharedWorks
     DEF ServerStep
-----------------------------------------------------------------------------
(* The messages of a user on their way.                                     *)

\* The places of the messages in a queue, and their number.
Data(q) == {i \in DOMAIN q : q[i].msg = "Data"}
Count(q) == Cardinality(Data(q))
One(r) == IF r.msg = "Data" THEN 1 ELSE 0

\* A queue has finitely many.
LEMMA CountNat ==
  ASSUME NEW q \in Seq(Record)
  PROVE  IsFiniteSet(Data(q)) /\ Count(q) \in Nat
<1>1. IsFiniteSet(1 .. Len(q)) /\ Data(q) \subseteq 1 .. Len(q)
  BY FS_Interval DEF Data
<1>2. IsFiniteSet(Data(q))
  BY <1>1, FS_Subset
<1> QED
  BY <1>2, FS_CardinalityType DEF Count

\* An empty queue has none.
LEMMA CountEmpty == Count(<<>>) = 0
<1>1. Data(<<>>) = {}
  BY DEF Data
<1> QED
  BY <1>1, FS_EmptySet DEF Count

\* A record more may be one more.
LEMMA CountAppend ==
  ASSUME NEW q \in Seq(Record), NEW r \in Record
  PROVE  Count(Append(q, r)) = Count(q) + One(r)
<1>1. IsFiniteSet(Data(q))
  BY CountNat
<1>5. Len(q) + 1 \notin Data(q)
  BY DEF Data
<1>2. Data(Append(q, r)) = IF r.msg = "Data" THEN Data(q) \union {Len(q) + 1} ELSE Data(q)
  <2> DEFINE a == Append(q, r)
  <2>1. /\ DOMAIN a = 1 .. Len(q) + 1 /\ DOMAIN q = 1 .. Len(q) /\ Len(q) \in Nat
        /\ a[Len(q) + 1] = r /\ \A i \in 1 .. Len(q) : a[i] = q[i]
    OBVIOUS
  <2> HIDE DEF a
  <2> QED
    BY <2>1 DEF Data, a
<1>3. Cardinality(Data(q) \union {Len(q) + 1}) = Cardinality(Data(q)) + 1
  BY <1>1, <1>5, FS_AddElement
<1>4. Cardinality(Data(q)) \in Nat
  BY CountNat DEF Count
<1> QED
  BY <1>2, <1>3, <1>4 DEF Count, One

\* The number of the records behind the first.
LEMMA CountTail ==
  ASSUME NEW q \in Seq(Record), q # <<>>
  PROVE  Count(q) = Count(Tail(q)) + One(Head(q))
<1> DEFINE D == Data(Tail(q))
<1> DEFINE E == {i \in 2 .. Len(q) : q[i].msg = "Data"}
<1>1. /\ Len(q) \in Nat \ {0} /\ DOMAIN q = 1 .. Len(q) /\ Head(q) = q[1]
      /\ DOMAIN Tail(q) = 1 .. Len(q) - 1
      /\ \A i \in 1 .. Len(q) - 1 : Tail(q)[i] = q[i + 1]
  OBVIOUS
<1>2. Tail(q) \in Seq(Record)
  OBVIOUS
<1>3. IsFiniteSet(D) /\ Cardinality(D) \in Nat
  BY <1>2, CountNat DEF Count
<1>4. IsFiniteSet(E) /\ Cardinality(E) = Cardinality(D)
  <2> DEFINE f == [i \in D |-> i + 1]
  <2>1. \A i \in D : i + 1 \in E
    BY <1>1 DEF Data
  <2>2. f \in [D -> E]
    BY <2>1
  <2>3. \A i, j \in D : f[i] = f[j] => i = j
    BY <1>1 DEF Data
  <2>4. \A k \in E : \E i \in D : f[i] = k
    <3> SUFFICES ASSUME NEW k \in E PROVE \E i \in D : f[i] = k
      OBVIOUS
    <3>1. k - 1 \in D /\ (k - 1) + 1 = k
      BY <1>1 DEF Data
    <3> QED
      BY <3>1
  <2>5. f \in Bijection(D, E)
    BY <2>2, <2>3, <2>4 DEF Bijection, Injection, Surjection, IsInjective
  <2>6. ExistsBijection(D, E)
    BY <2>5 DEF ExistsBijection
  <2> HIDE DEF D, E
  <2> QED
    BY <1>3, <2>6, FS_Bijection
<1>5. Data(q) = IF q[1].msg = "Data" THEN E \union {1} ELSE E
  BY <1>1 DEF Data
<1>6. Cardinality(E \union {1}) = Cardinality(E) + 1
  <2>1. 1 \notin E
    OBVIOUS
  <2> QED
    BY <1>4, <2>1, FS_AddElement
<1> QED
  BY <1>1, <1>3, <1>4, <1>5, <1>6 DEF Count, One

\* A cut queue has no more.
LEMMA CountPrefix ==
  ASSUME NEW q \in Seq(Record), NEW n \in 0 .. Len(q)
  PROVE  Count(SubSeq(q, 1, n)) <= Count(q)
<1>1. Data(SubSeq(q, 1, n)) \subseteq Data(q)
  BY DEF Data
<1> QED
  BY <1>1, CountNat, FS_Subset DEF Count

\* Is there such a message in the queue?
Has(q, m) == \E i \in DOMAIN q : q[i].msg = m

\* What a queue has when one record more has come, and when one has gone.
LEMMA HasAppend ==
  ASSUME NEW q \in Seq(Record), NEW r \in Record, NEW m
  PROVE  Has(Append(q, r), m) <=> Has(q, m) \/ r.msg = m
<1> DEFINE a == Append(q, r)
<1>1. /\ DOMAIN a = 1 .. Len(q) + 1 /\ DOMAIN q = 1 .. Len(q) /\ Len(q) \in Nat
      /\ a[Len(q) + 1] = r /\ \A i \in 1 .. Len(q) : a[i] = q[i]
  OBVIOUS
<1> HIDE DEF a
<1>2. Len(q) + 1 \in DOMAIN a /\ \A i \in 1 .. Len(q) : i \in DOMAIN a
  BY <1>1
<1>3. \A i \in DOMAIN a : i = Len(q) + 1 \/ i \in DOMAIN q
  BY <1>1
<1> QED
  BY <1>1, <1>2, <1>3 DEF Has, a

\* What the queue has behind its first record.
LEMMA HasTail ==
  ASSUME NEW q \in Seq(Record), q # <<>>, NEW m
  PROVE  Has(q, m) <=> Has(Tail(q), m) \/ Head(q).msg = m
<1>1. /\ Len(q) \in Nat \ {0} /\ DOMAIN q = 1 .. Len(q) /\ Head(q) = q[1]
      /\ DOMAIN Tail(q) = 1 .. Len(q) - 1
      /\ \A i \in 1 .. Len(q) - 1 : Tail(q)[i] = q[i + 1]
  OBVIOUS
<1>2. ASSUME Has(q, m), Head(q).msg # m PROVE Has(Tail(q), m)
  <2>1. PICK i \in DOMAIN q : q[i].msg = m
    BY <1>2 DEF Has
  <2>2. i - 1 \in DOMAIN Tail(q) /\ Tail(q)[i - 1] = q[i]
    BY <1>1, <1>2, <2>1
  <2> QED
    BY <2>1, <2>2 DEF Has
<1>3. ASSUME Has(Tail(q), m) PROVE Has(q, m)
  <2>1. PICK i \in DOMAIN Tail(q) : Tail(q)[i].msg = m
    BY <1>3 DEF Has
  <2>2. i + 1 \in DOMAIN q /\ Tail(q)[i] = q[i + 1]
    BY <1>1, <2>1
  <2> QED
    BY <2>1, <2>2 DEF Has
<1>4. ASSUME Head(q).msg = m PROVE Has(q, m)
  BY <1>1, <1>4 DEF Has
<1> QED
  BY <1>2, <1>3, <1>4
-----------------------------------------------------------------------------
(* What becomes of the messages of an end, and what the invariant says of   *)
(* them.                                                                    *)

\* A record that waits to be sent.
Pending(s) == IF out[s] # None /\ out[s].msg = "Data" THEN 1 ELSE 0

\* A fatal alert of the other end comes before whatever else it sends.
Barred(s) == Has(in[s], "Fatal") \/ (out[Peer(s)] # None /\ out[Peer(s)].msg = "Fatal")

\* What the peer of s has made records of has been read, is on its way, or waits to
\* be sent.  Over a whole connection nothing else becomes of it, unless a fatal
\* alert took its place.
NoneMade(s) == got[s] + Count(in[s]) + Pending(Peer(s)) <= sent[Peer(s)]
NoneLost(s) ==
  link = "up" /\ ~gone["client"] /\ ~gone["server"] /\ ssl[s].fail = "none" =>
    got[s] + Count(in[s]) + Pending(Peer(s)) = sent[Peer(s)] \/ Barred(s)

\* A close notification is the last record, with all the messages ahead of it.
Last(s) ==
  Has(in[s], "CloseNotify") =>
    /\ gone[Peer(s)]
    /\ \A i \in DOMAIN in[s] : in[s][i].msg = "CloseNotify" => i = Len(in[s])
    /\ ssl[s].fail = "none" =>
         got[s] + Count(in[s]) = sent[Peer(s)] \/ Has(in[s], "Fatal")

\* Nothing comes after it.
Over(s) == notified[s] => got[s] = sent[Peer(s)] /\ gone[Peer(s)] /\ in[s] = <<>>

Stream(s) == NoneMade(s) /\ NoneLost(s) /\ Last(s) /\ Over(s)
Delivery == \A s \in Side : Stream(s)

Records ==
  /\ conf \in Setups /\ ssl \in [Side -> Context]
  /\ out \in [Side -> Record \union {None}] /\ in \in [Side -> Seq(Record)]
  /\ gone \in [Side -> BOOLEAN] /\ link \in {"up", "lost"}

Sound == Records /\ Content /\ Delivery

IInv == TypeOK /\ Content /\ Delivery

\* The numbers of a stream.
LEMMA Numbers ==
  ASSUME TypeOK, NEW s \in Side
  PROVE  /\ got[s] \in Nat /\ sent[s] \in Nat /\ Count(in[s]) \in Nat
         /\ Pending(s) \in {0, 1} /\ MaxData \in Nat
<1>1. in[s] \in Seq(Record) /\ got[s] \in 0 .. MaxData /\ sent[s] \in 0 .. MaxData
  BY DEF TypeOK
<1> QED
  BY <1>1, CountNat, MaxDataAssumption DEF Pending

\* What the peer of s receives when s sends.
LEMMA Arrives ==
  ASSUME TypeOK, NEW s \in Side, NEW r \in Record
  PROVE  /\ Arrive(s, r) \in [Side -> Seq(Record)]
         /\ Arrive(s, r)[s] = in[s]
         /\ Arrive(s, r)[Peer(s)] =
              IF Carries(s) THEN Append(in[Peer(s)], r) ELSE in[Peer(s)]
BY Peers DEF Arrive, TypeOK

\* One side or the other.
LEMMA BothSides ==
  ASSUME NEW s \in Side, NEW t \in Side PROVE t = s \/ t = Peer(s)
BY DEF Side, Peer

\* A stream stands still when its reader has not moved, nothing has come and
\* nothing was written, whoever else fails or closes.
LEMMA Still ==
  ASSUME NEW s \in Side, Stream(s),
         got'[s] = got[s], in'[s] = in[s], notified'[s] = notified[s],
         sent'[Peer(s)] = sent[Peer(s)], out'[Peer(s)] = out[Peer(s)],
         ssl'[s].fail = "none" => ssl[s].fail = "none",
         \A t \in Side : gone[t] => gone'[t], link' = "up" => link = "up"
  PROVE  Stream(s)'
<1>1. "client" \in Side /\ "server" \in Side /\ Peer(s) \in Side
  BY Peers DEF Side
<1>2. Pending(Peer(s))' = Pending(Peer(s)) /\ (Barred(s) <=> Barred(s)')
  BY DEF Pending, Barred
<1> QED
  BY <1>1, <1>2 DEF Stream, NoneMade, NoneLost, Last, Over

\* A stream is empty when its reader has closed.
LEMMA Emptied ==
  ASSUME TypeOK, NEW s \in Side, Stream(s),
         got'[s] = got[s], in'[s] = <<>>, notified'[s] = notified[s],
         sent'[Peer(s)] = sent[Peer(s)], out'[Peer(s)] = out[Peer(s)],
         \A t \in Side : gone[t] => gone'[t], gone'[s]
  PROVE  Stream(s)'
<1>1. "client" \in Side /\ "server" \in Side /\ Peer(s) \in Side
  BY Peers DEF Side
<1>2. Pending(Peer(s))' = Pending(Peer(s))
  BY DEF Pending
<1>3. NoneMade(s)'
  BY <1>1, <1>2, Numbers, CountEmpty DEF Stream, NoneMade
<1>4. NoneLost(s)'
  BY DEF NoneLost, Side
<1>5. ~Has(in[s], "CloseNotify")'
  BY DEF Has
<1> QED
  BY <1>1, <1>3, <1>4, <1>5 DEF Stream, Last, Over

\* Nothing comes after a close notification: who writes or sends has not closed.
LEMMA NotOver ==
  ASSUME NEW s \in Side, Stream(s), ~gone[Peer(s)]
  PROVE  ~Has(in[s], "CloseNotify") /\ ~notified[s]
BY DEF Stream, Last, Over

\* What was written by s waits for its peer.
LEMMA Waits ==
  ASSUME TypeOK, NEW s \in Side, Stream(Peer(s)), ~gone[s], NEW r \in Record,
         out[s] = None, out'[s] = r,
         in'[Peer(s)] = in[Peer(s)], got'[Peer(s)] = got[Peer(s)],
         notified'[Peer(s)] = notified[Peer(s)],
         ssl'[Peer(s)].fail = ssl[Peer(s)].fail, gone' = gone, link' = link,
         sent'[s] = sent[s] + One(r)
  PROVE  Stream(Peer(s))'
<1>1. Peer(s) \in Side /\ Peer(Peer(s)) = s
  BY Peers
<1>2. Pending(s) = 0 /\ Pending(s)' = One(r)
  BY NoneAssumption DEF Pending, One
<1>3. ~Has(in[Peer(s)], "CloseNotify") /\ ~notified[Peer(s)]
  BY <1>1, NotOver
<1>4. One(r) \in {0, 1}
  BY DEF One
<1>5. NoneMade(Peer(s))'
  BY <1>1, <1>2, <1>4, Numbers DEF Stream, NoneMade
<1>6. NoneLost(Peer(s))'
  BY <1>1, <1>2, <1>4, Numbers DEF Stream, NoneLost, Barred
<1> QED
  BY <1>1, <1>3, <1>5, <1>6 DEF Stream, Last, Over

\* What s sends of what it has written arrives, or never will.
LEMMA Sends ==
  ASSUME TypeOK, NEW s \in Side, Stream(Peer(s)), ~gone[s], out[s] # None,
         out[s].msg # "CloseNotify", in' = Arrive(s, out[s]),
         out'[s] = None \/ (out'[s] # None /\ out'[s].msg = "Again"),
         got'[Peer(s)] = got[Peer(s)], notified'[Peer(s)] = notified[Peer(s)],
         ssl'[Peer(s)].fail = ssl[Peer(s)].fail, gone' = gone, link' = link,
         sent'[s] = sent[s]
  PROVE  Stream(Peer(s))'
<1> DEFINE p == Peer(s)
<1>1. p \in Side /\ Peer(p) = s /\ in[p] \in Seq(Record) /\ out[s] \in Record
  BY Peers, Contexts
<1>2. in'[p] = IF Carries(s) THEN Append(in[p], out[s]) ELSE in[p]
  BY <1>1, Arrives
<1>3. ~Has(in[p], "CloseNotify") /\ ~notified[p]
  BY <1>1, NotOver
<1>4. Pending(s)' = 0 /\ Pending(s) = One(out[s]) /\ One(out[s]) \in {0, 1}
  BY DEF Pending, One
<1> HIDE DEF p
<1>5. CASE Carries(s)
  <2>1. Count(in[p])' = Count(in[p]) + One(out[s])
    BY <1>1, <1>2, <1>5, CountAppend
  <2>2. ~Has(in[p], "CloseNotify")'
    BY <1>1, <1>2, <1>3, <1>5, HasAppend
  <2>3. Barred(p) => Barred(p)'
    BY <1>1, <1>2, <1>5, HasAppend DEF Barred
  <2>4. NoneMade(p)'
    BY <1>1, <1>4, <2>1, Numbers DEF Stream, NoneMade, p
  <2>5. NoneLost(p)'
    <3> SUFFICES ASSUME link = "up", ~gone["client"], ~gone["server"], ssl[p].fail = "none"
                 PROVE  (got[p] + Count(in[p]) + Pending(s) = sent[s] \/ Barred(p))'
      BY <1>1 DEF NoneLost, p
    <3>1. got[p] + Count(in[p]) + Pending(s) = sent[s] \/ Barred(p)
      BY <1>1 DEF NoneLost, Stream, p
    <3>2. got[p]' + Count(in[p])' + Pending(s)' = got[p] + Count(in[p]) + Pending(s)
      <4>1. got[p] \in Nat /\ Count(in[p]) \in Nat /\ One(out[s]) \in Nat
        BY <1>1, <1>4, Numbers
      <4>2. got[p]' = got[p]
        BY DEF p
      <4> QED
        BY <1>4, <2>1, <4>1, <4>2
    <3> QED
      BY <2>3, <3>1, <3>2
  <2> QED
    BY <1>1, <1>3, <2>2, <2>4, <2>5 DEF Stream, Last, Over, p
<1>6. CASE ~Carries(s)
  <2>1. in'[p] = in[p]
    BY <1>2, <1>6
  <2>2. link # "up" \/ gone[p]
    BY <1>6 DEF Carries, p
  <2>3. NoneMade(p)'
    BY <1>1, <1>4, <2>1, Numbers DEF Stream, NoneMade, p
  <2>4. NoneLost(p)'
    BY <2>2, <1>1 DEF NoneLost, Side
  <2> QED
    BY <1>1, <1>3, <2>1, <2>3, <2>4 DEF Stream, Last, Over, p
<1> QED
  BY <1>5, <1>6 DEF p

\* The reader takes what is neither an alert nor a message of the user.
LEMMA Reads ==
  ASSUME TypeOK, NEW s \in Side, Stream(s), in[s] # <<>>,
         Head(in[s]).msg \notin {"Fatal", "CloseNotify"}, in'[s] = Tail(in[s]),
         got'[s] = got[s] + One(Head(in[s])), notified'[s] = notified[s],
         sent'[Peer(s)] = sent[Peer(s)], out'[Peer(s)] = out[Peer(s)],
         ssl'[s].fail = ssl[s].fail, gone' = gone, link' = link
  PROVE  Stream(s)'
<1>1. Peer(s) \in Side /\ in[s] \in Seq(Record) /\ Tail(in[s]) \in Seq(Record)
  BY Peers, Contexts
<1>2. Count(in[s]) = Count(in[s])' + One(Head(in[s])) /\ Count(in[s])' \in Nat
  BY <1>1, CountTail, CountNat
<1>3. One(Head(in[s])) \in {0, 1} /\ Pending(Peer(s))' = Pending(Peer(s))
  BY DEF One, Pending
<1>4. ~notified[s]
  BY DEF Stream, Over
<1>5. (Has(in[s], "Fatal") <=> Has(in[s], "Fatal")')
        /\ (Has(in[s], "CloseNotify") <=> Has(in[s], "CloseNotify")')
  BY <1>1, HasTail
<1>6. NoneMade(s)'
  BY <1>1, <1>2, <1>3, Numbers DEF Stream, NoneMade
<1>7. NoneLost(s)'
  <2>1. Barred(s) <=> Barred(s)'
    BY <1>5 DEF Barred
  <2> QED
    BY <1>1, <1>2, <1>3, <2>1, Numbers DEF Stream, NoneLost
<1>8. Last(s)'
  <2> SUFFICES ASSUME Has(in[s], "CloseNotify")
               PROVE  (/\ gone[Peer(s)]
                       /\ \A i \in DOMAIN in[s] : in[s][i].msg = "CloseNotify" => i = Len(in[s])
                       /\ ssl[s].fail = "none" =>
                            got[s] + Count(in[s]) = sent[Peer(s)] \/ Has(in[s], "Fatal"))'
    BY <1>5 DEF Last
  <2>1. /\ gone[Peer(s)]
        /\ \A i \in DOMAIN in[s] : in[s][i].msg = "CloseNotify" => i = Len(in[s])
        /\ ssl[s].fail = "none" =>
             got[s] + Count(in[s]) = sent[Peer(s)] \/ Has(in[s], "Fatal")
    BY DEF Stream, Last
  <2>2. /\ DOMAIN Tail(in[s]) = 1 .. Len(in[s]) - 1 /\ Len(Tail(in[s])) = Len(in[s]) - 1
        /\ Len(in[s]) \in Nat /\ DOMAIN in[s] = 1 .. Len(in[s])
        /\ \A i \in 1 .. Len(in[s]) - 1 : Tail(in[s])[i] = in[s][i + 1]
    BY <1>1
  <2>3. \A i \in DOMAIN Tail(in[s]) :
          Tail(in[s])[i].msg = "CloseNotify" => i = Len(Tail(in[s]))
    BY <2>1, <2>2
  <2> QED
    BY <1>1, <1>2, <1>3, <1>5, <2>1, <2>3, Numbers
<1> QED
  BY <1>4, <1>6, <1>7, <1>8 DEF Stream, Over
-----------------------------------------------------------------------------
(* The steps of a handshake keep all this.                                  *)

\* A queue of formed messages with one more, without its first, and cut.
LEMMA FormedQueues ==
  ASSUME NEW q \in Seq(Record), AllFormed(q)
  PROVE  /\ \A r \in Record : Formed(r) => AllFormed(Append(q, r))
         /\ q # <<>> => AllFormed(Tail(q))
         /\ \A n \in 0 .. Len(q) : AllFormed(SubSeq(q, 1, n))
         /\ AllFormed(<<>>)
<1>1. ASSUME NEW r \in Record, Formed(r) PROVE AllFormed(Append(q, r))
  BY <1>1 DEF AllFormed
<1>2. ASSUME q # <<>> PROVE AllFormed(Tail(q))
  BY <1>2 DEF AllFormed
<1>3. ASSUME NEW n \in 0 .. Len(q) PROVE AllFormed(SubSeq(q, 1, n))
  BY <1>3 DEF AllFormed
<1>4. AllFormed(<<>>)
  BY DEF AllFormed
<1> QED
  BY <1>1, <1>2, <1>3, <1>4

\* The types of the records, of the type invariant.
LEMMA RecordTypes == TypeOK => Records
BY DEF TypeOK, Records

\* A context goes on.
LEMMA GoesOn ==
  ASSUME TypeOK, Content, NEW s \in Side, NEW c \in Context, Goes(s, c)
  PROVE  /\ ssl' \in [Side -> Context] /\ \A t \in Side : Chosen(t, ssl'[t])
         /\ \A t \in Side : ssl'[t].fail = ssl[t].fail
BY DEF Goes, Becomes, TypeOK, Content

\* A step without a record.
LEMMA MovesSound ==
  ASSUME TypeOK, Content, Delivery, NEW s \in Side, Moves(s), UNCHANGED sessionVars
  PROVE  Sound'
<1>1. PICK c \in Context : Goes(s, c) /\ UNCHANGED <<conf, out, in, gone, link>>
  BY DEF Moves
<1>2. /\ ssl' \in [Side -> Context] /\ \A t \in Side : Chosen(t, ssl'[t])
      /\ \A t \in Side : ssl'[t].fail = ssl[t].fail
  BY <1>1, GoesOn
<1>3. Records' /\ Content'
  BY <1>1, <1>2, RecordTypes DEF Records, Content
<1>4. Delivery'
  BY <1>1, <1>2, Still DEF Delivery, sessionVars
<1> QED
  BY <1>3, <1>4 DEF Sound

\* A step that writes.
LEMMA WritesSound ==
  ASSUME TypeOK, Content, Delivery, NEW s \in Side, ~gone[s], Writes(s), UNCHANGED sessionVars
  PROVE  Sound'
<1>1. PICK c \in Context, r \in Record :
        /\ Goes(s, c)
        /\ out[s] = None /\ r.msg \in Plain /\ Formed(r)
        /\ out' = [out EXCEPT ![s] = r]
        /\ UNCHANGED <<conf, in, gone, link>>
  BY DEF Writes
<1>2. /\ ssl' \in [Side -> Context] /\ \A t \in Side : Chosen(t, ssl'[t])
      /\ \A t \in Side : ssl'[t].fail = ssl[t].fail
  BY <1>1, GoesOn
<1>3. out' \in [Side -> Record \union {None}] /\ out'[s] = r
        /\ \A t \in Side : t # s => out'[t] = out[t]
  BY <1>1 DEF TypeOK
<1>4. r.msg # "CloseNotify" /\ One(r) = 0
  BY <1>1 DEF Plain, Handshake, One
<1>5. Records' /\ Content'
  BY <1>1, <1>2, <1>3, <1>4, RecordTypes DEF Records, Content
<1>6. s = Peer(Peer(s)) /\ Peer(s) \in Side /\ Peer(s) # s /\ sent[s] \in Nat
  BY Peers, Numbers
<1>7. Stream(s)' /\ Stream(Peer(s))'
  <2>1. Stream(s)'
    BY <1>1, <1>2, <1>3, <1>6, Still DEF Delivery, sessionVars
  <2>2. sent'[s] = sent[s] + One(r)
    BY <1>4, <1>6 DEF sessionVars
  <2>3. Stream(Peer(s))'
    BY <1>1, <1>2, <1>3, <1>6, <2>2, Waits DEF Delivery, sessionVars
  <2> QED
    BY <2>1, <2>3
<1> QED
  BY <1>5, <1>7, BothSides DEF Sound, Delivery

\* A step that reads.
LEMMA TakesSound ==
  ASSUME TypeOK, Content, Delivery, NEW s \in Side, Takes(s), UNCHANGED sessionVars
  PROVE  Sound'
<1>1. PICK c \in Context :
        /\ Goes(s, c)
        /\ in[s] # <<>> /\ Head(in[s]).msg \in Plain
        /\ in' = [in EXCEPT ![s] = Tail(@)]
        /\ UNCHANGED <<conf, out, gone, link>>
  BY DEF Takes
<1>2. /\ ssl' \in [Side -> Context] /\ \A t \in Side : Chosen(t, ssl'[t])
      /\ \A t \in Side : ssl'[t].fail = ssl[t].fail
  BY <1>1, GoesOn
<1>3. in' \in [Side -> Seq(Record)] /\ in'[s] = Tail(in[s])
        /\ \A t \in Side : t # s => in'[t] = in[t]
  BY <1>1 DEF TypeOK
<1>4. Head(in[s]).msg \notin {"Fatal", "CloseNotify"} /\ One(Head(in[s])) = 0
  BY <1>1 DEF Plain, Handshake, One
<1>5. in[s] \in Seq(Record) /\ AllFormed(in[s])
  BY Contexts DEF Content
<1>6. AllFormed(in'[s])
  BY <1>1, <1>3, <1>5, FormedQueues
<1>7. Records' /\ Content'
  BY <1>1, <1>2, <1>3, <1>6, RecordTypes DEF Records, Content
<1>8. Peer(s) \in Side /\ Peer(s) # s /\ got[s] \in Nat
  BY Peers, Numbers
<1>9. Stream(s)' /\ Stream(Peer(s))'
  <2>1. got'[s] = got[s] + One(Head(in[s]))
    BY <1>4, <1>8 DEF sessionVars
  <2>2. Stream(s)'
    BY <1>1, <1>2, <1>3, <1>4, <1>8, <2>1, Reads DEF Delivery, sessionVars
  <2>3. Stream(Peer(s))'
    BY <1>1, <1>2, <1>3, <1>8, Still, Peers DEF Delivery, sessionVars
  <2> QED
    BY <2>2, <2>3
<1> QED
  BY <1>7, <1>9, BothSides DEF Sound, Delivery

\* What waits is sent.
LEMMA FlushSound ==
  ASSUME TypeOK, Content, Delivery, NEW s \in Side, FlushOutput(s),
         UNCHANGED <<sent, got, notified>>
  PROVE  Sound'
<1>1. /\ ~gone[s] /\ out[s] # None /\ in' = Arrive(s, out[s])
      /\ out' = [out EXCEPT ![s] = None]
      /\ UNCHANGED <<conf, ssl, gone, link>>
  BY DEF FlushOutput
<1>2. out[s] \in Record /\ Formed(out[s]) /\ out[s].msg # "CloseNotify"
  BY <1>1, Contexts DEF Content
<1>3. /\ in' \in [Side -> Seq(Record)] /\ in'[s] = in[s]
      /\ in'[Peer(s)] = IF Carries(s) THEN Append(in[Peer(s)], out[s]) ELSE in[Peer(s)]
  BY <1>1, <1>2, Arrives
<1>4. Peer(s) \in Side /\ Peer(s) # s /\ Peer(Peer(s)) = s
  BY Peers
<1>5. out' \in [Side -> Record \union {None}] /\ out'[s] = None /\ out'[Peer(s)] = out[Peer(s)]
  BY <1>1, <1>4 DEF TypeOK
<1>6. AllFormed(in'[s]) /\ AllFormed(in'[Peer(s)])
  <2>1. in[Peer(s)] \in Seq(Record) /\ AllFormed(in[Peer(s)]) /\ AllFormed(in[s])
    BY <1>4, Contexts DEF Content
  <2> QED
    BY <1>2, <1>3, <2>1, FormedQueues
<1>7. Records' /\ Content'
  <2>1. \A t \in Side : AllFormed(in'[t]) /\ (out'[t] # None => out'[t] = out[t])
    BY <1>4, <1>5, <1>6, BothSides
  <2> QED
    BY <1>1, <1>3, <1>5, <2>1, RecordTypes DEF Records, Content
<1>8. Stream(s)'
  BY <1>1, <1>3, <1>4, <1>5, Still DEF Delivery
<1>9. Stream(Peer(s))'
  BY <1>1, <1>2, <1>3, <1>4, <1>5, Sends DEF Delivery
<1> QED
  BY <1>7, <1>8, <1>9, BothSides DEF Sound, Delivery

\* An end that leaves sends at most one record more: what it had written, an
\* alert, or when nothing waited a close notification.
LEMMA Leaves ==
  ASSUME TypeOK, NEW s \in Side, Stream(Peer(s)), ~gone[s], NEW r \in Record,
         r.msg = "CloseNotify" => out[s] = None,
         One(r) <= Pending(s),
         \/ in'[Peer(s)] = in[Peer(s)]
         \/ Carries(s) /\ in'[Peer(s)] = Append(in[Peer(s)], r),
         out'[s] = None, gone' = [gone EXCEPT ![s] = TRUE],
         got'[Peer(s)] = got[Peer(s)], notified'[Peer(s)] = notified[Peer(s)],
         ssl'[Peer(s)].fail = ssl[Peer(s)].fail, sent'[s] = sent[s]
  PROVE  Stream(Peer(s))'
<1> DEFINE p == Peer(s)
<1>1. p \in Side /\ p # s /\ Peer(p) = s /\ in[p] \in Seq(Record)
  BY Peers, Contexts
<1>2. ~Has(in[p], "CloseNotify") /\ ~notified[p]
  BY <1>1, NotOver
<1>3. gone'[s] /\ gone \in [Side -> BOOLEAN]
  BY DEF TypeOK
<1>4. Pending(s)' = 0 /\ Pending(s) \in {0, 1} /\ One(r) \in {0, 1}
  BY DEF Pending, One
<1>5. NoneLost(p)'
  BY <1>3, <1>1 DEF NoneLost, Side
<1>6. got[p] \in Nat /\ Count(in[p]) \in Nat /\ sent[s] \in Nat
        /\ got[p] + Count(in[p]) + Pending(s) <= sent[s]
  BY <1>1, Numbers DEF Stream, NoneMade
<1>7. CASE in'[p] = in[p]
  <2>1. NoneMade(p)'
    BY <1>1, <1>4, <1>6, <1>7 DEF NoneMade, p
  <2> QED
    BY <1>1, <1>2, <1>5, <1>7, <2>1 DEF Stream, Last, Over, p
<1>8. CASE Carries(s) /\ in'[p] = Append(in[p], r)
  <2>1. Count(in[p])' = Count(in[p]) + One(r)
    BY <1>1, <1>8, CountAppend
  <2>2. NoneMade(p)'
    <3>1. got'[p] = got[p] /\ sent'[s] = sent[s]
      OBVIOUS
    <3> HIDE DEF p
    <3> QED
      BY <1>1, <1>4, <1>6, <2>1, <3>1 DEF NoneMade
  <2>3. Last(p)'
    <3> SUFFICES ASSUME Has(in[p], "CloseNotify")'
                 PROVE  (/\ gone[s]
                         /\ \A i \in DOMAIN in[p] : in[p][i].msg = "CloseNotify" => i = Len(in[p])
                         /\ ssl[p].fail = "none" =>
                              got[p] + Count(in[p]) = sent[s] \/ Has(in[p], "Fatal"))'
      BY <1>1 DEF Last
    <3>1. r.msg = "CloseNotify" /\ out[s] = None
      BY <1>1, <1>2, <1>8, HasAppend
    <3>2. \A i \in DOMAIN in'[p] : in'[p][i].msg = "CloseNotify" => i = Len(in'[p])
      <4> DEFINE q == in[p]
      <4> DEFINE a == Append(q, r)
      <4>1. /\ DOMAIN a = 1 .. Len(q) + 1 /\ DOMAIN q = 1 .. Len(q) /\ Len(q) \in Nat
            /\ Len(a) = Len(q) + 1 /\ \A i \in 1 .. Len(q) : a[i] = q[i]
        BY <1>1
      <4>2. \A i \in DOMAIN q : q[i].msg # "CloseNotify"
        BY <1>2 DEF Has
      <4>3. in'[p] = a
        BY <1>8
      <4> HIDE DEF a, q
      <4> QED
        BY <4>1, <4>2, <4>3
    <3>3. ssl'[p].fail = "none" =>
            got[p]' + Count(in[p])' = sent[s]' \/ Has(in[p], "Fatal")'
      <4> SUFFICES ASSUME ssl[p].fail = "none"
                   PROVE  got[p] + Count(in[p]) = sent[s] \/ Has(in[p], "Fatal")'
        <5>1. One(r) = 0 /\ ssl'[p].fail = ssl[p].fail
          BY <3>1 DEF One
        <5>2. got[p]' = got[p] /\ sent[s]' = sent[s]
          OBVIOUS
        <5> QED
          BY <1>6, <2>1, <5>1, <5>2
      <4>1. link = "up" /\ ~gone["client"] /\ ~gone["server"]
        BY <1>1, <1>8 DEF Carries, Side, Peer
      <4>2. Pending(s) = 0
        BY <3>1 DEF Pending
      <4>3. got[p] + Count(in[p]) + Pending(s) = sent[s] \/ Barred(p)
        BY <1>1, <4>1 DEF Stream, NoneLost
      <4>4. Barred(p) => Has(in[p], "Fatal")'
        BY <1>1, <1>8, <3>1, HasAppend DEF Barred
      <4> QED
        BY <1>6, <4>2, <4>3, <4>4
    <3> QED
      BY <1>3, <3>2, <3>3
  <2> QED
    BY <1>1, <1>2, <1>5, <2>2, <2>3 DEF Stream, Over, p
<1> QED
  BY <1>7, <1>8

\* The records of an end that has left.
LEMMA LeavesTyped ==
  ASSUME TypeOK, Content, NEW s \in Side, NEW c \in Context, Chosen(s, c),
         ssl' = [ssl EXCEPT ![s] = c],
         NEW r \in Record, Formed(r),
         gone' = [gone EXCEPT ![s] = TRUE], out' = [out EXCEPT ![s] = None],
         NEW next, next = in \/ next = Arrive(s, r), in' = [next EXCEPT ![s] = <<>>],
         UNCHANGED <<conf, link>>
  PROVE  /\ Records' /\ Content'
         /\ in'[s] = <<>> /\ out'[Peer(s)] = out[Peer(s)] /\ out'[s] = None
         /\ \/ in'[Peer(s)] = in[Peer(s)]
            \/ Carries(s) /\ in'[Peer(s)] = Append(in[Peer(s)], r)
<1>1. Peer(s) \in Side /\ Peer(s) # s
  BY Peers
<1>2. next \in [Side -> Seq(Record)]
  BY Arrives, ZenonT(60) DEF TypeOK
<1>3. /\ in' \in [Side -> Seq(Record)] /\ in'[s] = <<>> /\ in'[Peer(s)] = next[Peer(s)]
  <2>1. <<>> \in Seq(Record)
    OBVIOUS
  <2> QED
    BY <1>1, <1>2, <2>1
<1>4. next[Peer(s)] = in[Peer(s)]
        \/ (Carries(s) /\ next[Peer(s)] = Append(in[Peer(s)], r))
  BY Arrives
<1>5. out' \in [Side -> Record \union {None}] /\ out'[s] = None /\ out'[Peer(s)] = out[Peer(s)]
  BY <1>1 DEF TypeOK
<1>6. ssl' \in [Side -> Context] /\ \A t \in Side : Chosen(t, ssl'[t])
  BY DEF TypeOK, Content
<1>7. in[Peer(s)] \in Seq(Record) /\ AllFormed(in[Peer(s)])
  BY <1>1, Contexts DEF Content
<1>8. AllFormed(in'[s]) /\ AllFormed(in'[Peer(s)])
  BY <1>3, <1>4, <1>7, FormedQueues
<1>9. Records'
  BY <1>3, <1>5, <1>6 DEF Records, TypeOK
<1>10. Content'
  <2>1. \A t \in Side : AllFormed(in'[t]) /\ (out'[t] # None => out'[t] = out[t])
    BY <1>1, <1>5, <1>8, BothSides
  <2> QED
    BY <1>6, <2>1 DEF Content
<1> QED
  BY <1>3, <1>4, <1>5, <1>9, <1>10

\* A fatal alert is a record that says nothing.
LEMMA Alerts ==
  ASSUME NEW c \in Context
  PROVE  LET r == Sealed(c, "Fatal", {}, <<>>)
         IN  r \in Record /\ r.msg = "Fatal" /\ Formed(r) /\ One(r) = 0
<1>1. {} \in Body /\ "Fatal" \in Message
  BY DEF Body, Message
<1> DEFINE r == Sealed(c, "Fatal", {}, <<>>)
<1>2. r \in Record /\ r.msg = "Fatal"
  BY <1>1, SealedRecord, Transcripts
<1> HIDE DEF r
<1>3. Formed(r) /\ One(r) = 0
  BY <1>2 DEF Formed, One
<1> QED
  BY <1>2, <1>3 DEF r

\* A handshake that fails.
LEMMA FailsSound ==
  ASSUME TypeOK, Content, Delivery, NEW s \in Side, ~gone[s], Fails(s), UNCHANGED sessionVars
  PROVE  Sound'
<1> DEFINE r == Sealed(ssl[s], "Fatal", {}, <<>>)
<1>1. ssl[s] \in Context /\ Chosen(s, ssl[s]) /\ Peer(s) \in Side /\ Peer(s) # s
        /\ Peer(Peer(s)) = s
  BY Contexts, Peers DEF Content
<1>2. r \in Record /\ r.msg = "Fatal" /\ Formed(r) /\ One(r) = 0
  BY <1>1, Alerts
<1>3. PICK why \in Failure : Ends(s, why, {}) \/ Ends(s, why, FatalAlert(s))
  BY DEF Fails
<1> DEFINE c == [ssl[s] EXCEPT !.fail = why]
<1>4. c \in Context /\ Chosen(s, c)
  BY <1>1, SetFail DEF Chosen
<1>5. PICK next : (next = in \/ next = Arrive(s, r)) /\ in' = [next EXCEPT ![s] = <<>>]
  BY <1>3 DEF Ends, FatalAlert
<1>6. /\ ssl' = [ssl EXCEPT ![s] = c]
      /\ gone' = [gone EXCEPT ![s] = TRUE] /\ out' = [out EXCEPT ![s] = None]
      /\ UNCHANGED <<conf, link>>
  BY <1>3 DEF Ends, Becomes
<1> HIDE DEF r, c
<1>7. /\ Records' /\ Content'
      /\ in'[s] = <<>> /\ out'[Peer(s)] = out[Peer(s)] /\ out'[s] = None
      /\ \/ in'[Peer(s)] = in[Peer(s)]
         \/ Carries(s) /\ in'[Peer(s)] = Append(in[Peer(s)], r)
  BY <1>2, <1>4, <1>5, <1>6, LeavesTyped
<1>8. gone'[s] /\ (\A t \in Side : gone[t] => gone'[t]) /\ ssl'[Peer(s)] = ssl[Peer(s)]
  BY <1>1, <1>6 DEF TypeOK
<1>9. Stream(s)'
  BY <1>1, <1>7, <1>8, Emptied DEF Delivery, sessionVars
<1>10. Stream(Peer(s))'
  <2>1. One(r) <= Pending(s)
    BY <1>2, Numbers
  <2> QED
    BY <1>1, <1>2, <1>6, <1>7, <1>8, <2>1, Leaves DEF Delivery, sessionVars
<1> QED
  BY <1>7, <1>9, <1>10, BothSides DEF Sound, Delivery

\* Every step of a handshake.
LEMMA WorksSound ==
  ASSUME TypeOK, Content, Delivery, NEW s \in Side, Works(s) \/ FlushOutput(s),
         UNCHANGED sessionVars
  PROVE  Sound'
BY MovesSound, WritesSound, TakesSound, FailsSound, FlushSound
   DEF Works, Handshaking, sessionVars
-----------------------------------------------------------------------------
(* The socket around the handshake.                                         *)

\* The rest of the type invariant.
Session ==
  /\ sock \in {"none", "created", "opening", "open"}
  /\ sent \in [Side -> 0 .. MaxData] /\ got \in [Side -> 0 .. MaxData]
  /\ skipped \in BOOLEAN
  /\ notified \in [Side -> BOOLEAN]
  /\ sock = "open" => ssl["client"].state = HANDSHAKE_OVER
  /\ sock = "opening" => ~gone["client"]

\* The parts of the invariant.
LEMMA Parts == IInv <=> Sound /\ Session
BY DEF IInv, Sound, TypeOK, Records, Session

\* The parts of the invariant after a step.
LEMMA PartsKept == Sound' /\ Session' => IInv'
BY DEF IInv, Sound, TypeOK, Records, Session

\* A step of a handshake leaves the other end's context and connection alone.
LEMMA OwnOnly ==
  ASSUME TypeOK, NEW s \in Side, Works(s) \/ FlushOutput(s)
  PROVE  ssl'[Peer(s)] = ssl[Peer(s)] /\ gone'[Peer(s)] = gone[Peer(s)]
           /\ (gone'[s] \in BOOLEAN) /\ ssl'[s].state \in 0 .. 17
<1>1. Peer(s) \in Side /\ Peer(s) # s
  BY Peers
<1>2. ssl[s] \in Context /\ ssl[s].state \in 0 .. 17
  BY Contexts
<1>3. CASE \E c \in Context : Goes(s, c) /\ gone' = gone
  <2>1. PICK c \in Context : ssl' = [ssl EXCEPT ![s] = c] /\ gone' = gone
    BY <1>3 DEF Goes, Becomes
  <2>2. c.state \in 0 .. 17
    BY States DEF Context
  <2> QED
    BY <1>1, <2>1, <2>2 DEF TypeOK
<1>4. CASE Fails(s)
  <2>1. PICK why \in Failure :
          ssl' = [ssl EXCEPT ![s] = [ssl[s] EXCEPT !.fail = why]]
            /\ gone' = [gone EXCEPT ![s] = TRUE]
    BY <1>4 DEF Fails, Ends, Becomes
  <2>2. [ssl[s] EXCEPT !.fail = why].state = ssl[s].state
    BY <1>2, SetFail
  <2> QED
    BY <1>1, <1>2, <2>1, <2>2 DEF TypeOK
<1>5. CASE FlushOutput(s)
  BY <1>2, <1>5 DEF FlushOutput, TypeOK
<1> QED
  BY <1>3, <1>4, <1>5 DEF Works, Moves, Writes, Takes

\* The loop of net_sock_open_mbedtls.
LEMMA LoopStep ==
  ASSUME IInv, Works("client") \/ FlushOutput("client"), LoopsOn
  PROVE  IInv'
<1>1. "client" \in Side
  BY DEF Side
<1>2. Sound'
  BY <1>1, WorksSound DEF IInv, LoopsOn
<1>3. gone'["client"] \in BOOLEAN
  BY <1>1, OwnOnly DEF IInv
<1>4. Session'
  BY <1>3, States DEF IInv, TypeOK, Session, LoopsOn, sessionVars, HandshakeOver
<1> QED
  BY <1>2, <1>4, PartsKept

\* The server's handshake.
LEMMA ServerHandshake ==
  ASSUME IInv, Works("server") \/ FlushOutput("server"), UNCHANGED <<sock, sessionVars>>
  PROVE  IInv'
<1>1. "server" \in Side /\ Peer("server") = "client"
  BY DEF Side, Peer
<1>2. Sound'
  BY <1>1, WorksSound DEF IInv
<1>3. ssl'["client"] = ssl["client"] /\ gone'["client"] = gone["client"]
  BY <1>1, OwnOnly DEF IInv
<1>4. Session'
  BY <1>3 DEF IInv, TypeOK, Session, sessionVars
<1> QED
  BY <1>2, <1>4, PartsKept

\* A socket without a connection, and a connection without anything on it.
LEMMA Begins ==
  ASSUME IInv, Create \/ Open \/ Destroy
  PROVE  IInv'
<1>1. CASE Create \/ Destroy
  <2>1. UNCHANGED <<recordVars, sessionVars>> /\ sock' \in {"none", "created"}
    BY <1>1 DEF Create, Destroy
  <2>2. Sound'
    <3>1. Records' /\ Content'
      BY <2>1, RecordTypes DEF IInv, Records, Content, recordVars
    <3>2. Delivery'
      BY <2>1, Still, Peers DEF IInv, Delivery, recordVars, sessionVars
    <3> QED
      BY <3>1, <3>2 DEF Sound
  <2>3. Session'
    BY <2>1 DEF IInv, TypeOK, Session, sessionVars
  <2> QED
    BY <2>2, <2>3, PartsKept
<1>2. CASE Open
  <2>1. /\ ssl' = [s \in Side |-> Fresh] /\ out' = [s \in Side |-> None]
        /\ in' = [s \in Side |-> <<>>] /\ gone' = [s \in Side |-> FALSE] /\ link' = "up"
        /\ conf' = conf /\ sock' = "opening"
        /\ sent' = [s \in Side |-> 0] /\ got' = [s \in Side |-> 0]
        /\ notified' = [s \in Side |-> FALSE] /\ skipped' = FALSE
    BY <1>2 DEF Open, Connected
  <2>2. Records'
    <3>1. <<>> \in Seq(Record)
      OBVIOUS
    <3> QED
      BY <2>1, <3>1, FreshContext DEF Records, IInv, TypeOK
  <2>3. Content'
    <3>1. AllFormed(<<>>) /\ \A s \in Side : Chosen(s, Fresh)
      BY FreshContext, States DEF AllFormed, Chosen
    <3> QED
      BY <2>1, <3>1 DEF Content
  <2>4. Delivery'
    <3> SUFFICES ASSUME NEW s \in Side PROVE Stream(s)'
      BY DEF Delivery
    <3>1. /\ in'[s] = <<>> /\ out'[Peer(s)] = None /\ got'[s] = 0 /\ sent'[Peer(s)] = 0
          /\ ~notified'[s]
      BY <2>1, Peers
    <3>2. Count(in[s])' = 0 /\ Pending(Peer(s))' = 0 /\ ~Has(in[s], "CloseNotify")'
      BY <3>1, CountEmpty DEF Pending, Has
    <3> QED
      BY <3>1, <3>2 DEF Stream, NoneMade, NoneLost, Last, Over
  <2>5. Session'
    <3>1. "client" \in Side /\ 0 \in 0 .. MaxData
      BY MaxDataAssumption DEF Side
    <3> QED
      BY <2>1, <3>1 DEF Session
  <2> QED
    BY <2>2, <2>3, <2>4, <2>5, PartsKept DEF Sound
<1> QED
  BY <1>1, <1>2

\* At first there is none.
LEMMA Initially == Init => IInv
<1> SUFFICES ASSUME Init PROVE IInv
  OBVIOUS
<1>1. Records
  <2>1. <<>> \in Seq(Record)
    OBVIOUS
  <2> QED
    BY <2>1, FreshContext DEF Init, RecordsInit, Records
<1>2. Content
  <2>1. AllFormed(<<>>) /\ \A s \in Side : Chosen(s, Fresh)
    BY FreshContext, States DEF AllFormed, Chosen
  <2> QED
    BY <2>1 DEF Content, Init, RecordsInit
<1>3. Delivery
  <2> SUFFICES ASSUME NEW s \in Side PROVE Stream(s)
    BY DEF Delivery
  <2>1. /\ in[s] = <<>> /\ out[Peer(s)] = None /\ got[s] = 0 /\ sent[Peer(s)] = 0
        /\ ~notified[s]
    BY Peers DEF Init, RecordsInit
  <2>2. Count(in[s]) = 0 /\ Pending(Peer(s)) = 0 /\ ~Has(in[s], "CloseNotify")
    BY <2>1, CountEmpty DEF Pending, Has
  <2> QED
    BY <2>1, <2>2 DEF Stream, NoneMade, NoneLost, Last, Over
<1>4. Session
  <2>1. 0 \in 0 .. MaxData
    BY MaxDataAssumption
  <2> QED
    BY <2>1 DEF Session, Init
<1> QED
  BY <1>1, <1>2, <1>3, <1>4, Parts DEF Sound
-----------------------------------------------------------------------------
(* An open session.                                                         *)

\* An end that serves has not closed, and its handshake is over.
LEMMA Serves ==
  ASSUME IInv, NEW s \in Side, Serving(s)
  PROVE  /\ ~gone[s] /\ ssl[s] \in Context /\ ssl[s].state = 16 /\ Chosen(s, ssl[s])
         /\ Peer(s) \in Side /\ Peer(s) # s /\ Peer(Peer(s)) = s
BY Contexts, Peers, States DEF IInv, Content, Serving

\* The user's message is written, once what was written before has been sent.
LEMMA WriteDataStep ==
  ASSUME IInv, NEW s \in Side, WriteData(s)
  PROVE  IInv'
<1>1. /\ ~gone[s] /\ ssl[s] \in Context /\ Chosen(s, ssl[s])
      /\ Peer(s) \in Side /\ Peer(s) # s /\ Peer(Peer(s)) = s
  BY Serves DEF WriteData, Usable
<1> DEFINE r == Sealed(ssl[s], "Data", {}, <<>>)
<1>2. r \in Record /\ r.msg = "Data"
  <2>1. "Data" \in Message /\ {} \in Body
    BY DEF Message, Body
  <2> QED
    BY <1>1, <2>1, SealedRecord, Transcripts
<1>3. /\ ssl' = [ssl EXCEPT ![s] = ssl[s]] /\ out[s] = None
      /\ out' = [out EXCEPT ![s] = r] /\ UNCHANGED <<conf, in, gone, link>>
      /\ UNCHANGED <<sock, skipped, got, notified>>
      /\ sent[s] < MaxData /\ sent' = [sent EXCEPT ![s] = @ + 1]
  BY DEF WriteData, WriteRecord, Becomes, Handshake
<1> HIDE DEF r
<1>4. ssl' = ssl /\ out' \in [Side -> Record \union {None}] /\ out'[s] = r
        /\ \A t \in Side : t # s => out'[t] = out[t]
  BY <1>2, <1>3 DEF IInv, TypeOK
<1>5. sent' \in [Side -> 0 .. MaxData] /\ sent'[s] = sent[s] + 1
        /\ \A t \in Side : t # s => sent'[t] = sent[t]
  BY <1>3, MaxDataAssumption DEF IInv, TypeOK
<1>6. Formed(r) /\ One(r) = 1
  BY <1>2 DEF Formed, One
<1>7. Records' /\ Content'
  BY <1>2, <1>3, <1>4, <1>6, RecordTypes DEF IInv, Records, Content
<1>8. Stream(s)'
  BY <1>1, <1>3, <1>4, <1>5, Still DEF IInv, Delivery
<1>9. Stream(Peer(s))'
  BY <1>1, <1>2, <1>3, <1>4, <1>5, <1>6, Waits DEF IInv, Delivery
<1>10. Session'
  BY <1>3, <1>4, <1>5 DEF IInv, TypeOK, Session
<1> QED
  BY <1>7, <1>8, <1>9, <1>10, BothSides, PartsKept DEF Sound, Delivery

\* It is sent.
LEMMA FlushDataStep ==
  ASSUME IInv, NEW s \in Side, FlushData(s)
  PROVE  IInv'
<1>1. FlushOutput(s) /\ UNCHANGED <<sock, sent, got, notified>>
  BY DEF FlushData
<1>2. Sound'
  BY <1>1, FlushSound DEF IInv
<1>3. skipped' \in BOOLEAN
  BY DEF FlushData, IInv, TypeOK
<1>4. Session'
  BY <1>1, <1>3 DEF FlushOutput, IInv, TypeOK, Session
<1> QED
  BY <1>2, <1>4, PartsKept

\* A record that is sent a second time.
LEMMA SentAgain ==
  ASSUME NEW r \in Record
  PROVE  [r EXCEPT !.msg = "Again"] \in Record /\ [r EXCEPT !.msg = "Again"].msg = "Again"
<1>1. "Again" \in Message
  BY DEF Message
<1> QED
  BY <1>1 DEF Record

\* It is sent, and the library is told that it was not.
LEMMA ReportedLostStep ==
  ASSUME IInv, NEW s \in Side, FlushReportedLost(s)
  PROVE  IInv'
<1>1. /\ ~gone[s] /\ Peer(s) \in Side /\ Peer(s) # s /\ Peer(Peer(s)) = s
  BY Serves DEF FlushReportedLost
<1>2. /\ out[s] # None /\ in' = Arrive(s, out[s]) /\ out' = [out EXCEPT ![s].msg = "Again"]
      /\ UNCHANGED <<conf, ssl, gone, link, sock, sessionVars>>
  BY DEF FlushReportedLost
<1>3. out[s] \in Record /\ Formed(out[s]) /\ out[s].msg # "CloseNotify"
  BY <1>2, Contexts DEF IInv, Content
<1>4. PICK r \in Record : r = [out[s] EXCEPT !.msg = "Again"] /\ r.msg = "Again"
  BY <1>3, SentAgain
<1>5. out' = [out EXCEPT ![s] = r]
  BY <1>2, <1>4
<1>6. /\ in' \in [Side -> Seq(Record)] /\ in'[s] = in[s]
      /\ in'[Peer(s)] = IF Carries(s) THEN Append(in[Peer(s)], out[s]) ELSE in[Peer(s)]
  BY <1>2, <1>3, Arrives DEF IInv
<1>7. /\ out' \in [Side -> Record \union {None}] /\ out'[s] = r /\ r # None
      /\ out'[Peer(s)] = out[Peer(s)]
  BY <1>1, <1>5, NoneAssumption DEF IInv, TypeOK
<1>8. AllFormed(in'[s]) /\ AllFormed(in'[Peer(s)]) /\ Formed(r)
  <2>1. in[Peer(s)] \in Seq(Record) /\ AllFormed(in[Peer(s)]) /\ AllFormed(in[s])
    BY <1>1, Contexts DEF IInv, Content
  <2>2. Formed(r)
    BY <1>4 DEF Formed
  <2> QED
    BY <1>3, <1>6, <2>1, <2>2, FormedQueues
<1>9. Records' /\ Content'
  <2>1. \A t \in Side : AllFormed(in'[t])
          /\ (out'[t] # None => Formed(out'[t]) /\ out'[t].msg # "CloseNotify")
    BY <1>1, <1>4, <1>7, <1>8, BothSides DEF IInv, Content
  <2> QED
    BY <1>2, <1>6, <1>7, <2>1, RecordTypes DEF IInv, Records, Content
<1>10. Stream(s)'
  BY <1>1, <1>2, <1>6, <1>7, Still DEF IInv, Delivery, sessionVars
<1>11. Stream(Peer(s))'
  BY <1>1, <1>2, <1>3, <1>4, <1>7, Sends DEF IInv, Delivery, sessionVars
<1>12. Session'
  BY <1>2 DEF IInv, TypeOK, Session, sessionVars
<1> QED
  BY <1>9, <1>10, <1>11, <1>12, BothSides, PartsKept DEF Sound, Delivery

\* What is left when the first record has been read.
LEMMA Taken ==
  ASSUME IInv, NEW s \in Side, in[s] # <<>>, in' = [in EXCEPT ![s] = Tail(@)]
  PROVE  /\ in' \in [Side -> Seq(Record)] /\ in'[s] = Tail(in[s])
         /\ \A t \in Side : t # s => in'[t] = in[t]
         /\ \A t \in Side : AllFormed(in'[t])
<1>1. in \in [Side -> Seq(Record)] /\ \A t \in Side : AllFormed(in[t])
  BY DEF IInv, TypeOK, Content
<1>2. in' \in [Side -> Seq(Record)] /\ in'[s] = Tail(in[s])
        /\ \A t \in Side : t # s => in'[t] = in[t]
  BY <1>1
<1> QED
  BY <1>1, <1>2, FormedQueues

\* A message is read.
LEMMA ReadsDataStep ==
  ASSUME IInv, NEW s \in Side, Usable(s), ReadsData(s), UNCHANGED <<sock, sent, skipped>>
  PROVE  IInv'
<1>1. /\ ~gone[s] /\ Peer(s) \in Side /\ Peer(s) # s /\ Peer(Peer(s)) = s
      /\ ssl[s] \in Context
  BY Serves DEF Usable
<1>2. /\ in[s] # <<>> /\ Head(in[s]).msg = "Data"
      /\ got' = [got EXCEPT ![s] = @ + 1]
      /\ ssl' = [ssl EXCEPT ![s] = ssl[s]] /\ in' = [in EXCEPT ![s] = Tail(@)]
      /\ UNCHANGED <<conf, out, gone, link, notified>>
  BY DEF ReadsData, Arrived, Acceptable, Took, Becomes
<1>3. ssl' = ssl
  BY <1>1, <1>2 DEF IInv, TypeOK
<1>4. /\ in' \in [Side -> Seq(Record)] /\ in'[s] = Tail(in[s])
      /\ \A t \in Side : t # s => in'[t] = in[t]
      /\ \A t \in Side : AllFormed(in'[t])
  BY <1>2, Taken
<1>5. One(Head(in[s])) = 1
  BY <1>2 DEF One
<1>6. got[s] + 1 <= MaxData
  <2>1. in[s] \in Seq(Record) /\ Tail(in[s]) \in Seq(Record)
    BY <1>2, Contexts DEF IInv
  <2>2. Count(in[s]) = Count(Tail(in[s])) + 1 /\ Count(Tail(in[s])) \in Nat
    BY <1>2, <1>5, <2>1, CountTail, CountNat
  <2>3. got[s] + Count(in[s]) + Pending(Peer(s)) <= sent[Peer(s)]
    BY DEF IInv, Delivery, Stream, NoneMade
  <2>4. sent[Peer(s)] <= MaxData
    BY <1>1 DEF IInv, TypeOK
  <2>5. Pending(Peer(s)) \in {0, 1} /\ got[s] \in Nat /\ sent[Peer(s)] \in Nat /\ MaxData \in Nat
    BY <1>1, Numbers DEF IInv
  <2> QED
    BY <2>2, <2>3, <2>4, <2>5
<1>7. got' \in [Side -> 0 .. MaxData] /\ got'[s] = got[s] + 1
        /\ \A t \in Side : t # s => got'[t] = got[t]
  BY <1>2, <1>6 DEF IInv, TypeOK
<1>8. Records' /\ Content'
  BY <1>2, <1>3, <1>4, RecordTypes DEF IInv, Records, Content
<1>9. Stream(s)'
  BY <1>1, <1>2, <1>3, <1>4, <1>5, <1>7, Reads DEF IInv, Delivery
<1>10. Stream(Peer(s))'
  BY <1>1, <1>2, <1>3, <1>4, <1>7, Still DEF IInv, Delivery
<1>11. Session'
  BY <1>2, <1>3, <1>7 DEF IInv, TypeOK, Session
<1> QED
  BY <1>8, <1>9, <1>10, <1>11, BothSides, PartsKept DEF Sound, Delivery

\* Behind the only record there is none.
LEMMA OnlyOne ==
  ASSUME NEW q \in Seq(Record), Len(q) = 1
  PROVE  Tail(q) = <<>> /\ \A i \in DOMAIN q : i = 1
<1>1. Tail(q) \in Seq(Record) /\ Len(Tail(q)) = 0
  OBVIOUS
<1>2. \A t \in Seq(Record) : Len(t) = 0 => t = <<>>
  OBVIOUS
<1>3. \A i \in DOMAIN q : i = 1
  OBVIOUS
<1> QED
  BY <1>1, <1>2, <1>3

\* A close notification is read, behind all the messages.
LEMMA ReadsNotificationStep ==
  ASSUME IInv, NEW s \in Side, Usable(s), ReadsNotification(s), UNCHANGED <<sock, sent, skipped>>
  PROVE  IInv'
<1>1. /\ ~gone[s] /\ Peer(s) \in Side /\ Peer(s) # s /\ Peer(Peer(s)) = s
      /\ ssl[s] \in Context /\ ssl[s].fail = "none"
  BY Serves DEF Usable
<1>2. /\ in[s] # <<>> /\ Head(in[s]).msg = "CloseNotify"
      /\ notified' = [notified EXCEPT ![s] = TRUE]
      /\ ssl' = [ssl EXCEPT ![s] = ssl[s]] /\ in' = [in EXCEPT ![s] = Tail(@)]
      /\ UNCHANGED <<conf, out, gone, link, got>>
  BY DEF ReadsNotification, Arrived, Acceptable, Took, Becomes
<1>3. ssl' = ssl
  BY <1>1, <1>2 DEF IInv, TypeOK
<1>4. /\ in' \in [Side -> Seq(Record)] /\ in'[s] = Tail(in[s])
      /\ \A t \in Side : t # s => in'[t] = in[t]
      /\ \A t \in Side : AllFormed(in'[t])
  BY <1>2, Taken
<1>5. /\ in[s] \in Seq(Record) /\ Tail(in[s]) \in Seq(Record)
      /\ 1 \in DOMAIN in[s] /\ in[s][1].msg = "CloseNotify"
  BY <1>2, Contexts DEF IInv
<1>6. Last(s) /\ NoneMade(s)
  BY DEF IInv, Delivery, Stream
<1>7. /\ Has(in[s], "CloseNotify") /\ gone[Peer(s)] /\ Len(in[s]) = 1
      /\ got[s] + Count(in[s]) = sent[Peer(s)] \/ Has(in[s], "Fatal")
  BY <1>1, <1>5, <1>6 DEF Last, Has
<1>8. Tail(in[s]) = <<>> /\ ~Has(in[s], "Fatal")
  <2>1. Tail(in[s]) = <<>>
    BY <1>5, <1>7, OnlyOne
  <2>2. \A i \in DOMAIN in[s] : i = 1
    BY <1>5, <1>7, OnlyOne
  <2> QED
    BY <1>5, <2>1, <2>2 DEF Has
<1>9. Count(in[s]) = 0 /\ Count(in[s])' = 0
  <2>1. One(Head(in[s])) = 0
    BY <1>2 DEF One
  <2>2. Count(in[s]) = Count(Tail(in[s])) + One(Head(in[s]))
    BY <1>2, <1>5, CountTail
  <2>3. Count(Tail(in[s])) = 0
    BY <1>8, CountEmpty
  <2>4. Count(in[s])' = 0
    BY <1>4, <2>3
  <2> QED
    BY <2>1, <2>2, <2>3, <2>4
<1>10. got[s] = sent[Peer(s)]
  BY <1>1, <1>7, <1>8, <1>9, Numbers DEF IInv
<1>11. notified' \in [Side -> BOOLEAN] /\ \A t \in Side : t # s => notified'[t] = notified[t]
  BY <1>2 DEF IInv, TypeOK
<1>12. Records' /\ Content'
  BY <1>2, <1>3, <1>4, RecordTypes DEF IInv, Records, Content
<1>13. Stream(s)'
  <2>1. NoneMade(s)'
    BY <1>1, <1>2, <1>6, <1>9, Numbers DEF IInv, NoneMade, Pending
  <2>2. NoneLost(s)'
    BY <1>2, <1>7 DEF NoneLost, Peer
  <2>3. Last(s)'
    BY <1>4, <1>8 DEF Last, Has
  <2>4. Over(s)'
    BY <1>2, <1>4, <1>7, <1>8, <1>10 DEF Over
  <2> QED
    BY <2>1, <2>2, <2>3, <2>4 DEF Stream
<1>14. Stream(Peer(s))'
  BY <1>1, <1>2, <1>3, <1>4, <1>11, Still DEF IInv, Delivery
<1>15. Session'
  BY <1>2, <1>3, <1>11 DEF IInv, TypeOK, Session
<1> QED
  BY <1>12, <1>13, <1>14, <1>15, BothSides, PartsKept DEF Sound, Delivery

\* An alert, or a record that does not open, is read: an alert may take the
\* place of what waited.
LEMMA ReadsErrorStep ==
  ASSUME IInv, NEW s \in Side, Usable(s), ReadsError(s), UNCHANGED <<sock, sent, skipped>>
  PROVE  IInv'
<1> DEFINE p == Peer(s)
<1> DEFINE r == Sealed(ssl[s], "Fatal", {}, <<>>)
<1>1. /\ ~gone[s] /\ p \in Side /\ p # s /\ Peer(p) = s
      /\ ssl[s] \in Context /\ Chosen(s, ssl[s]) /\ ssl[s].state = 16
  BY Serves DEF Usable
<1>2. r \in Record /\ r.msg = "Fatal" /\ Formed(r) /\ One(r) = 0
  BY <1>1, Alerts
<1>3. PICK why \in Failure :
        /\ ssl' = [ssl EXCEPT ![s].fail = why]
        /\ out' = IF why = "peer" THEN out ELSE [out EXCEPT ![s] = r]
  <2>1. Reason(ssl[s], Head(in[s])) \in Failure
    BY DEF Reason, Failure
  <2> QED
    BY <2>1 DEF ReadsError
<1>4. /\ in[s] # <<>> /\ in' = [in EXCEPT ![s] = Tail(@)]
      /\ UNCHANGED <<conf, gone, link, got, notified>>
  BY DEF ReadsError
<1> HIDE DEF r
<1> DEFINE c == [ssl[s] EXCEPT !.fail = why]
<1>5. c \in Context /\ Chosen(s, c) /\ c.fail \in Failure /\ c.state = 16
  BY <1>1, SetFail DEF Chosen
<1>6. ssl' = [ssl EXCEPT ![s] = c]
  BY <1>3
<1> HIDE DEF c
<1>7. /\ ssl' \in [Side -> Context] /\ ssl'[s] = c /\ ssl'[p] = ssl[p]
      /\ \A t \in Side : Chosen(t, ssl'[t]) /\ ssl'[t].state = ssl[t].state
  BY <1>1, <1>5, <1>6 DEF IInv, TypeOK, Content
<1>8. /\ in' \in [Side -> Seq(Record)] /\ in'[s] = Tail(in[s])
      /\ \A t \in Side : t # s => in'[t] = in[t]
      /\ \A t \in Side : AllFormed(in'[t])
  BY <1>4, Taken
<1>9. /\ out' \in [Side -> Record \union {None}] /\ out'[p] = out[p]
      /\ out'[s] = out[s] \/ out'[s] = r
  BY <1>1, <1>2, <1>3 DEF IInv, TypeOK
<1>10. Records' /\ Content'
  <2>1. \A t \in Side : out'[t] # None => Formed(out'[t]) /\ out'[t].msg # "CloseNotify"
    BY <1>1, <1>2, <1>9, BothSides DEF IInv, Content
  <2> QED
    BY <1>4, <1>7, <1>8, <1>9, <2>1, RecordTypes DEF IInv, Records, Content
<1>11. Stream(s)'
  <2>1. in[s] \in Seq(Record) /\ Tail(in[s]) \in Seq(Record)
    BY <1>4, Contexts DEF IInv
  <2>2. Count(in[s]) = Count(in[s])' + One(Head(in[s])) /\ Count(in[s])' \in Nat
    BY <1>4, <1>8, <2>1, CountTail, CountNat
  <2>3. One(Head(in[s])) \in {0, 1} /\ Pending(p)' = Pending(p)
    BY <1>9 DEF One, Pending
  <2>4. NoneMade(s)'
    <3>1. /\ got[s] \in Nat /\ Pending(p) \in {0, 1} /\ sent[p] \in Nat
          /\ got[s] + Count(in[s]) + Pending(p) <= sent[p]
      BY <1>1, Numbers DEF IInv, Delivery, Stream, NoneMade
    <3>2. got[s]' = got[s] /\ sent[p]' = sent[p]
      BY <1>4
    <3> QED
      BY <2>2, <2>3, <3>1, <3>2 DEF NoneMade
  <2>5. ssl'[s].fail # "none"
    BY <1>5, <1>7 DEF Failure
  <2>6. Last(s)'
    <3> SUFFICES ASSUME Has(in[s], "CloseNotify")'
                 PROVE  /\ gone[p]
                        /\ \A i \in DOMAIN in'[s] :
                             in'[s][i].msg = "CloseNotify" => i = Len(in'[s])
      BY <1>4, <2>5 DEF Last
    <3>1. Has(in[s], "CloseNotify")
      BY <1>4, <1>8, <2>1, HasTail
    <3>2. /\ gone[p]
          /\ \A i \in DOMAIN in[s] : in[s][i].msg = "CloseNotify" => i = Len(in[s])
      BY <3>1 DEF IInv, Delivery, Stream, Last
    <3>3. /\ DOMAIN Tail(in[s]) = 1 .. Len(in[s]) - 1 /\ Len(Tail(in[s])) = Len(in[s]) - 1
          /\ Len(in[s]) \in Nat /\ DOMAIN in[s] = 1 .. Len(in[s])
          /\ \A i \in 1 .. Len(in[s]) - 1 : Tail(in[s])[i] = in[s][i + 1]
      BY <1>4, <2>1
    <3>4. ASSUME NEW i \in DOMAIN in'[s], in'[s][i].msg = "CloseNotify" PROVE i = Len(in'[s])
      <4>1. i \in 1 .. Len(in[s]) - 1 /\ in'[s][i] = in[s][i + 1] /\ i + 1 \in DOMAIN in[s]
        BY <1>8, <3>3
      <4>2. i + 1 = Len(in[s])
        BY <3>2, <3>4, <4>1
      <4> QED
        BY <1>8, <3>3, <4>1, <4>2
    <3> QED
      BY <3>2, <3>4
  <2>7. ~notified[s]
    BY <1>4 DEF IInv, Delivery, Stream, Over
  <2> QED
    BY <1>4, <2>4, <2>5, <2>6, <2>7 DEF Stream, NoneLost, Over
<1>12. Stream(p)'
  <2>1. CASE out'[s] = out[s]
    BY <1>1, <1>4, <1>7, <1>8, <2>1, Still DEF IInv, Delivery
  <2>2. CASE out'[s] = r
    <3>1. ~Has(in[p], "CloseNotify") /\ ~notified[p]
      BY <1>1, NotOver DEF IInv, Delivery
    <3>2. Pending(s)' = 0 /\ Pending(s) \in {0, 1} /\ in'[p] = in[p]
      BY <1>1, <1>2, <1>8, <2>2 DEF Pending
    <3>3. Barred(p)'
      BY <1>1, <1>2, <2>2, NoneAssumption DEF Barred
    <3>4. NoneMade(p)'
      <4>1. /\ got[p] \in Nat /\ Count(in[p]) \in Nat /\ sent[s] \in Nat
            /\ got[p] + Count(in[p]) + Pending(s) <= sent[s]
        BY <1>1, Numbers DEF IInv, Delivery, Stream, NoneMade
      <4>2. got[p]' = got[p] /\ sent[s]' = sent[s]
        BY <1>4
      <4> HIDE DEF p
      <4> QED
        BY <1>1, <3>2, <4>1, <4>2 DEF NoneMade
    <3> QED
      BY <1>4, <3>1, <3>2, <3>3, <3>4 DEF Stream, NoneLost, Last, Over
  <2> QED
    BY <1>9, <2>1, <2>2
<1>13. Session'
  BY <1>4, <1>7 DEF IInv, TypeOK, Session, Side
<1> QED
  BY <1>10, <1>11, <1>12, <1>13, BothSides, PartsKept DEF Sound, Delivery

\* An end closes: with what waited, or with a notification.
LEMMA CloseStep ==
  ASSUME IInv, NEW s \in Side, CloseSession(s), NEW c \in Context, Chosen(s, c),
         ssl' = [ssl EXCEPT ![s] = c]
  PROVE  Sound'
<1> DEFINE p == Peer(s)
<1> DEFINE r == Farewell(s)
<1>1. /\ ~gone[s] /\ p \in Side /\ p # s /\ Peer(p) = s /\ ssl[s] \in Context
  BY Serves DEF CloseSession
<1>2. /\ gone' = [gone EXCEPT ![s] = TRUE] /\ out' = [out EXCEPT ![s] = None]
      /\ UNCHANGED <<conf, link, sent, got, notified>>
  BY DEF CloseSession, sessionVars
<1>3. PICK next : (next = in \/ next = Arrive(s, r)) /\ in' = [next EXCEPT ![s] = <<>>]
  BY DEF CloseSession
<1>4. /\ r \in Record /\ Formed(r) /\ (r.msg = "CloseNotify" => out[s] = None)
      /\ One(r) <= Pending(s)
  <2>1. CASE out[s] # None
    <3>1. r = out[s]
      BY <2>1 DEF Farewell
    <3> QED
      BY <2>1, <3>1, Contexts DEF IInv, Content, One, Pending
  <2>2. CASE out[s] = None
    <3>1. r = Sealed(ssl[s], "CloseNotify", {}, <<>>)
      BY <2>2 DEF Farewell
    <3>2. {} \in Body /\ "CloseNotify" \in Message
      BY DEF Body, Message
    <3>3. r \in Record /\ r.msg = "CloseNotify"
      BY <1>1, <3>1, <3>2, SealedRecord, Transcripts
    <3> HIDE DEF r
    <3> QED
      BY <2>2, <3>3, Numbers DEF IInv, Formed, One, Pending
  <2> QED
    BY <2>1, <2>2
<1> HIDE DEF r
<1>5. /\ Records' /\ Content'
      /\ in'[s] = <<>> /\ out'[p] = out[p] /\ out'[s] = None
      /\ \/ in'[p] = in[p]
         \/ Carries(s) /\ in'[p] = Append(in[p], r)
  BY <1>2, <1>3, <1>4, LeavesTyped DEF IInv
<1>6. gone'[s] /\ (\A t \in Side : gone[t] => gone'[t]) /\ ssl'[p] = ssl[p]
  BY <1>1, <1>2 DEF IInv, TypeOK
<1>7. Stream(s)'
  BY <1>1, <1>2, <1>5, <1>6, Emptied DEF IInv, Delivery
<1>8. Stream(p)'
  BY <1>1, <1>2, <1>4, <1>5, <1>6, Leaves DEF IInv, Delivery
<1> QED
  BY <1>5, <1>7, <1>8, BothSides DEF Sound, Delivery

\* Either end's close.
LEMMA ClosesStep ==
  ASSUME IInv, Close \/ ServerCloses
  PROVE  IInv'
<1>1. CASE Close
  <2>1. /\ CloseSession("client") /\ sock' = "created"
        /\ ssl' = [ssl EXCEPT !["client"] = Fresh] /\ "client" \in Side
    BY <1>1 DEF Close, Side
  <2>2. Sound'
    BY <2>1, CloseStep, FreshContext DEF Chosen
  <2>3. Session'
    BY <2>1 DEF CloseSession, sessionVars, IInv, TypeOK, Session
  <2> QED
    BY <2>2, <2>3, PartsKept
<1>2. CASE ServerCloses
  <2>1. /\ CloseSession("server") /\ UNCHANGED <<ssl, sock>> /\ "server" \in Side
        /\ ssl["server"] \in Context /\ Chosen("server", ssl["server"])
    BY <1>2, Contexts DEF ServerCloses, Side, IInv, Content
  <2>2. ssl' = [ssl EXCEPT !["server"] = ssl["server"]]
    BY <2>1 DEF IInv, TypeOK
  <2>3. Sound'
    BY <2>1, <2>2, CloseStep
  <2>4. gone'["client"] = gone["client"]
    BY <2>1 DEF CloseSession, IInv, TypeOK, Side
  <2>5. Session'
    BY <2>1, <2>4 DEF CloseSession, sessionVars, IInv, TypeOK, Session
  <2> QED
    BY <2>3, <2>5, PartsKept
<1> QED
  BY <1>1, <1>2

\* The connection is cut.
LEMMA LostStep ==
  ASSUME IInv, Lost
  PROVE  IInv'
<1>1. PICK n \in [Side -> 0 .. 1] :
        in' = [s \in Side |-> SubSeq(in[s], 1, IF n[s] < Len(in[s]) THEN n[s] ELSE Len(in[s]))]
  BY DEF Lost
<1>2. link' = "lost" /\ UNCHANGED <<conf, ssl, out, gone, sock, sessionVars>>
  BY DEF Lost
<1> DEFINE m(s) == IF n[s] < Len(in[s]) THEN n[s] ELSE Len(in[s])
<1>3. ASSUME NEW s \in Side
      PROVE  /\ in[s] \in Seq(Record) /\ m(s) \in 0 .. Len(in[s]) /\ AllFormed(in[s])
             /\ in'[s] = SubSeq(in[s], 1, m(s)) /\ in'[s] \in Seq(Record)
             /\ DOMAIN in'[s] = 1 .. m(s) /\ Len(in'[s]) = m(s)
             /\ \A i \in 1 .. m(s) : in'[s][i] = in[s][i]
  <2>1. in[s] \in Seq(Record) /\ AllFormed(in[s]) /\ n[s] \in 0 .. 1
    BY Contexts DEF IInv, Content
  <2>2. m(s) \in 0 .. Len(in[s])
    BY <2>1
  <2>3. in'[s] = SubSeq(in[s], 1, m(s))
    BY <1>1
  <2> HIDE DEF m
  <2> QED
    BY <2>1, <2>2, <2>3
<1> HIDE DEF m
<1>4. Records' /\ Content'
  <2>1. in' \in [Side -> Seq(Record)]
    BY <1>1, <1>3
  <2>2. \A s \in Side : AllFormed(in'[s])
    BY <1>3, FormedQueues
  <2> QED
    BY <1>2, <2>1, <2>2, RecordTypes DEF IInv, Records, Content
<1>5. ASSUME NEW s \in Side PROVE Stream(s)'
  <2>1. Count(in[s])' <= Count(in[s]) /\ Count(in[s])' \in Nat
    BY <1>3, CountPrefix, CountNat
  <2>2. NoneMade(s)'
    <3>1. /\ got[s] \in Nat /\ Count(in[s]) \in Nat /\ sent[Peer(s)] \in Nat
          /\ Pending(Peer(s)) \in {0, 1}
          /\ got[s] + Count(in[s]) + Pending(Peer(s)) <= sent[Peer(s)]
      BY Peers, Numbers DEF IInv, Delivery, Stream, NoneMade
    <3>2. got[s]' = got[s] /\ sent[Peer(s)]' = sent[Peer(s)]
            /\ Pending(Peer(s))' = Pending(Peer(s))
      BY <1>2 DEF sessionVars, Pending
    <3> QED
      BY <2>1, <3>1, <3>2 DEF NoneMade
  <2>3. NoneLost(s)'
    BY <1>2 DEF NoneLost
  <2>4. Last(s)'
    <3> SUFFICES ASSUME Has(in[s], "CloseNotify")'
                 PROVE  (/\ gone[Peer(s)]
                         /\ \A i \in DOMAIN in[s] : in[s][i].msg = "CloseNotify" => i = Len(in[s])
                         /\ ssl[s].fail = "none" =>
                              got[s] + Count(in[s]) = sent[Peer(s)] \/ Has(in[s], "Fatal"))'
      BY DEF Last
    <3>1. PICK k \in DOMAIN in'[s] : in'[s][k].msg = "CloseNotify"
      BY DEF Has
    <3>2. k \in 1 .. m(s) /\ in[s][k].msg = "CloseNotify" /\ k \in DOMAIN in[s]
      BY <1>3, <3>1
    <3>3. Has(in[s], "CloseNotify")
      BY <3>2 DEF Has
    <3>4. k = Len(in[s]) /\ Last(s)
      BY <3>2, <3>3 DEF IInv, Delivery, Stream, Last
    <3>5. in'[s] = in[s]
      <4>1. m(s) = Len(in[s])
        BY <1>3, <3>2, <3>4
      <4>2. \A q \in Seq(Record) : SubSeq(q, 1, Len(q)) = q
        OBVIOUS
      <4> QED
        BY <1>3, <4>1, <4>2
    <3> QED
      BY <1>2, <3>3, <3>4, <3>5 DEF Last, sessionVars
  <2>5. Over(s)'
    <3>1. in[s] = <<>> => in'[s] = <<>>
      <4> SUFFICES ASSUME in[s] = <<>> PROVE in'[s] = <<>>
        OBVIOUS
      <4>1. m(s) = 0
        BY <1>3
      <4>2. \A q \in Seq(Record) : Len(q) = 0 => q = <<>>
        OBVIOUS
      <4> QED
        BY <1>3, <4>1, <4>2
    <3> QED
      BY <1>2, <3>1 DEF IInv, Delivery, Stream, Over, sessionVars
  <2> QED
    BY <2>2, <2>3, <2>4, <2>5 DEF Stream
<1>6. Session'
  BY <1>2 DEF IInv, TypeOK, Session, sessionVars
<1> QED
  BY <1>4, <1>5, <1>6, PartsKept DEF Sound, Delivery

\* Every step.
LEMMA KeepsInv == IInv /\ [Next]_vars => IInv'
<1> SUFFICES ASSUME IInv, [Next]_vars PROVE IInv'
  OBVIOUS
<1>1. CASE Create \/ Open \/ Destroy
  BY <1>1, Begins
<1>2. CASE OpenSteps \/ OpenFails
  <2>1. (Works("client") \/ FlushOutput("client")) /\ LoopsOn
    BY <1>2, ClientWorks, TroubleWorks DEF OpenSteps, OpenFails, IInv, Side
  <2> QED
    BY <2>1, LoopStep
<1>3. CASE ServerSteps \/ ServerFails
  <2>1. (Works("server") \/ FlushOutput("server")) /\ UNCHANGED <<sock, sessionVars>>
    BY <1>3, ServerWorks, TroubleWorks DEF ServerSteps, ServerFails, IInv, Side
  <2> QED
    BY <2>1, ServerHandshake
<1>4. CASE Close \/ ServerCloses
  BY <1>4, ClosesStep
<1>5. ASSUME NEW s \in Side,
             WriteData(s) \/ FlushData(s) \/ FlushReportedLost(s) \/ ReadData(s)
      PROVE  IInv'
  BY <1>5, WriteDataStep, FlushDataStep, ReportedLostStep, ReadsDataStep,
     ReadsNotificationStep, ReadsErrorStep DEF ReadData
<1>6. CASE Lost
  BY <1>6, LostStep
<1>7. CASE UNCHANGED vars
  <2>1. UNCHANGED <<conf, ssl, out, in, gone, link, sock, sent, skipped, got, notified>>
    BY <1>7 DEF vars, recordVars, sessionVars
  <2>2. Records' /\ Content'
    BY <2>1, RecordTypes DEF IInv, Records, Content
  <2>3. Delivery'
    BY <2>1, Still DEF IInv, Delivery
  <2>4. Session'
    BY <2>1 DEF IInv, TypeOK, Session
  <2> QED
    BY <2>2, <2>3, <2>4, PartsKept DEF Sound
<1> QED
  BY <1>1, <1>2, <1>3, <1>4, <1>5, <1>6, <1>7 DEF Next
-----------------------------------------------------------------------------

\* Whatever becomes of the connection, what an end has made records of is read,
\* on its way, waits, or is lost with the connection, and a close notification
\* comes behind all of it.
THEOREM Invariance == Spec => []IInv
BY Initially, KeepsInv, PTL DEF Spec

\* The contexts, the records between them and the socket have their types; an
\* open socket has finished its handshake, and one that opens its connection.
THEOREM Typing == Spec => []TypeOK
<1>1. IInv => TypeOK
  BY DEF IInv
<1> QED
  BY <1>1, Invariance, PTL

\* An end that reads a close notification has read every message the other has
\* made a record of, although a flush may be reported lost and sent again, may be
\* that of a call with another message, and an alert may take the place of a message.
THEOREM Arrival == Spec => []SentArrives
<1>1. IInv => SentArrives
  <2> SUFFICES ASSUME IInv, NEW s \in Side
               PROVE  got[s] <= sent[Peer(s)] /\ (notified[s] => got[s] = sent[Peer(s)])
    BY DEF SentArrives
  <2>1. /\ got[s] \in Nat /\ Count(in[s]) \in Nat /\ Pending(Peer(s)) \in {0, 1}
        /\ sent[Peer(s)] \in Nat
        /\ got[s] + Count(in[s]) + Pending(Peer(s)) <= sent[Peer(s)]
    BY Peers, Numbers DEF IInv, Delivery, Stream, NoneMade
  <2> QED
    BY <2>1 DEF IInv, Delivery, Stream, Over
<1> QED
  BY <1>1, Invariance, PTL
-----------------------------------------------------------------------------
(* The handshake as a whole.  Its messages have fixed places, some of which *)
(* a setup leaves empty.  An end is at the place of the message it writes   *)
(* or reads next.                                                           *)

Asks(g) == g.authmode["server"] # "none"
Shown(g, s) == IF g.cert[s] = "none" THEN {} ELSE {g.cert[s]}

\* The places of the messages of s in a handshake with the setup g.
Mine(g, s, m) ==
  \/ s = "client" /\ (m \in {1, 8, 10, 11} \/ (m = 7 /\ Asks(g)))
  \/ s = "client" /\ m = 9 /\ Asks(g) /\ g.cert["client"] # "none"
  \/ s = "server" /\ (m \in {2, 3, 6, 13, 14} \/ (m = 4 /\ g.ke = "ECDHE"))
  \/ s = "server" /\ ((m = 5 /\ Asks(g)) \/ (m = 12 /\ g.ticket))

Told ==
  <<"ClientHello", "ServerHello", "Certificate", "ServerKeyExchange", "CertificateRequest",
    "ServerHelloDone", "Certificate", "ClientKeyExchange", "CertificateVerify",
    "ChangeCipherSpec", "Finished", "NewSessionTicket", "ChangeCipherSpec", "Finished">>
Saying(g, m) ==
  CASE m = 1 -> {"ticket"}
    [] m = 2 -> {g.ke} \union IF g.ticket THEN {"ticket"} ELSE {}
    [] m = 3 -> Shown(g, "server")
    [] m = 7 -> Shown(g, "client")
    [] OTHER -> {}

\* The transcript at each place.
Add(t, m, body) == Append(t, <<m, body>>)
T1 == <<>>
T2 == Add(T1, "ClientHello", {"ticket"})
T3(g) == Add(T2, "ServerHello", Saying(g, 2))
T4(g) == Add(T3(g), "Certificate", Shown(g, "server"))
T5(g) == IF g.ke = "ECDHE" THEN Add(T4(g), "ServerKeyExchange", {}) ELSE T4(g)
T6(g) == IF Asks(g) THEN Add(T5(g), "CertificateRequest", {}) ELSE T5(g)
T7(g) == Add(T6(g), "ServerHelloDone", {})
T8(g) == IF Asks(g) THEN Add(T7(g), "Certificate", Shown(g, "client")) ELSE T7(g)
T9(g) == Add(T8(g), "ClientKeyExchange", {})
T10(g) ==
  IF Asks(g) /\ g.cert["client"] # "none" THEN Add(T9(g), "CertificateVerify", {}) ELSE T9(g)
T12(g) == Add(T10(g), "Finished", {})
T13(g) == IF g.ticket THEN Add(T12(g), "NewSessionTicket", {}) ELSE T12(g)
T15(g) == Add(T13(g), "Finished", {})
T(g, m) ==
  <<T1, T2, T3(g), T4(g), T5(g), T6(g), T7(g), T8(g), T9(g), T10(g), T10(g), T12(g), T13(g),
    T13(g), T15(g)>>[m]

\* The key of what s sends from place m on, and the record of a place.
SealedAt(g, s, m) == IF m > (IF s = "client" THEN 10 ELSE 13) THEN T(g, 9) ELSE <<>>
Rec(g, s, m) ==
  [msg |-> Told[m], body |-> Saying(g, m),
   of |-> IF Told[m] \in Signed THEN T(g, m) ELSE <<>>, key |-> SealedAt(g, s, m)]

\* The place of a message of s, and the one behind a record.
PlaceOf(s, x) ==
  CASE x = "ClientHello" -> 1
    [] x = "ServerHello" -> 2
    [] x = "Certificate" -> IF s = "server" THEN 3 ELSE 7
    [] x = "ServerKeyExchange" -> 4
    [] x = "CertificateRequest" -> 5
    [] x = "ServerHelloDone" -> 6
    [] x = "ClientKeyExchange" -> 8
    [] x = "CertificateVerify" -> 9
    [] x = "ChangeCipherSpec" -> IF s = "client" THEN 10 ELSE 13
    [] x = "Finished" -> IF s = "client" THEN 11 ELSE 14
    [] x = "NewSessionTicket" -> 12
    [] OTHER -> 15
After(s, r) == IF r.msg \in Plain THEN PlaceOf(s, r.msg) + 1 ELSE 15

\* The place of a context.
Place(c) ==
  CASE c.state = 0 -> 1
    [] c.state \in 1 .. 11 -> c.state
    [] c.state = 12 -> IF c.tick THEN 12 ELSE 13
    [] c.state = 13 -> 14
    [] OTHER -> 15

\* s has no message between the two places.
Even(g, s, j, k) == \A m \in 1 .. 14 : Mine(g, s, m) => (j <= m <=> k <= m)

\* A record of s that is read at place k is the one that is read there.
Proper(g, s, r, k) ==
  /\ r.msg \in Plain =>
       LET m == PlaceOf(s, r.msg) IN Mine(g, s, m) /\ Even(g, s, k, m) /\ r = Rec(g, s, m)
  /\ r.msg \in {"Data", "CloseNotify"} => Even(g, s, k, 15) /\ r.key = T(g, 9)
  /\ r.msg = "Fatal" => r.key = SealedAt(g, s, k)
  /\ r.msg = "Again" => Even(g, s, k, 15)

\* The records of s in a queue whose reader is at place k, and the place behind.
Way(g, s, q, k) ==
  \A i \in DOMAIN q : Proper(g, s, q[i], IF i = 1 THEN k ELSE After(s, q[i - 1]))
End(s, q, k) == IF q = <<>> THEN k ELSE After(s, q[Len(q)])

\* What a context knows at its place.
Hearing(g, c) == c.state < 16 => c.heard = IF c.kept THEN T(g, 7) ELSE T(g, Place(c))
ClientFits(g, c) ==
  /\ c.kept => c.state = 6 /\ ~Asks(g)
  /\ c.key = IF c.state > 9 THEN T(g, 9) ELSE <<>>
  /\ c.tout <=> c.state > 11
  /\ c.tin <=> c.state > 12
  /\ c.state > 2 => c.ke = g.ke
  /\ c.tick => g.ticket /\ c.state \in 3 .. 12
  /\ c.state \in 3 .. 11 => (c.tick <=> g.ticket)
  /\ c.auth <=> c.state > 5 /\ Asks(g)
  /\ c.state > 3 /\ g.authmode["client"] = "required" => c.peer = "trusted"
ServerFits(g, c) ==
  /\ ~c.kept
  /\ c.key = IF c.state > 8 THEN T(g, 9) ELSE <<>>
  /\ c.tout <=> c.state > 13
  /\ c.tin <=> c.state > 10
  /\ c.state > 1 => c.ke = g.ke
  /\ c.tick => g.ticket /\ c.state \in 2 .. 12
  /\ c.state \in 2 .. 11 => (c.tick <=> g.ticket)
  /\ c.peer = IF c.state > 7 /\ Asks(g) THEN g.cert["client"] ELSE "none"
  /\ c.state > 7 /\ g.authmode["server"] = "required" => c.peer = "trusted"
Fits(g, s, c) ==
  /\ Hearing(g, c)
  /\ s = "client" => ClientFits(g, c)
  /\ s = "server" => ServerFits(g, c)
  /\ c.fail \notin {"protocol", "garbled"}

\* What is on the way to s continues the handshake where s is.
Reading(s) ==
  /\ gone[s] => in[s] = <<>>
  /\ Way(conf, Peer(s), in[s], Place(ssl[s]))

\* Over a connection that is whole, s continues where that ends.
Whole == link = "up" /\ ~gone["client"] /\ ~gone["server"]
Reached(s) == End(s, in[Peer(s)], Place(ssl[Peer(s)]))
Continues(g, s, o, j, k) ==
  IF o = None THEN Even(g, s, j, k)
  ELSE /\ Proper(g, s, o, j)
       /\ Even(g, s, After(s, o), k)
       /\ o.msg \notin Plain => Even(g, s, j, 15)
Writing(s) == Continues(conf, s, out[s], Reached(s), Place(ssl[s]))

\* The last message of the handshake is sent before it is over.
Drained(s) == ssl[s].state > 14 /\ out[s] # None => out[s].msg \notin Plain

\* Of the server's messages, those that a client at place j has read, and those
\* in q and o that it is to read, are written when the server is at place k.
Led(g, q, o, j, k) ==
  /\ \A m \in 1 .. 14 : Mine(g, "server", m) /\ m < j => m < k
  /\ \A i \in DOMAIN q : q[i].msg \in Plain => PlaceOf("server", q[i].msg) < k
  /\ o # None /\ o.msg \in Plain => PlaceOf("server", o.msg) < k
Passed == Led(conf, in["client"], out["server"], Place(ssl["client"]), Place(ssl["server"]))

Knows(s) == Fits(conf, s, ssl[s]) /\ Reading(s) /\ (Whole => Writing(s)) /\ Drained(s)
Agreed == Passed /\ \A s \in Side : Knows(s)
-----------------------------------------------------------------------------
(* The places of a handshake.                                               *)

\* The places, one by one.
LEMMA Places ==
  /\ \A k \in 1 .. 14 : k \in {1, 2, 3, 4, 5, 6, 7, 8, 9, 10, 11, 12, 13, 14}
  /\ \A n \in 0 .. 17 : n \in {0, 1, 2, 3, 4, 5, 6, 7, 8, 9, 10, 11, 12, 13, 14, 15, 16, 17}
OBVIOUS

\* What is told at each place, and whose it is.
LEMMA Tellings ==
  /\ Told[1] = "ClientHello" /\ Told[2] = "ServerHello" /\ Told[3] = "Certificate"
  /\ Told[4] = "ServerKeyExchange" /\ Told[5] = "CertificateRequest"
  /\ Told[6] = "ServerHelloDone" /\ Told[7] = "Certificate" /\ Told[8] = "ClientKeyExchange"
  /\ Told[9] = "CertificateVerify" /\ Told[10] = "ChangeCipherSpec" /\ Told[11] = "Finished"
  /\ Told[12] = "NewSessionTicket" /\ Told[13] = "ChangeCipherSpec" /\ Told[14] = "Finished"
BY DEF Told

\* A message is at its place, which is one of its end's.
LEMMA Placed ==
  ASSUME NEW g, NEW s \in Side, NEW m \in 1 .. 14, Mine(g, s, m)
  PROVE  Told[m] \in Plain /\ PlaceOf(s, Told[m]) = m /\ ~Mine(g, Peer(s), m)
<1>1. m \in {1, 2, 3, 4, 5, 6, 7, 8, 9, 10, 11, 12, 13, 14}
  BY Places
<1>2. CASE s = "client"
  <2>1. m \in {1, 7, 8, 9, 10, 11}
    BY <1>2 DEF Mine
  <2> QED
    BY <1>2, <2>1, Tellings DEF Plain, Handshake, PlaceOf, Mine, Peer
<1>3. CASE s = "server"
  <2>1. m \in {2, 3, 4, 5, 6, 12, 13, 14}
    BY <1>3, <1>1 DEF Mine
  <2> QED
    BY <1>3, <2>1, Tellings DEF Plain, Handshake, PlaceOf, Mine, Peer
<1> QED
  BY <1>2, <1>3 DEF Side

\* The places of the messages of a handshake, and the one behind a record.
LEMMA Behind ==
  ASSUME NEW s, NEW r \in Record
  PROVE  /\ r.msg \in Plain => PlaceOf(s, r.msg) \in 1 .. 14 /\ After(s, r) = PlaceOf(s, r.msg) + 1
         /\ r.msg \notin Plain => After(s, r) = 15
         /\ After(s, r) \in 2 .. 15
<1>1. r.msg \in Plain => PlaceOf(s, r.msg) \in 1 .. 14
  BY DEF Plain, Handshake, PlaceOf
<1> QED
  BY <1>1 DEF After

\* The place of a context.
LEMMA ContextPlace ==
  ASSUME NEW c \in Context
  PROVE  /\ Place(c) \in 1 .. 15 /\ c.state \in 0 .. 17
         /\ c.state \in 1 .. 11 => Place(c) = c.state
         /\ c.state = 0 => Place(c) = 1
         /\ c.state = 12 => Place(c) = IF c.tick THEN 12 ELSE 13
         /\ c.state = 13 => Place(c) = 14
         /\ c.state > 13 => Place(c) = 15
<1>1. c.state \in 0 .. 17
  BY States DEF Context
<1> QED
  BY <1>1 DEF Place

\* The same messages of s are ahead of two places.
LEMMA EvenPlaces ==
  ASSUME NEW g, NEW s
  PROVE  /\ \A k : Even(g, s, k, k)
         /\ \A j, k : Even(g, s, j, k) => Even(g, s, k, j)
         /\ \A i, j, k : Even(g, s, i, j) /\ Even(g, s, j, k) => Even(g, s, i, k)
         /\ \A k \in 1 .. 14 : ~Mine(g, s, k) => Even(g, s, k, k + 1)
         /\ \A j, k \in 1 .. 15 : Even(g, s, j, k) => \A m \in 1 .. 14 :
              Mine(g, s, m) => (j <= m <=> k <= m)
BY DEF Even

\* So they are sealed alike.
LEMMA EvenSealed ==
  ASSUME NEW g, NEW s \in Side, NEW j \in 1 .. 15, NEW k \in 1 .. 15, Even(g, s, j, k)
  PROVE  SealedAt(g, s, j) = SealedAt(g, s, k)
<1>1. CASE s = "client"
  <2>1. j <= 10 <=> k <= 10
    BY <1>1 DEF Even, Mine
  <2> QED
    BY <1>1, <2>1 DEF SealedAt
<1>2. CASE s = "server"
  <2>1. j <= 13 <=> k <= 13
    BY <1>2 DEF Even, Mine
  <2> QED
    BY <1>2, <2>1 DEF SealedAt
<1> QED
  BY <1>1, <1>2 DEF Side

\* A place of s is the first one of two only when it is both.
LEMMA EvenMine ==
  ASSUME NEW g, NEW s, NEW j \in 1 .. 14, NEW k \in 1 .. 15, Even(g, s, j, k)
  PROVE  /\ Mine(g, s, j) => k <= j
         /\ k \in 1 .. 14 /\ Mine(g, s, k) => j <= k
BY DEF Even
-----------------------------------------------------------------------------
(* The records of an end on their way.                                      *)

\* A record may be read at every place that has the same messages ahead.
LEMMA ProperEven ==
  ASSUME NEW g, NEW s \in Side, NEW r, NEW j \in 1 .. 15, NEW k \in 1 .. 15,
         Proper(g, s, r, k), Even(g, s, k, j)
  PROVE  Proper(g, s, r, j)
<1>1. \A m : Even(g, s, k, m) => Even(g, s, j, m)
  BY EvenPlaces
<1>2. SealedAt(g, s, j) = SealedAt(g, s, k)
  BY EvenSealed
<1> QED
  BY <1>1, <1>2 DEF Proper

\* The place behind a queue.
LEMMA EndPlace ==
  ASSUME NEW s, NEW q \in Seq(Record), NEW k \in 1 .. 15
  PROVE  End(s, q, k) \in 1 .. 15
<1>1. q # <<>> => q[Len(q)] \in Record
  OBVIOUS
<1> QED
  BY <1>1, Behind DEF End

\* So may a queue.
LEMMA WayEven ==
  ASSUME NEW g, NEW s \in Side, NEW q \in Seq(Record), NEW j \in 1 .. 15, NEW k \in 1 .. 15,
         Way(g, s, q, k), Even(g, s, k, j)
  PROVE  Way(g, s, q, j) /\ Even(g, s, End(s, q, k), End(s, q, j))
<1>1. ASSUME NEW i \in DOMAIN q
      PROVE  Proper(g, s, q[i], IF i = 1 THEN j ELSE After(s, q[i - 1]))
  <2>1. CASE i = 1
    BY <2>1, ProperEven DEF Way
  <2>2. CASE i # 1
    BY <2>2 DEF Way
  <2> QED
    BY <2>1, <2>2
<1>2. Even(g, s, End(s, q, k), End(s, q, j))
  BY EvenPlaces DEF End
<1> QED
  BY <1>1, <1>2 DEF Way

\* A record that is read at the end of a queue goes there.
LEMMA WayAppend ==
  ASSUME NEW g, NEW s, NEW q \in Seq(Record), NEW k, NEW r \in Record,
         Way(g, s, q, k), Proper(g, s, r, End(s, q, k))
  PROVE  Way(g, s, Append(q, r), k) /\ End(s, Append(q, r), k) = After(s, r)
<1> DEFINE p == Append(q, r)
<1>1. /\ DOMAIN p = 1 .. Len(q) + 1 /\ DOMAIN q = 1 .. Len(q) /\ Len(p) = Len(q) + 1
      /\ p[Len(q) + 1] = r /\ p # <<>> /\ Len(q) \in Nat
      /\ \A i \in 1 .. Len(q) : p[i] = q[i]
      /\ (q = <<>> <=> Len(q) = 0)
  OBVIOUS
<1> HIDE DEF p
<1>2. ASSUME NEW i \in DOMAIN p
      PROVE  Proper(g, s, p[i], IF i = 1 THEN k ELSE After(s, p[i - 1]))
  <2>1. CASE i = Len(q) + 1
    <3>1. End(s, q, k) = IF i = 1 THEN k ELSE After(s, p[i - 1])
      BY <1>1, <2>1 DEF End
    <3> QED
      BY <1>1, <2>1, <3>1
  <2>2. CASE i # Len(q) + 1
    <3>1. i \in DOMAIN q /\ p[i] = q[i] /\ (i # 1 => p[i - 1] = q[i - 1])
      BY <1>1, <2>2
    <3> QED
      BY <3>1 DEF Way
  <2> QED
    BY <2>1, <2>2
<1>3. End(s, p, k) = After(s, r)
  BY <1>1 DEF End
<1> QED
  BY <1>2, <1>3 DEF Way, p

\* The first record of a queue is read at its place, the others behind.
LEMMA WayTail ==
  ASSUME NEW g, NEW s, NEW q \in Seq(Record), NEW k, q # <<>>, Way(g, s, q, k)
  PROVE  /\ Head(q) \in Record /\ Proper(g, s, Head(q), k)
         /\ Tail(q) \in Seq(Record)
         /\ Way(g, s, Tail(q), After(s, Head(q)))
         /\ End(s, Tail(q), After(s, Head(q))) = End(s, q, k)
<1> DEFINE p == Tail(q)
<1>1. Len(q) \in Nat /\ Len(q) # 0 /\ Head(q) = q[1]
  OBVIOUS
<1>2. /\ p \in Seq(Record) /\ Len(p) = Len(q) - 1 /\ DOMAIN p = 1 .. Len(p)
      /\ DOMAIN q = 1 .. Len(q)
  BY <1>1
<1>3. \A i \in 1 .. Len(p) : p[i] = q[i + 1]
  BY <1>1
<1>4. p = <<>> <=> Len(p) = 0
  <2>1. \A t \in Seq(Record) : t = <<>> <=> Len(t) = 0
    OBVIOUS
  <2> QED
    BY <1>2, <2>1
<1> HIDE DEF p
<1>5. 1 \in DOMAIN q /\ q[1] \in Record
  BY <1>1, <1>2
<1>6. Proper(g, s, Head(q), k)
  BY <1>1, <1>5 DEF Way
<1>7. ASSUME NEW i \in DOMAIN p
      PROVE  Proper(g, s, p[i], IF i = 1 THEN After(s, Head(q)) ELSE After(s, p[i - 1]))
  <2>1. i + 1 \in DOMAIN q /\ i + 1 # 1 /\ (i + 1) - 1 = i /\ p[i] = q[i + 1]
    BY <1>1, <1>2, <1>3
  <2>2. Proper(g, s, q[i + 1], After(s, q[i]))
    BY <2>1 DEF Way
  <2>3. i # 1 => p[i - 1] = q[i]
    BY <1>2, <1>3
  <2> QED
    BY <1>1, <2>1, <2>2, <2>3
<1>8. End(s, p, After(s, Head(q))) = End(s, q, k)
  BY <1>1, <1>2, <1>3, <1>4 DEF End
<1> QED
  BY <1>1, <1>2, <1>5, <1>6, <1>7, <1>8 DEF Way, p

\* So is what is left of a queue that is cut.
LEMMA WayPrefix ==
  ASSUME NEW g, NEW s, NEW q \in Seq(Record), NEW k, Way(g, s, q, k), NEW n \in 0 .. Len(q)
  PROVE  Way(g, s, SubSeq(q, 1, n), k)
<1> DEFINE p == SubSeq(q, 1, n)
<1>1. DOMAIN p = 1 .. n /\ DOMAIN q = 1 .. Len(q) /\ \A i \in 1 .. n : p[i] = q[i]
  OBVIOUS
<1> HIDE DEF p
<1>2. ASSUME NEW i \in DOMAIN p
      PROVE  Proper(g, s, p[i], IF i = 1 THEN k ELSE After(s, p[i - 1]))
  <2>1. i \in DOMAIN q /\ p[i] = q[i] /\ (i # 1 => p[i - 1] = q[i - 1])
    BY <1>1
  <2> QED
    BY <2>1 DEF Way
<1> QED
  BY <1>2 DEF Way, p
-----------------------------------------------------------------------------
(* The transcripts of a handshake.                                          *)

\* The transcripts, one by one.
LEMMA Transcribed ==
  ASSUME NEW g
  PROVE  /\ T(g, 1) = T1 /\ T(g, 2) = T2 /\ T(g, 3) = T3(g) /\ T(g, 4) = T4(g)
         /\ T(g, 5) = T5(g) /\ T(g, 6) = T6(g) /\ T(g, 7) = T7(g) /\ T(g, 8) = T8(g)
         /\ T(g, 9) = T9(g) /\ T(g, 10) = T10(g) /\ T(g, 11) = T10(g) /\ T(g, 12) = T12(g)
         /\ T(g, 13) = T13(g) /\ T(g, 14) = T13(g) /\ T(g, 15) = T15(g)
BY DEF T

\* What a message says at its place.
LEMMA Sayings ==
  ASSUME NEW g
  PROVE  /\ Saying(g, 1) = {"ticket"}
         /\ Saying(g, 2) = {g.ke} \union IF g.ticket THEN {"ticket"} ELSE {}
         /\ Saying(g, 3) = Shown(g, "server") /\ Saying(g, 7) = Shown(g, "client")
         /\ Saying(g, 4) = {} /\ Saying(g, 5) = {} /\ Saying(g, 6) = {} /\ Saying(g, 8) = {}
         /\ Saying(g, 9) = {} /\ Saying(g, 10) = {} /\ Saying(g, 11) = {}
         /\ Saying(g, 12) = {} /\ Saying(g, 13) = {} /\ Saying(g, 14) = {}
BY DEF Saying

\* What a place adds to the transcript.
Said(g, k) ==
  IF Told[k] \in Handshake THEN Append(T(g, k), <<Told[k], Saying(g, k)>>) ELSE T(g, k)

\* Each message is added at its place, a ChangeCipherSpec is none.
LEMMA TranscriptStep ==
  ASSUME NEW g, NEW k \in 1 .. 14, NEW s \in Side, Mine(g, s, k)
  PROVE  T(g, k + 1) = Said(g, k)
<1>0. k \in {1, 2, 3, 4, 5, 6, 7, 8, 9, 10, 11, 12, 13, 14}
  BY Places
<1>1. CASE k = 1
  <2>1. Told[1] \in Handshake /\ Said(g, 1) = Append(T(g, 1), <<Told[1], Saying(g, 1)>>)
    BY Tellings DEF Said, Handshake
  <2>2. Said(g, 1) = T2
    BY <2>1, Tellings, Transcribed, Sayings DEF T2, Add
  <2> QED
    BY <1>1, <2>2, Transcribed
<1>2. CASE k = 2
  <2>1. Told[2] \in Handshake /\ Said(g, 2) = Append(T(g, 2), <<Told[2], Saying(g, 2)>>)
    BY Tellings DEF Said, Handshake
  <2>2. Said(g, 2) = T3(g)
    BY <2>1, Tellings, Transcribed, Sayings DEF T3, Add
  <2> QED
    BY <1>2, <2>2, Transcribed
<1>3. CASE k = 3
  <2>1. Told[3] \in Handshake /\ Said(g, 3) = Append(T(g, 3), <<Told[3], Saying(g, 3)>>)
    BY Tellings DEF Said, Handshake
  <2>2. Said(g, 3) = T4(g)
    BY <2>1, Tellings, Transcribed, Sayings DEF T4, Add
  <2> QED
    BY <1>3, <2>2, Transcribed
<1>4. CASE k = 4
  <2>1. g.ke = "ECDHE"
    BY <1>4 DEF Mine
  <2>2. Told[4] \in Handshake /\ Said(g, 4) = Append(T(g, 4), <<Told[4], Saying(g, 4)>>)
    BY Tellings DEF Said, Handshake
  <2>3. Said(g, 4) = T5(g)
    BY <2>2, <2>1, Tellings, Transcribed, Sayings DEF T5, Add
  <2> QED
    BY <1>4, <2>3, Transcribed
<1>5. CASE k = 5
  <2>1. Asks(g)
    BY <1>5 DEF Mine
  <2>2. Told[5] \in Handshake /\ Said(g, 5) = Append(T(g, 5), <<Told[5], Saying(g, 5)>>)
    BY Tellings DEF Said, Handshake
  <2>3. Said(g, 5) = T6(g)
    BY <2>2, <2>1, Tellings, Transcribed, Sayings DEF T6, Add
  <2> QED
    BY <1>5, <2>3, Transcribed
<1>6. CASE k = 6
  <2>1. Told[6] \in Handshake /\ Said(g, 6) = Append(T(g, 6), <<Told[6], Saying(g, 6)>>)
    BY Tellings DEF Said, Handshake
  <2>2. Said(g, 6) = T7(g)
    BY <2>1, Tellings, Transcribed, Sayings DEF T7, Add
  <2> QED
    BY <1>6, <2>2, Transcribed
<1>7. CASE k = 7
  <2>1. Asks(g)
    BY <1>7 DEF Mine
  <2>2. Told[7] \in Handshake /\ Said(g, 7) = Append(T(g, 7), <<Told[7], Saying(g, 7)>>)
    BY Tellings DEF Said, Handshake
  <2>3. Said(g, 7) = T8(g)
    BY <2>2, <2>1, Tellings, Transcribed, Sayings DEF T8, Add
  <2> QED
    BY <1>7, <2>3, Transcribed
<1>8. CASE k = 8
  <2>1. Told[8] \in Handshake /\ Said(g, 8) = Append(T(g, 8), <<Told[8], Saying(g, 8)>>)
    BY Tellings DEF Said, Handshake
  <2>2. Said(g, 8) = T9(g)
    BY <2>1, Tellings, Transcribed, Sayings DEF T9, Add
  <2> QED
    BY <1>8, <2>2, Transcribed
<1>9. CASE k = 9
  <2>1. Asks(g) /\ g.cert["client"] # "none"
    BY <1>9 DEF Mine
  <2>2. Told[9] \in Handshake /\ Said(g, 9) = Append(T(g, 9), <<Told[9], Saying(g, 9)>>)
    BY Tellings DEF Said, Handshake
  <2>3. Said(g, 9) = T10(g)
    BY <2>2, <2>1, Tellings, Transcribed, Sayings DEF T10, Add
  <2> QED
    BY <1>9, <2>3, Transcribed
<1>10. CASE k = 10 \/ k = 13
  BY <1>10, Tellings, Transcribed DEF Said, Handshake
<1>11. CASE k = 11
  <2>1. Told[11] \in Handshake /\ Said(g, 11) = Append(T(g, 11), <<Told[11], Saying(g, 11)>>)
    BY Tellings DEF Said, Handshake
  <2>2. Said(g, 11) = T12(g)
    BY <2>1, Tellings, Transcribed, Sayings DEF T12, Add
  <2> QED
    BY <1>11, <2>2, Transcribed
<1>12. CASE k = 12
  <2>1. g.ticket
    BY <1>12 DEF Mine
  <2>2. Told[12] \in Handshake /\ Said(g, 12) = Append(T(g, 12), <<Told[12], Saying(g, 12)>>)
    BY Tellings DEF Said, Handshake
  <2>3. Said(g, 12) = T13(g)
    BY <2>2, <2>1, Tellings, Transcribed, Sayings DEF T13, Add
  <2> QED
    BY <1>12, <2>3, Transcribed
<1>13. CASE k = 14
  <2>1. Told[14] \in Handshake /\ Said(g, 14) = Append(T(g, 14), <<Told[14], Saying(g, 14)>>)
    BY Tellings DEF Said, Handshake
  <2>2. Said(g, 14) = T15(g)
    BY <2>1, Tellings, Transcribed, Sayings DEF T15, Add
  <2> QED
    BY <1>13, <2>2, Transcribed
<1> QED
  BY <1>0, <1>1, <1>2, <1>3, <1>4, <1>5, <1>6, <1>7, <1>8, <1>9, <1>10, <1>11, <1>12, <1>13

\* Nothing is added where there is no message.
LEMMA TranscriptSkip ==
  ASSUME NEW g, NEW k \in 1 .. 14, ~Mine(g, "client", k), ~Mine(g, "server", k)
  PROVE  T(g, k + 1) = T(g, k)
<1>1. \/ k = 4 /\ g.ke # "ECDHE"
      \/ k \in {5, 7} /\ ~Asks(g)
      \/ k = 9 /\ ~(Asks(g) /\ g.cert["client"] # "none")
      \/ k = 12 /\ ~g.ticket
  BY Places DEF Mine
<1> QED
  BY <1>1, Transcribed DEF T5, T6, T8, T10, T13

\* The transcripts are transcripts, and the records records.
LEMMA TranscriptType ==
  ASSUME NEW g \in Setup, NEW k \in 1 .. 15
  PROVE  T(g, k) \in Transcript
<1>1. /\ {"ticket"} \in Body /\ Saying(g, 2) \in Body /\ {} \in Body
      /\ Shown(g, "server") \in Body /\ Shown(g, "client") \in Body
  BY Sayings DEF Body, Shown, Setup, Side
<1>2. \A t \in Transcript, m \in Handshake, body \in Body : Add(t, m, body) \in Transcript
  BY Transcripts DEF Add
<1>3. T4(g) \in Transcript
  BY <1>1, <1>2, Transcripts DEF T1, T2, T3, T4, Handshake
<1>4. T7(g) \in Transcript
  BY <1>1, <1>2, <1>3 DEF T5, T6, T7, Handshake
<1>5. T9(g) \in Transcript /\ T10(g) \in Transcript
  BY <1>1, <1>2, <1>4 DEF T8, T9, T10, Handshake
<1>6. T15(g) \in Transcript
  BY <1>1, <1>2, <1>5 DEF T12, T13, T15, Handshake
<1>7. /\ T1 \in Transcript /\ T2 \in Transcript /\ T3(g) \in Transcript
  BY <1>1, <1>2, Transcripts DEF T1, T2, T3, Handshake
<1>8. T5(g) \in Transcript /\ T6(g) \in Transcript /\ T8(g) \in Transcript
  BY <1>1, <1>2, <1>3, <1>4 DEF T5, T6, T8, Handshake
<1>9. T12(g) \in Transcript /\ T13(g) \in Transcript
  BY <1>1, <1>2, <1>5 DEF T12, T13, Handshake
<1>10. k \in {1, 2, 3, 4, 5, 6, 7, 8, 9, 10, 11, 12, 13, 14} \/ k = 15
  BY Places
<1> QED
  BY <1>3, <1>4, <1>5, <1>6, <1>7, <1>8, <1>9, <1>10, Transcribed

\* So the record of a place is a record.
LEMMA RecRecord ==
  ASSUME NEW g \in Setup, NEW s \in Side, NEW k \in 1 .. 14, Mine(g, s, k)
  PROVE  Rec(g, s, k) \in Record /\ Rec(g, s, k) # None
<1>1. Told[k] \in Message
  BY Placed, PlainMessages
<1>2. Saying(g, k) \in Body
  <2>1. Shown(g, "server") \in Body /\ Shown(g, "client") \in Body /\ Saying(g, 2) \in Body
        /\ {} \in Body /\ {"ticket"} \in Body
    BY Sayings DEF Body, Shown, Setup, Side
  <2>2. k \in {1, 2, 3, 4, 5, 6, 7, 8, 9, 10, 11, 12, 13, 14}
    BY Places
  <2> QED
    BY <2>1, <2>2 DEF Saying
<1>3. \A m \in 1 .. 15 : T(g, m) \in Transcript
  BY TranscriptType
<1>4. (IF Told[k] \in Signed THEN T(g, k) ELSE <<>>) \in Transcript
  BY <1>3, Transcripts
<1>5. SealedAt(g, s, k) \in Transcript
  BY <1>3, Transcripts DEF SealedAt
<1>6. Rec(g, s, k) \in Record
  BY <1>1, <1>2, <1>4, <1>5 DEF Rec, Record
<1> QED
  BY <1>6, NoneAssumption
-----------------------------------------------------------------------------
(* What the parts of the agreement go by.                                   *)

\* The two ends' queues and contexts, before a step or after it.
LEMMA Bounds ==
  ASSUME TypeOK, NEW s \in Side
  PROVE  /\ ssl[s] \in Context /\ Place(ssl[s]) \in 1 .. 15
         /\ in[s] \in Seq(Record) /\ (out[s] # None => out[s] \in Record)
         /\ Reached(s) \in 1 .. 15 /\ conf \in Setup
<1>1. \A x \in Side : ssl[x] \in Context /\ Place(ssl[x]) \in 1 .. 15 /\ in[x] \in Seq(Record)
  BY ContextPlace DEF TypeOK
<1>2. out[s] # None => out[s] \in Record
  BY DEF TypeOK
<1>3. Reached(s) \in 1 .. 15
  BY <1>1, Peers, EndPlace DEF Reached
<1> QED
  BY <1>1, <1>2, <1>3, SetupsAssumption DEF TypeOK

\* The end of the stream of s may move on over places of no message of s.
LEMMA ContinuesEven ==
  ASSUME NEW g, NEW s \in Side, NEW o, NEW i \in 1 .. 15, NEW j \in 1 .. 15, NEW k,
         Continues(g, s, o, j, k), Even(g, s, j, i)
  PROVE  Continues(g, s, o, i, k)
<1>1. Even(g, s, i, j)
  BY EvenPlaces
<1>2. CASE o = None
  <2>1. Even(g, s, j, k)
    BY <1>2 DEF Continues
  <2>2. Even(g, s, i, k)
    BY <1>1, <2>1, EvenPlaces
  <2> QED
    BY <1>2, <2>2 DEF Continues
<1>3. CASE o # None
  <2>1. Proper(g, s, o, j) /\ Even(g, s, After(s, o), k)
        /\ (o.msg \notin Plain => Even(g, s, j, 15))
    BY <1>3 DEF Continues
  <2>2. Proper(g, s, o, i)
    BY <2>1, ProperEven
  <2>3. Even(g, s, j, 15) => Even(g, s, i, 15)
    BY <1>1, EvenPlaces
  <2> QED
    BY <1>3, <2>1, <2>2, <2>3 DEF Continues
<1> QED
  BY <1>2, <1>3

\* So may s.
LEMMA ContinuesOn ==
  ASSUME NEW g, NEW s \in Side, NEW o, NEW i, NEW j, NEW k,
         Continues(g, s, o, j, k), Even(g, s, k, i)
  PROVE  Continues(g, s, o, j, i)
<1>1. CASE o = None
  <2>1. Even(g, s, j, k)
    BY <1>1 DEF Continues
  <2>2. Even(g, s, j, i)
    BY <2>1, EvenPlaces
  <2> QED
    BY <1>1, <2>2 DEF Continues
<1>2. CASE o # None
  <2>1. Even(g, s, After(s, o), k)
    BY <1>2 DEF Continues
  <2>2. Even(g, s, After(s, o), i)
    BY <2>1, EvenPlaces
  <2> QED
    BY <1>2, <2>2 DEF Continues
<1> QED
  BY <1>1, <1>2

\* The server may go on, the client too over places of no message of the server.
LEMMA LedOn ==
  ASSUME NEW g, NEW q \in Seq(Record), NEW o, o # None => o \in Record,
         NEW i \in 1 .. 15, NEW j \in 1 .. 15, NEW k \in 1 .. 15, NEW n \in 1 .. 15,
         Led(g, q, o, j, k), k <= n, Even(g, "server", j, i)
  PROVE  Led(g, q, o, i, n)
<1>1. \A m \in 1 .. 14 : Mine(g, "server", m) /\ m < i => m < n
  <2> SUFFICES ASSUME NEW m \in 1 .. 14, Mine(g, "server", m), m < i
               PROVE  m < n
    OBVIOUS
  <2>1. m < j
    BY DEF Even
  <2> QED
    BY <2>1 DEF Led
<1>2. ASSUME NEW x \in Record, x.msg \in Plain, PlaceOf("server", x.msg) < k
      PROVE  PlaceOf("server", x.msg) < n
  <2> DEFINE m == PlaceOf("server", x.msg)
  <2>1. m \in 1 .. 14
    BY <1>2, Behind
  <2>2. m < k
    BY <1>2
  <2> HIDE DEF m
  <2>3. m < n
    BY <2>1, <2>2
  <2> QED
    BY <2>3 DEF m
<1>3. \A x \in DOMAIN q : q[x] \in Record
  OBVIOUS
<1> QED
  BY <1>1, <1>2, <1>3 DEF Led

\* A record that is sent is on the way.
LEMMA LedSent ==
  ASSUME NEW g, NEW q \in Seq(Record), NEW o \in Record, NEW j, NEW k, o # None,
         Led(g, q, o, j, k)
  PROVE  Led(g, Append(q, o), None, j, k)
<1> DEFINE p == Append(q, o)
<1>1. \A i \in DOMAIN p : (i \in DOMAIN q /\ p[i] = q[i]) \/ p[i] = o
  OBVIOUS
<1> HIDE DEF p
<1>2. \A i \in DOMAIN p : p[i].msg \in Plain => PlaceOf("server", p[i].msg) < k
  BY <1>1 DEF Led
<1> QED
  BY <1>2 DEF Led, p

\* Fewer records are on the way, and none of the handshake is to be sent.
LEMMA LedLess ==
  ASSUME NEW g, NEW q, NEW p, NEW o, NEW j, NEW k, Led(g, q, o, j, k),
         \A i \in DOMAIN p : \E n \in DOMAIN q : p[i] = q[n]
  PROVE  Led(g, p, o, j, k) /\ Led(g, p, None, j, k)
BY DEF Led

\* One end keeps what it knows while the other one does something.
LEMMA OtherKnows ==
  ASSUME TypeOK, TypeOK', NEW s \in Side, Knows(s),
         conf' = conf, ssl'[s] = ssl[s], out'[s] = out[s], Reading(s)',
         Whole' => Whole /\ Even(conf, s, Reached(s), Reached(s)')
  PROVE  Knows(s)'
<1>1. Fits(conf', s, ssl'[s])
  BY DEF Knows
<1>2. Drained(s)'
  BY DEF Knows, Drained
<1>3. Reached(s) \in 1 .. 15
  BY Bounds
<1>4. Reached(s)' \in 1 .. 15
  <2>1. \A x \in Side : ssl'[x] \in Context /\ Place(ssl'[x]) \in 1 .. 15 /\ in'[x] \in Seq(Record)
    BY ContextPlace DEF TypeOK
  <2> QED
    BY <2>1, Peers, EndPlace DEF Reached
<1>5. ASSUME Whole' PROVE Writing(s)'
  <2>1. /\ Continues(conf, s, out[s], Reached(s), Place(ssl[s]))
        /\ Even(conf, s, Reached(s), Reached(s)')
    BY <1>5 DEF Knows, Writing
  <2>2. Continues(conf, s, out[s], Reached(s)', Place(ssl[s]))
    BY <1>3, <1>4, <2>1, ContinuesEven
  <2> QED
    BY <2>2 DEF Writing
<1> QED
  BY <1>1, <1>2, <1>5 DEF Knows
-----------------------------------------------------------------------------
(* What a step of a handshake may do to the agreement.                      *)

\* The ends pass over places nobody has a message for.
Skips(g, j, k) == j <= k /\ \A s \in Side : Even(g, s, j, k)

\* The context of s goes on.
Passes(s) ==
  \E d \in Context :
    /\ Fits(conf, s, d) /\ Skips(conf, Place(ssl[s]), Place(d))
    /\ Becomes(s, d)
    /\ out[s] = None
    /\ UNCHANGED <<conf, out, in, gone, link>>

\* s says what it has to say at its place.
Says(s) ==
  \E d \in Context, k \in 1 .. 14 :
    /\ k = Place(ssl[s]) /\ Mine(conf, s, k)
    /\ Fits(conf, s, d) /\ Skips(conf, k + 1, Place(d)) /\ d.state <= 14
    /\ Becomes(s, d)
    /\ out[s] = None /\ out' = [out EXCEPT ![s] = Rec(conf, s, k)]
    /\ UNCHANGED <<conf, in, gone, link>>

\* s reads what the other end says there.
Follows(s) ==
  \E d \in Context, k \in 1 .. 14 :
    /\ k = Place(ssl[s]) /\ Mine(conf, Peer(s), k)
    /\ Fits(conf, s, d) /\ Skips(conf, k + 1, Place(d))
    /\ Becomes(s, d)
    /\ out[s] = None
    /\ in[s] # <<>> /\ Head(in[s]).msg = Told[k]
    /\ in' = [in EXCEPT ![s] = Tail(@)]
    /\ UNCHANGED <<conf, out, gone, link>>

\* The handshake of s fails for a reason that is no misunderstanding, and its alert is
\* sealed like what it would send next.
Secured(s) == (IF ssl[s].tout THEN ssl[s].key ELSE <<>>) = SealedAt(conf, s, Place(ssl[s]))
Quits(s) ==
  \E why \in Failure \ {"protocol", "garbled"} :
    \/ Ends(s, why, {})
    \/ Ends(s, why, FatalAlert(s)) /\ Secured(s) /\ ~gone[s] /\ out[s] = None

\* The other end, when one goes on.
LEMMA OneGoesOn ==
  ASSUME TypeOK, TypeOK', Agreed, NEW s \in Side, NEW p \in Side, p = Peer(s),
         NEW d \in Context, Becomes(s, d), conf' = conf, gone' = gone, link' = link,
         out'[p] = out[p], in'[p] = in[p], in'[s] # <<>> => in[s] # <<>>,
         Way(conf, p, in'[s], Place(d)), Even(conf, p, Reached(p), End(p, in'[s], Place(d)))
  PROVE  /\ ssl'[s] = d /\ ssl'[p] = ssl[p]
         /\ Whole' = Whole /\ Reached(s)' = Reached(s)
         /\ Reading(s)' /\ Knows(p)'
<1>1. p # s /\ Peer(p) = s /\ Side = {s, p}
  BY Peers DEF Side
<1>2. ssl'[s] = d /\ ssl'[p] = ssl[p]
  BY <1>1 DEF Becomes, TypeOK
<1>3. Knows(s) /\ Knows(p)
  BY <1>1 DEF Agreed
<1>4. Whole' = Whole /\ Reached(s)' = Reached(s)
  BY <1>1, <1>2 DEF Whole, Reached
<1>5. Reading(s)' /\ Reading(p)'
  BY <1>1, <1>2, <1>3 DEF Reading, Knows
<1>6. Reached(p)' = End(p, in'[s], Place(d))
  BY <1>1, <1>2 DEF Reached
<1>7. Knows(p)'
  BY <1>1, <1>2, <1>3, <1>4, <1>5, <1>6, OtherKnows
<1> QED
  BY <1>2, <1>4, <1>5, <1>7

\* The server's messages, when an end goes on without reading.
LEMMA PassedOn ==
  ASSUME TypeOK, Passed, NEW s \in Side, NEW d \in Context, conf' = conf, in' = in,
         ssl'[s] = d, ssl'[Peer(s)] = ssl[Peer(s)],
         Place(ssl[s]) <= Place(d), Even(conf, "server", Place(ssl[s]), Place(d)) \/ s = "server",
         \/ out'["server"] = out["server"]
         \/ s = "server" /\ PlaceOf("server", out'["server"].msg) < Place(d)
  PROVE  Passed'
<1>1. /\ \A x \in Side : Place(ssl[x]) \in 1 .. 15 /\ in[x] \in Seq(Record)
                           /\ (out[x] # None => out[x] \in Record)
      /\ Place(d) \in 1 .. 15 /\ "server" \in Side /\ "client" \in Side
  BY Bounds, ContextPlace DEF Side
<1>2. Place(ssl["server"]) <= Place(ssl["server"])
  BY <1>1
<1>3. \A k : Even(conf, "server", k, k)
  BY EvenPlaces
<1>4. CASE s = "client"
  <2>1. Led(conf, in["client"], out["server"], Place(d), Place(ssl["server"]))
    BY <1>1, <1>2, <1>4, LedOn DEF Passed
  <2>2. ssl'["client"] = d /\ ssl'["server"] = ssl["server"]
    BY <1>4 DEF Peer
  <2> QED
    BY <1>4, <2>1, <2>2 DEF Passed
<1>5. CASE s = "server"
  <2>1. Led(conf, in["client"], out["server"], Place(ssl["client"]), Place(d))
    BY <1>1, <1>3, <1>5, LedOn DEF Passed
  <2>2. ssl'["client"] = ssl["client"] /\ ssl'["server"] = d
    BY <1>5 DEF Peer
  <2>3. Led(conf, in["client"], out'["server"], Place(ssl["client"]), Place(d))
    BY <1>5, <2>1 DEF Led
  <2> QED
    BY <2>2, <2>3 DEF Passed
<1> QED
  BY <1>4, <1>5 DEF Side

\* The context of s goes on.
LEMMA PassesKeeps ==
  ASSUME TypeOK, TypeOK', Agreed, NEW s \in Side, Passes(s)
  PROVE  Agreed'
<1>0. PICK p \in Side : p = Peer(s) /\ p # s /\ Peer(p) = s /\ Side = {s, p}
  BY Peers DEF Side
<1> DEFINE j == Place(ssl[s])
<1>1. PICK d \in Context :
        /\ Fits(conf, s, d) /\ Skips(conf, j, Place(d))
        /\ Becomes(s, d)
        /\ out[s] = None
        /\ UNCHANGED <<conf, out, in, gone, link>>
  BY DEF Passes
<1> DEFINE k == Place(d)
<1>3. j \in 1 .. 15 /\ k \in 1 .. 15 /\ in[s] \in Seq(Record)
  BY Bounds, ContextPlace
<1>4. Even(conf, s, j, k) /\ Even(conf, p, j, k) /\ Even(conf, "server", j, k) /\ j <= k
  BY <1>0, <1>1 DEF Skips, Side
<1>5. Knows(s) /\ Passed /\ Way(conf, p, in[s], j)
  BY <1>0 DEF Agreed, Knows, Reading
<1>6. Way(conf, p, in[s], k) /\ Even(conf, p, End(p, in[s], j), End(p, in[s], k))
  BY <1>0, <1>3, <1>4, <1>5, WayEven
<1>7. Reached(p) = End(p, in[s], j)
  BY <1>0 DEF Reached
<1>8. /\ ssl'[s] = d /\ ssl'[p] = ssl[p] /\ Whole' = Whole /\ Reached(s)' = Reached(s)
      /\ Reading(s)' /\ Knows(p)'
  BY <1>0, <1>1, <1>6, <1>7, OneGoesOn
<1>9. Knows(s)'
  <2>1. Writing(s) => Continues(conf, s, out[s], Reached(s), k)
    BY <1>4, ContinuesOn DEF Writing
  <2> QED
    BY <1>1, <1>5, <1>8, <2>1 DEF Knows, Drained, Writing
<1>10. Passed'
  BY <1>0, <1>1, <1>4, <1>5, <1>8, PassedOn
<1> QED
  BY <1>0, <1>8, <1>9, <1>10 DEF Agreed

\* s says its message.
LEMMA SaysKeeps ==
  ASSUME TypeOK, TypeOK', Agreed, NEW s \in Side, Says(s)
  PROVE  Agreed'
<1>0. PICK p \in Side : p = Peer(s) /\ p # s /\ Peer(p) = s /\ Side = {s, p}
  BY Peers DEF Side
<1>1. PICK d \in Context, k \in 1 .. 14 :
        /\ k = Place(ssl[s]) /\ Mine(conf, s, k)
        /\ Fits(conf, s, d) /\ Skips(conf, k + 1, Place(d)) /\ d.state <= 14
        /\ Becomes(s, d)
        /\ out[s] = None /\ out' = [out EXCEPT ![s] = Rec(conf, s, k)]
        /\ UNCHANGED <<conf, in, gone, link>>
  BY DEF Says
<1> DEFINE r == Rec(conf, s, k)
<1> DEFINE n == Place(d)
<1>3. /\ n \in 1 .. 15 /\ in[s] \in Seq(Record) /\ ssl[s] \in Context
      /\ out'[s] = r /\ out'[p] = out[p]
  BY <1>0, <1>1, Bounds, ContextPlace DEF TypeOK
<1>4. r.msg = Told[k] /\ r.msg \in Plain /\ PlaceOf(s, r.msg) = k /\ ~Mine(conf, p, k)
      /\ After(s, r) = k + 1
  BY <1>0, <1>1, Placed DEF Rec, After
<1>5. Even(conf, s, k + 1, n) /\ Even(conf, p, k, n) /\ k < n
  <2>1. Even(conf, s, k + 1, n) /\ Even(conf, p, k + 1, n) /\ k + 1 <= n
    BY <1>0, <1>1 DEF Skips
  <2>2. Even(conf, p, k, k + 1)
    BY <1>4, EvenPlaces
  <2>3. Even(conf, p, k, n)
    BY <2>1, <2>2, EvenPlaces
  <2> QED
    BY <1>3, <2>1, <2>3
<1>6. Knows(s) /\ Passed /\ Way(conf, p, in[s], k)
  BY <1>0, <1>1 DEF Agreed, Knows, Reading
<1>7. Way(conf, p, in[s], n) /\ Even(conf, p, End(p, in[s], k), End(p, in[s], n))
  <2>1. k \in 1 .. 15
    OBVIOUS
  <2> QED
    BY <1>0, <1>3, <1>5, <1>6, <2>1, WayEven
<1>8. Reached(p) = End(p, in[s], k)
  BY <1>0, <1>1 DEF Reached
<1>9. /\ ssl'[s] = d /\ ssl'[p] = ssl[p] /\ Whole' = Whole /\ Reached(s)' = Reached(s)
      /\ Reading(s)' /\ Knows(p)'
  BY <1>0, <1>1, <1>3, <1>7, <1>8, OneGoesOn
<1>10. r # None
  BY <1>1, Bounds, RecRecord
<1>11. Knows(s)'
  <2>1. ASSUME Whole PROVE Continues(conf, s, r, Reached(s), n)
    <3>1. Even(conf, s, Reached(s), k)
      BY <1>1, <1>6, <2>1 DEF Knows, Writing, Continues
    <3>2. Proper(conf, s, r, Reached(s))
      BY <1>1, <1>4, <3>1 DEF Proper, Plain, Handshake
    <3> QED
      BY <1>4, <1>5, <1>10, <3>2 DEF Continues
  <2>2. Whole' => Writing(s)'
    BY <1>1, <1>3, <1>9, <2>1 DEF Writing
  <2>3. ~(d.state > 14)
    BY <1>1, ContextPlace
  <2>4. Drained(s)'
    BY <1>9, <2>3 DEF Drained
  <2> QED
    BY <1>1, <1>9, <2>2, <2>4 DEF Knows
<1>12. Passed'
  <2>1. s = "client" => out'["server"] = out["server"] /\ Even(conf, "server", k, n)
    BY <1>0, <1>3, <1>5 DEF Peer
  <2>2. k <= n
    BY <1>3, <1>5
  <2> QED
    BY <1>0, <1>1, <1>3, <1>4, <1>5, <1>6, <1>9, <1>10, <2>1, <2>2, PassedOn DEF Side
<1> QED
  BY <1>0, <1>9, <1>11, <1>12 DEF Agreed

\* s reads the message of the other end.
LEMMA FollowsKeeps ==
  ASSUME TypeOK, TypeOK', Agreed, NEW s \in Side, Follows(s)
  PROVE  Agreed'
<1>0. PICK p \in Side : p = Peer(s) /\ p # s /\ Peer(p) = s /\ Side = {s, p}
  BY Peers DEF Side
<1>1. PICK d \in Context, k \in 1 .. 14 :
        /\ k = Place(ssl[s]) /\ Mine(conf, Peer(s), k)
        /\ Fits(conf, s, d) /\ Skips(conf, k + 1, Place(d))
        /\ Becomes(s, d)
        /\ out[s] = None
        /\ in[s] # <<>> /\ Head(in[s]).msg = Told[k]
        /\ in' = [in EXCEPT ![s] = Tail(@)]
        /\ UNCHANGED <<conf, out, gone, link>>
  BY DEF Follows
<1> DEFINE q == in[s]
<1> DEFINE n == Place(d)
<1>2. /\ n \in 1 .. 15 /\ q \in Seq(Record) /\ ssl[s] \in Context /\ Reached(s) \in 1 .. 15
      /\ k \in 1 .. 15 /\ k + 1 \in 1 .. 15
  BY Bounds, ContextPlace
<1>3. in'[s] = Tail(q) /\ in'[p] = in[p]
  BY <1>0, <1>1 DEF TypeOK
<1>4. /\ Head(q).msg \in Plain /\ PlaceOf(p, Head(q).msg) = k /\ After(p, Head(q)) = k + 1
      /\ ~Mine(conf, s, k)
  BY <1>0, <1>1, Placed DEF After
<1>5. Even(conf, p, k + 1, n) /\ Even(conf, s, k, n) /\ k < n
  <2>1. Even(conf, s, k + 1, n) /\ Even(conf, p, k + 1, n) /\ k + 1 <= n
    BY <1>0, <1>1 DEF Skips
  <2>2. Even(conf, s, k, k + 1)
    BY <1>4, EvenPlaces
  <2>3. Even(conf, s, k, n)
    BY <2>1, <2>2, EvenPlaces
  <2> QED
    BY <1>2, <2>1, <2>3
<1>6. Knows(s) /\ Passed /\ Way(conf, p, q, k)
  BY <1>0, <1>1 DEF Agreed, Knows, Reading
<1>7. /\ Tail(q) \in Seq(Record) /\ Way(conf, p, Tail(q), k + 1)
      /\ End(p, Tail(q), k + 1) = End(p, q, k)
  BY <1>1, <1>2, <1>4, <1>6, WayTail
<1>8. Way(conf, p, Tail(q), n) /\ Even(conf, p, End(p, Tail(q), k + 1), End(p, Tail(q), n))
  BY <1>2, <1>5, <1>7, WayEven
<1>9. Even(conf, p, Reached(p), End(p, Tail(q), n))
  <2>1. Reached(p) = End(p, q, k)
    BY <1>0, <1>1 DEF Reached
  <2> QED
    BY <1>7, <1>8, <2>1
<1>10. /\ ssl'[s] = d /\ ssl'[p] = ssl[p] /\ Whole' = Whole /\ Reached(s)' = Reached(s)
       /\ Reading(s)' /\ Knows(p)'
  <2> HIDE DEF q, n
  <2> QED
    BY <1>0, <1>1, <1>3, <1>8, <1>9, OneGoesOn DEF q, n
<1>11. Knows(s)'
  <2>1. Writing(s) => Continues(conf, s, out[s], Reached(s), n)
    BY <1>1, <1>5, ContinuesOn DEF Writing
  <2> QED
    BY <1>1, <1>6, <1>10, <2>1 DEF Knows, Drained, Writing
<1>12. Passed'
  <2>1. CASE s = "client"
    <3>1. p = "server" /\ q = in["client"]
      BY <1>0, <2>1 DEF Peer
    <3> DEFINE m == Place(ssl["server"])
    <3>2. Led(conf, q, out["server"], k, m)
      BY <1>1, <1>6, <2>1 DEF Passed
    <3>3. m \in 1 .. 15
      BY <1>0, <3>1, Bounds
    <3>4. k < m
      <4>1. 1 \in DOMAIN q /\ Head(q) = q[1]
        BY <1>1, <1>2
      <4> QED
        BY <1>4, <3>1, <3>2, <4>1 DEF Led
    <3>5. \A x \in 1 .. 14 : Mine(conf, "server", x) /\ x < n => x < m
      <4> SUFFICES ASSUME NEW x \in 1 .. 14, Mine(conf, "server", x), x < n
                   PROVE  x < m
        OBVIOUS
      <4>1. k + 1 <= x <=> n <= x
        BY <1>5, <3>1 DEF Even
      <4>2. x < k \/ x = k
        BY <1>2, <4>1
      <4>3. x < k => x < m
        BY <3>2 DEF Led
      <4> QED
        BY <3>4, <4>2, <4>3
    <3>6. Led(conf, Tail(q), out["server"], n, m)
      <4>1. \A i \in DOMAIN Tail(q) : i + 1 \in DOMAIN q /\ Tail(q)[i] = q[i + 1]
        BY <1>1, <1>2
      <4> HIDE DEF q, n, m
      <4> QED
        BY <3>2, <3>5, <4>1 DEF Led
    <3> QED
      BY <1>1, <1>3, <1>10, <2>1, <3>1, <3>6 DEF Passed
  <2>2. CASE s = "server"
    <3>1. p = "client"
      BY <1>0, <2>2 DEF Peer
    <3> DEFINE m == Place(ssl["client"])
    <3>2. Led(conf, in["client"], out["server"], m, k)
      BY <1>1, <1>6, <2>2 DEF Passed
    <3>3. /\ m \in 1 .. 15 /\ in["client"] \in Seq(Record)
          /\ (out["server"] # None => out["server"] \in Record) /\ k <= n
      BY <1>0, <1>2, <1>5, <2>2, <3>1, Bounds
    <3>4. Led(conf, in["client"], out["server"], m, n)
      <4>1. Even(conf, "server", m, m)
        BY EvenPlaces
      <4> HIDE DEF q, n, m
      <4> QED
        BY <1>2, <3>2, <3>3, <4>1, LedOn
    <3> QED
      BY <1>1, <1>3, <1>10, <2>2, <3>1, <3>4 DEF Passed
  <2> QED
    BY <2>1, <2>2 DEF Side
<1> QED
  BY <1>0, <1>10, <1>11, <1>12 DEF Agreed

\* What an end that fails or leaves knows does not change.
LEMMA FailFits ==
  ASSUME NEW g, NEW s, NEW c \in Context, NEW why \in Failure \ {"protocol", "garbled"},
         NEW d, d = [c EXCEPT !.fail = why]
  PROVE  /\ d \in Context /\ d.state = c.state /\ d.tick = c.tick /\ Place(d) = Place(c)
         /\ Fits(g, s, c) => Fits(g, s, d)
<1>1. d \in Context /\ d.fail = why
  BY SetFail
<1>2. /\ d.state = c.state /\ d.tick = c.tick /\ d.kept = c.kept /\ d.heard = c.heard
      /\ d.key = c.key /\ d.tin = c.tin /\ d.tout = c.tout /\ d.ke = c.ke /\ d.auth = c.auth
      /\ d.peer = c.peer
  BY DEF Context
<1>3. Place(d) = Place(c)
  BY <1>2 DEF Place
<1>4. Hearing(g, c) => Hearing(g, d)
  BY <1>2, <1>3 DEF Hearing
<1>5. ClientFits(g, c) => ClientFits(g, d)
  BY <1>2 DEF ClientFits
<1>6. ServerFits(g, c) => ServerFits(g, d)
  BY <1>2 DEF ServerFits
<1> QED
  BY <1>1, <1>2, <1>3, <1>4, <1>5, <1>6 DEF Fits

\* A record that continues what is on the way can be sent.
LEMMA SentReads ==
  ASSUME TypeOK, Agreed, NEW s \in Side, NEW p \in Side, p = Peer(s), NEW r \in Record,
         Carries(s) => Proper(conf, s, r, Reached(s)),
         conf' = conf, ssl'[p] = ssl[p], gone'[p] = gone[p],
         in'[p] = in[p] \/ in'[p] = Arrive(s, r)[p]
  PROVE  /\ Reading(p)'
         /\ in'[p] # in[p] => Carries(s) /\ in'[p] = Append(in[p], r)
<1>1. Peer(p) = s /\ Reading(p) /\ Reached(s) = End(s, in[p], Place(ssl[p]))
  BY Peers DEF Agreed, Knows, Reached
<1>2. CASE in'[p] = in[p]
  BY <1>1, <1>2 DEF Reading
<1>3. CASE in'[p] # in[p]
  <2>1. Carries(s) /\ in'[p] = Append(in[p], r)
    BY <1>3 DEF Arrive, TypeOK
  <2>2. ~gone'[p]
    BY <2>1 DEF Carries
  <2>3. in[p] \in Seq(Record)
    BY Bounds
  <2>4. Way(conf, s, in'[p], Place(ssl[p]))
    BY <1>1, <2>1, <2>3, WayAppend DEF Reading
  <2> QED
    BY <1>1, <2>1, <2>2, <2>4 DEF Reading
<1> QED
  BY <1>2, <1>3

\* The server's messages, when none is read or written.
LEMMA PassedLess ==
  ASSUME TypeOK, TypeOK', Passed, conf' = conf,
         Place(ssl'["client"]) = 1 \/ Place(ssl'["client"]) = Place(ssl["client"]),
         Place(ssl'["server"]) = Place(ssl["server"]),
         \A i \in DOMAIN in'["client"] :
           \/ \E n \in DOMAIN in["client"] : in'["client"][i] = in["client"][n]
           \/ in'["client"][i].msg \notin Plain
           \/ out["server"] # None /\ in'["client"][i] = out["server"],
         \/ out'["server"] \in {out["server"], None}
         \/ out'["server"].msg \notin Plain
  PROVE  Passed'
<1>1. Led(conf, in'["client"], out'["server"], Place(ssl["client"]), Place(ssl["server"]))
  BY DEF Passed, Led
<1>2. Led(conf, in'["client"], out'["server"], Place(ssl'["client"]), Place(ssl["server"]))
  BY <1>1 DEF Led, Mine
<1> QED
  BY <1>2 DEF Passed

\* The handshake of s fails.
LEMMA QuitsKeeps ==
  ASSUME TypeOK, TypeOK', Agreed, NEW s \in Side, Quits(s)
  PROVE  Agreed'
<1>0. PICK p \in Side : p = Peer(s) /\ p # s /\ Peer(p) = s /\ Side = {s, p}
  BY Peers DEF Side
<1> DEFINE r == Sealed(ssl[s], "Fatal", {}, <<>>)
<1>1. PICK why \in Failure \ {"protocol", "garbled"} :
        \/ Ends(s, why, {})
        \/ Ends(s, why, {r}) /\ Secured(s) /\ ~gone[s] /\ out[s] = None
  BY DEF Quits, FatalAlert
<1> DEFINE d == [ssl[s] EXCEPT !.fail = why]
<1>2. /\ ssl' = [ssl EXCEPT ![s] = d] /\ gone' = [gone EXCEPT ![s] = TRUE]
      /\ out' = [out EXCEPT ![s] = None] /\ conf' = conf /\ link' = link
      /\ \/ in' = [in EXCEPT ![s] = <<>>]
         \/ /\ in' = [Arrive(s, r) EXCEPT ![s] = <<>>]
            /\ Secured(s) /\ ~gone[s] /\ out[s] = None
  BY <1>1 DEF Ends, Becomes
<1>3. ssl[s] \in Context /\ r \in Record /\ r.msg = "Fatal" /\ {} \in Body
      /\ r.key = IF ssl[s].tout THEN ssl[s].key ELSE <<>>
  BY Bounds, SealedRecord, Transcripts DEF Sealed, Message, Body
<1>4. d \in Context /\ Place(d) = Place(ssl[s]) /\ (Fits(conf, s, ssl[s]) => Fits(conf, s, d))
  BY <1>3, FailFits
<1> HIDE DEF d
<1>5. /\ ssl'[s] = d /\ ssl'[p] = ssl[p] /\ gone'[s] /\ gone'[p] = gone[p] /\ out'[s] = None
      /\ out'[p] = out[p] /\ in'[s] = <<>>
      /\ \/ in'[p] = in[p]
         \/ in'[p] = Arrive(s, r)[p] /\ Secured(s) /\ ~gone[s] /\ out[s] = None
  <2>1. in \in [Side -> Seq(Record)] /\ Arrive(s, r) \in [Side -> Seq(Record)]
    <3>1. in \in [Side -> Seq(Record)] /\ Append(in[p], r) \in Seq(Record)
      BY <1>3 DEF TypeOK
    <3> HIDE DEF r
    <3> QED
      BY <1>0, <3>1 DEF Arrive
  <2>2. DOMAIN ssl = Side /\ DOMAIN gone = Side /\ DOMAIN out = Side
    BY DEF TypeOK
  <2> QED
    BY <1>0, <1>2, <2>1, <2>2
<1>6. Knows(s) /\ Knows(p) /\ Passed
  BY <1>0 DEF Agreed
<1>7. ~Whole'
  BY <1>5 DEF Whole, Side
<1>8. Knows(s)'
  <2>1. Reading(s)'
    BY <1>5 DEF Reading, Way
  <2> QED
    BY <1>2, <1>4, <1>5, <1>6, <1>7, <2>1 DEF Knows, Drained
<1>9. CASE in'[p] = in[p]
  <2>1. Reading(p)'
    BY <1>0, <1>2, <1>5, <1>6, <1>9 DEF Knows, Reading
  <2>2. Knows(p)'
    BY <1>2, <1>5, <1>6, <1>7, <2>1, OtherKnows
  <2>3. in'["client"] = in["client"] \/ in'["client"] = <<>>
    BY <1>0, <1>5, <1>9 DEF Side
  <2>4. \A x \in Side : Place(ssl'[x]) = Place(ssl[x]) /\ out'[x] \in {out[x], None}
    BY <1>0, <1>4, <1>5
  <2>5. Passed'
    BY <1>2, <1>6, <2>3, <2>4, PassedLess DEF Side
  <2> QED
    BY <1>0, <1>8, <2>2, <2>5 DEF Agreed
<1>10. CASE in'[p] = Arrive(s, r)[p] /\ Secured(s) /\ ~gone[s] /\ out[s] = None
  <2>1. ASSUME Carries(s) PROVE Proper(conf, s, r, Reached(s))
    <3>1. Whole
      BY <1>0, <1>10, <2>1 DEF Whole, Carries, Side
    <3>2. Even(conf, s, Reached(s), Place(ssl[s]))
      BY <1>6, <1>10, <3>1 DEF Knows, Writing, Continues
    <3>3. SealedAt(conf, s, Reached(s)) = SealedAt(conf, s, Place(ssl[s]))
      BY <3>2, Bounds, EvenSealed
    <3> QED
      BY <1>3, <1>10, <3>3 DEF Proper, Secured, Plain, Handshake
  <2>2. /\ Reading(p)'
        /\ in'[p] = in[p] \/ in'[p] = Append(in[p], r)
    BY <1>0, <1>2, <1>3, <1>5, <1>10, <2>1, SentReads
  <2>3. Knows(p)'
    BY <1>2, <1>5, <1>6, <1>7, <2>2, OtherKnows
  <2>4. \A i \in DOMAIN in'["client"] :
           \/ \E n \in DOMAIN in["client"] : in'["client"][i] = in["client"][n]
           \/ in'["client"][i].msg \notin Plain
    <3>1. in'["client"] = in["client"] \/ in'["client"] = <<>>
            \/ in'["client"] = Append(in["client"], r)
      BY <1>0, <1>5, <2>2 DEF Side
    <3>2. in["client"] \in Seq(Record) /\ r.msg \notin Plain
      BY <1>3, Bounds DEF Side, Plain, Handshake
    <3> HIDE DEF r
    <3> QED
      BY <3>1, <3>2
  <2>5. \A x \in Side : Place(ssl'[x]) = Place(ssl[x]) /\ out'[x] \in {out[x], None}
    BY <1>0, <1>4, <1>5
  <2>6. Passed'
    BY <1>2, <1>6, <2>4, <2>5, PassedLess DEF Side
  <2> QED
    BY <1>0, <1>8, <2>3, <2>6 DEF Agreed
<1> QED
  BY <1>5, <1>9, <1>10

\* What waits is sent.
LEMMA FlushKeeps ==
  ASSUME TypeOK, TypeOK', Agreed, NEW s \in Side, FlushOutput(s)
  PROVE  Agreed'
<1>0. PICK p \in Side : p = Peer(s) /\ p # s /\ Peer(p) = s /\ Side = {s, p}
  BY Peers DEF Side
<1> DEFINE r == out[s]
<1>1. /\ ~gone[s] /\ r # None /\ r \in Record /\ in' = Arrive(s, r)
      /\ out' = [out EXCEPT ![s] = None] /\ out'[s] = None /\ out'[p] = out[p]
      /\ UNCHANGED <<conf, ssl, gone, link>>
  BY <1>0, Bounds DEF FlushOutput, TypeOK
<1>2. Knows(s) /\ Knows(p) /\ Passed
  BY <1>0 DEF Agreed
<1>3. in'[s] = in[s]
  BY <1>0, <1>1 DEF Arrive, TypeOK
<1>4. Carries(s) <=> Whole
  BY <1>0, <1>1 DEF Carries, Whole, Side
<1>5. Whole => /\ Proper(conf, s, r, Reached(s)) /\ Even(conf, s, After(s, r), Place(ssl[s]))
  BY <1>1, <1>2 DEF Knows, Writing, Continues
<1>6. /\ Reading(p)'
      /\ in'[p] # in[p] => Carries(s) /\ in'[p] = Append(in[p], r)
  BY <1>0, <1>1, <1>4, <1>5, SentReads
<1>7. Whole' = Whole
  BY <1>1 DEF Whole
<1>8. Knows(p)'
  <2>1. Reached(p)' = Reached(p)
    BY <1>0, <1>1, <1>3 DEF Reached
  <2> QED
    BY <1>1, <1>2, <1>6, <1>7, <2>1, EvenPlaces, OtherKnows
<1>9. Knows(s)'
  <2>1. Reading(s)'
    BY <1>1, <1>2, <1>3 DEF Knows, Reading
  <2>2. ASSUME Whole' PROVE Writing(s)'
    <3>1. in'[p] = Append(in[p], r)
      BY <1>0, <1>1, <1>4, <1>7, <2>2 DEF Arrive, TypeOK
    <3>2. Reached(s)' = After(s, r)
      <4>1. in[p] \in Seq(Record) /\ Way(conf, s, in[p], Place(ssl[p]))
            /\ Reached(s) = End(s, in[p], Place(ssl[p]))
        BY <1>0, <1>2, Bounds DEF Knows, Reading, Reached
      <4>2. End(s, Append(in[p], r), Place(ssl[p])) = After(s, r)
        BY <1>1, <1>5, <1>7, <2>2, <4>1, WayAppend
      <4> QED
        BY <1>0, <1>1, <3>1, <4>2 DEF Reached
    <3> QED
      BY <1>1, <1>5, <1>7, <2>2, <3>2 DEF Writing, Continues
  <2> QED
    BY <1>1, <1>2, <2>1, <2>2 DEF Knows, Drained
<1>10. Passed'
  <2>1. \A i \in DOMAIN in'["client"] :
           \/ \E n \in DOMAIN in["client"] : in'["client"][i] = in["client"][n]
           \/ out["server"] # None /\ in'["client"][i] = out["server"]
    <3>1. \/ in'["client"] = in["client"]
          \/ s = "server" /\ out["server"] # None
               /\ in'["client"] = Append(in["client"], out["server"])
      BY <1>0, <1>1, <1>3, <1>6 DEF Side
    <3>2. in["client"] \in Seq(Record)
      BY Bounds DEF Side
    <3> QED
      BY <3>1, <3>2
  <2>2. out'["server"] \in {out["server"], None}
    BY <1>0, <1>1 DEF Side
  <2> QED
    BY <1>1, <1>2, <2>1, <2>2, PassedLess
<1> QED
  BY <1>0, <1>8, <1>9, <1>10 DEF Agreed
-----------------------------------------------------------------------------
(* Which steps those of a handshake are.                                    *)

\* What a context at its place knows, besides the transcript.
Suits(g, s, c) ==
  /\ s = "client" => ClientFits(g, c)
  /\ s = "server" => ServerFits(g, c)
  /\ c.fail \notin {"protocol", "garbled"}

\* The same place, or the next one where nobody has a message for the first.
Near(g, j, k) ==
  k = j \/ (k = j + 1 /\ j < 15 /\ ~Mine(g, "client", j) /\ ~Mine(g, "server", j))

\* The fields that a message or the next state leaves alone.
Alike(d, c) ==
  /\ d.key = c.key /\ d.tin = c.tin /\ d.tout = c.tout /\ d.ke = c.ke /\ d.tick = c.tick
  /\ d.auth = c.auth /\ d.peer = c.peer /\ d.fail = c.fail

\* The ends pass over a place nobody has a message for.
LEMMA NearSkips ==
  ASSUME NEW g, NEW j \in 1 .. 15, NEW k \in 1 .. 15, Near(g, j, k)
  PROVE  Skips(g, j, k) /\ T(g, j) = T(g, k)
<1>1. CASE k = j
  <2>1. \A s \in Side : Even(g, s, j, j)
    BY EvenPlaces
  <2>2. j <= j
    OBVIOUS
  <2> QED
    BY <1>1, <2>1, <2>2 DEF Skips
<1>2. CASE k = j + 1 /\ j < 15 /\ ~Mine(g, "client", j) /\ ~Mine(g, "server", j)
  <2>1. j \in 1 .. 14
    BY <1>2
  <2>2. \A s \in Side : Even(g, s, j, k)
    BY <1>2, <2>1, EvenPlaces DEF Side
  <2>3. T(g, j + 1) = T(g, j)
    BY <1>2, <2>1, TranscriptSkip
  <2> QED
    BY <1>2, <2>2, <2>3 DEF Skips
<1> QED
  BY <1>1, <1>2 DEF Near

\* A context that has heard the transcript of its place.
LEMMA SuitsFits ==
  ASSUME NEW g, NEW s, NEW c, Suits(g, s, c), c.state < 16 => c.heard = T(g, Place(c)), ~c.kept
  PROVE  Fits(g, s, c)
BY DEF Suits, Fits, Hearing

\* What an end knows, before its step.
LEMMA Knowing ==
  ASSUME TypeOK, Agreed, NEW s \in Side
  PROVE  /\ ssl[s] \in Context /\ ssl[s].state \in 0 .. 17
         /\ Suits(conf, s, ssl[s]) /\ Hearing(conf, ssl[s]) /\ conf \in Setup
         /\ ssl[s].kept => s = "client" /\ ssl[s].state = 6
         /\ ssl[s].kept \in BOOLEAN /\ ssl[s].tick \in BOOLEAN
<1>1. ssl[s] \in Context /\ conf \in Setup
  BY Bounds
<1>2. Fits(conf, s, ssl[s])
  BY DEF Agreed, Knows
<1>3. ssl[s].kept \in BOOLEAN /\ ssl[s].tick \in BOOLEAN
  BY <1>1 DEF Context
<1> QED
  BY <1>1, <1>2, <1>3, ContextPlace DEF Fits, Suits, ClientFits, ServerFits, Side

\* The next state, and nothing else.
LEMMA SteppedAlike ==
  ASSUME NEW c \in Context, c.state <= 16
  PROVE  LET d == Stepped(c)
         IN  /\ d \in Context /\ d.state = c.state + 1 /\ d.heard = c.heard /\ d.kept = c.kept
             /\ Alike(d, c)
<1>1. Stepped(c) \in Context /\ Stepped(c).state = c.state + 1
  BY SetState
<1> QED
  BY <1>1 DEF Context, Stepped, Alike

\* One more message in the transcript.
LEMMA HeardAlike ==
  ASSUME NEW c \in Context, NEW t \in Transcript
  PROVE  LET d == [c EXCEPT !.heard = t]
         IN  /\ d \in Context /\ d.state = c.state /\ d.heard = t /\ d.kept = c.kept
             /\ Alike(d, c)
<1>1. [c EXCEPT !.heard = t] \in Context
  BY SetTranscripts
<1> QED
  BY <1>1 DEF Context, Alike

\* The states of the client whose steps learn nothing.
LEMMA ClientStates ==
  ASSUME NEW g, NEW c \in Context, NEW d \in Context, ClientFits(g, c), Alike(d, c), ~d.kept,
         c.state \in {0, 1, 4, 6, 7, 8, 10, 13, 14, 15}, d.state = c.state + 1
  PROVE  ClientFits(g, d)
BY SMTT(30) DEF ClientFits, Alike

\* The states of the server whose steps learn nothing.
LEMMA ServerStates ==
  ASSUME NEW g, NEW c \in Context, NEW d \in Context, ServerFits(g, c), Alike(d, c), ~d.kept,
         c.state \in {0, 2, 3, 4, 5, 6, 9, 11, 14, 15}
           \/ (c.state = 7 /\ ~Asks(g)) \/ (c.state = 12 /\ ~c.tick),
         d.state = c.state + 1
  PROVE  ServerFits(g, d)
<1> USE DEF ServerFits, Alike
<1>1. CASE c.state \in {0, 2, 3, 4}
  BY <1>1
<1>2. CASE c.state \in {5, 6, 9, 11}
  BY <1>2
<1>3. CASE c.state \in {14, 15}
  BY <1>3, SMTT(30)
<1>4. CASE c.state = 7 /\ ~Asks(g)
  BY <1>4 DEF Asks
<1>5. CASE c.state = 12 /\ ~c.tick
  BY <1>5
<1> QED
  BY <1>1, <1>2, <1>3, <1>4, <1>5

\* A record of the handshake is written: it is the one of the place.
LEMMA SaysAt ==
  ASSUME TypeOK, Agreed, NEW s \in Side, Handshaking(s), out[s] = None,
         NEW k \in 1 .. 14, k = Place(ssl[s]), Mine(conf, s, k),
         NEW c \in Context, c.heard = ssl[s].heard, ~c.kept, c.state <= 14, ssl[s].state <= 14,
         Suits(conf, s, c), Near(conf, k + 1, Place(c)),
         (IF c.tout THEN c.key ELSE <<>>) = SealedAt(conf, s, k),
         WriteRecord(s, c, Told[k], Saying(conf, k),
                     IF Told[k] \in Signed THEN ssl[s].heard ELSE <<>>)
  PROVE  Says(s)
<1> DEFINE d == IF Told[k] \in Handshake
                THEN [c EXCEPT !.heard = Append(@, <<Told[k], Saying(conf, k)>>)] ELSE c
<1> DEFINE of == IF Told[k] \in Signed THEN ssl[s].heard ELSE <<>>
<1>1. ssl[s].heard = T(conf, k) /\ conf \in Setup
  <2>1. ~ssl[s].kept
    BY Knowing, ContextPlace DEF Mine
  <2> QED
    BY <2>1, Knowing DEF Hearing
<1>2. Place(c) \in 1 .. 15 /\ k + 1 \in 1 .. 15
  BY ContextPlace
<1>3. T(conf, k + 1) \in Transcript
  BY <1>1, <1>2, TranscriptType
<1>4. /\ d \in Context /\ d.heard = T(conf, k + 1) /\ d.state = c.state /\ d.kept = c.kept
      /\ Alike(d, c)
  <2>1. CASE Told[k] \in Handshake
    <3>1. T(conf, k + 1) = Append(c.heard, <<Told[k], Saying(conf, k)>>)
      BY <1>1, <2>1, TranscriptStep DEF Said
    <3>2. d = [c EXCEPT !.heard = T(conf, k + 1)]
      BY <2>1, <3>1 DEF Context
    <3> HIDE DEF d
    <3> QED
      BY <1>3, <3>2, HeardAlike
  <2>2. CASE Told[k] \notin Handshake
    <3>1. T(conf, k + 1) = c.heard
      BY <1>1, <2>2, TranscriptStep DEF Said
    <3> QED
      BY <2>2, <3>1 DEF Alike
  <2> QED
    BY <2>1, <2>2
<1>5. Becomes(s, d) /\ out' = [out EXCEPT ![s] = Sealed(c, Told[k], Saying(conf, k), of)]
      /\ UNCHANGED <<conf, in, gone, link>>
  BY DEF WriteRecord
<1>6. Sealed(c, Told[k], Saying(conf, k), of) = Rec(conf, s, k)
  BY <1>1 DEF Sealed, Rec
<1> HIDE DEF d, of
<1>7. Place(d) = Place(c)
  BY <1>4 DEF Place, Alike
<1>8. Suits(conf, s, d)
  BY <1>4 DEF Suits, ClientFits, ServerFits, Alike
<1>9. Fits(conf, s, d) /\ Skips(conf, k + 1, Place(d))
  BY <1>2, <1>4, <1>7, <1>8, NearSkips, SuitsFits
<1> QED
  BY <1>4, <1>5, <1>6, <1>9 DEF Says

\* The record at the head of what is on the way to s is the one of the place s
\* is at, or a fatal alert in its stead.
LEMMA HeadHere ==
  ASSUME TypeOK, Agreed, NEW s \in Side, NEW k \in 1 .. 14, Near(conf, Place(ssl[s]), k),
         Mine(conf, Peer(s), k), in[s] # <<>>
  PROVE  LET r == Head(in[s])
         IN  /\ r \in Record
             /\ r = Rec(conf, Peer(s), k) \/ (r.msg = "Fatal" /\ r.key = SealedAt(conf, Peer(s), k))
<1>0. PICK p \in Side : p = Peer(s) /\ p # s /\ Peer(p) = s /\ Side = {s, p}
  BY Peers DEF Side
<1> DEFINE j == Place(ssl[s])
<1> DEFINE q == in[s]
<1> DEFINE r == Head(q)
<1>1. j \in 1 .. 15 /\ k \in 1 .. 15 /\ q \in Seq(Record)
  BY Bounds
<1>2. Even(conf, p, j, k)
  BY <1>0, <1>1, NearSkips DEF Skips
<1>3. Way(conf, p, q, j)
  BY <1>0 DEF Agreed, Knows, Reading
<1>4. Way(conf, p, q, k)
  BY <1>0, <1>1, <1>2, <1>3, WayEven
<1>5. r \in Record /\ Proper(conf, p, r, k)
  BY <1>1, <1>4, WayTail
<1> HIDE DEF j, q, r
<1>6. CASE r.msg \in Plain
  <2> DEFINE m == PlaceOf(p, r.msg)
  <2>1. Mine(conf, p, m) /\ Even(conf, p, k, m) /\ r = Rec(conf, p, m)
    BY <1>5, <1>6 DEF Proper
  <2>2. m \in 1 .. 14
    BY <1>5, <1>6, Behind
  <2> HIDE DEF m
  <2>3. m <= k /\ k <= m
    BY <1>0, <2>1, <2>2, EvenMine
  <2>4. m = k
    BY <2>2, <2>3
  <2> QED
    BY <1>0, <1>5, <2>1, <2>4 DEF r, q
<1>7. CASE r.msg = "Fatal"
  BY <1>0, <1>5, <1>7 DEF Proper, r, q
<1>8. CASE r.msg \in {"Data", "CloseNotify", "Again"}
  <2>1. Even(conf, p, k, 15)
    BY <1>5, <1>8 DEF Proper
  <2>2. k <= k <=> 15 <= k
    BY <1>0, <2>1 DEF Even
  <2> QED
    BY <2>2
<1> QED
  BY <1>5, <1>6, <1>7, <1>8 DEF Record, Message, Plain

\* What s has heard when it has read it.
LEMMA HeardHere ==
  ASSUME TypeOK, Agreed, NEW s \in Side, NEW k \in 1 .. 14, Near(conf, Place(ssl[s]), k),
         Mine(conf, Peer(s), k), in[s] # <<>>, Head(in[s]) = Rec(conf, Peer(s), k)
  PROVE  LET d == Heard(s)
         IN  /\ d \in Context /\ d.state = ssl[s].state /\ Alike(d, ssl[s]) /\ ~d.kept
             /\ d.heard = T(conf, k + 1)
<1> DEFINE c == ssl[s]
<1> DEFINE r == Head(in[s])
<1>1. c \in Context /\ Hearing(conf, c) /\ conf \in Setup /\ (c.kept => c.state = 6)
      /\ c.kept \in BOOLEAN
  BY Knowing
<1>2. Place(c) \in 1 .. 14
  BY <1>1, ContextPlace DEF Near
<1>3. T(conf, Place(c)) = T(conf, k) /\ k + 1 \in 1 .. 15
  BY <1>2, NearSkips
<1>4. c.state < 16
  BY <1>1, <1>2, ContextPlace, SMTT(30)
<1>5. T(conf, k + 1) \in Transcript
  BY <1>1, <1>3, TranscriptType
<1>6. Peer(s) \in Side
  BY Peers
<1>7. r.msg = Told[k] /\ r.body = Saying(conf, k)
  BY DEF Rec
<1>8. CASE c.kept
  <2>1. Place(c) = 6 /\ c.heard = T(conf, 7)
    BY <1>1, <1>4, <1>8, ContextPlace DEF Hearing
  <2>2. s = "client"
    BY <1>8, Knowing
  <2>3. Mine(conf, "server", 6)
    BY DEF Mine
  <2>4. k = 6
    BY <2>1, <2>3 DEF Near
  <2>5. c.heard = T(conf, k + 1)
    BY <2>1, <2>4
  <2>6. Heard(s) = [c EXCEPT !.kept = FALSE]
    BY <1>8 DEF Heard, Hears
  <2>7. [c EXCEPT !.kept = FALSE] \in Context
    BY <1>1, SetFlags
  <2> QED
    BY <1>1, <2>5, <2>6, <2>7 DEF Alike, Context
<1>9. CASE ~c.kept /\ Told[k] \in Handshake
  <2>1. c.heard = T(conf, k)
    BY <1>1, <1>3, <1>4, <1>9 DEF Hearing
  <2>2. T(conf, k + 1) = Append(c.heard, <<Told[k], Saying(conf, k)>>)
    BY <1>6, <1>9, <2>1, TranscriptStep DEF Said
  <2>3. Heard(s) = [c EXCEPT !.heard = T(conf, k + 1)]
    BY <1>1, <1>7, <1>9, <2>2 DEF Heard, Hears, Context
  <2> HIDE DEF c
  <2> QED
    BY <1>1, <1>5, <1>9, <2>3, HeardAlike DEF c
<1>10. CASE ~c.kept /\ Told[k] \notin Handshake
  <2>1. c.heard = T(conf, k)
    BY <1>1, <1>3, <1>4, <1>10 DEF Hearing
  <2>2. T(conf, k + 1) = c.heard
    BY <1>6, <1>10, <2>1, TranscriptStep DEF Said
  <2>3. Heard(s) = [c EXCEPT !.kept = FALSE]
    BY <1>7, <1>10 DEF Heard, Hears
  <2>4. [c EXCEPT !.kept = FALSE] = c
    BY <1>1, <1>10 DEF Context
  <2> QED
    BY <1>1, <1>10, <2>2, <2>3, <2>4 DEF Alike
<1> QED
  BY <1>8, <1>9, <1>10

\* s goes on with what the other end says at the place s is at.
LEMMA FollowsAt ==
  ASSUME TypeOK, Agreed, NEW s \in Side, out[s] = None, NEW k \in 1 .. 14,
         k = Place(ssl[s]), Mine(conf, Peer(s), k), in[s] # <<>>, Head(in[s]).msg = Told[k],
         NEW d \in Context, d.heard = T(conf, k + 1), ~d.kept, Suits(conf, s, d),
         Near(conf, k + 1, Place(d)), Took(s, d)
  PROVE  Follows(s)
<1>1. Place(d) \in 1 .. 15 /\ k + 1 \in 1 .. 15
  BY ContextPlace
<1>2. Skips(conf, k + 1, Place(d)) /\ T(conf, Place(d)) = T(conf, k + 1)
  BY <1>1, NearSkips
<1>3. Fits(conf, s, d)
  BY <1>2, SuitsFits
<1> QED
  BY <1>2, <1>3 DEF Follows, Took

\* s goes on over a place where nobody has a message.
LEMMA PassesAt ==
  ASSUME TypeOK, Agreed, NEW s \in Side, out[s] = None,
         NEW d \in Context, d.state < 16 => d.heard = T(conf, Place(ssl[s])), ~d.kept,
         Suits(conf, s, d), Near(conf, Place(ssl[s]), Place(d)), Becomes(s, d),
         UNCHANGED <<conf, out, in, gone, link>>
  PROVE  Passes(s)
<1>1. Place(d) \in 1 .. 15 /\ Place(ssl[s]) \in 1 .. 15
  BY Bounds, ContextPlace
<1>2. Skips(conf, Place(ssl[s]), Place(d)) /\ T(conf, Place(d)) = T(conf, Place(ssl[s]))
  BY <1>1, NearSkips
<1>3. Fits(conf, s, d)
  BY <1>2, SuitsFits
<1> QED
  BY <1>2, <1>3 DEF Passes

\* What the other end seals at the place s is at, s opens.
LEMMA OpensHere ==
  ASSUME TypeOK, Agreed, NEW s \in Side
  PROVE  SealedAt(conf, Peer(s), Place(ssl[s])) = IF ssl[s].tin THEN ssl[s].key ELSE <<>>
<1>1. ssl[s] \in Context /\ Suits(conf, s, ssl[s])
  BY Knowing
<1>2. CASE s = "client"
  <2> DEFINE c == ssl[s]
  <2>1. (c.tin <=> c.state > 12) /\ (c.key = IF c.state > 9 THEN T(conf, 9) ELSE <<>>)
    BY <1>1, <1>2 DEF Suits, ClientFits
  <2>2. Place(c) > 13 <=> c.state > 12
    BY <1>1, ContextPlace
  <2>3. c.state \in 0 .. 17
    BY <1>1, ContextPlace
  <2> HIDE DEF c
  <2> QED
    BY <1>2, <2>1, <2>2, <2>3 DEF SealedAt, Peer, c
<1>3. CASE s = "server"
  <2> DEFINE c == ssl[s]
  <2>1. (c.tin <=> c.state > 10) /\ (c.key = IF c.state > 8 THEN T(conf, 9) ELSE <<>>)
    BY <1>1, <1>3 DEF Suits, ServerFits
  <2>2. Place(c) > 10 <=> c.state > 10
    BY <1>1, ContextPlace
  <2>3. c.state \in 0 .. 17
    BY <1>1, ContextPlace
  <2> HIDE DEF c
  <2> QED
    BY <1>3, <2>1, <2>2, <2>3 DEF SealedAt, Peer, c
<1> QED
  BY <1>2, <1>3 DEF Side
-----------------------------------------------------------------------------
(* What goes wrong in a handshake of these two ends.                        *)

\* s reads at its place what the other end says next, and seals its alerts
\* like what it says next.
Awaits(s, expected) ==
  expected # {} =>
    /\ Secured(s)
    /\ \E k \in 1 .. 14 : Near(conf, Place(ssl[s]), k) /\ Mine(conf, Peer(s), k)
                            /\ Told[k] \in expected

\* An end that is sealed like its place says.
LEMMA SecuredAt ==
  ASSUME TypeOK, Agreed, NEW s \in Side,
         s = "client" => ssl[s].state # 11, s = "server" => ssl[s].state # 13
  PROVE  Secured(s)
<1>1. ssl[s] \in Context /\ Suits(conf, s, ssl[s])
  BY Knowing
<1> DEFINE c == ssl[s]
<1>2. c.state \in 0 .. 17
  BY <1>1, ContextPlace
<1>3. CASE s = "client"
  <2>1. (c.tout <=> c.state > 11) /\ (c.key = IF c.state > 9 THEN T(conf, 9) ELSE <<>>)
    BY <1>1, <1>3 DEF Suits, ClientFits
  <2>2. Place(c) > 10 <=> c.state > 11
    BY <1>1, <1>3, ContextPlace
  <2> HIDE DEF c
  <2> QED
    BY <1>2, <1>3, <2>1, <2>2 DEF SealedAt, Secured, c
<1>4. CASE s = "server"
  <2>1. (c.tout <=> c.state > 13) /\ (c.key = IF c.state > 8 THEN T(conf, 9) ELSE <<>>)
    BY <1>1, <1>4 DEF Suits, ServerFits
  <2>2. Place(c) > 13 <=> c.state > 13
    BY <1>1, <1>4, ContextPlace
  <2> HIDE DEF c
  <2> QED
    BY <1>2, <1>4, <2>1, <2>2 DEF SealedAt, Secured, c
<1> QED
  BY <1>3, <1>4 DEF Side

\* The client reads what the server says next.
LEMMA ClientAwaits ==
  ASSUME TypeOK, Agreed
  PROVE  Awaits("client", ClientExpects)
<1> DEFINE c == ssl["client"]
<1> DEFINE j == Place(c)
<1>0. "client" \in Side /\ Peer("client") = "server"
  BY DEF Side, Peer
<1>1. c \in Context /\ c.state \in 0 .. 17 /\ ClientFits(conf, c) /\ conf \in Setup
  BY <1>0, Knowing DEF Suits
<1>2. SUFFICES ASSUME ClientExpects # {} PROVE Awaits("client", ClientExpects)
  BY DEF Awaits
<1>3. \/ c.state \in {2, 3, 5, 6, 13}
      \/ c.state = 4 /\ c.ke = "ECDHE"
      \/ c.state = 12
  BY <1>2, States DEF ClientExpects
<1>4. Secured("client")
  BY <1>0, <1>3, SecuredAt
<1>5. j \in 1 .. 15 /\ Near(conf, j, j)
  BY <1>1, ContextPlace DEF Near
<1> DEFINE Good(k) == Near(conf, j, k) /\ Mine(conf, "server", k) /\ Told[k] \in ClientExpects
<1>6. CASE c.state = 2
  <2>1. j = 2 /\ ClientExpects = {"ServerHello"}
    BY <1>1, <1>6, ContextPlace, States DEF ClientExpects
  <2>2. Good(2)
    BY <1>5, <2>1, Tellings DEF Mine
  <2> QED
    BY <1>0, <1>4, <2>2 DEF Awaits
<1>7. CASE c.state = 3
  <2>1. j = 3 /\ ClientExpects = {"Certificate"}
    BY <1>1, <1>7, ContextPlace, States DEF ClientExpects
  <2>2. Good(3)
    BY <1>5, <2>1, Tellings DEF Mine
  <2> QED
    BY <1>0, <1>4, <2>2 DEF Awaits
<1>8. CASE c.state = 4 /\ c.ke = "ECDHE"
  <2>1. j = 4 /\ ClientExpects = {"ServerKeyExchange"}
    BY <1>1, <1>8, ContextPlace, States DEF ClientExpects
  <2>2. conf.ke = "ECDHE"
    BY <1>1, <1>8 DEF ClientFits
  <2>3. Good(4)
    BY <1>5, <2>1, <2>2, Tellings DEF Mine
  <2> QED
    BY <1>0, <1>4, <2>3 DEF Awaits
<1>9. CASE c.state = 5
  <2>1. j = 5 /\ ClientExpects = Handshake
    BY <1>1, <1>9, ContextPlace, States DEF ClientExpects
  <2>2. CASE Asks(conf)
    <3>1. Good(5)
      BY <1>5, <2>1, <2>2, Tellings DEF Mine, Handshake
    <3> QED
      BY <1>0, <1>4, <3>1 DEF Awaits
  <2>3. CASE ~Asks(conf)
    <3>1. Good(6)
      BY <2>1, <2>3, Tellings DEF Mine, Handshake, Near
    <3> QED
      BY <1>0, <1>4, <3>1 DEF Awaits
  <2> QED
    BY <2>2, <2>3
<1>10. CASE c.state = 6
  <2>1. j = 6 /\ ClientExpects = {"ServerHelloDone"}
    BY <1>1, <1>10, ContextPlace, States DEF ClientExpects
  <2>2. Good(6)
    BY <1>5, <2>1, Tellings DEF Mine
  <2> QED
    BY <1>0, <1>4, <2>2 DEF Awaits
<1>11. CASE c.state = 12 /\ c.tick
  <2>1. j = 12 /\ ClientExpects = {"NewSessionTicket"}
    BY <1>1, <1>11, ContextPlace, States DEF ClientExpects
  <2>2. conf.ticket
    BY <1>1, <1>11 DEF ClientFits
  <2>3. Good(12)
    BY <1>5, <2>1, <2>2, Tellings DEF Mine
  <2> QED
    BY <1>0, <1>4, <2>3 DEF Awaits
<1>12. CASE c.state = 12 /\ ~c.tick
  <2>1. j = 13 /\ ClientExpects = {"ChangeCipherSpec"}
    BY <1>1, <1>12, ContextPlace, States DEF ClientExpects
  <2>2. Good(13)
    BY <1>5, <2>1, Tellings DEF Mine
  <2> QED
    BY <1>0, <1>4, <2>2 DEF Awaits
<1>13. CASE c.state = 13
  <2>1. j = 14 /\ ClientExpects = {"Finished"}
    BY <1>1, <1>13, ContextPlace, States DEF ClientExpects
  <2>2. Good(14)
    BY <1>5, <2>1, Tellings DEF Mine
  <2> QED
    BY <1>0, <1>4, <2>2 DEF Awaits
<1> QED
  BY <1>3, <1>6, <1>7, <1>8, <1>9, <1>10, <1>11, <1>12, <1>13

\* The server reads what the client says next.
LEMMA ServerAwaits ==
  ASSUME TypeOK, Agreed
  PROVE  Awaits("server", ServerExpects)
<1> DEFINE c == ssl["server"]
<1> DEFINE j == Place(c)
<1>0. "server" \in Side /\ Peer("server") = "client"
  BY DEF Side, Peer
<1>1. c \in Context /\ c.state \in 0 .. 17 /\ ServerFits(conf, c) /\ conf \in Setup
  BY <1>0, Knowing DEF Suits
<1>2. SUFFICES ASSUME ServerExpects # {} PROVE Awaits("server", ServerExpects)
  BY DEF Awaits
<1>3. \/ c.state \in {1, 8, 10, 11}
      \/ c.state = 7 /\ ~AsksNothing
      \/ c.state = 9 /\ c.peer # "none"
  BY <1>2, States DEF ServerExpects
<1>4. Secured("server")
  BY <1>0, <1>3, SecuredAt
<1>5. j \in 1 .. 15 /\ Near(conf, j, j)
  BY <1>1, ContextPlace DEF Near
<1>6. j = c.state
  BY <1>1, <1>3, ContextPlace
<1> DEFINE Good(k) == Near(conf, j, k) /\ Mine(conf, "client", k) /\ Told[k] \in ServerExpects
<1>7. CASE c.state = 1
  <2>1. ServerExpects = {"ClientHello"}
    BY <1>7, States DEF ServerExpects
  <2>2. Good(1)
    BY <1>5, <1>6, <1>7, <2>1, Tellings DEF Mine
  <2> QED
    BY <1>0, <1>4, <2>2 DEF Awaits
<1>8. CASE c.state = 7 /\ ~AsksNothing
  <2>1. ServerExpects = {"Certificate"}
    BY <1>8, States DEF ServerExpects
  <2>2. Good(7)
    BY <1>5, <1>6, <1>8, <2>1, Tellings DEF Mine, Asks, AsksNothing
  <2> QED
    BY <1>0, <1>4, <2>2 DEF Awaits
<1>9. CASE c.state = 8
  <2>1. ServerExpects = {"ClientKeyExchange"}
    BY <1>9, States DEF ServerExpects
  <2>2. Good(8)
    BY <1>5, <1>6, <1>9, <2>1, Tellings DEF Mine
  <2> QED
    BY <1>0, <1>4, <2>2 DEF Awaits
<1>10. CASE c.state = 9 /\ c.peer # "none"
  <2>1. ServerExpects = {"CertificateVerify"}
    BY <1>10, States DEF ServerExpects
  <2>2. Asks(conf) /\ conf.cert["client"] # "none"
    BY <1>1, <1>10 DEF ServerFits
  <2>3. Good(9)
    BY <1>5, <1>6, <1>10, <2>1, <2>2, Tellings DEF Mine
  <2> QED
    BY <1>0, <1>4, <2>3 DEF Awaits
<1>11. CASE c.state = 10
  <2>1. ServerExpects = {"ChangeCipherSpec"}
    BY <1>11, States DEF ServerExpects
  <2>2. Good(10)
    BY <1>5, <1>6, <1>11, <2>1, Tellings DEF Mine
  <2> QED
    BY <1>0, <1>4, <2>2 DEF Awaits
<1>12. CASE c.state = 11
  <2>1. ServerExpects = {"Finished"}
    BY <1>12, States DEF ServerExpects
  <2>2. Good(11)
    BY <1>5, <1>6, <1>12, <2>1, Tellings DEF Mine
  <2> QED
    BY <1>0, <1>4, <2>2 DEF Awaits
<1> QED
  BY <1>3, <1>7, <1>8, <1>9, <1>10, <1>11, <1>12

\* What s then reads and cannot use is an alert.
LEMMA Understood ==
  ASSUME TypeOK, Agreed, NEW s \in Side, NEW expected, expected # {}, Awaits(s, expected),
         Misreads(s, expected)
  PROVE  Ends(s, "peer", {})
<1> DEFINE c == ssl[s]
<1> DEFINE r == Head(in[s])
<1>1. PICK k \in 1 .. 14 : Near(conf, Place(c), k) /\ Mine(conf, Peer(s), k)
                             /\ Told[k] \in expected
  BY DEF Awaits
<1>2. in[s] # <<>> /\ ~Acceptable(c, r, expected)
  BY DEF Misreads
<1>3. Peer(s) \in Side /\ Place(c) \in 1 .. 15 /\ k \in 1 .. 15
  BY Peers, Bounds
<1>4. SealedAt(conf, Peer(s), k) = IF c.tin THEN c.key ELSE <<>>
  <2>1. Even(conf, Peer(s), Place(c), k)
    BY <1>1, <1>3, NearSkips DEF Skips
  <2>2. SealedAt(conf, Peer(s), Place(c)) = SealedAt(conf, Peer(s), k)
    BY <1>3, <2>1, EvenSealed
  <2> QED
    BY <2>2, OpensHere
<1>5. CASE r = Rec(conf, Peer(s), k)
  <2>1. r.msg = Told[k] /\ r.key = SealedAt(conf, Peer(s), k)
          /\ (Told[k] \in Signed => r.of = T(conf, k))
    BY <1>5 DEF Rec
  <2>2. Told[k] \in Plain
    BY <1>1, <1>3, Placed
  <2>3. Told[k] # "Again"
    BY <2>2 DEF Plain, Handshake
  <2>4. Opens(c, r)
    BY <1>4, <2>1, <2>3 DEF Opens
  <2>5. Told[k] \in Signed => T(conf, k) = c.heard
    <3>1. SUFFICES ASSUME Told[k] \in Signed PROVE T(conf, k) = c.heard
      OBVIOUS
    <3>2. T(conf, Place(c)) = T(conf, k)
      BY <1>1, <1>3, NearSkips
    <3>3. c.state < 16
      <4>1. Place(c) \in 1 .. 14
        BY <1>1, <1>3 DEF Near
      <4> QED
        BY <4>1, Knowing, ContextPlace
    <3>4. ~c.kept
      <4>1. SUFFICES ASSUME c.kept PROVE FALSE
        OBVIOUS
      <4>2. s = "client" /\ Place(c) = 6
        BY <4>1, Knowing, ContextPlace
      <4>3. k = 6
        BY <1>1, <4>2 DEF Near, Mine
      <4> QED
        BY <3>1, <4>3, Tellings DEF Signed
    <3> QED
      BY <3>2, <3>3, <3>4, Knowing DEF Hearing
  <2> QED
    BY <1>1, <1>2, <2>1, <2>4, <2>5 DEF Acceptable
<1>6. CASE r.msg = "Fatal" /\ r.key = SealedAt(conf, Peer(s), k)
  <2>1. Opens(c, r)
    BY <1>4, <1>6 DEF Opens
  <2>2. Reason(c, r) = "peer"
    BY <1>6, <2>1 DEF Reason
  <2> QED
    BY <2>2 DEF Misreads
<1> QED
  BY <1>1, <1>2, <1>5, <1>6, HeadHere

\* So s fails for a reason of its own or the other end's.
LEMMA TroubleQuits ==
  ASSUME TypeOK, Agreed, NEW s \in Side, NEW expected, Awaits(s, expected),
         ReadFails(s, expected) \/ HandshakeTrouble(s, expected)
  PROVE  Quits(s)
<1>1. {"own", "cert", "peer"} \subseteq Failure \ {"protocol", "garbled"}
  BY DEF Failure
<1>2. CASE ReadFails(s, expected)
  <2>1. Ends(s, "peer", {})
    BY <1>2, Understood DEF ReadFails, ReadEnds
  <2> QED
    BY <1>1, <2>1 DEF Quits
<1>3. CASE FlushFails(s)
  BY <1>1, <1>3 DEF FlushFails, Quits
<1>4. CASE Aborts(s, expected)
  <2>1. CASE expected = {}
    BY <1>1, <1>4, <2>1 DEF Aborts, Quits
  <2>2. CASE expected # {}
    <3>1. Ends(s, "own", FatalAlert(s)) /\ Secured(s) /\ ~gone[s] /\ out[s] = None
      BY <1>4, <2>2 DEF Aborts, Handshaking, Awaits
    <3> QED
      BY <1>1, <3>1 DEF Quits
  <2> QED
    BY <2>1, <2>2
<1> QED
  BY <1>2, <1>3, <1>4 DEF HandshakeTrouble
-----------------------------------------------------------------------------
(* The steps of the two ends, told apart.                                   *)

\* A context in which one field is set keeps the others.
LEMMA SetFields ==
  ASSUME NEW c \in Context
  PROVE  /\ \A v \in BOOLEAN : LET d == [c EXCEPT !.auth = v]
              IN  d \in Context /\ d.auth = v /\ d.key = c.key /\ d.tin = c.tin
                  /\ d.tout = c.tout /\ d.ke = c.ke /\ d.tick = c.tick /\ d.peer = c.peer
                  /\ d.fail = c.fail /\ d.state = c.state /\ d.heard = c.heard
                  /\ d.kept = c.kept
         /\ \A v \in BOOLEAN : LET d == [c EXCEPT !.tick = v]
              IN  d \in Context /\ d.tick = v /\ d.key = c.key /\ d.tin = c.tin
                  /\ d.tout = c.tout /\ d.ke = c.ke /\ d.auth = c.auth /\ d.peer = c.peer
                  /\ d.fail = c.fail /\ d.state = c.state /\ d.heard = c.heard
                  /\ d.kept = c.kept
         /\ \A v \in BOOLEAN : LET d == [c EXCEPT !.tin = v]
              IN  d \in Context /\ d.tin = v /\ d.key = c.key /\ d.tick = c.tick
                  /\ d.tout = c.tout /\ d.ke = c.ke /\ d.auth = c.auth /\ d.peer = c.peer
                  /\ d.fail = c.fail /\ d.state = c.state /\ d.heard = c.heard
                  /\ d.kept = c.kept
         /\ \A v \in BOOLEAN : LET d == [c EXCEPT !.tout = v]
              IN  d \in Context /\ d.tout = v /\ d.key = c.key /\ d.tick = c.tick
                  /\ d.tin = c.tin /\ d.ke = c.ke /\ d.auth = c.auth /\ d.peer = c.peer
                  /\ d.fail = c.fail /\ d.state = c.state /\ d.heard = c.heard
                  /\ d.kept = c.kept
         /\ \A v \in BOOLEAN : LET d == [c EXCEPT !.kept = v]
              IN  d \in Context /\ d.kept = v /\ Alike(d, c) /\ d.state = c.state
                  /\ d.heard = c.heard
<1>1. \A v \in BOOLEAN : /\ [c EXCEPT !.auth = v] \in Context /\ [c EXCEPT !.tick = v] \in Context
                         /\ [c EXCEPT !.tin = v] \in Context /\ [c EXCEPT !.tout = v] \in Context
                         /\ [c EXCEPT !.kept = v] \in Context
  BY SetFlags
<1> QED
  BY <1>1 DEF Context, Alike

\* So does one whose keys are set.
LEMMA SetKeys ==
  ASSUME NEW c \in Context
  PROVE  LET d == DeriveKeys(c)
         IN  d \in Context /\ d.key = c.heard /\ d.tin = c.tin /\ d.tout = c.tout
             /\ d.ke = c.ke /\ d.tick = c.tick /\ d.auth = c.auth /\ d.peer = c.peer
             /\ d.fail = c.fail /\ d.state = c.state /\ d.heard = c.heard /\ d.kept = c.kept
<1>1. DeriveKeys(c) \in Context
  BY SetTranscripts DEF DeriveKeys, Context
<1> QED
  BY <1>1 DEF Context, DeriveKeys

\* One whose peer has shown itself.
LEMMA SetShown ==
  ASSUME NEW c \in Context, NEW v \in {"none", "trusted", "unknown"}
  PROVE  LET d == [c EXCEPT !.peer = v]
         IN  d \in Context /\ d.peer = v /\ d.key = c.key /\ d.tin = c.tin
             /\ d.tout = c.tout /\ d.ke = c.ke /\ d.tick = c.tick /\ d.auth = c.auth
             /\ d.fail = c.fail /\ d.state = c.state /\ d.heard = c.heard
             /\ d.kept = c.kept
<1>1. [c EXCEPT !.peer = v] \in Context
  BY SetPeer
<1> QED
  BY <1>1 DEF Context

\* One whose suite is set.
LEMMA SetChosen ==
  ASSUME NEW c \in Context, NEW k \in KeyExchange, NEW v \in BOOLEAN
  PROVE  LET d == [c EXCEPT !.ke = k, !.tick = v]
         IN  d \in Context /\ d.ke = k /\ d.tick = v /\ d.key = c.key /\ d.tin = c.tin
             /\ d.tout = c.tout /\ d.auth = c.auth /\ d.peer = c.peer
             /\ d.fail = c.fail /\ d.state = c.state /\ d.heard = c.heard
             /\ d.kept = c.kept
<1>1. [c EXCEPT !.ke = k, !.tick = v] \in Context
  BY SetSuite
<1> QED
  BY <1>1 DEF Context

\* Where s has a message to write or skips one.
LEMMA AtPlace ==
  ASSUME TypeOK, Agreed, NEW s \in Side, NEW n, At(s, n)
  PROVE  /\ ssl[s] \in Context /\ ssl[s].state = n /\ Handshaking(s) /\ out[s] = None
         /\ ssl[s].fail = "none" /\ n \in 0 .. 17 /\ n # 16
         /\ Suits(conf, s, ssl[s]) /\ conf \in Setup
         /\ n < 16 /\ ~ssl[s].kept => ssl[s].heard = T(conf, Place(ssl[s]))
         /\ n # 6 \/ s # "client" => ~ssl[s].kept
BY Knowing, States DEF At, Handshaking, Hearing

\* A message that is said in passing to the next state.
LEMMA MessageSays ==
  ASSUME TypeOK, Agreed, NEW s \in Side, NEW n \in 1 .. 13, At(s, n), ~ssl[s].kept,
         NEW k \in 1 .. 14, k = Place(ssl[s]), Mine(conf, s, k), Told[k] \notin Signed,
         Secured(s), Suits(conf, s, Stepped(ssl[s])), Near(conf, k + 1, Place(Stepped(ssl[s]))),
         WriteRecord(s, Stepped(ssl[s]), Told[k], Saying(conf, k), <<>>)
  PROVE  Says(s)
<1> DEFINE d == Stepped(ssl[s])
<1>1. ssl[s] \in Context /\ ssl[s].state = n /\ Handshaking(s) /\ out[s] = None
  BY AtPlace
<1>2. /\ d \in Context /\ d.state = n + 1 /\ d.heard = ssl[s].heard /\ ~d.kept
      /\ Alike(d, ssl[s])
  BY <1>1, SteppedAlike
<1>3. (IF d.tout THEN d.key ELSE <<>>) = SealedAt(conf, s, k)
  BY <1>2 DEF Secured, Alike
<1>4. d.state <= 14 /\ ssl[s].state <= 14
  BY <1>1, <1>2
<1> HIDE DEF d
<1>5. WriteRecord(s, d, Told[k], Saying(conf, k), IF Told[k] \in Signed THEN ssl[s].heard ELSE <<>>)
  BY DEF d
<1> QED
  BY <1>1, <1>2, <1>3, <1>4, <1>5, SaysAt DEF d

\* A state that is passed over.
LEMMA StepPasses ==
  ASSUME TypeOK, Agreed, NEW s \in Side, NEW n \in 0 .. 14, Steps(s, n), ~ssl[s].kept,
         Suits(conf, s, Stepped(ssl[s])), Near(conf, Place(ssl[s]), Place(Stepped(ssl[s])))
  PROVE  Passes(s)
<1> DEFINE d == Stepped(ssl[s])
<1>1. /\ ssl[s] \in Context /\ ssl[s].state = n /\ out[s] = None
      /\ ssl[s].heard = T(conf, Place(ssl[s]))
  BY AtPlace DEF Steps
<1>2. d \in Context /\ d.heard = ssl[s].heard /\ ~d.kept
  BY <1>1, SteppedAlike
<1>3. Becomes(s, d) /\ UNCHANGED <<conf, out, in, gone, link>>
  BY DEF Steps
<1> HIDE DEF d
<1> QED
  BY <1>1, <1>2, <1>3, PassesAt DEF d

\* s, in the state n, reads one of expected where the other end says message k, and
\* what it then has.
MayRead(s, n, k, expected) ==
  /\ n \in 1 .. 13 /\ k \in 1 .. 14
  /\ At(s, n) /\ Near(conf, Place(ssl[s]), k) /\ Mine(conf, Peer(s), k)
  /\ "Fatal" \notin expected /\ Arrived(s, expected)
ReadAs(s, n, k, expected) ==
  /\ in[s] # <<>> /\ Head(in[s]).msg = Told[k] /\ Head(in[s]).body = Saying(conf, k)
  /\ Told[k] \in expected
  /\ LET h == Heard(s)
     IN  /\ h \in Context /\ h.state = n /\ Alike(h, ssl[s]) /\ ~h.kept
         /\ h.heard = T(conf, k + 1)
  /\ LET d == Stepped(Heard(s))
     IN  /\ d \in Context /\ d.state = n + 1 /\ Alike(d, ssl[s]) /\ ~d.kept
         /\ d.heard = T(conf, k + 1)

\* What is read at the place of s is what is said there.
LEMMA ReadsHere ==
  ASSUME TypeOK, Agreed, NEW s \in Side, NEW n, NEW k, NEW expected,
         MayRead(s, n, k, expected)
  PROVE  ReadAs(s, n, k, expected)
<1>0. /\ n \in 1 .. 13 /\ k \in 1 .. 14
      /\ At(s, n) /\ Near(conf, Place(ssl[s]), k) /\ Mine(conf, Peer(s), k)
      /\ "Fatal" \notin expected /\ Arrived(s, expected)
  BY DEF MayRead
<1> DEFINE r == Head(in[s])
<1>1. in[s] # <<>> /\ r.msg \in expected
  BY <1>0 DEF Arrived, Acceptable
<1>2. r = Rec(conf, Peer(s), k)
  BY <1>0, <1>1, HeadHere
<1>3. r.msg = Told[k] /\ r.body = Saying(conf, k)
  BY <1>0, <1>2 DEF Rec
<1> DEFINE h == Heard(s)
<1>4. ssl[s].state = n
  BY <1>0, AtPlace
<1>5. h \in Context /\ h.state = n /\ Alike(h, ssl[s]) /\ ~h.kept /\ h.heard = T(conf, k + 1)
  BY <1>0, <1>1, <1>2, <1>4, HeardHere
<1> HIDE DEF h
<1>6. LET d == Stepped(h)
      IN  /\ d \in Context /\ d.state = n + 1 /\ Alike(d, h) /\ ~d.kept
          /\ d.heard = T(conf, k + 1)
  BY <1>0, <1>5, SteppedAlike
<1>7. Alike(Stepped(h), ssl[s])
  BY <1>5, <1>6 DEF Alike
<1> QED
  BY <1>1, <1>3, <1>5, <1>6, <1>7 DEF ReadAs, h
-----------------------------------------------------------------------------
(* The steps of the client.                                                 *)

\* What the client knows, and where it is, when it is in a state.
LEMMA ClientAt ==
  ASSUME TypeOK, Agreed, NEW n, At("client", n)
  PROVE  LET c == ssl["client"]
         IN  /\ c \in Context /\ c.state = n /\ n \in 0 .. 17 /\ out["client"] = None
             /\ ClientFits(conf, c) /\ c.fail = "none" /\ conf \in Setup
             /\ n \in 1 .. 11 => Place(c) = n
             /\ n # 6 => ~c.kept
             /\ n # 11 => Secured("client")
             /\ "client" \in Side /\ Peer("client") = "server"
<1>0. "client" \in Side /\ Peer("client") = "server"
  BY DEF Side, Peer
<1>1. ssl["client"].state = n
  BY <1>0, AtPlace
<1> QED
  BY <1>0, <1>1, AtPlace, ContextPlace, SecuredAt DEF Suits

\* The client writes a message and goes on, in the states where that is all.
LEMMA ClientSays ==
  ASSUME TypeOK, Agreed, NEW n \in {1, 7, 8, 10}, At("client", n), Mine(conf, "client", n),
         WriteRecord("client", Stepped(ssl["client"]), Told[n], Saying(conf, n), <<>>)
  PROVE  Says("client")
<1> DEFINE c == ssl["client"]
<1> DEFINE d == Stepped(c)
<1>1. /\ c \in Context /\ c.state = n /\ ClientFits(conf, c) /\ c.fail = "none" /\ Place(c) = n
      /\ ~c.kept /\ Secured("client") /\ "client" \in Side
  BY ClientAt
<1>2. d \in Context /\ d.state = n + 1 /\ d.kept = c.kept /\ Alike(d, c)
  BY <1>1, SteppedAlike
<1> HIDE DEF d
<1>3. ClientFits(conf, d)
  BY <1>1, <1>2, ClientStates
<1>4. Suits(conf, "client", d)
  BY <1>1, <1>2, <1>3 DEF Suits, Alike
<1>5. Place(d) = n + 1
  BY <1>2, ContextPlace
<1>6. Told[n] \notin Signed
  BY Tellings DEF Signed
<1> QED
  BY <1>1, <1>4, <1>5, <1>6, MessageSays DEF d, Near

\* The client goes on where it has nothing to write or read.
LEMMA ClientPasses ==
  ASSUME TypeOK, Agreed, NEW n \in {0, 4, 7, 14}, Steps("client", n),
         n = 4 => ssl["client"].ke # "ECDHE", n = 7 => ~ssl["client"].auth
  PROVE  Passes("client")
<1> DEFINE c == ssl["client"]
<1> DEFINE d == Stepped(c)
<1>1. /\ c \in Context /\ c.state = n /\ ClientFits(conf, c) /\ c.fail = "none"
      /\ ~c.kept /\ "client" \in Side
  BY ClientAt DEF Steps
<1>2. d \in Context /\ d.state = n + 1 /\ d.kept = c.kept /\ Alike(d, c)
  BY <1>1, SteppedAlike
<1> HIDE DEF d
<1>3. ClientFits(conf, d)
  BY <1>1, <1>2, ClientStates
<1>4. Suits(conf, "client", d)
  BY <1>1, <1>2, <1>3 DEF Suits, Alike
<1>5. Near(conf, Place(c), Place(d))
  <2>1. n \in {0, 14} => Place(c) = Place(d)
    BY <1>1, <1>2, ContextPlace
  <2>2. n \in {4, 7} => Place(c) = n /\ Place(d) = n + 1
    BY <1>1, <1>2, ContextPlace
  <2>3. n = 4 => conf.ke # "ECDHE"
    BY <1>1 DEF ClientFits
  <2>4. n = 7 => ~Asks(conf)
    BY <1>1 DEF ClientFits
  <2> QED
    BY <2>1, <2>2, <2>3, <2>4 DEF Near, Mine
<1> QED
  BY <1>1, <1>4, <1>5, StepPasses DEF d

\* The keys are derived, with the message that is signed or without.
LEMMA ClientVerifies ==
  ASSUME TypeOK, Agreed, WriteCertificateVerify
  PROVE  Says("client") \/ Passes("client")
<1> DEFINE c == ssl["client"]
<1> DEFINE e == DeriveKeys(c)
<1> DEFINE d == Stepped(e)
<1>1. At("client", 9)
  BY States DEF WriteCertificateVerify
<1>2. /\ c \in Context /\ c.state = 9 /\ ClientFits(conf, c) /\ c.fail = "none"
      /\ ~c.kept /\ "client" \in Side /\ Place(c) = 9 /\ out["client"] = None
      /\ Handshaking("client") /\ c.heard = T(conf, 9)
  BY <1>1, ClientAt, AtPlace
<1>3. /\ e \in Context /\ e.key = c.heard /\ e.tin = c.tin /\ e.tout = c.tout
      /\ e.ke = c.ke /\ e.tick = c.tick /\ e.auth = c.auth /\ e.peer = c.peer
      /\ e.fail = c.fail /\ e.state = c.state /\ e.heard = c.heard /\ e.kept = c.kept
  BY <1>2, SetKeys
<1> HIDE DEF e
<1>4. d \in Context /\ d.state = 10 /\ d.heard = e.heard /\ d.kept = e.kept /\ Alike(d, e)
  BY <1>2, <1>3, SteppedAlike
<1>5. IF Signs THEN WriteRecord("client", d, "CertificateVerify", {}, c.heard)
               ELSE Becomes("client", d) /\ UNCHANGED <<conf, in, out, gone, link>>
  BY DEF WriteCertificateVerify, e
<1> HIDE DEF d
<1>6. ClientFits(conf, d)
  BY <1>2, <1>3, <1>4 DEF ClientFits, Alike
<1>7. Suits(conf, "client", d) /\ Place(d) = 10
  BY <1>2, <1>3, <1>4, <1>6, ContextPlace DEF Suits, Alike
<1>8. Signs <=> Mine(conf, "client", 9)
  BY <1>2 DEF Signs, ClientFits, Mine
<1>9. CASE Signs
  <2>1. Told[9] = "CertificateVerify" /\ Saying(conf, 9) = {} /\ Told[9] \in Signed
    BY Tellings, Sayings DEF Signed
  <2>2. WriteRecord("client", d, Told[9], Saying(conf, 9),
                    IF Told[9] \in Signed THEN c.heard ELSE <<>>)
    BY <1>5, <1>9, <2>1
  <2>3. (IF d.tout THEN d.key ELSE <<>>) = SealedAt(conf, "client", 9)
    BY <1>2, <1>6, <1>4 DEF SealedAt, ClientFits
  <2>4. d.state <= 14 /\ c.state <= 14 /\ d.heard = c.heard /\ ~d.kept
        /\ Near(conf, 9 + 1, Place(d))
    BY <1>2, <1>3, <1>4, <1>7 DEF Near
  <2> QED
    BY <1>2, <1>4, <1>7, <1>8, <1>9, <2>2, <2>3, <2>4, SaysAt
<1>10. CASE ~Signs
  <2>1. Near(conf, Place(c), Place(d))
    BY <1>2, <1>7, <1>8, <1>10 DEF Near, Mine
  <2>2. d.heard = T(conf, Place(c)) /\ ~d.kept
    BY <1>2, <1>3, <1>4
  <2> QED
    BY <1>2, <1>4, <1>5, <1>7, <1>10, <2>1, <2>2, PassesAt
<1> QED
  BY <1>9, <1>10

\* The client finishes.
LEMMA ClientFinishes ==
  ASSUME TypeOK, Agreed, WriteFinished("client", 11)
  PROVE  Says("client")
<1> DEFINE c == ssl["client"]
<1> DEFINE e == Stepped(c)
<1> DEFINE d == [e EXCEPT !.tout = TRUE]
<1>1. At("client", 11) /\ WriteRecord("client", d, "Finished", {}, c.heard)
  BY DEF WriteFinished
<1>2. /\ c \in Context /\ c.state = 11 /\ ClientFits(conf, c) /\ c.fail = "none"
      /\ ~c.kept /\ "client" \in Side /\ Place(c) = 11 /\ out["client"] = None
      /\ Handshaking("client") /\ c.heard = T(conf, 11)
  BY <1>1, ClientAt, AtPlace
<1>3. e \in Context /\ e.state = 12 /\ e.heard = c.heard /\ e.kept = c.kept /\ Alike(e, c)
  BY <1>2, SteppedAlike
<1> HIDE DEF e
<1>4. /\ d \in Context /\ d.tout = TRUE /\ d.key = e.key /\ d.tick = e.tick
      /\ d.tin = e.tin /\ d.ke = e.ke /\ d.auth = e.auth /\ d.peer = e.peer
      /\ d.fail = e.fail /\ d.state = e.state /\ d.heard = e.heard /\ d.kept = e.kept
  BY <1>3, SetFields
<1> HIDE DEF d
<1>5. ClientFits(conf, d)
  BY <1>2, <1>3, <1>4 DEF ClientFits, Alike
<1>6. Suits(conf, "client", d)
  BY <1>2, <1>3, <1>4, <1>5 DEF Suits, Alike
<1>7. Near(conf, 12, Place(d))
  <2>1. Place(d) = IF d.tick THEN 12 ELSE 13
    BY <1>3, <1>4, ContextPlace
  <2>2. d.tick \/ ~conf.ticket
    BY <1>2, <1>3, <1>4 DEF ClientFits, Alike
  <2> QED
    BY <2>1, <2>2 DEF Near, Mine
<1>8. Told[11] = "Finished" /\ Saying(conf, 11) = {} /\ Told[11] \in Signed
  BY Tellings, Sayings DEF Signed
<1>9. WriteRecord("client", d, Told[11], Saying(conf, 11),
                  IF Told[11] \in Signed THEN c.heard ELSE <<>>)
  BY <1>1, <1>8
<1>10. (IF d.tout THEN d.key ELSE <<>>) = SealedAt(conf, "client", 11)
  BY <1>3, <1>4, <1>5 DEF SealedAt, ClientFits
<1>11. Mine(conf, "client", 11) /\ d.state <= 14 /\ c.state <= 14 /\ d.heard = c.heard
       /\ ~d.kept /\ Near(conf, 11 + 1, Place(d))
  BY <1>2, <1>3, <1>4, <1>7 DEF Mine
<1> QED
  BY <1>2, <1>4, <1>6, <1>9, <1>10, <1>11, SaysAt

\* The client reads a message and goes on, in the states where that is all.
LEMMA ClientHears ==
  ASSUME TypeOK, Agreed, NEW n \in {4, 6, 13}, At("client", n), NEW expected,
         "Fatal" \notin expected, Arrived("client", expected),
         n = 4 => ssl["client"].ke = "ECDHE", Took("client", Stepped(Heard("client")))
  PROVE  Follows("client")
<1> DEFINE c == ssl["client"]
<1> DEFINE k == IF n = 13 THEN 14 ELSE n
<1>1. /\ c \in Context /\ c.state = n /\ ClientFits(conf, c) /\ c.fail = "none"
      /\ "client" \in Side /\ Peer("client") = "server" /\ out["client"] = None
  BY ClientAt
<1>2. k \in 1 .. 14 /\ k = Place(c)
  BY <1>1, ContextPlace
<1>3. Mine(conf, "server", k)
  BY <1>1 DEF Mine, ClientFits
<1> HIDE DEF k
<1>4. Near(conf, Place(c), k) /\ n \in 1 .. 13
  BY <1>2 DEF Near
<1> DEFINE d == Stepped(Heard("client"))
<1>5. /\ in["client"] # <<>> /\ Head(in["client"]).msg = Told[k]
      /\ d \in Context /\ d.state = n + 1 /\ Alike(d, c) /\ ~d.kept /\ d.heard = T(conf, k + 1)
  <2>1. MayRead("client", n, k, expected)
    BY <1>1, <1>2, <1>3, <1>4 DEF MayRead
  <2>2. ReadAs("client", n, k, expected)
    BY <1>1, <1>2, <1>3, <1>4, <2>1, ReadsHere
  <2> QED
    BY <1>1, <1>2, <1>3, <1>4, <2>2 DEF ReadAs
<1>6. Took("client", d)
  OBVIOUS
<1> HIDE DEF d
<1>7. ClientFits(conf, d)
  BY <1>1, <1>5, ClientStates
<1>8. Suits(conf, "client", d)
  BY <1>1, <1>5, <1>7 DEF Suits, Alike
<1>9. Near(conf, k + 1, Place(d))
  BY <1>1, <1>5, ContextPlace DEF Near, k
<1> QED
  BY <1>1, <1>2, <1>3, <1>5, <1>6, <1>8, <1>9, FollowsAt

\* The client reads the suite and whether there will be a ticket.
LEMMA ClientChooses ==
  ASSUME TypeOK, Agreed, ParseServerHello
  PROVE  Follows("client")
<1> DEFINE c == ssl["client"]
<1> DEFINE e == Stepped(Heard("client"))
<1> DEFINE said == Head(in["client"]).body
<1>1. At("client", 2) /\ Arrived("client", {"ServerHello"})
  BY States DEF ParseServerHello
<1>2. /\ c \in Context /\ c.state = 2 /\ ClientFits(conf, c) /\ c.fail = "none" /\ Place(c) = 2
      /\ "client" \in Side /\ Peer("client") = "server" /\ out["client"] = None
      /\ conf \in Setup
  BY <1>1, ClientAt
<1>3. Mine(conf, "server", 2) /\ Near(conf, Place(c), 2)
  BY <1>2 DEF Mine, Near
<1>4. /\ in["client"] # <<>> /\ Head(in["client"]).msg = Told[2] /\ said = Saying(conf, 2)
      /\ e \in Context /\ e.state = 3 /\ Alike(e, c) /\ ~e.kept /\ e.heard = T(conf, 3)
  <2>1. MayRead("client", 2, 2, {"ServerHello"})
    BY <1>1, <1>2, <1>3 DEF MayRead
  <2>2. ReadAs("client", 2, 2, {"ServerHello"})
    BY <1>1, <1>2, <1>3, <2>1, ReadsHere
  <2> QED
    BY <1>1, <1>2, <1>3, <2>2 DEF ReadAs
<1> DEFINE d == [e EXCEPT !.ke = conf.ke, !.tick = conf.ticket]
<1>5. conf.ke \in KeyExchange /\ conf.ticket \in BOOLEAN
  BY <1>2 DEF Setup
<1>6. said \intersect KeyExchange = {conf.ke} /\ ("ticket" \in said <=> conf.ticket)
  BY <1>4, <1>5, Sayings DEF KeyExchange
<1>7. Took("client", d)
  <2>1. (CHOOSE x \in said \intersect KeyExchange : TRUE) = conf.ke
    BY <1>6
  <2>2. ("ticket" \in said) = conf.ticket
    BY <1>5, <1>6
  <2>3. Took("client", [e EXCEPT !.ke = CHOOSE ke \in said \intersect KeyExchange : TRUE,
                                 !.tick = "ticket" \in said])
    BY DEF ParseServerHello
  <2> QED
    BY <2>1, <2>2, <2>3
<1> HIDE DEF e
<1>8. /\ d \in Context /\ d.ke = conf.ke /\ (d.tick <=> conf.ticket) /\ d.key = e.key
      /\ d.tin = e.tin /\ d.tout = e.tout /\ d.auth = e.auth /\ d.peer = e.peer
      /\ d.fail = e.fail /\ d.state = e.state /\ d.heard = e.heard /\ d.kept = e.kept
  <2>1. CASE conf.ticket = TRUE
    <3>1. d = [e EXCEPT !.ke = conf.ke, !.tick = TRUE]
      BY <2>1
    <3> HIDE DEF d
    <3> QED
      BY <1>4, <1>5, <2>1, <3>1, SetChosen, ZenonT(60)
  <2>2. CASE conf.ticket = FALSE
    <3>1. d = [e EXCEPT !.ke = conf.ke, !.tick = FALSE]
      BY <2>2
    <3> HIDE DEF d
    <3> QED
      BY <1>4, <1>5, <2>2, <3>1, SetChosen, ZenonT(60)
  <2> QED
    BY <1>5, <2>1, <2>2
<1> HIDE DEF d
<1>9. ClientFits(conf, d)
  BY <1>2, <1>4, <1>8 DEF ClientFits, Alike
<1>10. Suits(conf, "client", d)
  BY <1>2, <1>4, <1>8, <1>9 DEF Suits, Alike
<1>11. Place(d) = 3 /\ Near(conf, 3, 3)
  BY <1>4, <1>8, ContextPlace DEF Near
<1>12. d.heard = T(conf, 2 + 1) /\ ~d.kept /\ Near(conf, 2 + 1, Place(d))
  BY <1>4, <1>8, <1>11
<1> QED
  BY <1>2, <1>3, <1>4, <1>7, <1>8, <1>10, <1>12, FollowsAt

\* The client reads a certificate that it accepts, or that it fails about.
LEMMA ClientProves ==
  ASSUME TypeOK, Agreed, ParseCertificate("client", 3)
  PROVE  Follows("client") \/ Quits("client")
<1> DEFINE c == ssl["client"]
<1> DEFINE e == Stepped(Heard("client"))
<1> DEFINE chain == Head(in["client"]).body
<1> DEFINE d == [e EXCEPT !.peer = Presented(chain)]
<1>1. /\ At("client", 3) /\ Arrived("client", {"Certificate"})
      /\ IF Verifies("client", chain) THEN Took("client", d)
         ELSE Ends("client", "cert", IF chain = {} THEN {} ELSE FatalAlert("client"))
  BY DEF ParseCertificate
<1>2. /\ c \in Context /\ c.state = 3 /\ ClientFits(conf, c) /\ c.fail = "none" /\ Place(c) = 3
      /\ "client" \in Side /\ Peer("client") = "server" /\ out["client"] = None
      /\ conf \in Setup /\ Secured("client") /\ ~gone["client"]
  BY <1>1, ClientAt DEF At, Handshaking
<1>3. Mine(conf, "server", 3) /\ Near(conf, Place(c), 3)
  BY <1>2 DEF Mine, Near
<1>4. /\ in["client"] # <<>> /\ Head(in["client"]).msg = Told[3] /\ chain = Saying(conf, 3)
      /\ e \in Context /\ e.state = 4 /\ Alike(e, c) /\ ~e.kept /\ e.heard = T(conf, 4)
  <2>1. MayRead("client", 3, 3, {"Certificate"})
    BY <1>1, <1>2, <1>3 DEF MayRead
  <2>2. ReadAs("client", 3, 3, {"Certificate"})
    BY <1>1, <1>2, <1>3, <2>1, ReadsHere
  <2> QED
    BY <1>1, <1>2, <1>3, <2>2 DEF ReadAs
<1>5. CASE Verifies("client", chain)
  <2>1. chain = {conf.cert["server"]} /\ conf.cert["server"] \in {"trusted", "unknown"}
    BY <1>2, <1>4, Sayings DEF Shown, Setup, Side
  <2>2. Presented(chain) = conf.cert["server"]
    BY <2>1 DEF Presented
  <2>3. conf.authmode["client"] = "required" => Presented(chain) = "trusted"
    BY <1>5, <2>1, <2>2 DEF Verifies
  <2>4. Took("client", d)
    BY <1>1, <1>5
  <2> DEFINE w == Presented(chain)
  <2>5. w \in {"none", "trusted", "unknown"}
    BY <2>1, <2>2
  <2> HIDE DEF e, w
  <2>6. /\ d \in Context /\ d.peer = w /\ d.key = e.key /\ d.tin = e.tin
        /\ d.tout = e.tout /\ d.ke = e.ke /\ d.tick = e.tick /\ d.auth = e.auth
        /\ d.fail = e.fail /\ d.state = e.state /\ d.heard = e.heard /\ d.kept = e.kept
    BY <1>4, <2>5, SetShown DEF w
  <2> HIDE DEF d
  <2>7. ClientFits(conf, d)
    BY <1>2, <1>4, <2>3, <2>6 DEF ClientFits, Alike, w
  <2>8. Suits(conf, "client", d)
    BY <1>2, <1>4, <2>6, <2>7 DEF Suits, Alike
  <2>9. Place(d) = 4
    BY <1>4, <2>6, ContextPlace
  <2>10. d.heard = T(conf, 3 + 1) /\ ~d.kept /\ Near(conf, 3 + 1, Place(d))
    BY <1>4, <2>6, <2>9 DEF Near
  <2> QED
    BY <1>2, <1>3, <1>4, <2>4, <2>6, <2>8, <2>10, FollowsAt
<1>6. CASE ~Verifies("client", chain)
  BY <1>1, <1>2, <1>6 DEF Quits, Failure
<1> QED
  BY <1>5, <1>6

\* The client reads that it is asked for a certificate, or keeps what is not that.
LEMMA ClientIsAsked ==
  ASSUME TypeOK, Agreed, ParseCertificateRequest
  PROVE  Follows("client") \/ Passes("client")
<1> DEFINE c == ssl["client"]
<1> DEFINE e == Stepped(Heard("client"))
<1> DEFINE a == [e EXCEPT !.auth = TRUE]
<1> DEFINE b == [e EXCEPT !.kept = TRUE]
<1>1. /\ At("client", 5) /\ Arrived("client", Handshake)
      /\ IF Head(in["client"]).msg = "CertificateRequest" THEN Took("client", a)
         ELSE Becomes("client", b) /\ UNCHANGED <<conf, in, out, gone, link>>
  BY States DEF ParseCertificateRequest
<1>2. /\ c \in Context /\ c.state = 5 /\ ClientFits(conf, c) /\ c.fail = "none" /\ Place(c) = 5
      /\ "client" \in Side /\ Peer("client") = "server" /\ out["client"] = None
  BY <1>1, ClientAt
<1>3. "Fatal" \notin Handshake
  BY DEF Handshake
<1>4. CASE Asks(conf)
  <2>1. Mine(conf, "server", 5) /\ Near(conf, Place(c), 5)
    BY <1>2, <1>4 DEF Mine, Near
  <2>2. /\ in["client"] # <<>> /\ Head(in["client"]).msg = Told[5]
        /\ e \in Context /\ e.state = 6 /\ Alike(e, c) /\ ~e.kept /\ e.heard = T(conf, 6)
    <3>1. MayRead("client", 5, 5, Handshake)
      BY <1>1, <1>2, <1>3, <2>1 DEF MayRead
    <3>2. ReadAs("client", 5, 5, Handshake)
      BY <1>1, <1>2, <1>3, <2>1, <3>1, ReadsHere
    <3> QED
      BY <1>1, <1>2, <1>3, <2>1, <3>2 DEF ReadAs
  <2>3. Took("client", a)
    BY <1>1, <2>2, Tellings
  <2> HIDE DEF e
  <2>4. /\ a \in Context /\ a.auth = TRUE /\ a.key = e.key /\ a.tin = e.tin
        /\ a.tout = e.tout /\ a.ke = e.ke /\ a.tick = e.tick /\ a.peer = e.peer
        /\ a.fail = e.fail /\ a.state = e.state /\ a.heard = e.heard /\ a.kept = e.kept
    BY <2>2, SetFields
  <2> HIDE DEF a
  <2>5. ClientFits(conf, a)
    BY <1>2, <1>4, <2>2, <2>4 DEF ClientFits, Alike
  <2>6. Suits(conf, "client", a)
    BY <1>2, <2>2, <2>4, <2>5 DEF Suits, Alike
  <2>7. Place(a) = 6
    BY <2>2, <2>4, ContextPlace
  <2>8. a.heard = T(conf, 5 + 1) /\ ~a.kept /\ Near(conf, 5 + 1, Place(a))
    BY <2>2, <2>4, <2>7 DEF Near
  <2> QED
    BY <1>2, <2>1, <2>2, <2>3, <2>4, <2>6, <2>8, FollowsAt
<1>5. CASE ~Asks(conf)
  <2>1. Mine(conf, "server", 6) /\ Near(conf, Place(c), 6)
    BY <1>2, <1>5 DEF Mine, Near
  <2>2. /\ in["client"] # <<>> /\ Head(in["client"]).msg = Told[6]
        /\ e \in Context /\ e.state = 6 /\ Alike(e, c) /\ ~e.kept /\ e.heard = T(conf, 7)
    <3>1. MayRead("client", 5, 6, Handshake)
      BY <1>1, <1>2, <1>3, <2>1 DEF MayRead
    <3>2. ReadAs("client", 5, 6, Handshake)
      BY <1>1, <1>2, <1>3, <2>1, <3>1, ReadsHere
    <3> QED
      BY <1>1, <1>2, <1>3, <2>1, <3>2 DEF ReadAs
  <2>3. Becomes("client", b) /\ UNCHANGED <<conf, in, out, gone, link>>
    BY <1>1, <2>2, Tellings
  <2> HIDE DEF e
  <2>4. /\ b \in Context /\ b.kept = TRUE /\ Alike(b, e) /\ b.state = e.state
        /\ b.heard = e.heard
    BY <2>2, SetFields
  <2> HIDE DEF b
  <2>5. ClientFits(conf, b)
    BY <1>2, <1>5, <2>2, <2>4 DEF ClientFits, Alike
  <2>6. Fits(conf, "client", b)
    BY <1>2, <2>2, <2>4, <2>5 DEF Fits, Hearing, Alike
  <2>7. Place(b) = 6
    BY <2>2, <2>4, ContextPlace
  <2>8. Skips(conf, Place(c), Place(b))
    BY <1>2, <2>1, <2>7, NearSkips
  <2> QED
    BY <1>2, <2>3, <2>4, <2>6, <2>8 DEF Passes
<1> QED
  BY <1>4, <1>5

\* The client reads its ticket.
LEMMA ClientIsGiven ==
  ASSUME TypeOK, Agreed, ParseNewSessionTicket
  PROVE  Follows("client")
<1> DEFINE c == ssl["client"]
<1> DEFINE e == Heard("client")
<1> DEFINE d == [e EXCEPT !.tick = FALSE]
<1>1. At("client", 12) /\ c.tick /\ Arrived("client", {"NewSessionTicket"}) /\ Took("client", d)
  BY States DEF ParseNewSessionTicket
<1>2. /\ c \in Context /\ c.state = 12 /\ ClientFits(conf, c) /\ c.fail = "none"
      /\ "client" \in Side /\ Peer("client") = "server" /\ out["client"] = None
  BY <1>1, ClientAt
<1>3. Place(c) = 12
  BY <1>1, <1>2, ContextPlace
<1>4. Mine(conf, "server", 12) /\ Near(conf, Place(c), 12)
  BY <1>1, <1>2, <1>3 DEF Mine, Near, ClientFits
<1>5. /\ in["client"] # <<>> /\ Head(in["client"]).msg = Told[12]
      /\ e \in Context /\ e.state = 12 /\ Alike(e, c) /\ ~e.kept /\ e.heard = T(conf, 13)
  <2>1. MayRead("client", 12, 12, {"NewSessionTicket"})
    BY <1>1, <1>2, <1>4 DEF MayRead
  <2>2. ReadAs("client", 12, 12, {"NewSessionTicket"})
    BY <1>1, <1>2, <1>4, <2>1, ReadsHere
  <2> QED
    BY <1>1, <1>2, <1>4, <2>2 DEF ReadAs
<1> HIDE DEF e
<1>6. /\ d \in Context /\ d.tick = FALSE /\ d.key = e.key /\ d.tin = e.tin
      /\ d.tout = e.tout /\ d.ke = e.ke /\ d.auth = e.auth /\ d.peer = e.peer
      /\ d.fail = e.fail /\ d.state = e.state /\ d.heard = e.heard /\ d.kept = e.kept
  BY <1>5, SetFields
<1> HIDE DEF d
<1>7. ClientFits(conf, d)
  BY <1>2, <1>5, <1>6 DEF ClientFits, Alike
<1>8. Suits(conf, "client", d)
  BY <1>2, <1>5, <1>6, <1>7 DEF Suits, Alike
<1>9. Place(d) = 13
  BY <1>5, <1>6, ContextPlace
<1>10. d.heard = T(conf, 12 + 1) /\ ~d.kept /\ Near(conf, 12 + 1, Place(d))
  BY <1>5, <1>6, <1>9 DEF Near
<1> QED
  BY <1>1, <1>2, <1>3, <1>4, <1>5, <1>6, <1>8, <1>10, FollowsAt

\* The client begins to open what it reads.
LEMMA ClientOpens ==
  ASSUME TypeOK, Agreed, ~ssl["client"].tick, ParseChangeCipherSpec("client", 12)
  PROVE  Follows("client")
<1> DEFINE c == ssl["client"]
<1> DEFINE e == Stepped(Heard("client"))
<1> DEFINE d == [e EXCEPT !.tin = TRUE]
<1>1. At("client", 12) /\ Arrived("client", {"ChangeCipherSpec"}) /\ Took("client", d)
  BY DEF ParseChangeCipherSpec
<1>2. /\ c \in Context /\ c.state = 12 /\ ClientFits(conf, c) /\ c.fail = "none"
      /\ "client" \in Side /\ Peer("client") = "server" /\ out["client"] = None
  BY <1>1, ClientAt
<1>3. Place(c) = 13
  BY <1>2, ContextPlace
<1>4. Mine(conf, "server", 13) /\ Near(conf, Place(c), 13)
  BY <1>3 DEF Mine, Near
<1>5. /\ in["client"] # <<>> /\ Head(in["client"]).msg = Told[13]
      /\ e \in Context /\ e.state = 13 /\ Alike(e, c) /\ ~e.kept /\ e.heard = T(conf, 14)
  <2>1. MayRead("client", 12, 13, {"ChangeCipherSpec"})
    BY <1>1, <1>2, <1>4 DEF MayRead
  <2>2. ReadAs("client", 12, 13, {"ChangeCipherSpec"})
    BY <1>1, <1>2, <1>4, <2>1, ReadsHere
  <2> QED
    BY <1>1, <1>2, <1>4, <2>2 DEF ReadAs
<1> HIDE DEF e
<1>6. /\ d \in Context /\ d.tin = TRUE /\ d.key = e.key /\ d.tick = e.tick
      /\ d.tout = e.tout /\ d.ke = e.ke /\ d.auth = e.auth /\ d.peer = e.peer
      /\ d.fail = e.fail /\ d.state = e.state /\ d.heard = e.heard /\ d.kept = e.kept
  BY <1>5, SetFields
<1> HIDE DEF d
<1>7. ClientFits(conf, d)
  BY <1>2, <1>5, <1>6 DEF ClientFits, Alike
<1>8. Suits(conf, "client", d)
  BY <1>2, <1>5, <1>6, <1>7 DEF Suits, Alike
<1>9. Place(d) = 14
  BY <1>5, <1>6, ContextPlace
<1>10. d.heard = T(conf, 13 + 1) /\ ~d.kept /\ Near(conf, 13 + 1, Place(d))
  BY <1>5, <1>6, <1>9 DEF Near
<1> QED
  BY <1>1, <1>2, <1>3, <1>4, <1>5, <1>6, <1>8, <1>10, FollowsAt

\* The handshake is over: the transcript is not needed any more.
LEMMA WrapupPasses ==
  ASSUME TypeOK, Agreed, NEW s \in Side, Wrapup(s)
  PROVE  Passes(s)
<1> DEFINE c == ssl[s]
<1> DEFINE e == Stepped(c)
<1> DEFINE d == [e EXCEPT !.heard = <<>>]
<1>1. At(s, 15) /\ Becomes(s, d) /\ UNCHANGED <<conf, out, in, gone, link>>
  BY States DEF Wrapup
<1>2. c \in Context /\ c.state = 15 /\ Suits(conf, s, c) /\ c.fail = "none" /\ ~c.kept
      /\ out[s] = None
  BY <1>1, AtPlace
<1>3. e \in Context /\ e.state = 16 /\ e.kept = c.kept /\ Alike(e, c)
  BY <1>2, SteppedAlike
<1> HIDE DEF e
<1>4. d \in Context /\ d.state = e.state /\ d.kept = e.kept /\ Alike(d, e)
  BY <1>3, Transcripts, HeardAlike
<1> HIDE DEF d
<1>5. Suits(conf, s, d)
  <2>1. s = "client" => ClientFits(conf, d)
    BY <1>2, <1>3, <1>4 DEF Suits, ClientFits, Alike
  <2>2. s = "server" => ServerFits(conf, d)
    BY <1>2, <1>3, <1>4 DEF Suits, ServerFits, Alike
  <2> QED
    BY <1>2, <1>3, <1>4, <2>1, <2>2 DEF Suits, Alike
<1>6. Near(conf, Place(c), Place(d)) /\ ~(d.state < 16)
  BY <1>2, <1>3, <1>4, ContextPlace DEF Near
<1> QED
  BY <1>1, <1>2, <1>3, <1>4, <1>5, <1>6, PassesAt

\* A step of the client is one of the five, or quits.
LEMMA ClientShapes ==
  ASSUME TypeOK, Agreed, ClientStep \/ HandshakeTrouble("client", ClientExpects)
  PROVE  \/ Passes("client") \/ Says("client") \/ Follows("client") \/ Quits("client")
         \/ FlushOutput("client")
<1>0. "client" \in Side /\ Chain("client") = Shown(conf, "client")
  BY DEF Side, Chain, Shown
<1>1. CASE WriteClientHello
  <2>1. At("client", 1) /\ Mine(conf, "client", 1)
        /\ WriteRecord("client", Stepped(ssl["client"]), Told[1], Saying(conf, 1), <<>>)
    BY <1>1, States, Tellings, Sayings DEF WriteClientHello, WriteMessage, Mine
  <2> QED
    BY <2>1, ClientSays
<1>2. CASE ParseServerHello
  BY <1>2, ClientChooses
<1>3. CASE ParseCertificate("client", SERVER_CERTIFICATE)
  BY <1>3, States, ClientProves
<1>4. CASE ParseServerKeyExchange
  <2>1. CASE ssl["client"].ke = "ECDHE"
    <3>1. At("client", 4) /\ Arrived("client", {"ServerKeyExchange"})
          /\ Took("client", Stepped(Heard("client")))
      BY <1>4, <2>1, States DEF ParseServerKeyExchange
    <3> QED
      BY <2>1, <3>1, ClientHears
  <2>2. CASE ssl["client"].ke # "ECDHE"
    <3>1. Steps("client", 4)
      BY <1>4, <2>2, States DEF ParseServerKeyExchange
    <3> QED
      BY <2>2, <3>1, ClientPasses
  <2> QED
    BY <2>1, <2>2
<1>5. CASE ParseCertificateRequest
  BY <1>5, ClientIsAsked
<1>6. CASE ParseServerHelloDone
  <2>1. At("client", 6) /\ Arrived("client", {"ServerHelloDone"})
        /\ Took("client", Stepped(Heard("client")))
    BY <1>6, States DEF ParseServerHelloDone
  <2> QED
    BY <2>1, ClientHears
<1>7. CASE WriteCertificate("client", CLIENT_CERTIFICATE)
  <2>1. At("client", 7) /\ ssl["client"].auth
        /\ WriteRecord("client", Stepped(ssl["client"]), Told[7], Saying(conf, 7), <<>>)
    BY <1>0, <1>7, States, Tellings, Sayings DEF WriteCertificate, WriteMessage
  <2>2. Mine(conf, "client", 7)
    BY <2>1, ClientAt DEF Mine, ClientFits
  <2> QED
    BY <2>1, <2>2, ClientSays
<1>8. CASE SkipCertificate
  <2>1. Steps("client", 7) /\ ~ssl["client"].auth
    BY <1>8, States DEF SkipCertificate
  <2> QED
    BY <2>1, ClientPasses
<1>9. CASE WriteClientKeyExchange
  <2>1. At("client", 8) /\ Mine(conf, "client", 8)
        /\ WriteRecord("client", Stepped(ssl["client"]), Told[8], Saying(conf, 8), <<>>)
    BY <1>9, States, Tellings, Sayings DEF WriteClientKeyExchange, WriteMessage, Mine
  <2> QED
    BY <2>1, ClientSays
<1>10. CASE WriteCertificateVerify
  BY <1>10, ClientVerifies
<1>11. CASE WriteChangeCipherSpec("client", CLIENT_CHANGE_CIPHER_SPEC)
  <2>1. At("client", 10) /\ Mine(conf, "client", 10)
        /\ WriteRecord("client", Stepped(ssl["client"]), Told[10], Saying(conf, 10), <<>>)
    BY <1>11, States, Tellings, Sayings DEF WriteChangeCipherSpec, Mine
  <2> QED
    BY <2>1, ClientSays
<1>12. CASE WriteFinished("client", CLIENT_FINISHED)
  BY <1>12, States, ClientFinishes
<1>13. CASE ParseNewSessionTicket
  BY <1>13, ClientIsGiven
<1>14. CASE ~ssl["client"].tick /\ ParseChangeCipherSpec("client", SERVER_CHANGE_CIPHER_SPEC)
  BY <1>14, States, ClientOpens
<1>15. CASE ParseFinished("client", SERVER_FINISHED)
  <2>1. At("client", 13) /\ Arrived("client", {"Finished"})
        /\ Took("client", Stepped(Heard("client")))
    BY <1>15, States DEF ParseFinished
  <2> QED
    BY <2>1, ClientHears
<1>16. CASE HandshakeStep("client", ClientExpects)
  <2>1. CASE Steps("client", HELLO_REQUEST) \/ Steps("client", FLUSH_BUFFERS)
    BY <2>1, States, ClientPasses
  <2>2. CASE Wrapup("client")
    BY <1>0, <2>2, WrapupPasses
  <2>3. CASE ReadFails("client", ClientExpects)
    BY <1>0, <2>3, ClientAwaits, TroubleQuits
  <2> QED
    BY <1>16, <2>1, <2>2, <2>3 DEF HandshakeStep
<1>17. CASE HandshakeTrouble("client", ClientExpects)
  BY <1>0, <1>17, ClientAwaits, TroubleQuits
<1> QED
  BY <1>1, <1>2, <1>3, <1>4, <1>5, <1>6, <1>7, <1>8, <1>9, <1>10, <1>11, <1>12, <1>13,
     <1>14, <1>15, <1>16, <1>17 DEF ClientStep
-----------------------------------------------------------------------------
(* The steps of the server.                                                 *)

\* What the server knows, and where it is, when it is in a state.
LEMMA ServerAt ==
  ASSUME TypeOK, Agreed, NEW n, At("server", n)
  PROVE  LET c == ssl["server"]
         IN  /\ c \in Context /\ c.state = n /\ n \in 0 .. 17 /\ out["server"] = None
             /\ ServerFits(conf, c) /\ c.fail = "none" /\ conf \in Setup
             /\ n \in 1 .. 11 => Place(c) = n
             /\ ~c.kept
             /\ n # 13 => Secured("server")
             /\ "server" \in Side /\ Peer("server") = "client"
<1>0. "server" \in Side /\ Peer("server") = "client"
  BY DEF Side, Peer
<1>1. ssl["server"].state = n
  BY <1>0, AtPlace
<1> QED
  BY <1>0, <1>1, AtPlace, ContextPlace, SecuredAt DEF Suits

\* The server writes a message and goes on, in the states where that is all.
LEMMA ServerSays ==
  ASSUME TypeOK, Agreed, NEW n \in {2, 3, 4, 5, 6, 12}, At("server", n),
         n = 12 => ~ssl["server"].tick, NEW k \in 1 .. 14, k = IF n = 12 THEN 13 ELSE n,
         Mine(conf, "server", k),
         WriteRecord("server", Stepped(ssl["server"]), Told[k], Saying(conf, k), <<>>)
  PROVE  Says("server")
<1> DEFINE c == ssl["server"]
<1> DEFINE d == Stepped(c)
<1>1. /\ c \in Context /\ c.state = n /\ ServerFits(conf, c) /\ c.fail = "none"
      /\ ~c.kept /\ Secured("server") /\ "server" \in Side
  BY ServerAt
<1>2. d \in Context /\ d.state = n + 1 /\ d.kept = c.kept /\ Alike(d, c)
  BY <1>1, SteppedAlike
<1> HIDE DEF d
<1>3. ServerFits(conf, d)
  BY <1>1, <1>2, ServerStates
<1>4. Suits(conf, "server", d)
  BY <1>1, <1>2, <1>3 DEF Suits, Alike
<1>5. Place(c) = k /\ Place(d) = k + 1
  BY <1>1, <1>2, ContextPlace
<1>6. Told[k] \notin Signed
  BY Tellings DEF Signed
<1> QED
  BY <1>1, <1>4, <1>5, <1>6, MessageSays DEF d, Near

\* The server goes on where it has nothing to write or read.
LEMMA ServerPasses ==
  ASSUME TypeOK, Agreed, NEW n \in {0, 4, 5, 7, 9, 14}, Steps("server", n),
         n = 4 => ssl["server"].ke # "ECDHE", n \in {5, 7} => ~Asks(conf),
         n = 9 => ssl["server"].peer = "none"
  PROVE  Passes("server")
<1> DEFINE c == ssl["server"]
<1> DEFINE d == Stepped(c)
<1>1. /\ c \in Context /\ c.state = n /\ ServerFits(conf, c) /\ c.fail = "none"
      /\ ~c.kept /\ "server" \in Side
  BY ServerAt DEF Steps
<1>2. d \in Context /\ d.state = n + 1 /\ d.kept = c.kept /\ Alike(d, c)
  BY <1>1, SteppedAlike
<1> HIDE DEF d
<1>3. ServerFits(conf, d)
  BY <1>1, <1>2, ServerStates
<1>4. Suits(conf, "server", d)
  BY <1>1, <1>2, <1>3 DEF Suits, Alike
<1>5. Near(conf, Place(c), Place(d))
  <2>1. n \in {0, 14} => Place(c) = Place(d)
    BY <1>1, <1>2, ContextPlace
  <2>2. n \in {4, 5, 7, 9} => Place(c) = n /\ Place(d) = n + 1
    BY <1>1, <1>2, ContextPlace
  <2>3. n = 4 => conf.ke # "ECDHE"
    BY <1>1 DEF ServerFits
  <2>4. n = 9 => ~(Asks(conf) /\ conf.cert["client"] # "none")
    BY <1>1 DEF ServerFits
  <2> QED
    BY <2>1, <2>2, <2>3, <2>4 DEF Near, Mine
<1> QED
  BY <1>1, <1>4, <1>5, StepPasses DEF d

\* The server reads a message and goes on, in the states where that is all.
LEMMA ServerHears ==
  ASSUME TypeOK, Agreed, NEW n \in {9, 11}, At("server", n), NEW expected,
         "Fatal" \notin expected, Arrived("server", expected),
         n = 9 => ssl["server"].peer # "none", Took("server", Stepped(Heard("server")))
  PROVE  Follows("server")
<1> DEFINE c == ssl["server"]
<1>1. /\ c \in Context /\ c.state = n /\ ServerFits(conf, c) /\ c.fail = "none"
      /\ "server" \in Side /\ Peer("server") = "client" /\ out["server"] = None
      /\ Place(c) = n
  BY ServerAt
<1>2. Mine(conf, "client", n)
  BY <1>1 DEF Mine, ServerFits
<1>3. Near(conf, Place(c), n)
  BY <1>1 DEF Near
<1> DEFINE d == Stepped(Heard("server"))
<1>4. /\ in["server"] # <<>> /\ Head(in["server"]).msg = Told[n]
      /\ d \in Context /\ d.state = n + 1 /\ Alike(d, c) /\ ~d.kept /\ d.heard = T(conf, n + 1)
  <2>1. MayRead("server", n, n, expected)
    BY <1>1, <1>2, <1>3 DEF MayRead
  <2>2. ReadAs("server", n, n, expected)
    BY <1>1, <1>2, <1>3, <2>1, ReadsHere
  <2> QED
    BY <1>1, <1>2, <1>3, <2>2 DEF ReadAs
<1>5. Took("server", d)
  OBVIOUS
<1> HIDE DEF d
<1>6. ServerFits(conf, d)
  BY <1>1, <1>4, ServerStates
<1>7. Suits(conf, "server", d)
  BY <1>1, <1>4, <1>6 DEF Suits, Alike
<1>8. Near(conf, n + 1, Place(d))
  <2>1. n = 9 => Place(d) = n + 1
    BY <1>4, ContextPlace
  <2>2. n = 11 => Place(d) = IF d.tick THEN 12 ELSE 13
    BY <1>4, ContextPlace
  <2>3. n = 11 => (d.tick <=> conf.ticket)
    BY <1>1, <1>4 DEF ServerFits, Alike
  <2> QED
    BY <2>1, <2>2, <2>3 DEF Near, Mine
<1> QED
  BY <1>1, <1>2, <1>4, <1>5, <1>7, <1>8, FollowsAt

\* The server reads what the client can do, and chooses.
LEMMA ServerChooses ==
  ASSUME TypeOK, Agreed, ParseClientHello
  PROVE  Follows("server")
<1> DEFINE c == ssl["server"]
<1> DEFINE e == Stepped(Heard("server"))
<1>1. At("server", 1) /\ Arrived("server", {"ClientHello"})
  BY States DEF ParseClientHello
<1>2. /\ c \in Context /\ c.state = 1 /\ ServerFits(conf, c) /\ c.fail = "none" /\ Place(c) = 1
      /\ "server" \in Side /\ Peer("server") = "client" /\ out["server"] = None
      /\ conf \in Setup
  BY <1>1, ServerAt
<1>3. Mine(conf, "client", 1) /\ Near(conf, Place(c), 1)
  BY <1>2 DEF Mine, Near
<1>4. /\ in["server"] # <<>> /\ Head(in["server"]).msg = Told[1]
      /\ Head(in["server"]).body = Saying(conf, 1)
      /\ e \in Context /\ e.state = 2 /\ Alike(e, c) /\ ~e.kept /\ e.heard = T(conf, 2)
  <2>1. MayRead("server", 1, 1, {"ClientHello"})
    BY <1>1, <1>2, <1>3 DEF MayRead
  <2>2. ReadAs("server", 1, 1, {"ClientHello"})
    BY <1>1, <1>2, <1>3, <2>1, ReadsHere
  <2> QED
    BY <1>1, <1>2, <1>3, <2>2 DEF ReadAs
<1> DEFINE d == [e EXCEPT !.ke = conf.ke, !.tick = conf.ticket]
<1>5. conf.ke \in KeyExchange /\ conf.ticket \in BOOLEAN
  BY <1>2 DEF Setup
<1>6. Took("server", d)
  <2>1. (conf.ticket /\ "ticket" \in Head(in["server"]).body) = conf.ticket
    BY <1>4, <1>5, Sayings
  <2>2. Took("server", [e EXCEPT !.ke = conf.ke,
                                 !.tick = conf.ticket /\ "ticket" \in Head(in["server"]).body])
    BY DEF ParseClientHello
  <2> QED
    BY <2>1, <2>2
<1> HIDE DEF e
<1>7. /\ d \in Context /\ d.ke = conf.ke /\ (d.tick <=> conf.ticket) /\ d.key = e.key
      /\ d.tin = e.tin /\ d.tout = e.tout /\ d.auth = e.auth /\ d.peer = e.peer
      /\ d.fail = e.fail /\ d.state = e.state /\ d.heard = e.heard /\ d.kept = e.kept
  <2>1. CASE conf.ticket = TRUE
    <3>1. d = [e EXCEPT !.ke = conf.ke, !.tick = TRUE]
      BY <2>1
    <3> HIDE DEF d
    <3> QED
      BY <1>4, <1>5, <2>1, <3>1, SetChosen, ZenonT(60)
  <2>2. CASE conf.ticket = FALSE
    <3>1. d = [e EXCEPT !.ke = conf.ke, !.tick = FALSE]
      BY <2>2
    <3> HIDE DEF d
    <3> QED
      BY <1>4, <1>5, <2>2, <3>1, SetChosen, ZenonT(60)
  <2> QED
    BY <1>5, <2>1, <2>2
<1> HIDE DEF d
<1>8. ServerFits(conf, d)
  BY <1>2, <1>4, <1>7 DEF ServerFits, Alike
<1>9. Suits(conf, "server", d)
  BY <1>2, <1>4, <1>7, <1>8 DEF Suits, Alike
<1>10. Place(d) = 2
  BY <1>4, <1>7, ContextPlace
<1>11. d.heard = T(conf, 1 + 1) /\ ~d.kept /\ Near(conf, 1 + 1, Place(d))
  BY <1>4, <1>7, <1>10 DEF Near
<1> QED
  BY <1>2, <1>3, <1>4, <1>6, <1>7, <1>9, <1>11, FollowsAt

\* The server reads a certificate that it accepts, or that it fails about.
LEMMA ServerProves ==
  ASSUME TypeOK, Agreed, ~AsksNothing, ParseCertificate("server", 7)
  PROVE  Follows("server") \/ Quits("server")
<1> DEFINE c == ssl["server"]
<1> DEFINE e == Stepped(Heard("server"))
<1> DEFINE chain == Head(in["server"]).body
<1> DEFINE d == [e EXCEPT !.peer = Presented(chain)]
<1>1. /\ At("server", 7) /\ Arrived("server", {"Certificate"})
      /\ IF Verifies("server", chain) THEN Took("server", d)
         ELSE Ends("server", "cert", IF chain = {} THEN {} ELSE FatalAlert("server"))
  BY DEF ParseCertificate
<1>2. /\ c \in Context /\ c.state = 7 /\ ServerFits(conf, c) /\ c.fail = "none" /\ Place(c) = 7
      /\ "server" \in Side /\ Peer("server") = "client" /\ out["server"] = None
      /\ conf \in Setup /\ Secured("server") /\ ~gone["server"]
  BY <1>1, ServerAt DEF At, Handshaking
<1>3. Mine(conf, "client", 7) /\ Near(conf, Place(c), 7) /\ Asks(conf)
  BY <1>2 DEF Mine, Near, Asks, AsksNothing
<1>4. /\ in["server"] # <<>> /\ Head(in["server"]).msg = Told[7] /\ chain = Saying(conf, 7)
      /\ e \in Context /\ e.state = 8 /\ Alike(e, c) /\ ~e.kept /\ e.heard = T(conf, 8)
  <2>1. MayRead("server", 7, 7, {"Certificate"})
    BY <1>1, <1>2, <1>3 DEF MayRead
  <2>2. ReadAs("server", 7, 7, {"Certificate"})
    BY <1>1, <1>2, <1>3, <2>1, ReadsHere
  <2> QED
    BY <1>1, <1>2, <1>3, <2>2 DEF ReadAs
<1>5. CASE Verifies("server", chain)
  <2>1. /\ conf.cert["client"] \in {"none", "trusted", "unknown"}
        /\ chain = IF conf.cert["client"] = "none" THEN {} ELSE {conf.cert["client"]}
    BY <1>2, <1>4, Sayings DEF Shown, Setup, Side
  <2>2. Presented(chain) = conf.cert["client"]
    BY <2>1 DEF Presented
  <2>3. conf.authmode["server"] = "required" => Presented(chain) = "trusted"
    BY <1>5, <2>1, <2>2 DEF Verifies
  <2>4. Took("server", d)
    BY <1>1, <1>5
  <2> DEFINE w == Presented(chain)
  <2>5. w \in {"none", "trusted", "unknown"}
    BY <2>1, <2>2
  <2> HIDE DEF e, w
  <2>6. /\ d \in Context /\ d.peer = w /\ d.key = e.key /\ d.tin = e.tin
        /\ d.tout = e.tout /\ d.ke = e.ke /\ d.tick = e.tick /\ d.auth = e.auth
        /\ d.fail = e.fail /\ d.state = e.state /\ d.heard = e.heard /\ d.kept = e.kept
    BY <1>4, <2>5, SetShown DEF w
  <2> HIDE DEF d
  <2>7. ServerFits(conf, d)
    BY <1>2, <1>3, <1>4, <2>2, <2>3, <2>6 DEF ServerFits, Alike, w
  <2>8. Suits(conf, "server", d)
    BY <1>2, <1>4, <2>6, <2>7 DEF Suits, Alike
  <2>9. Place(d) = 8
    BY <1>4, <2>6, ContextPlace
  <2>10. d.heard = T(conf, 7 + 1) /\ ~d.kept /\ Near(conf, 7 + 1, Place(d))
    BY <1>4, <2>6, <2>9 DEF Near
  <2> QED
    BY <1>2, <1>3, <1>4, <2>4, <2>6, <2>8, <2>10, FollowsAt
<1>6. CASE ~Verifies("server", chain)
  BY <1>1, <1>2, <1>6 DEF Quits, Failure
<1> QED
  BY <1>5, <1>6

\* The server reads the key exchange and derives the keys.
LEMMA ServerDerives ==
  ASSUME TypeOK, Agreed, ParseClientKeyExchange
  PROVE  Follows("server")
<1> DEFINE c == ssl["server"]
<1> DEFINE h == Heard("server")
<1> DEFINE e == DeriveKeys(h)
<1> DEFINE d == Stepped(e)
<1>1. At("server", 8) /\ Arrived("server", {"ClientKeyExchange"}) /\ Took("server", d)
  BY States DEF ParseClientKeyExchange
<1>2. /\ c \in Context /\ c.state = 8 /\ ServerFits(conf, c) /\ c.fail = "none" /\ Place(c) = 8
      /\ "server" \in Side /\ Peer("server") = "client" /\ out["server"] = None
  BY <1>1, ServerAt
<1>3. Mine(conf, "client", 8) /\ Near(conf, Place(c), 8)
  BY <1>2 DEF Mine, Near
<1>4. /\ in["server"] # <<>> /\ Head(in["server"]).msg = Told[8]
      /\ h \in Context /\ h.state = 8 /\ Alike(h, c) /\ ~h.kept /\ h.heard = T(conf, 9)
  <2>1. MayRead("server", 8, 8, {"ClientKeyExchange"})
    BY <1>1, <1>2, <1>3 DEF MayRead
  <2>2. ReadAs("server", 8, 8, {"ClientKeyExchange"})
    BY <1>1, <1>2, <1>3, <2>1, ReadsHere
  <2> QED
    BY <1>1, <1>2, <1>3, <2>2 DEF ReadAs
<1> HIDE DEF h
<1>5. /\ e \in Context /\ e.key = h.heard /\ e.tin = h.tin /\ e.tout = h.tout
      /\ e.ke = h.ke /\ e.tick = h.tick /\ e.auth = h.auth /\ e.peer = h.peer
      /\ e.fail = h.fail /\ e.state = h.state /\ e.heard = h.heard /\ e.kept = h.kept
  BY <1>4, SetKeys
<1> HIDE DEF e
<1>6. d \in Context /\ d.state = 9 /\ d.heard = e.heard /\ d.kept = e.kept /\ Alike(d, e)
  BY <1>4, <1>5, SteppedAlike
<1> HIDE DEF d
<1>7. ServerFits(conf, d)
  BY <1>2, <1>4, <1>5, <1>6 DEF ServerFits, Alike
<1>8. Suits(conf, "server", d)
  BY <1>2, <1>4, <1>5, <1>6, <1>7 DEF Suits, Alike
<1>9. Place(d) = 9
  BY <1>6, ContextPlace
<1>10. d.heard = T(conf, 8 + 1) /\ ~d.kept /\ Near(conf, 8 + 1, Place(d))
  BY <1>4, <1>5, <1>6, <1>9 DEF Near
<1> QED
  BY <1>1, <1>2, <1>3, <1>4, <1>6, <1>8, <1>10, FollowsAt

\* The server begins to open what it reads.
LEMMA ServerOpens ==
  ASSUME TypeOK, Agreed, ParseChangeCipherSpec("server", 10)
  PROVE  Follows("server")
<1> DEFINE c == ssl["server"]
<1> DEFINE e == Stepped(Heard("server"))
<1> DEFINE d == [e EXCEPT !.tin = TRUE]
<1>1. At("server", 10) /\ Arrived("server", {"ChangeCipherSpec"}) /\ Took("server", d)
  BY DEF ParseChangeCipherSpec
<1>2. /\ c \in Context /\ c.state = 10 /\ ServerFits(conf, c) /\ c.fail = "none"
      /\ "server" \in Side /\ Peer("server") = "client" /\ out["server"] = None
      /\ Place(c) = 10
  BY <1>1, ServerAt
<1>3. Mine(conf, "client", 10) /\ Near(conf, Place(c), 10)
  BY <1>2 DEF Mine, Near
<1>4. /\ in["server"] # <<>> /\ Head(in["server"]).msg = Told[10]
      /\ e \in Context /\ e.state = 11 /\ Alike(e, c) /\ ~e.kept /\ e.heard = T(conf, 11)
  <2>1. MayRead("server", 10, 10, {"ChangeCipherSpec"})
    BY <1>1, <1>2, <1>3 DEF MayRead
  <2>2. ReadAs("server", 10, 10, {"ChangeCipherSpec"})
    BY <1>1, <1>2, <1>3, <2>1, ReadsHere
  <2> QED
    BY <1>1, <1>2, <1>3, <2>2 DEF ReadAs
<1> HIDE DEF e
<1>5. /\ d \in Context /\ d.tin = TRUE /\ d.key = e.key /\ d.tick = e.tick
      /\ d.tout = e.tout /\ d.ke = e.ke /\ d.auth = e.auth /\ d.peer = e.peer
      /\ d.fail = e.fail /\ d.state = e.state /\ d.heard = e.heard /\ d.kept = e.kept
  BY <1>4, SetFields
<1> HIDE DEF d
<1>6. ServerFits(conf, d)
  BY <1>2, <1>4, <1>5 DEF ServerFits, Alike
<1>7. Suits(conf, "server", d)
  BY <1>2, <1>4, <1>5, <1>6 DEF Suits, Alike
<1>8. Place(d) = 11
  BY <1>4, <1>5, ContextPlace
<1>9. d.heard = T(conf, 10 + 1) /\ ~d.kept /\ Near(conf, 10 + 1, Place(d))
  BY <1>4, <1>5, <1>8 DEF Near
<1> QED
  BY <1>1, <1>2, <1>3, <1>4, <1>5, <1>7, <1>9, FollowsAt

\* The server writes the ticket.
LEMMA ServerGives ==
  ASSUME TypeOK, Agreed, WriteNewSessionTicket
  PROVE  Says("server")
<1> DEFINE c == ssl["server"]
<1> DEFINE d == [c EXCEPT !.tick = FALSE]
<1>1. At("server", 12) /\ c.tick /\ WriteRecord("server", d, "NewSessionTicket", {}, <<>>)
  BY States DEF WriteNewSessionTicket
<1>2. /\ c \in Context /\ c.state = 12 /\ ServerFits(conf, c) /\ c.fail = "none"
      /\ ~c.kept /\ "server" \in Side /\ out["server"] = None
      /\ Handshaking("server") /\ Secured("server")
  BY <1>1, ServerAt, AtPlace
<1>3. Place(c) = 12
  BY <1>1, <1>2, ContextPlace
<1>4. /\ d \in Context /\ d.tick = FALSE /\ d.key = c.key /\ d.tout = c.tout
      /\ d.tin = c.tin /\ d.ke = c.ke /\ d.auth = c.auth /\ d.peer = c.peer
      /\ d.fail = c.fail /\ d.state = c.state /\ d.heard = c.heard /\ d.kept = c.kept
  BY <1>2, SetFields
<1> HIDE DEF d
<1>5. ServerFits(conf, d)
  BY <1>2, <1>4 DEF ServerFits
<1>6. Suits(conf, "server", d)
  BY <1>2, <1>4, <1>5 DEF Suits
<1>7. Place(d) = 13
  BY <1>2, <1>4, ContextPlace
<1>8. Told[12] = "NewSessionTicket" /\ Saying(conf, 12) = {} /\ Told[12] \notin Signed
  BY Tellings, Sayings DEF Signed
<1>9. WriteRecord("server", d, Told[12], Saying(conf, 12),
                  IF Told[12] \in Signed THEN c.heard ELSE <<>>)
  BY <1>1, <1>8
<1>10. (IF d.tout THEN d.key ELSE <<>>) = SealedAt(conf, "server", 12)
  BY <1>2, <1>3, <1>4 DEF Secured
<1>11. Mine(conf, "server", 12) /\ d.state <= 14 /\ c.state <= 14 /\ ~d.kept
       /\ Near(conf, 12 + 1, Place(d))
  BY <1>1, <1>2, <1>4, <1>7 DEF Mine, ServerFits, Near
<1> QED
  BY <1>2, <1>3, <1>4, <1>6, <1>9, <1>10, <1>11, SaysAt

\* The server finishes.
LEMMA ServerFinishes ==
  ASSUME TypeOK, Agreed, WriteFinished("server", 13)
  PROVE  Says("server")
<1> DEFINE c == ssl["server"]
<1> DEFINE e == Stepped(c)
<1> DEFINE d == [e EXCEPT !.tout = TRUE]
<1>1. At("server", 13) /\ WriteRecord("server", d, "Finished", {}, c.heard)
  BY DEF WriteFinished
<1>2. /\ c \in Context /\ c.state = 13 /\ ServerFits(conf, c) /\ c.fail = "none"
      /\ ~c.kept /\ "server" \in Side /\ out["server"] = None
      /\ Handshaking("server")
  BY <1>1, ServerAt, AtPlace
<1>3. Place(c) = 14
  BY <1>2, ContextPlace
<1>4. e \in Context /\ e.state = 14 /\ e.heard = c.heard /\ e.kept = c.kept /\ Alike(e, c)
  BY <1>2, SteppedAlike
<1> HIDE DEF e
<1>5. /\ d \in Context /\ d.tout = TRUE /\ d.key = e.key /\ d.tick = e.tick
      /\ d.tin = e.tin /\ d.ke = e.ke /\ d.auth = e.auth /\ d.peer = e.peer
      /\ d.fail = e.fail /\ d.state = e.state /\ d.heard = e.heard /\ d.kept = e.kept
  BY <1>4, SetFields
<1> HIDE DEF d
<1>6. ServerFits(conf, d)
  BY <1>2, <1>4, <1>5 DEF ServerFits, Alike
<1>7. Suits(conf, "server", d)
  BY <1>2, <1>4, <1>5, <1>6 DEF Suits, Alike
<1>8. Place(d) = 15
  BY <1>4, <1>5, ContextPlace
<1>9. Told[14] = "Finished" /\ Saying(conf, 14) = {} /\ Told[14] \in Signed
  BY Tellings, Sayings DEF Signed
<1>10. WriteRecord("server", d, Told[14], Saying(conf, 14),
                   IF Told[14] \in Signed THEN c.heard ELSE <<>>)
  BY <1>1, <1>9
<1>11. (IF d.tout THEN d.key ELSE <<>>) = SealedAt(conf, "server", 14)
  BY <1>4, <1>5, <1>6 DEF SealedAt, ServerFits
<1>12. Mine(conf, "server", 14) /\ d.state <= 14 /\ c.state <= 14 /\ d.heard = c.heard
       /\ ~d.kept /\ Near(conf, 14 + 1, Place(d))
  BY <1>2, <1>4, <1>5, <1>8 DEF Mine, Near
<1>13. PICK k \in 1 .. 14 : k = 14
  OBVIOUS
<1>14. k = Place(c) /\ Mine(conf, "server", k) /\ Near(conf, k + 1, Place(d))
  BY <1>3, <1>12, <1>13
<1>15. (IF d.tout THEN d.key ELSE <<>>) = SealedAt(conf, "server", k)
  BY <1>11, <1>13
<1>16. WriteRecord("server", d, Told[k], Saying(conf, k),
                   IF Told[k] \in Signed THEN c.heard ELSE <<>>)
  BY <1>10, <1>13
<1> QED
  BY <1>2, <1>5, <1>7, <1>12, <1>14, <1>15, <1>16, SaysAt

\* A step of the server is one of the five, or quits.
LEMMA ServerShapes ==
  ASSUME TypeOK, Agreed, ServerStep \/ HandshakeTrouble("server", ServerExpects)
  PROVE  \/ Passes("server") \/ Says("server") \/ Follows("server") \/ Quits("server")
         \/ FlushOutput("server")
<1> DEFINE c == ssl["server"]
<1>0. "server" \in Side /\ Chain("server") = Shown(conf, "server")
  BY DEF Side, Chain, Shown
<1>1. CASE ParseClientHello
  BY <1>1, ServerChooses
<1>2. CASE WriteServerHello
  <2>1. At("server", 2)
    BY <1>2, States DEF WriteServerHello
  <2>2. c.ke = conf.ke /\ (c.tick <=> conf.ticket)
    BY <2>1, ServerAt DEF ServerFits
  <2>3. {c.ke} \union (IF c.tick THEN {"ticket"} ELSE {}) = Saying(conf, 2)
    BY <2>2, Sayings
  <2>4. Mine(conf, "server", 2)
        /\ WriteRecord("server", Stepped(c), Told[2], Saying(conf, 2), <<>>)
    BY <1>2, <2>3, Tellings DEF WriteServerHello, WriteMessage, Mine
  <2> QED
    BY <2>1, <2>4, ServerSays
<1>3. CASE WriteCertificate("server", SERVER_CERTIFICATE)
  <2>1. At("server", 3) /\ Mine(conf, "server", 3)
        /\ WriteRecord("server", Stepped(c), Told[3], Saying(conf, 3), <<>>)
    BY <1>0, <1>3, States, Tellings, Sayings DEF WriteCertificate, WriteMessage, Mine
  <2> QED
    BY <2>1, ServerSays
<1>4. CASE WriteServerKeyExchange
  <2>1. CASE c.ke = "ECDHE"
    <3>1. At("server", 4) /\ WriteRecord("server", Stepped(c), Told[4], Saying(conf, 4), <<>>)
      BY <1>4, <2>1, States, Tellings, Sayings DEF WriteServerKeyExchange, WriteMessage
    <3>2. Mine(conf, "server", 4)
      BY <2>1, <3>1, ServerAt DEF Mine, ServerFits
    <3> QED
      BY <3>1, <3>2, ServerSays
  <2>2. CASE c.ke # "ECDHE"
    <3>1. Steps("server", 4)
      BY <1>4, <2>2, States DEF WriteServerKeyExchange
    <3> QED
      BY <2>2, <3>1, ServerPasses
  <2> QED
    BY <2>1, <2>2
<1>5. CASE WriteCertificateRequest
  <2>1. CASE Asks(conf)
    <3>1. At("server", 5) /\ WriteRecord("server", Stepped(c), Told[5], Saying(conf, 5), <<>>)
      BY <1>5, <2>1, States, Tellings, Sayings DEF WriteCertificateRequest, WriteMessage, Asks
    <3>2. Mine(conf, "server", 5)
      BY <2>1 DEF Mine
    <3> QED
      BY <3>1, <3>2, ServerSays
  <2>2. CASE ~Asks(conf)
    <3>1. Steps("server", 5)
      BY <1>5, <2>2, States DEF WriteCertificateRequest, Asks
    <3> QED
      BY <2>2, <3>1, ServerPasses
  <2> QED
    BY <2>1, <2>2
<1>6. CASE WriteServerHelloDone
  <2>1. At("server", 6) /\ Mine(conf, "server", 6)
        /\ WriteRecord("server", Stepped(c), Told[6], Saying(conf, 6), <<>>)
    BY <1>6, States, Tellings, Sayings DEF WriteServerHelloDone, WriteMessage, Mine
  <2> QED
    BY <2>1, ServerSays
<1>7. CASE SkipClientCertificate
  <2>1. Steps("server", 7) /\ ~Asks(conf)
    BY <1>7, States DEF SkipClientCertificate, AsksNothing, Asks
  <2> QED
    BY <2>1, ServerPasses
<1>8. CASE ~AsksNothing /\ ParseCertificate("server", CLIENT_CERTIFICATE)
  BY <1>8, States, ServerProves
<1>9. CASE ParseClientKeyExchange
  BY <1>9, ServerDerives
<1>10. CASE ParseCertificateVerify
  <2>1. CASE c.peer # "none"
    <3>1. At("server", 9) /\ Arrived("server", {"CertificateVerify"})
          /\ Took("server", Stepped(Heard("server")))
      BY <1>10, <2>1, States DEF ParseCertificateVerify
    <3> QED
      BY <2>1, <3>1, ServerHears
  <2>2. CASE c.peer = "none"
    <3>1. Steps("server", 9)
      BY <1>10, <2>2, States DEF ParseCertificateVerify
    <3> QED
      BY <2>2, <3>1, ServerPasses
  <2> QED
    BY <2>1, <2>2
<1>11. CASE ParseChangeCipherSpec("server", CLIENT_CHANGE_CIPHER_SPEC)
  BY <1>11, States, ServerOpens
<1>12. CASE ParseFinished("server", CLIENT_FINISHED)
  <2>1. At("server", 11) /\ Arrived("server", {"Finished"})
        /\ Took("server", Stepped(Heard("server")))
    BY <1>12, States DEF ParseFinished
  <2> QED
    BY <2>1, ServerHears
<1>13. CASE WriteNewSessionTicket
  BY <1>13, ServerGives
<1>14. CASE ~c.tick /\ WriteChangeCipherSpec("server", SERVER_CHANGE_CIPHER_SPEC)
  <2>1. At("server", 12) /\ Mine(conf, "server", 13)
        /\ WriteRecord("server", Stepped(c), Told[13], Saying(conf, 13), <<>>)
    BY <1>14, States, Tellings, Sayings DEF WriteChangeCipherSpec, Mine
  <2> QED
    BY <1>14, <2>1, ServerSays
<1>15. CASE WriteFinished("server", SERVER_FINISHED)
  BY <1>15, States, ServerFinishes
<1>16. CASE HandshakeStep("server", ServerExpects)
  <2>1. CASE Steps("server", HELLO_REQUEST) \/ Steps("server", FLUSH_BUFFERS)
    BY <2>1, States, ServerPasses
  <2>2. CASE Wrapup("server")
    BY <1>0, <2>2, WrapupPasses
  <2>3. CASE ReadFails("server", ServerExpects)
    BY <1>0, <2>3, ServerAwaits, TroubleQuits
  <2> QED
    BY <1>16, <2>1, <2>2, <2>3 DEF HandshakeStep
<1>17. CASE HandshakeTrouble("server", ServerExpects)
  BY <1>0, <1>17, ServerAwaits, TroubleQuits
<1> QED
  BY <1>1, <1>2, <1>3, <1>4, <1>5, <1>6, <1>7, <1>8, <1>9, <1>10, <1>11, <1>12, <1>13,
     <1>14, <1>15, <1>16, <1>17 DEF ServerStep
-----------------------------------------------------------------------------
(* An open session, and the ends of one.                                    *)

\* What a new connection knows.
LEMMA FreshKnows ==
  ASSUME NEW g, NEW s
  PROVE  /\ Fits(g, s, Fresh) /\ Place(Fresh) = 1 /\ Fresh.state = 0
         /\ \A k : Way(g, s, <<>>, k) /\ End(s, <<>>, k) = k
         /\ Continues(g, s, None, 1, 1) /\ Led(g, <<>>, None, 1, 1)
<1>1. /\ Fresh.state = 0 /\ Fresh.fail = "none" /\ Fresh.auth = FALSE /\ Fresh.peer = "none"
      /\ Fresh.tick = FALSE /\ Fresh.heard = <<>> /\ Fresh.key = <<>> /\ Fresh.tin = FALSE
      /\ Fresh.tout = FALSE /\ Fresh.kept = FALSE
  BY States DEF Fresh
<1>2. Place(Fresh) = 1 /\ T(g, 1) = <<>>
  BY <1>1, Transcribed DEF Place, T1
<1>3. ClientFits(g, Fresh)
  BY <1>1 DEF ClientFits
<1>4. ServerFits(g, Fresh)
  BY <1>1 DEF ServerFits
<1>5. Hearing(g, Fresh)
  BY <1>1, <1>2 DEF Hearing
<1>6. Fits(g, s, Fresh)
  BY <1>1, <1>3, <1>4, <1>5 DEF Fits
<1>7. \A k : Way(g, s, <<>>, k) /\ End(s, <<>>, k) = k
  BY DEF Way, End
<1>8. Continues(g, s, None, 1, 1)
  BY EvenPlaces DEF Continues
<1>9. Led(g, <<>>, None, 1, 1)
  BY DEF Led
<1> QED
  BY <1>1, <1>2, <1>6, <1>7, <1>8, <1>9

\* Before there is a connection nothing is known that could be wrong.
LEMMA InitAgreed == Init => Agreed
<1> SUFFICES ASSUME Init PROVE Agreed
  OBVIOUS
<1>1. \A s \in Side : /\ ssl[s] = Fresh /\ out[s] = None /\ in[s] = <<>> /\ Peer(s) \in Side
                      /\ gone[s]
  BY Peers DEF Init, RecordsInit
<1>2. \A s \in Side : Knows(s)
  <2> SUFFICES ASSUME NEW s \in Side PROVE Knows(s)
    OBVIOUS
  <2>1. Fits(conf, s, ssl[s])
    BY <1>1, FreshKnows
  <2>2. Reading(s)
    BY <1>1, FreshKnows DEF Reading
  <2>3. ~Whole
    BY <1>1 DEF Whole, Side
  <2> QED
    BY <1>1, <2>1, <2>2, <2>3 DEF Knows, Drained
<1>3. Passed
  BY <1>1, FreshKnows DEF Passed, Side
<1> QED
  BY <1>2, <1>3 DEF Agreed

\* A new connection.
LEMMA OpenKeeps == Open => Agreed'
<1> SUFFICES ASSUME Open PROVE Agreed'
  OBVIOUS
<1>1. \A s \in Side : /\ ssl'[s] = Fresh /\ out'[s] = None /\ in'[s] = <<>> /\ Peer(s) \in Side
                      /\ ~gone'[s]
  BY Peers DEF Open, Connected
<1>2. \A s \in Side : Knows(s)'
  <2> SUFFICES ASSUME NEW s \in Side PROVE Knows(s)'
    OBVIOUS
  <2>1. Fits(conf', s, ssl'[s])
    BY <1>1, FreshKnows
  <2>2. Reading(s)'
    BY <1>1, FreshKnows DEF Reading
  <2>3. Writing(s)'
    <3>1. Reached(s)' = 1
      <4>1. Reached(s)' = End(s, in'[Peer(s)], Place(ssl'[Peer(s)]))
        BY DEF Reached
      <4>2. in'[Peer(s)] = <<>> /\ Place(ssl'[Peer(s)]) = 1
        BY <1>1, FreshKnows
      <4> QED
        BY <4>1, <4>2 DEF End
    <3>2. Place(ssl'[s]) = 1 /\ out'[s] = None
      BY <1>1, FreshKnows
    <3> QED
      BY <3>1, <3>2, FreshKnows DEF Writing
  <2> QED
    BY <1>1, <2>1, <2>2, <2>3 DEF Knows, Drained
<1>3. Passed'
  BY <1>1, FreshKnows DEF Passed, Side
<1> QED
  BY <1>2, <1>3 DEF Agreed

\* The socket changes, and no record.
LEMMA StillAgreed ==
  ASSUME Agreed, UNCHANGED recordVars
  PROVE  Agreed'
BY DEF Agreed, Passed, Knows, Reading, Whole, Writing, Reached, Drained, recordVars

\* What s knows when its handshake is over.
LEMMA ServingKnows ==
  ASSUME TypeOK, Agreed, NEW s \in Side, Serving(s)
  PROVE  LET c == ssl[s]
         IN  /\ c \in Context /\ c.state = 16 /\ Place(c) = 15 /\ ~gone[s]
             /\ c.key = T(conf, 9) /\ c.tin /\ c.tout
             /\ \A p \in Side : SealedAt(conf, p, 15) = T(conf, 9)
             /\ out[s] # None => out[s] \in Record /\ out[s].msg \notin Plain
             /\ Whole => Reached(s) \in 1 .. 15 /\ Even(conf, s, Reached(s), 15)
<1>1. ssl[s] \in Context /\ ssl[s].state = 16 /\ Place(ssl[s]) = 15 /\ ~gone[s]
      /\ (out[s] # None => out[s] \in Record) /\ Reached(s) \in 1 .. 15
  BY Bounds, ContextPlace, States DEF Serving
<1>2. Knows(s)
  BY DEF Agreed
<1>3. ssl[s].key = T(conf, 9) /\ ssl[s].tin /\ ssl[s].tout
  BY <1>1, Knowing DEF Suits, ClientFits, ServerFits, Side
<1>4. \A p \in Side : SealedAt(conf, p, 15) = T(conf, 9)
  BY DEF SealedAt
<1>5. out[s] # None => out[s].msg \notin Plain
  BY <1>1, <1>2 DEF Knows, Drained
<1>6. Whole => Even(conf, s, Reached(s), 15)
  BY <1>1, <1>2, <1>5 DEF Knows, Writing, Continues
<1> QED
  BY <1>1, <1>3, <1>4, <1>5, <1>6

\* A message is written.
LEMMA WriteDataKeeps ==
  ASSUME TypeOK, TypeOK', Agreed, NEW s \in Side, WriteData(s)
  PROVE  Agreed'
<1>0. PICK p \in Side : p = Peer(s) /\ p # s /\ Peer(p) = s /\ Side = {s, p}
  BY Peers DEF Side
<1> DEFINE c == ssl[s]
<1> DEFINE r == Sealed(c, "Data", {}, <<>>)
<1>1. Serving(s) /\ out[s] = None /\ WriteRecord(s, c, "Data", {}, <<>>)
  BY DEF WriteData, Usable
<1>2. /\ c \in Context /\ c.state = 16 /\ Place(c) = 15 /\ c.key = T(conf, 9) /\ c.tout
      /\ Whole => Reached(s) \in 1 .. 15 /\ Even(conf, s, Reached(s), 15)
  BY <1>1, ServingKnows
<1>3. r.msg = "Data" /\ r.key = T(conf, 9)
  BY <1>2 DEF Sealed
<1>4. /\ ssl' = [ssl EXCEPT ![s] = c] /\ out' = [out EXCEPT ![s] = r]
      /\ UNCHANGED <<conf, in, gone, link>>
  BY <1>1 DEF WriteRecord, Becomes, Handshake
<1> HIDE DEF r
<1>5. ssl' = ssl /\ out'[s] = r /\ out'[p] = out[p]
  BY <1>0, <1>4 DEF TypeOK
<1>6. /\ Whole' = Whole /\ \A x \in Side : Reached(x)' = Reached(x)
  BY <1>4, <1>5 DEF Whole, Reached
<1>7. Knows(s) /\ Knows(p) /\ Passed
  BY <1>0 DEF Agreed
<1>8. Reading(s)' /\ Reading(p)'
  BY <1>4, <1>5, <1>7 DEF Knows, Reading
<1>9. Knows(p)'
  BY <1>4, <1>5, <1>6, <1>7, <1>8, EvenPlaces, OtherKnows
<1>10. Knows(s)'
  <2>1. r \notin {None} /\ r.msg \notin Plain /\ After(s, r) = 15
    <3>1. out'[s] \in Record \union {None}
      BY DEF TypeOK
    <3>2. r # None
      <4>1. {} \in Body /\ <<>> \in Transcript /\ "Data" \in Message
        BY Transcripts DEF Body, Message
      <4>2. r \in Record
        BY <1>2, <4>1, SealedRecord DEF r
      <4> QED
        BY <4>2, NoneAssumption
    <3> QED
      BY <1>3, <3>2 DEF Plain, Handshake, After
  <2>2. ASSUME Whole PROVE Continues(conf, s, r, Reached(s), 15)
    <3>1. Proper(conf, s, r, Reached(s))
      BY <1>2, <1>3, <2>2 DEF Proper, Plain, Handshake
    <3> QED
      BY <1>2, <2>1, <2>2, <3>1, EvenPlaces DEF Continues
  <2>3. Whole' => Writing(s)'
    BY <1>0, <1>2, <1>4, <1>5, <1>6, <2>2 DEF Writing
  <2> QED
    BY <1>4, <1>5, <1>7, <1>8, <2>1, <2>3 DEF Knows, Drained
<1>11. Passed'
  <2>1. \A x \in Side : Place(ssl'[x]) = Place(ssl[x])
    BY <1>5
  <2>2. out'["server"] \in {out["server"], None} \/ out'["server"].msg \notin Plain
    BY <1>0, <1>3, <1>5 DEF Side, Plain, Handshake
  <2>3. \A i \in DOMAIN in'["client"] : \E n \in DOMAIN in["client"] :
          in'["client"][i] = in["client"][n]
    BY <1>4
  <2> QED
    BY <1>4, <1>7, <2>1, <2>2, <2>3, PassedLess DEF Side
<1> QED
  BY <1>0, <1>9, <1>10, <1>11 DEF Agreed

\* A record is sent, and is reported not to have been.
LEMMA ReportedLostKeeps ==
  ASSUME TypeOK, TypeOK', Agreed, NEW s \in Side, FlushReportedLost(s)
  PROVE  Agreed'
<1>0. PICK p \in Side : p = Peer(s) /\ p # s /\ Peer(p) = s /\ Side = {s, p}
  BY Peers DEF Side
<1> DEFINE r == out[s]
<1> DEFINE a == [r EXCEPT !.msg = "Again"]
<1>1. /\ Serving(s) /\ r # None /\ in' = Arrive(s, r)
      /\ out' = [out EXCEPT ![s].msg = "Again"]
      /\ UNCHANGED <<conf, ssl, gone, link>>
  BY DEF FlushReportedLost
<1>2. /\ ssl[s] \in Context /\ ssl[s].state = 16 /\ Place(ssl[s]) = 15 /\ ~gone[s]
      /\ r \in Record
  BY <1>1, ServingKnows
<1>3. out'[s] = a /\ out'[p] = out[p]
  BY <1>0, <1>1 DEF TypeOK
<1>4. a \in Record /\ a.msg = "Again" /\ a # None
  <2>1. "Again" \in Message
    BY DEF Message
  <2>2. a \in Record
    BY <1>2, <2>1 DEF Record
  <2> QED
    BY <1>2, <2>2, NoneAssumption DEF Record
<1>5. Knows(s) /\ Knows(p) /\ Passed
  BY <1>0 DEF Agreed
<1>6. in'[s] = in[s]
  BY <1>0, <1>1 DEF Arrive, TypeOK
<1>7. (Carries(s) <=> Whole) /\ Whole' = Whole
  BY <1>0, <1>1, <1>2 DEF Carries, Whole, Side
<1>8. Whole => /\ Proper(conf, s, r, Reached(s)) /\ Even(conf, s, After(s, r), 15)
  BY <1>1, <1>2, <1>5 DEF Knows, Writing, Continues
<1> HIDE DEF a
<1>9. /\ Reading(p)'
      /\ in'[p] # in[p] => Carries(s) /\ in'[p] = Append(in[p], r)
  BY <1>0, <1>1, <1>2, <1>7, <1>8, SentReads
<1>10. Knows(p)'
  <2>1. Reached(p)' = Reached(p)
    BY <1>0, <1>1, <1>6 DEF Reached
  <2> QED
    BY <1>1, <1>3, <1>5, <1>7, <1>9, <2>1, EvenPlaces, OtherKnows
<1>11. Knows(s)'
  <2>1. Reading(s)'
    BY <1>1, <1>5, <1>6 DEF Knows, Reading
  <2>2. a.msg \notin Plain /\ After(s, a) = 15
    BY <1>4 DEF Plain, Handshake, After
  <2>3. ASSUME Whole' PROVE Writing(s)'
    <3>1. in'[p] = Append(in[p], r)
      BY <1>0, <1>1, <1>7, <2>3 DEF Arrive, TypeOK
    <3>2. Reached(s)' = After(s, r)
      <4>1. in[p] \in Seq(Record) /\ Way(conf, s, in[p], Place(ssl[p]))
            /\ Reached(s) = End(s, in[p], Place(ssl[p]))
        BY <1>0, <1>5, Bounds DEF Knows, Reading, Reached
      <4>2. End(s, Append(in[p], r), Place(ssl[p])) = After(s, r)
        BY <1>2, <1>7, <1>8, <2>3, <4>1, WayAppend
      <4> QED
        BY <1>0, <1>1, <3>1, <4>2 DEF Reached
    <3>3. Proper(conf, s, a, After(s, r))
      BY <1>4, <1>7, <1>8, <2>2, <2>3 DEF Proper
    <3>4. Continues(conf, s, a, After(s, r), 15)
      BY <1>4, <1>7, <1>8, <2>2, <2>3, <3>3, EvenPlaces DEF Continues
    <3> QED
      BY <1>1, <1>2, <1>3, <3>2, <3>4 DEF Writing
  <2> QED
    BY <1>1, <1>3, <1>5, <2>1, <2>2, <2>3 DEF Knows, Drained
<1>12. Passed'
  <2>1. \A i \in DOMAIN in'["client"] :
           \/ \E n \in DOMAIN in["client"] : in'["client"][i] = in["client"][n]
           \/ out["server"] # None /\ in'["client"][i] = out["server"]
    <3>1. \/ in'["client"] = in["client"]
          \/ s = "server" /\ out["server"] # None
               /\ in'["client"] = Append(in["client"], out["server"])
      BY <1>0, <1>1, <1>6, <1>9 DEF Side
    <3>2. in["client"] \in Seq(Record)
      BY Bounds DEF Side
    <3> QED
      BY <3>1, <3>2
  <2>2. out'["server"] \in {out["server"], None} \/ out'["server"].msg \notin Plain
    BY <1>0, <1>3, <1>4 DEF Side, Plain, Handshake
  <2> QED
    BY <1>1, <1>5, <2>1, <2>2, PassedLess
<1> QED
  BY <1>0, <1>10, <1>11, <1>12 DEF Agreed

\* What s reads at the end of its handshake is of the session, or an alert.
LEMMA ReadsSession ==
  ASSUME TypeOK, Agreed, NEW s \in Side, Serving(s), in[s] # <<>>
  PROVE  LET r == Head(in[s])
         IN  /\ r \in Record /\ r.msg \notin Plain
             /\ r.msg \in {"Data", "CloseNotify", "Fatal"} => Opens(ssl[s], r)
             /\ Tail(in[s]) \in Seq(Record)
             /\ Way(conf, Peer(s), Tail(in[s]), 15)
             /\ End(Peer(s), Tail(in[s]), 15) = End(Peer(s), in[s], 15)
<1>0. PICK p \in Side : p = Peer(s) /\ p # s /\ Peer(p) = s /\ Side = {s, p}
  BY Peers DEF Side
<1> DEFINE q == in[s]
<1> DEFINE r == Head(q)
<1>1. /\ Place(ssl[s]) = 15 /\ ssl[s].key = T(conf, 9) /\ ssl[s].tin
      /\ SealedAt(conf, p, 15) = T(conf, 9)
  BY ServingKnows
<1>2. q \in Seq(Record)
  BY Bounds
<1>3. Way(conf, p, q, 15)
  BY <1>0, <1>1 DEF Agreed, Knows, Reading
<1>4. /\ r \in Record /\ Proper(conf, p, r, 15)
      /\ Tail(q) \in Seq(Record)
      /\ Way(conf, p, Tail(q), After(p, r))
      /\ End(p, Tail(q), After(p, r)) = End(p, q, 15)
  BY <1>2, <1>3, WayTail
<1> HIDE DEF q, r
<1>5. r.msg \notin Plain
  <2> SUFFICES ASSUME r.msg \in Plain PROVE FALSE
    OBVIOUS
  <2> DEFINE m == PlaceOf(p, r.msg)
  <2>1. Mine(conf, p, m) /\ Even(conf, p, 15, m)
    BY <1>4 DEF Proper
  <2>2. m \in 1 .. 14
    BY <1>4, Behind
  <2> HIDE DEF m
  <2>3. 15 <= m <=> m <= m
    BY <2>1, <2>2 DEF Even
  <2> QED
    BY <2>2, <2>3
<1>6. After(p, r) = 15
  BY <1>5 DEF After
<1>7. r.msg \in {"Data", "CloseNotify", "Fatal"} => r.key = T(conf, 9)
  BY <1>1, <1>4 DEF Proper
<1>8. r.msg \in {"Data", "CloseNotify", "Fatal"} => Opens(ssl[s], r)
  BY <1>1, <1>7 DEF Opens
<1> QED
  BY <1>0, <1>4, <1>5, <1>6, <1>8 DEF q, r

\* A record of the session is read.  Its context is what it was, but for how it failed.
LEMMA SessionReads ==
  ASSUME TypeOK, TypeOK', Agreed, NEW s \in Side, Serving(s), in[s] # <<>>,
         NEW d \in Context, Place(d) = 15, Fits(conf, s, d), Becomes(s, d),
         in' = [in EXCEPT ![s] = Tail(@)], UNCHANGED <<conf, gone, link>>,
         \/ out' = out
         \/ out' = [out EXCEPT ![s] = Sealed(ssl[s], "Fatal", {}, <<>>)]
  PROVE  Agreed'
<1>0. PICK p \in Side : p = Peer(s) /\ p # s /\ Peer(p) = s /\ Side = {s, p}
  BY Peers DEF Side
<1> DEFINE q == in[s]
<1>1. /\ q \in Seq(Record) /\ Tail(q) \in Seq(Record)
      /\ Way(conf, p, Tail(q), 15) /\ End(p, Tail(q), 15) = End(p, q, 15)
  BY <1>0, ReadsSession, Bounds
<1>2. /\ Place(ssl[s]) = 15 /\ ssl[s].key = T(conf, 9) /\ ssl[s].tout /\ ssl[s].state = 16
      /\ SealedAt(conf, s, 15) = T(conf, 9)
      /\ out[s] # None => out[s].msg \notin Plain
      /\ Whole => Reached(s) \in 1 .. 15 /\ Even(conf, s, Reached(s), 15)
  BY ServingKnows
<1>3. /\ in'[s] = Tail(q) /\ in'[p] = in[p] /\ out'[p] = out[p]
      /\ out'[s] = out[s] \/ out'[s] = Sealed(ssl[s], "Fatal", {}, <<>>)
  BY <1>0 DEF TypeOK
<1>4. Reached(p) = End(p, q, 15)
  BY <1>0, <1>2 DEF Reached
<1>5. Even(conf, p, Reached(p), End(p, Tail(q), 15))
  BY <1>1, <1>4, EvenPlaces
<1> HIDE DEF q
<1>6. /\ ssl'[s] = d /\ ssl'[p] = ssl[p] /\ Whole' = Whole /\ Reached(s)' = Reached(s)
      /\ Reading(s)' /\ Knows(p)'
  BY <1>0, <1>1, <1>3, <1>5, OneGoesOn DEF q
<1>7. Knows(s) /\ Passed
  BY DEF Agreed
<1>8. Knows(s)'
  <2>1. CASE out'[s] = out[s]
    <3>1. Writing(s) => Writing(s)'
      BY <1>2, <1>6, <2>1 DEF Writing
    <3>2. Drained(s)'
      BY <1>2, <2>1 DEF Drained
    <3> QED
      BY <1>6, <1>7, <3>1, <3>2 DEF Knows
  <2>2. CASE out'[s] = Sealed(ssl[s], "Fatal", {}, <<>>)
    <3> DEFINE r == out'[s]
    <3>1. r.msg = "Fatal" /\ r.key = T(conf, 9) /\ r.msg \notin Plain
      BY <1>2, <2>2 DEF Sealed, Plain, Handshake
    <3>2. r # None /\ After(s, r) = 15
      <4>1. r \in Record \union {None}
        BY DEF TypeOK
      <4>2. {} \in Body /\ <<>> \in Transcript /\ "Fatal" \in Message
        BY Transcripts DEF Body, Message
      <4>3. r \in Record
        BY <2>2, <4>2, Bounds, SealedRecord
      <4> QED
        BY <3>1, <4>3, NoneAssumption DEF After
    <3>3. ASSUME Whole PROVE Continues(conf, s, r, Reached(s), 15)
      <4>1. SealedAt(conf, s, Reached(s)) = SealedAt(conf, s, 15)
        BY <1>2, <3>3, EvenSealed
      <4>2. Proper(conf, s, r, Reached(s))
        BY <1>2, <3>1, <4>1 DEF Proper, Plain, Handshake
      <4> QED
        BY <1>2, <3>1, <3>2, <3>3, <4>2, EvenPlaces DEF Continues
    <3>4. Whole' => Writing(s)'
      BY <1>6, <3>3 DEF Writing
    <3> QED
      BY <1>6, <3>1, <3>4 DEF Knows, Drained
  <2> QED
    BY <1>3, <2>1, <2>2
<1>9. Passed'
  <2>1. \A x \in Side : Place(ssl'[x]) = Place(ssl[x])
    BY <1>0, <1>2, <1>6
  <2>2. out'["server"] \in {out["server"], None} \/ out'["server"].msg \notin Plain
    BY <1>0, <1>3 DEF Side, Plain, Handshake, Sealed
  <2>3. \A i \in DOMAIN in'["client"] : \E n \in DOMAIN in["client"] :
          in'["client"][i] = in["client"][n]
    <3>1. in'["client"] = in["client"] \/ in'["client"] = Tail(in["client"])
      BY <1>0, <1>3 DEF Side, q
    <3>2. in["client"] \in Seq(Record) /\ in'["client"] \in Seq(Record)
      BY DEF TypeOK, Side
    <3>3. in["client"] # <<>> => \A i \in DOMAIN Tail(in["client"]) :
            i + 1 \in DOMAIN in["client"] /\ Tail(in["client"])[i] = in["client"][i + 1]
      BY <3>2
    <3>4. in'["client"] # in["client"] => in["client"] # <<>>
      BY <1>0, <1>3 DEF Side
    <3> QED
      BY <3>1, <3>3, <3>4
  <2> QED
    BY <1>7, <2>1, <2>2, <2>3, PassedLess DEF Side
<1> QED
  BY <1>0, <1>6, <1>8, <1>9 DEF Agreed

\* mbedtls_ssl_read.
LEMMA ReadDataKeeps ==
  ASSUME TypeOK, TypeOK', Agreed, NEW s \in Side, ReadData(s)
  PROVE  Agreed'
<1> DEFINE c == ssl[s]
<1> DEFINE r == Head(in[s])
<1>1. Serving(s) /\ c \in Context /\ c.fail = "none"
  BY Bounds DEF ReadData, Usable
<1>2. Place(c) = 15 /\ Fits(conf, s, c)
  BY <1>1, ServingKnows DEF Agreed, Knows
<1>3. CASE ReadsData(s) \/ ReadsNotification(s)
  <2>1. in[s] # <<>> /\ Took(s, c)
    BY <1>3 DEF ReadsData, ReadsNotification, Arrived
  <2> QED
    BY <1>1, <1>2, <2>1, SessionReads DEF Took
<1>4. CASE ReadsError(s)
  <2> DEFINE why == Reason(c, r)
  <2> DEFINE d == [c EXCEPT !.fail = why]
  <2>1. /\ in[s] # <<>> /\ ~Acceptable(c, r, {"Data", "CloseNotify"})
        /\ ssl' = [ssl EXCEPT ![s].fail = why]
        /\ out' = IF why = "peer" THEN out ELSE [out EXCEPT ![s] = Sealed(c, "Fatal", {}, <<>>)]
        /\ in' = [in EXCEPT ![s] = Tail(@)]
        /\ UNCHANGED <<conf, gone, link>>
    BY <1>4 DEF ReadsError
  <2>2. /\ r \in Record /\ r.msg \notin Plain
        /\ r.msg \in {"Data", "CloseNotify", "Fatal"} => Opens(c, r)
    BY <1>1, <2>1, ReadsSession
  <2>3. r.msg \in {"Fatal", "Again"}
    <3>1. r.msg \notin {"Data", "CloseNotify"}
      BY <2>1, <2>2 DEF Acceptable, Signed
    <3> QED
      BY <2>2, <3>1 DEF Record, Message, Plain
  <2>4. why \in {"peer", "spoilt"}
    <3>1. CASE r.msg = "Again"
      BY <3>1 DEF Reason
    <3>2. CASE r.msg = "Fatal"
      BY <2>2, <3>2 DEF Reason
    <3> QED
      BY <2>3, <3>1, <3>2
  <2>5. Becomes(s, d)
    BY <2>1 DEF Becomes
  <2>6. d \in Context /\ Place(d) = 15 /\ Fits(conf, s, d)
    <3>1. why \in Failure \ {"protocol", "garbled"}
      BY <2>4 DEF Failure
    <3> HIDE DEF why
    <3> QED
      BY <1>1, <1>2, <3>1, FailFits
  <2>7. out' = out \/ out' = [out EXCEPT ![s] = Sealed(c, "Fatal", {}, <<>>)]
    BY <2>1
  <2> HIDE DEF d
  <2> QED
    BY <1>1, <2>1, <2>5, <2>6, <2>7, SessionReads
<1> QED
  BY <1>3, <1>4 DEF ReadData

\* An end that is served closes its session: the other one may get its farewell.
LEMMA ClosesKeeps ==
  ASSUME TypeOK, TypeOK', Agreed, NEW s \in Side, CloseSession(s),
         NEW d \in Context, Becomes(s, d), d = ssl[s] \/ (d = Fresh /\ s = "client")
  PROVE  Agreed'
<1>0. PICK p \in Side : p = Peer(s) /\ p # s /\ Peer(p) = s /\ Side = {s, p}
  BY Peers DEF Side
<1> DEFINE r == Farewell(s)
<1>1. /\ Serving(s) /\ gone' = [gone EXCEPT ![s] = TRUE] /\ out' = [out EXCEPT ![s] = None]
      /\ conf' = conf /\ link' = link
      /\ in' = [in EXCEPT ![s] = <<>>] \/ in' = [Arrive(s, r) EXCEPT ![s] = <<>>]
  BY DEF CloseSession
<1>2. /\ ssl[s] \in Context /\ ssl[s].state = 16 /\ Place(ssl[s]) = 15 /\ ~gone[s]
      /\ ssl[s].key = T(conf, 9) /\ ssl[s].tout
      /\ out[s] # None => out[s] \in Record /\ out[s].msg \notin Plain
      /\ Whole => Reached(s) \in 1 .. 15 /\ Even(conf, s, Reached(s), 15)
  BY <1>1, ServingKnows
<1>3. r \in Record /\ r.msg \notin Plain
      /\ (out[s] # None => r = out[s])
      /\ (out[s] = None => r.msg = "CloseNotify" /\ r.key = T(conf, 9))
  <2>1. CASE out[s] # None
    BY <1>2, <2>1 DEF Farewell
  <2>2. CASE out[s] = None
    <3>1. r = Sealed(ssl[s], "CloseNotify", {}, <<>>)
      BY <2>2 DEF Farewell
    <3>2. {} \in Body /\ <<>> \in Transcript /\ "CloseNotify" \in Message
      BY Transcripts DEF Body, Message
    <3>3. r \in Record /\ r.msg = "CloseNotify"
      BY <1>2, <3>1, <3>2, SealedRecord
    <3>4. r.key = T(conf, 9)
      BY <1>2, <3>1 DEF Sealed
    <3> QED
      BY <2>2, <3>3, <3>4 DEF Plain, Handshake
  <2> QED
    BY <2>1, <2>2
<1> HIDE DEF r
<1>4. /\ ssl'[s] = d /\ ssl'[p] = ssl[p] /\ gone'[s] /\ gone'[p] = gone[p] /\ out'[s] = None
      /\ out'[p] = out[p] /\ in'[s] = <<>>
      /\ in'[p] = in[p] \/ in'[p] = Arrive(s, r)[p]
  <2>1. in \in [Side -> Seq(Record)] /\ Arrive(s, r) \in [Side -> Seq(Record)]
    BY <1>3, Arrives DEF TypeOK
  <2>2. DOMAIN ssl = Side /\ DOMAIN gone = Side /\ DOMAIN out = Side
    BY DEF TypeOK
  <2> QED
    BY <1>0, <1>1, <2>1, <2>2 DEF Becomes
<1>5. Knows(s) /\ Knows(p) /\ Passed
  BY <1>0 DEF Agreed
<1>6. ~Whole'
  BY <1>4 DEF Whole, Side
<1>7. ASSUME Carries(s) PROVE Proper(conf, s, r, Reached(s))
  <2>1. Whole
    BY <1>0, <1>2, <1>7 DEF Whole, Carries, Side
  <2>2. CASE out[s] # None
    BY <1>3, <1>5, <2>1, <2>2 DEF Knows, Writing, Continues
  <2>3. CASE out[s] = None
    BY <1>2, <1>3, <2>1, <2>3 DEF Proper, Plain, Handshake
  <2> QED
    BY <2>2, <2>3
<1>8. /\ Reading(p)'
      /\ in'[p] = in[p] \/ in'[p] = Append(in[p], r)
  BY <1>0, <1>1, <1>3, <1>4, <1>7, SentReads
<1>9. Knows(p)'
  BY <1>1, <1>4, <1>5, <1>6, <1>8, OtherKnows
<1>10. Knows(s)'
  <2>1. Reading(s)'
    BY <1>4 DEF Reading, Way
  <2>2. Fits(conf, s, d)
    BY <1>5, FreshKnows DEF Knows
  <2> QED
    BY <1>1, <1>4, <1>6, <2>1, <2>2 DEF Knows, Drained
<1>11. Passed'
  <2>1. \A i \in DOMAIN in'["client"] :
           \/ \E n \in DOMAIN in["client"] : in'["client"][i] = in["client"][n]
           \/ in'["client"][i].msg \notin Plain
    <3>1. in'["client"] = in["client"] \/ in'["client"] = <<>>
            \/ in'["client"] = Append(in["client"], r)
      BY <1>0, <1>4, <1>8 DEF Side
    <3>2. in["client"] \in Seq(Record)
      BY Bounds DEF Side
    <3> QED
      BY <1>3, <3>1, <3>2
  <2>2. /\ Place(ssl'["client"]) = 1 \/ Place(ssl'["client"]) = Place(ssl["client"])
        /\ Place(ssl'["server"]) = Place(ssl["server"])
    BY <1>0, <1>4, FreshKnows DEF Side
  <2>3. out'["server"] \in {out["server"], None}
    BY <1>0, <1>4 DEF Side
  <2> QED
    BY <1>1, <1>5, <2>1, <2>2, <2>3, PassedLess
<1> QED
  BY <1>0, <1>9, <1>10, <1>11 DEF Agreed

\* The connection is cut.
LEMMA LostKeeps ==
  ASSUME TypeOK, TypeOK', Agreed, Lost
  PROVE  Agreed'
<1>1. PICK n \in [Side -> 0 .. 1] :
        in' = [s \in Side |-> SubSeq(in[s], 1, IF n[s] < Len(in[s]) THEN n[s] ELSE Len(in[s]))]
  BY DEF Lost
<1>2. UNCHANGED <<conf, ssl, out, gone>> /\ ~Whole'
  BY DEF Lost, Whole
<1>3. ASSUME NEW s \in Side
      PROVE  /\ Knows(s)'
             /\ \A i \in DOMAIN in'[s] : \E m \in DOMAIN in[s] : in'[s][i] = in[s][m]
  <2> DEFINE q == in[s]
  <2> DEFINE l == IF n[s] < Len(q) THEN n[s] ELSE Len(q)
  <2>1. in'[s] = SubSeq(q, 1, l)
    BY <1>1
  <2>2. q \in Seq(Record) /\ Knows(s)
    BY Bounds DEF Agreed
  <2>3. Len(q) \in Nat /\ n[s] \in 0 .. 1
    BY <1>1, <2>2
  <2>4. l \in 0 .. Len(q)
    BY <2>3
  <2> HIDE DEF l, q
  <2>5. Way(conf, Peer(s), SubSeq(q, 1, l), Place(ssl[s]))
    BY <2>2, <2>4, WayPrefix DEF Knows, Reading, q
  <2>6. q = <<>> => SubSeq(q, 1, l) = <<>>
    BY <2>2, <2>4
  <2>7. Reading(s)'
    BY <1>2, <2>1, <2>2, <2>5, <2>6 DEF Knows, Reading, q
  <2>8. Knows(s)'
    BY <1>2, <2>2, <2>7 DEF Knows, Drained
  <2>9. \A i \in DOMAIN SubSeq(q, 1, l) : i \in DOMAIN q /\ SubSeq(q, 1, l)[i] = q[i]
    BY <2>2, <2>4
  <2> QED
    BY <2>1, <2>8, <2>9 DEF q
<1>4. Passed'
  <2>1. "client" \in Side
    BY DEF Side
  <2> QED
    BY <1>2, <1>3, <2>1, PassedLess DEF Agreed
<1> QED
  BY <1>3, <1>4 DEF Agreed

\* Every step keeps the agreement.
LEMMA KeepsAgreed ==
  ASSUME TypeOK, TypeOK', Agreed, [Next]_vars
  PROVE  Agreed'
<1>0. "client" \in Side /\ "server" \in Side
  BY DEF Side
<1>1. CASE Create \/ Destroy \/ UNCHANGED vars
  <2>1. UNCHANGED recordVars
    BY <1>1 DEF Create, Destroy, vars
  <2> QED
    BY <2>1, StillAgreed
<1>2. CASE Open
  BY <1>2, OpenKeeps
<1>3. CASE OpenSteps \/ OpenFails
  <2>1. \/ Passes("client") \/ Says("client") \/ Follows("client") \/ Quits("client")
        \/ FlushOutput("client")
    BY <1>3, ClientShapes DEF OpenSteps, OpenFails
  <2> QED
    BY <1>0, <2>1, PassesKeeps, SaysKeeps, FollowsKeeps, QuitsKeeps, FlushKeeps
<1>4. CASE ServerSteps \/ ServerFails
  <2>1. \/ Passes("server") \/ Says("server") \/ Follows("server") \/ Quits("server")
        \/ FlushOutput("server")
    BY <1>4, ServerShapes DEF ServerSteps, ServerFails
  <2> QED
    BY <1>0, <2>1, PassesKeeps, SaysKeeps, FollowsKeeps, QuitsKeeps, FlushKeeps
<1>5. CASE Close
  <2>1. CloseSession("client") /\ Becomes("client", Fresh)
    BY <1>5 DEF Close, Becomes
  <2> QED
    BY <1>0, <2>1, FreshContext, ClosesKeeps
<1>6. CASE ServerCloses
  <2>1. CloseSession("server") /\ Becomes("server", ssl["server"])
    BY <1>6 DEF ServerCloses, Becomes, TypeOK
  <2>2. ssl["server"] \in Context
    BY <1>0, Bounds
  <2> QED
    BY <1>0, <2>1, <2>2, ClosesKeeps
<1>7. ASSUME NEW s \in Side,
             WriteData(s) \/ FlushData(s) \/ FlushReportedLost(s) \/ ReadData(s)
      PROVE  Agreed'
  BY <1>7, WriteDataKeeps, FlushKeeps, ReportedLostKeeps, ReadDataKeeps DEF FlushData
<1>8. CASE Lost
  BY <1>8, LostKeeps
<1> QED
  BY <1>1, <1>2, <1>3, <1>4, <1>5, <1>6, <1>7, <1>8 DEF Next

\* What is agreed is what was to be.
LEMMA AgreedAgrees == TypeOK /\ Agreed => SessionsAgree
<1> SUFFICES ASSUME TypeOK, Agreed PROVE SessionsAgree
  OBVIOUS
<1> DEFINE c == ssl["client"]
<1> DEFINE d == ssl["server"]
<1>1. /\ c \in Context /\ d \in Context /\ c.state \in 0 .. 17 /\ d.state \in 0 .. 17
      /\ ClientFits(conf, c) /\ ServerFits(conf, d)
  BY Knowing DEF Suits, Side
<1>2. NeverMisunderstood
  BY DEF NeverMisunderstood, Agreed, Knows, Fits
<1> HIDE DEF c, d
<1>3. c.key # <<>> /\ d.key # <<>> => c.key = d.key /\ c.ke = d.ke
  BY <1>1 DEF ClientFits, ServerFits
<1>4. /\ c.state = 16 /\ conf.authmode["client"] = "required" => c.peer = "trusted"
      /\ d.state = 16 /\ conf.authmode["server"] = "required" => d.peer = "trusted"
  BY <1>1 DEF ClientFits, ServerFits
<1>5. ASSUME c.state = 16 PROVE d.state >= 14
  <2>1. Place(c) = 15 /\ Place(d) \in 1 .. 15
    BY <1>1, <1>5, ContextPlace
  <2>2. Mine(conf, "server", 14) /\ 14 \in 1 .. 14
    BY DEF Mine
  <2>3. 14 < Place(d)
    BY <2>1, <2>2 DEF Agreed, Passed, Led, c, d
  <2>4. Place(d) = 15
    BY <2>1, <2>3
  <2> QED
    BY <1>1, <2>4, ContextPlace
<1> QED
  BY <1>2, <1>3, <1>4, <1>5, States DEF SessionsAgree, SameSecrets, OnlyWhenProved, Side, c, d

\* The two ends of this library understand one another, have the same secrets
\* and suite, and are through only when the certificate they insist on is proved
\* and the server has finished.
THEOREM Agreement == Spec => []SessionsAgree
<1>1. Init => Agreed
  BY InitAgreed
<1>2. TypeOK /\ TypeOK' /\ Agreed /\ [Next]_vars => Agreed'
  BY KeepsAgreed
<1>3. TypeOK /\ Agreed => SessionsAgree
  BY AgreedAgrees
<1> QED
  BY <1>1, <1>2, <1>3, Typing, PTL DEF Spec
=============================================================================
