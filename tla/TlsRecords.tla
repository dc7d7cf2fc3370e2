----------------------------- MODULE TlsRecords -----------------------------
(***************************************************************************)
(* The record layer of ssl_tls.c and the steps of the handshake that both  *)
(* ends share, over a connection that keeps the order of what it carries.  *)
(*                                                                         *)
(* A record has a message, what the message says, the transcript it signs  *)
(* (a Finished or a CertificateVerify), and the key it is sealed with, <<>> *)
(* when it is sent in the clear.  The key stands for the keys of the       *)
(* session: it is the transcript they were derived from.                   *)
(***************************************************************************)
EXTENDS Integers, Sequences

CONSTANTS
  Setups,   \* what the two ends may be set up for
  None

VARIABLES
  conf,   \* what the two ends are set up for
  ssl,    \* mbedtls_ssl_context of each end
  out,    \* the record an end has built and not sent (out_left)
  in,     \* the records on their way to an end
  gone,   \* has an end closed its side of the connection
  link    \* "up", "lost"

recordVars == <<conf, ssl, out, in, gone, link>>

Side == {"client", "server"}
Peer(s) == IF s = "client" THEN "server" ELSE "client"

HELLO_REQUEST == 0
CLIENT_HELLO == 1
SERVER_HELLO == 2
SERVER_CERTIFICATE == 3
SERVER_KEY_EXCHANGE == 4
CERTIFICATE_REQUEST == 5
SERVER_HELLO_DONE == 6
CLIENT_CERTIFICATE == 7
CLIENT_KEY_EXCHANGE == 8
CERTIFICATE_VERIFY == 9
CLIENT_CHANGE_CIPHER_SPEC == 10
CLIENT_FINISHED == 11
SERVER_CHANGE_CIPHER_SPEC == 12
SERVER_FINISHED == 13
FLUSH_BUFFERS == 14
HANDSHAKE_WRAPUP == 15
HANDSHAKE_OVER == 16
SERVER_NEW_SESSION_TICKET == 17

Handshake ==
  {"ClientHello", "ServerHello", "Certificate", "ServerKeyExchange",
   "CertificateRequest", "ServerHelloDone", "ClientKeyExchange",
   "CertificateVerify", "NewSessionTicket", "Finished"}
\* "Again" is a sealed record that was sent a second time.
Message == Handshake \union {"ChangeCipherSpec", "Data", "Fatal", "CloseNotify", "Again"}

\* The key exchange of the suite they agree on, whether the server gives
\* tickets, and the certificates: the server's must verify or need not, the
\* server may also ask for none, and each is one the other end trusts or not.
KeyExchange == {"RSA", "ECDH", "ECDHE"}
Setup ==
  {c \in [ke : KeyExchange, ticket : BOOLEAN,
          authmode : [Side -> {"none", "optional", "required"}],
          cert : [Side -> {"none", "trusted", "unknown"}]] :
     c.authmode["client"] # "none" /\ c.cert["server"] # "none"}
ASSUME SetupsAssumption == Setups # {} /\ Setups \subseteq Setup

\* The types of a record and of a context.
Body == SUBSET ({"ticket", "trusted", "unknown"} \union KeyExchange)
Transcript == Seq(Handshake \X Body)
Record == [msg : Message, body : Body, of : Transcript, key : Transcript]
ASSUME NoneAssumption == None \notin Record

Failure == {"own", "cert", "peer", "garbled", "spoilt", "protocol"}
Context ==
  [state : HELLO_REQUEST .. SERVER_NEW_SESSION_TICKET, fail : Failure \union {"none"},
   auth : BOOLEAN, peer : {"none", "trusted", "unknown"},
   ke : KeyExchange \union {"none"}, tick : BOOLEAN,
   heard : Transcript, key : Transcript,
   tin : BOOLEAN, tout : BOOLEAN, kept : BOOLEAN]

\* mbedtls_ssl_setup
Fresh ==
  [state |-> HELLO_REQUEST, fail |-> "none", auth |-> FALSE, peer |-> "none",
   ke |-> "none", tick |-> FALSE, heard |-> <<>>, key |-> <<>>,
   tin |-> FALSE, tout |-> FALSE, kept |-> FALSE]

RecordsInit ==
  /\ conf \in Setups
  /\ ssl = [s \in Side |-> Fresh]
  /\ out = [s \in Side |-> None]
  /\ in = [s \in Side |-> <<>>]
  /\ gone = [s \in Side |-> TRUE]
  /\ link = "lost"

\* A new connection, with a new context at either end.
Connected ==
  /\ ssl' = [s \in Side |-> Fresh]
  /\ out' = [s \in Side |-> None]
  /\ in' = [s \in Side |-> <<>>]
  /\ gone' = [s \in Side |-> FALSE]
  /\ link' = "up"
-----------------------------------------------------------------------------
(* Writing.                                                                 *)

\* Every step of the handshake begins with mbedtls_ssl_flush_output.
Handshaking(s) == ~gone[s] /\ ssl[s].fail = "none" /\ ssl[s].state # HANDSHAKE_OVER
At(s, n) == Handshaking(s) /\ out[s] = None /\ ssl[s].state = n

Becomes(s, c) == ssl' = [ssl EXCEPT ![s] = c]
Stepped(c) == [c EXCEPT !.state = @ + 1]

\* ssl_encrypt_buf: with transform_out, once there is one.
Sealed(c, m, body, of) ==
  [msg |-> m, body |-> body, of |-> of, key |-> IF c.tout THEN c.key ELSE <<>>]

\* mbedtls_ssl_write_record: the context is c when it is called.  The record
\* waits for a flush, which mbedtls_ssl_write_record only begins.
WriteRecord(s, c, m, body, of) ==
  /\ Becomes(s, IF m \in Handshake THEN [c EXCEPT !.heard = Append(@, <<m, body>>)] ELSE c)
  /\ out' = [out EXCEPT ![s] = Sealed(c, m, body, of)]
  /\ UNCHANGED <<conf, in, gone, link>>

WriteMessage(s, m, body) == WriteRecord(s, Stepped(ssl[s]), m, body, <<>>)

\* Does what s sends still get anywhere?
Carries(s) == link = "up" /\ ~gone[Peer(s)]
Arrive(s, r) == IF Carries(s) THEN [in EXCEPT ![Peer(s)] = Append(@, r)] ELSE in

\* mbedtls_ssl_flush_output
FlushOutput(s) ==
  /\ ~gone[s] /\ out[s] # None
  /\ in' = Arrive(s, out[s])
  /\ out' = [out EXCEPT ![s] = None]
  /\ UNCHANGED <<conf, ssl, gone, link>>

\* A step fails: the alert it may send is not waited for, and the caller
\* closes the connection.
Ends(s, why, alerts) ==
  /\ Becomes(s, [ssl[s] EXCEPT !.fail = why])
  /\ gone' = [gone EXCEPT ![s] = TRUE]
  /\ out' = [out EXCEPT ![s] = None]
  /\ \E next \in {in} \union {Arrive(s, r) : r \in alerts} :
       in' = [next EXCEPT ![s] = <<>>]
  /\ UNCHANGED <<conf, link>>

\* mbedtls_ssl_send_alert_message, which does not look at out_left.
FatalAlert(s) == {Sealed(ssl[s], "Fatal", {}, <<>>)}

\* f_send reports an error.
FlushFails(s) == Handshaking(s) /\ out[s] # None /\ Ends(s, "peer", {})

\* No memory, no entropy, no common parameters, a signature that is refused:
\* only the steps that read something send an alert about it.
Aborts(s, expected) ==
  /\ Handshaking(s) /\ out[s] = None
  /\ Ends(s, "own", IF expected = {} THEN {} ELSE FatalAlert(s))
-----------------------------------------------------------------------------
(* Reading.                                                                 *)

\* ssl_decrypt_buf: with transform_in, once there is one.
Opens(c, r) == r.key = (IF c.tin THEN c.key ELSE <<>>) /\ r.msg # "Again"

\* Mutant of Hears: a message that was kept is added a second time.
HearsTwice(c, r) ==
  IF r.msg \notin Handshake THEN c
  ELSE [c EXCEPT !.kept = FALSE, !.heard = Append(@, <<r.msg, r.body>>)]
\* mbedtls_ssl_read_record: a message is added to the transcript when it is
\* read, and not again when keep_current_message gives it a second time.
Hears(c, r) ==
  IF c.kept \/ r.msg \notin Handshake THEN [c EXCEPT !.kept = FALSE]
  ELSE [c EXCEPT !.heard = Append(@, <<r.msg, r.body>>)]

\* A Finished and a CertificateVerify are about the transcript before them.
Signed == {"Finished", "CertificateVerify"}
Acceptable(c, r, expected) ==
  Opens(c, r) /\ r.msg \in expected /\ (r.msg \in Signed => r.of = c.heard)

Arrived(s, expected) == in[s] # <<>> /\ Acceptable(ssl[s], Head(in[s]), expected)

\* The next record of s has been read, and its context is c.
Took(s, c) ==
  /\ Becomes(s, c)
  /\ in' = [in EXCEPT ![s] = Tail(@)]
  /\ UNCHANGED <<conf, out, gone, link>>

Heard(s) == Hears(ssl[s], Head(in[s]))

\* mbedtls_ssl_handle_message_type, and the checks of the message itself.
Reason(c, r) ==
  CASE r.msg = "Again" -> "spoilt"
    [] r.msg # "Again" /\ ~Opens(c, r) -> "garbled"
    [] Opens(c, r) /\ r.msg \in {"Fatal", "CloseNotify"} -> "peer"
    [] OTHER -> "protocol"

Misreads(s, expected) ==
  /\ in[s] # <<>>
  /\ ~Acceptable(ssl[s], Head(in[s]), expected)
  /\ LET why == Reason(ssl[s], Head(in[s]))
     IN  Ends(s, why, IF why = "peer" THEN {} ELSE FatalAlert(s))

\* f_recv: nothing comes any more.
SeesEnd(s) == in[s] = <<>> /\ (gone[Peer(s)] \/ link = "lost")
ReadEnds(s) == SeesEnd(s) /\ Ends(s, "peer", {})

\* What is read and is not what was expected.
ReadFails(s, expected) ==
  /\ Handshaking(s) /\ out[s] = None /\ expected # {}
  /\ Misreads(s, expected) \/ ReadEnds(s)
-----------------------------------------------------------------------------
(* The steps of both ends.                                                  *)

Steps(s, n) ==
  /\ At(s, n)
  /\ Becomes(s, Stepped(ssl[s]))
  /\ UNCHANGED <<conf, out, in, gone, link>>

\* ssl_derive_keys: the master secret is extended with the transcript.
DeriveKeys(c) == [c EXCEPT !.key = c.heard]

\* mbedtls_ssl_write_certificate; of a client that has none, an empty one.
Chain(s) == IF conf.cert[s] = "none" THEN {} ELSE {conf.cert[s]}
WriteCertificate(s, n) ==
  /\ At(s, n)
  /\ s = "client" => ssl[s].auth
  /\ WriteMessage(s, "Certificate", Chain(s))

\* mbedtls_ssl_parse_certificate
Verifies(s, chain) == conf.authmode[s] = "optional" \/ chain = {"trusted"}
Presented(chain) == IF chain = {} THEN "none" ELSE CHOOSE c \in chain : TRUE
ParseCertificate(s, n) ==
  /\ At(s, n)
  /\ Arrived(s, {"Certificate"})
  /\ LET chain == Head(in[s]).body
     IN  IF Verifies(s, chain)
         THEN Took(s, [Stepped(Heard(s)) EXCEPT !.peer = Presented(chain)])
         ELSE Ends(s, "cert", IF chain = {} THEN {} ELSE FatalAlert(s))

\* mbedtls_ssl_write_change_cipher_spec
WriteChangeCipherSpec(s, n) ==
  At(s, n) /\ WriteRecord(s, Stepped(ssl[s]), "ChangeCipherSpec", {}, <<>>)

\* mbedtls_ssl_parse_change_cipher_spec
ParseChangeCipherSpec(s, n) ==
  /\ At(s, n)
  /\ Arrived(s, {"ChangeCipherSpec"})
  /\ Took(s, [Stepped(Heard(s)) EXCEPT !.tin = TRUE])

\* mbedtls_ssl_write_finished
WriteFinished(s, n) ==
  /\ At(s, n)
  /\ WriteRecord(s, [Stepped(ssl[s]) EXCEPT !.tout = TRUE], "Finished", {}, ssl[s].heard)

\* mbedtls_ssl_parse_finished
ParseFinished(s, n) ==
  At(s, n) /\ Arrived(s, {"Finished"}) /\ Took(s, Stepped(Heard(s)))

\* mbedtls_ssl_handshake_wrapup frees the transcript with the handshake.
Wrapup(s) ==
  /\ At(s, HANDSHAKE_WRAPUP)
  /\ Becomes(s, [Stepped(ssl[s]) EXCEPT !.heard = <<>>])
  /\ UNCHANGED <<conf, out, in, gone, link>>

HandshakeStep(s, expected) ==
  \/ Steps(s, HELLO_REQUEST)
  \/ Steps(s, FLUSH_BUFFERS)
  \/ Wrapup(s)
  \/ FlushOutput(s)
  \/ ReadFails(s, expected)

\* What may go wrong in a step, and need not.
HandshakeTrouble(s, expected) == FlushFails(s) \/ Aborts(s, expected)
=============================================================================
