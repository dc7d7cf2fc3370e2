------------------------------ MODULE TlsServer ------------------------------
(***************************************************************************)
(* The server's handshake, ssl_srv.c: one action for each state of         *)
(* mbedtls_ssl_handshake_server_step.  No board of the repository is a TLS *)
(* server; this is the peer the client is checked against.                 *)
(***************************************************************************)
EXTENDS TlsRecords

LOCAL c == ssl["server"]

\* ssl_parse_client_hello: the suite is chosen, and whether there will be a
\* ticket.
ParseClientHello ==
  /\ At("server", CLIENT_HELLO)
  /\ Arrived("server", {"ClientHello"})
  /\ Took("server", [Stepped(Heard("server")) EXCEPT
                       !.ke = conf.ke,
                       !.tick = conf.ticket /\ "ticket" \in Head(in["server"]).body])

\* ssl_write_server_hello
WriteServerHello ==
  /\ At("server", SERVER_HELLO)
  /\ WriteMessage("server", "ServerHello", {c.ke} \union IF c.tick THEN {"ticket"} ELSE {})

\* ssl_write_server_key_exchange
WriteServerKeyExchange ==
  IF c.ke = "ECDHE"
  THEN At("server", SERVER_KEY_EXCHANGE) /\ WriteMessage("server", "ServerKeyExchange", {})
  ELSE Steps("server", SERVER_KEY_EXCHANGE)

\* ssl_write_certificate_request
WriteCertificateRequest ==
  IF conf.authmode["server"] # "none"
  THEN At("server", CERTIFICATE_REQUEST) /\ WriteMessage("server", "CertificateRequest", {})
  ELSE Steps("server", CERTIFICATE_REQUEST)

\* ssl_write_server_hello_done
WriteServerHelloDone ==
  At("server", SERVER_HELLO_DONE) /\ WriteMessage("server", "ServerHelloDone", {})

\* Nothing was asked for.
AsksNothing == conf.authmode["server"] = "none"
SkipClientCertificate == AsksNothing /\ Steps("server", CLIENT_CERTIFICATE)

\* ssl_parse_client_key_exchange
ParseClientKeyExchange ==
  /\ At("server", CLIENT_KEY_EXCHANGE)
  /\ Arrived("server", {"ClientKeyExchange"})
  /\ Took("server", Stepped(DeriveKeys(Heard("server"))))

\* ssl_parse_certificate_verify
ParseCertificateVerify ==
  IF c.peer # "none"
  THEN /\ At("server", CERTIFICATE_VERIFY)
       /\ Arrived("server", {"CertificateVerify"})
       /\ Took("server", Stepped(Heard("server")))
  ELSE Steps("server", CERTIFICATE_VERIFY)

\* ssl_write_new_session_ticket, in the state of the ChangeCipherSpec.
WriteNewSessionTicket ==
  /\ At("server", SERVER_CHANGE_CIPHER_SPEC)
  /\ c.tick
  /\ WriteRecord("server", [c EXCEPT !.tick = FALSE], "NewSessionTicket", {}, <<>>)

\* What the step of the server's state reads.
ServerExpects ==
  CASE c.state = CLIENT_HELLO -> {"ClientHello"}
    [] c.state = CLIENT_CERTIFICATE /\ ~AsksNothing -> {"Certificate"}
    [] c.state = CLIENT_KEY_EXCHANGE -> {"ClientKeyExchange"}
    [] c.state = CERTIFICATE_VERIFY /\ c.peer # "none" -> {"CertificateVerify"}
    [] c.state = CLIENT_CHANGE_CIPHER_SPEC -> {"ChangeCipherSpec"}
    [] c.state = CLIENT_FINISHED -> {"Finished"}
    [] OTHER -> {}

\* mbedtls_ssl_handshake_server_step
ServerStep ==
  \/ ParseClientHello
  \/ WriteServerHello
  \/ WriteCertificate("server", SERVER_CERTIFICATE)
  \/ WriteServerKeyExchange
  \/ WriteCertificateRequest
  \/ WriteServerHelloDone
  \/ SkipClientCertificate
  \/ ~AsksNothing /\ ParseCertificate("server", CLIENT_CERTIFICATE)
  \/ ParseClientKeyExchange
  \/ ParseCertificateVerify
  \/ ParseChangeCipherSpec("server", CLIENT_CHANGE_CIPHER_SPEC)
  \/ ParseFinished("server", CLIENT_FINISHED)
  \/ WriteNewSessionTicket
  \/ ~c.tick /\ WriteChangeCipherSpec("server", SERVER_CHANGE_CIPHER_SPEC)
  \/ WriteFinished("server", SERVER_FINISHED)
  \/ HandshakeStep("server", ServerExpects)
=============================================================================
