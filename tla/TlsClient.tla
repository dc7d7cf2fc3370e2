------------------------------ MODULE TlsClient ------------------------------
(***************************************************************************)
(* The client's handshake, ssl_cli.c: one action for each state of         *)
(* mbedtls_ssl_handshake_client_step.                                      *)
(***************************************************************************)
EXTENDS TlsRecords

LOCAL c == ssl["client"]

\* ssl_write_client_hello
WriteClientHello ==
  At("client", CLIENT_HELLO) /\ WriteMessage("client", "ClientHello", {"ticket"})

\* ssl_parse_server_hello
ParseServerHello ==
  /\ At("client", SERVER_HELLO)
  /\ Arrived("client", {"ServerHello"})
  /\ LET said == Head(in["client"]).body
     IN  Took("client", [Stepped(Heard("client")) EXCEPT
                           !.ke = CHOOSE ke \in said \intersect KeyExchange : TRUE,
                           !.tick = "ticket" \in said])

\* ssl_parse_server_key_exchange: without one when the key of the exchange is
\* in the certificate.
ParseServerKeyExchange ==
  IF c.ke = "ECDHE"
  THEN /\ At("client", SERVER_KEY_EXCHANGE)
       /\ Arrived("client", {"ServerKeyExchange"})
       /\ Took("client", Stepped(Heard("client")))
  ELSE Steps("client", SERVER_KEY_EXCHANGE)

\* Mutant of ParseCertificateRequest: the message is not kept for the next step.
SwallowCertificateRequest ==
  /\ At("client", CERTIFICATE_REQUEST)
  /\ Arrived("client", Handshake)
  /\ Took("client", [Stepped(Heard("client")) EXCEPT
                       !.auth = Head(in["client"]).msg = "CertificateRequest"])
\* ssl_parse_certificate_request: any other message is kept for the next step.
ParseCertificateRequest ==
  /\ At("client", CERTIFICATE_REQUEST)
  /\ Arrived("client", Handshake)
  /\ IF Head(in["client"]).msg = "CertificateRequest"
     THEN Took("client", [Stepped(Heard("client")) EXCEPT !.auth = TRUE])
     ELSE /\ Becomes("client", [Stepped(Heard("client")) EXCEPT !.kept = TRUE])
          /\ UNCHANGED <<conf, in, out, gone, link>>

\* ssl_parse_server_hello_done
ParseServerHelloDone ==
  /\ At("client", SERVER_HELLO_DONE)
  /\ Arrived("client", {"ServerHelloDone"})
  /\ Took("client", Stepped(Heard("client")))

SkipCertificate == ~c.auth /\ Steps("client", CLIENT_CERTIFICATE)

\* ssl_write_client_key_exchange
WriteClientKeyExchange ==
  At("client", CLIENT_KEY_EXCHANGE) /\ WriteMessage("client", "ClientKeyExchange", {})

\* ssl_write_certificate_verify, which derives the keys whether it writes or
\* not.
Signs == c.auth /\ conf.cert["client"] # "none"
WriteCertificateVerify ==
  /\ At("client", CERTIFICATE_VERIFY)
  /\ LET d == Stepped(DeriveKeys(c))
     IN  IF Signs
         THEN WriteRecord("client", d, "CertificateVerify", {}, c.heard)
         ELSE Becomes("client", d) /\ UNCHANGED <<conf, in, out, gone, link>>

\* ssl_parse_new_session_ticket
ParseNewSessionTicket ==
  /\ At("client", SERVER_CHANGE_CIPHER_SPEC)
  /\ c.tick
  /\ Arrived("client", {"NewSessionTicket"})
  /\ Took("client", [Heard("client") EXCEPT !.tick = FALSE])

\* What the step of the client's state reads.
ClientExpects ==
  CASE c.state = SERVER_HELLO -> {"ServerHello"}
    [] c.state = SERVER_CERTIFICATE -> {"Certificate"}
    [] c.state = SERVER_KEY_EXCHANGE /\ c.ke = "ECDHE" -> {"ServerKeyExchange"}
    [] c.state = CERTIFICATE_REQUEST -> Handshake
    [] c.state = SERVER_HELLO_DONE -> {"ServerHelloDone"}
    [] c.state = SERVER_CHANGE_CIPHER_SPEC /\ c.tick -> {"NewSessionTicket"}
    [] c.state = SERVER_CHANGE_CIPHER_SPEC /\ ~c.tick -> {"ChangeCipherSpec"}
    [] c.state = SERVER_FINISHED -> {"Finished"}
    [] OTHER -> {}

\* mbedtls_ssl_handshake_client_step
ClientStep ==
  \/ WriteClientHello
  \/ ParseServerHello
  \/ ParseCertificate("client", SERVER_CERTIFICATE)
  \/ ParseServerKeyExchange
  \/ ParseCertificateRequest
  \/ ParseServerHelloDone
  \/ WriteCertificate("client", CLIENT_CERTIFICATE)
  \/ SkipCertificate
  \/ WriteClientKeyExchange
  \/ WriteCertificateVerify
  \/ WriteChangeCipherSpec("client", CLIENT_CHANGE_CIPHER_SPEC)
  \/ WriteFinished("client", CLIENT_FINISHED)
  \/ ParseNewSessionTicket
  \/ ~c.tick /\ ParseChangeCipherSpec("client", SERVER_CHANGE_CIPHER_SPEC)
  \/ ParseFinished("client", SERVER_FINISHED)
  \/ HandshakeStep("client", ClientExpects)
=============================================================================
