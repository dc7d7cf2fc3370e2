-------------------------------- MODULE NetTls --------------------------------
(***************************************************************************)
(* A TLS socket, net_tls_mbedtls.c: its life from net_sock_create to       *)
(* net_sock_destroy around the handshake of TlsClient, and the messages of *)
(* an open session in both directions.  The peer is the same library.      *)
(***************************************************************************)
EXTENDS TlsClient, TlsServer

CONSTANT MaxData   \* messages an end sends in one session
ASSUME MaxDataAssumption == MaxData \in Nat \ {0}

VARIABLES
  sock,       \* "none", "created", "opening", "open"
  sent,       \* history: the messages an end has put into records
  skipped,    \* history: has the user of the socket, the client here, been
              \* told that a message is sent of which there is no record
  got,        \* history: the messages an end has read
  notified    \* history: has an end read the other's close notification

sessionVars == <<sent, skipped, got, notified>>
vars == <<recordVars, sock, sessionVars>>

Init ==
  /\ RecordsInit
  /\ sock = "none"
  /\ sent = [s \in Side |-> 0]
  /\ skipped = FALSE
  /\ got = [s \in Side |-> 0]
  /\ notified = [s \in Side |-> FALSE]

\* net_sock_create_mbedtls
Create ==
  /\ sock = "none"
  /\ sock' = "created"
  /\ UNCHANGED <<recordVars, sessionVars>>

\* net_sock_open_mbedtls up to its loop of mbedtls_ssl_handshake; an error
\* before there is a connection leaves the socket as it was.
Open ==
  /\ sock = "created"
  /\ Connected
  /\ UNCHANGED conf
  /\ sock' = "opening"
  /\ sent' = [s \in Side |-> 0]
  /\ skipped' = FALSE
  /\ got' = [s \in Side |-> 0]
  /\ notified' = [s \in Side |-> FALSE]

\* Mutant of HandshakeOver: the loop ends with the last message.
LastMessageRead == ssl'["client"].state >= FLUSH_BUFFERS
\* mbedtls_ssl_handshake returns 0.
HandshakeOver == ssl'["client"].state = HANDSHAKE_OVER

\* The loop of net_sock_open_mbedtls: a step that fails closes the connection
\* and destroys the TCP socket; one that waits is called again.
LoopsOn ==
  /\ sock = "opening"
  /\ sock' = IF gone'["client"] THEN "created" ELSE IF HandshakeOver THEN "open" ELSE "opening"
  /\ UNCHANGED sessionVars
OpenSteps == ClientStep /\ LoopsOn
OpenFails == HandshakeTrouble("client", ClientExpects) /\ LoopsOn

ServerSteps == ServerStep /\ UNCHANGED <<sock, sessionVars>>
ServerFails == HandshakeTrouble("server", ServerExpects) /\ UNCHANGED <<sock, sessionVars>>
-----------------------------------------------------------------------------
(* An open session.                                                         *)

Serving(s) ==
  /\ ssl[s].state = HANDSHAKE_OVER /\ ~gone[s]
  /\ s = "client" => sock = "open"
\* The context of s has reported no error that its user must end it for.
Usable(s) == Serving(s) /\ ssl[s].fail = "none"

\* Mutant of WriteData: a pending record is overwritten by the next.
Overwrites(s) ==
  /\ Usable(s)
  /\ sent[s] < MaxData
  /\ WriteRecord(s, ssl[s], "Data", {}, <<>>)
  /\ sent' = [sent EXCEPT ![s] = @ + 1]
  /\ UNCHANGED <<sock, skipped, got, notified>>
\* ssl_write_real without a record pending: the message becomes one.
WriteData(s) ==
  /\ Usable(s)
  /\ out[s] = None
  /\ sent[s] < MaxData
  /\ WriteRecord(s, ssl[s], "Data", {}, <<>>)
  /\ sent' = [sent EXCEPT ![s] = @ + 1]
  /\ UNCHANGED <<sock, skipped, got, notified>>

\* With a record pending it is flushed, and the call returns the length of the
\* message it was passed, which may be that of the record or another one.
FlushData(s) ==
  /\ Serving(s)
  /\ FlushOutput(s)
  /\ \/ UNCHANGED skipped
     \/ s = "client" /\ skipped' = TRUE
  /\ UNCHANGED <<sock, sent, got, notified>>

\* f_send reports an error after all of the record has gone: out_left stays
\* and the next flush sends it a second time, with a sequence number that has
\* been used.
FlushReportedLost(s) ==
  /\ Serving(s)
  /\ out[s] # None /\ out[s].msg # "Again"
  /\ in' = Arrive(s, out[s])
  /\ out' = [out EXCEPT ![s].msg = "Again"]
  /\ UNCHANGED <<conf, ssl, gone, link, sock, sessionVars>>

ReadsData(s) ==
  /\ Arrived(s, {"Data"})
  /\ got' = [got EXCEPT ![s] = @ + 1]
  /\ Took(s, ssl[s])
  /\ UNCHANGED notified

ReadsNotification(s) ==
  /\ Arrived(s, {"CloseNotify"})
  /\ notified' = [notified EXCEPT ![s] = TRUE]
  /\ Took(s, ssl[s])
  /\ UNCHANGED got

\* A fatal alert, or a record that does not open: answered by an alert in the
\* place of whatever was pending.
ReadsError(s) ==
  /\ in[s] # <<>>
  /\ ~Acceptable(ssl[s], Head(in[s]), {"Data", "CloseNotify"})
  /\ LET why == Reason(ssl[s], Head(in[s]))
     IN  /\ ssl' = [ssl EXCEPT ![s].fail = why]
         /\ out' = IF why = "peer" THEN out
                   ELSE [out EXCEPT ![s] = Sealed(ssl[s], "Fatal", {}, <<>>)]
  /\ in' = [in EXCEPT ![s] = Tail(@)]
  /\ UNCHANGED <<conf, gone, link, got, notified>>

\* mbedtls_ssl_read
ReadData(s) ==
  /\ Usable(s)
  /\ ReadsData(s) \/ ReadsNotification(s) \/ ReadsError(s)
  /\ UNCHANGED <<sock, sent, skipped>>

\* mbedtls_ssl_close_notify, and then the connection: with a record pending it
\* sends that and no notification.
Farewell(s) ==
  IF out[s] # None THEN out[s] ELSE Sealed(ssl[s], "CloseNotify", {}, <<>>)
CloseSession(s) ==
  /\ Serving(s)
  /\ gone' = [gone EXCEPT ![s] = TRUE]
  /\ out' = [out EXCEPT ![s] = None]
  /\ \E next \in {in, Arrive(s, Farewell(s))} : in' = [next EXCEPT ![s] = <<>>]
  /\ UNCHANGED <<conf, link, sessionVars>>

\* net_sock_close_mbedtls
Close ==
  /\ CloseSession("client")
  /\ sock' = "created"
  /\ ssl' = [ssl EXCEPT !["client"] = Fresh]

ServerCloses == CloseSession("server") /\ UNCHANGED <<ssl, sock>>

\* net_sock_destroy_mbedtls, which closes nothing: the connection is left open.
Destroy ==
  /\ sock \in {"created", "open"}
  /\ sock' = "none"
  /\ UNCHANGED <<recordVars, sessionVars>>

\* The connection is cut, with some of what it carried.
Lost ==
  /\ link = "up"
  /\ link' = "lost"
  /\ \E n \in [Side -> 0 .. 1] :
       in' = [s \in Side |-> SubSeq(in[s], 1, IF n[s] < Len(in[s]) THEN n[s] ELSE Len(in[s]))]
  /\ UNCHANGED <<conf, ssl, out, gone, sock, sessionVars>>

Next ==
  \/ Create \/ Open \/ OpenSteps \/ OpenFails \/ Close \/ Destroy
  \/ ServerSteps \/ ServerFails \/ ServerCloses
  \/ \E s \in Side : WriteData(s) \/ FlushData(s) \/ FlushReportedLost(s) \/ ReadData(s)
  \/ Lost

Spec == Init /\ [][Next]_vars

\* Both ends run, and the peer is one that goes on or gives up: against one
\* that keeps silent the loop of net_sock_open_mbedtls has no end.
FairSpec == Spec /\ WF_vars(OpenSteps) /\ WF_vars(ServerSteps)
-----------------------------------------------------------------------------
\* Types of the two contexts, of what is between them and of the socket.
TypeOK ==
  /\ conf \in Setups
  /\ ssl \in [Side -> Context]
  /\ out \in [Side -> Record \union {None}]
  /\ in \in [Side -> Seq(Record)]
  /\ gone \in [Side -> BOOLEAN]
  /\ link \in {"up", "lost"}
  /\ sock \in {"none", "created", "opening", "open"}
  /\ sent \in [Side -> 0 .. MaxData]
  /\ skipped \in BOOLEAN
  /\ got \in [Side -> 0 .. MaxData]
  /\ notified \in [Side -> BOOLEAN]
  /\ sock = "open" => ssl["client"].state = HANDSHAKE_OVER
  /\ sock = "opening" => ~gone["client"]

\* The two ends of this library never misunderstand one another: no message
\* comes in a state that does not expect it or under another key, whatever is
\* asked for, skipped or kept on the way.
NeverMisunderstood == \A s \in Side : ssl[s].fail \notin {"protocol", "garbled"}
\* Who has keys has the peer's, and has chosen the same suite.
SameSecrets ==
  ssl["client"].key # <<>> /\ ssl["server"].key # <<>> =>
    ssl["client"].key = ssl["server"].key /\ ssl["client"].ke = ssl["server"].ke
\* A handshake that is over has seen the certificate it insists on, and the
\* client's has seen the server finish.
OnlyWhenProved ==
  /\ \A s \in Side :
       ssl[s].state = HANDSHAKE_OVER /\ conf.authmode[s] = "required" =>
         ssl[s].peer = "trusted"
  /\ ssl["client"].state = HANDSHAKE_OVER => ssl["server"].state >= FLUSH_BUFFERS
SessionsAgree == NeverMisunderstood /\ SameSecrets /\ OnlyWhenProved

\* An end that reads a close notification has read every message of which the
\* other one has made a record, whatever was flushed late or sent a second time,
\* and whatever the calls were that flushed it.
SentArrives ==
  \A s \in Side : /\ got[s] <= sent[Peer(s)]
                   /\ notified[s] => got[s] = sent[Peer(s)]

\* net.h of net_sock_send: ">=0           Success, number of bytes written."  A
\* server that reads the close notification of the socket has read every message
\* whose send succeeded.
ReportedArrives == notified["server"] => got["server"] = sent["client"] /\ ~skipped

\* net_sock_open returns: neither end ever waits for the other while the other
\* waits for it.
OpenReturns == sock = "opening" ~> sock # "opening"
=============================================================================
