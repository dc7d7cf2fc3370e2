------------------------------- MODULE MCNetTls -------------------------------
(* The setups of the bounded instance of NetTls. *)
EXTENDS NetTls

\* Every way a client can be asked for a certificate and answer, with the
\* ticket and the key exchange taken in turn.
Asked ==
  {c \in Setup :
     /\ c.authmode["client"] = "required" /\ c.cert["server"] = "trusted"
     /\ c.authmode["server"] = "none" => c.cert["client"] = "trusted"
     /\ c.ke = IF c.ticket = (c.cert["client"] = "unknown") THEN "ECDHE" ELSE "RSA"}
\* Every way the server's own certificate can be taken.
Taken ==
  {c \in Setup :
     /\ c.cert["server"] = "unknown"
     /\ c.authmode["server"] = "none" /\ c.cert["client"] = "none"
     /\ c.ticket /\ c.ke = "ECDH"}
MCSetups == Asked \union Taken
=============================================================================
