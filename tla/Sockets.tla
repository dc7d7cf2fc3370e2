------------------------------- MODULE Sockets -------------------------------
(***************************************************************************)
(* What net.h promises of its sockets: each is a connection of its own.    *)
(* Opening or closing one says nothing about another, and a connection     *)
(* that was lost does not come back under a socket that is still open.     *)
(* Neither the Wi-Fi module nor its socket numbers are visible here.       *)
(***************************************************************************)

CONSTANT Handles

\* "none": not open.  "up": open and connected.  "down": open, and the
\* connection has ended.
VARIABLE conn

Init == conn = [h \in Handles |-> "none"]

Open(h) ==
  /\ conn[h] = "none"
  /\ conn' = [conn EXCEPT ![h] = "up"]

Lose(h) ==
  /\ conn[h] = "up"
  /\ conn' = [conn EXCEPT ![h] = "down"]

Close(h) ==
  /\ conn[h] \in {"up", "down"}
  /\ conn' = [conn EXCEPT ![h] = "none"]

\* The module is reset, under every socket at once.
LoseAll == conn' = [h \in Handles |-> IF conn[h] = "up" THEN "down" ELSE conn[h]]

Next == (\E h \in Handles : Open(h) \/ Lose(h) \/ Close(h)) \/ LoseAll

Spec == Init /\ [][Next]_conn
=============================================================================
