----------------------------- MODULE WsChannel ------------------------------
(***************************************************************************)
(* What one direction of a WebSocket connection promises the applications  *)
(* at its ends: messages arrive in the order they were sent, none is       *)
(* invented, repeated or skipped unless it does not fit the buffer of the  *)
(* receiver, and after the sender's CLOSE there are no more.  A channel    *)
(* whose byte stream has lost its frame boundaries is broken and promises  *)
(* nothing until the next connection.                                      *)
(***************************************************************************)
EXTENDS Integers, Sequences

CONSTANTS MessageLengths, TooBig   \* classes of message lengths; the one too large

VARIABLES
  sent,      \* the lengths of the messages sent on this connection
  last,      \* the number of the message delivered last
  closes,    \* how many CLOSE the sender has sent
  broken,    \* frame boundaries are lost
  noise      \* something that was never sent was delivered

vars == <<sent, last, closes, broken, noise>>

Init ==
  /\ sent = <<>>
  /\ last = 0
  /\ closes = 0
  /\ broken = FALSE
  /\ noise = FALSE

Connect ==
  /\ sent' = <<>>
  /\ last' = 0
  /\ closes' = 0
  /\ broken' = FALSE
  /\ noise' = FALSE

Send ==
  /\ closes = 0
  /\ \E n \in MessageLengths : sent' = Append(sent, n)
  /\ UNCHANGED <<last, closes, broken, noise>>

Finish ==
  /\ closes = 0
  /\ closes' = 1
  /\ UNCHANGED <<sent, last, broken, noise>>

\* The next message that fits; what lies between was too big.
Deliver ==
  \E i \in last + 1 .. Len(sent) :
    /\ sent[i] # TooBig
    /\ \A j \in last + 1 .. i - 1 : sent[j] = TooBig
    /\ last' = i
    /\ UNCHANGED <<sent, closes, broken, noise>>

Break ==
  /\ broken' = TRUE
  /\ UNCHANGED <<sent, last, closes, noise>>

Scramble ==
  /\ broken
  /\ noise' = TRUE
  /\ UNCHANGED <<sent, last, closes, broken>>

Next == Connect \/ Send \/ Finish \/ Deliver \/ Break \/ Scramble

Spec == Init /\ [][Next]_vars
=============================================================================
