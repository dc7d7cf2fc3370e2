---------------------------- MODULE BlockingWait -----------------------------
(***************************************************************************)
(* The loop of a blocking socket call: net_sock_recv, recvfrom, send and   *)
(* sendto of net_tcp_wifi.c all ask net_timeout_left_ms of net.c what is   *)
(* left of the timeout of the socket, and repeat a transfer command of the *)
(* Wi-Fi module until it has moved a byte.                                 *)
(***************************************************************************)
EXTENDS Ticks

CONSTANTS
  Timeout,    \* sock->read_timeout or sock->write_timeout
  CallBound   \* the longest time one transfer command may take: it is given
              \* the whole timeout, and its answer has yet to be read

ASSUME WaitAssumption ==
  /\ Timeout \in Nat \ {0}
  /\ CallBound \in Nat \ {0}
  /\ 2 * (Timeout + CallBound) <= M

VARIABLES
  phase,       \* the blocking call: not in it, at its check, in a command
  start_time,  \* the tick the blocking call began at
  result,      \* what the last blocking call returned
  waited,      \* true time since the blocking call began, up to M
  spent        \* true time since its last check

vars == <<tick, phase, start_time, result, waited, spent>>

TypeOK ==
  /\ tick \in Words
  /\ phase \in {"out", "check", "call"}
  /\ start_time \in Words
  /\ result \in {"none", "timeout", "data", "error"}
  /\ waited \in 0 .. M
  /\ spent \in 0 .. CallBound

\* Mutant of net_timeout_left_ms: time before the wrap is subtracted.
LeftSwapped(init, now, timeout) ==
  LET wrap_end == IF now < init THEN (M - 1) - init ELSE 0
  IN  Signed(U(timeout - wrap_end - (now - init)))

\* Mutant of net_timeout_left_ms: a test against the wrong side.
LeftAlwaysWrapped(init, now, timeout) ==
  Signed(U((M - 1) - init - (now - init) + timeout))

net_timeout_left_ms(init, now, timeout) ==
  LET wrap_end == IF now < init THEN (M - 1) - init ELSE 0
  IN  Signed(U(wrap_end - (now - init) + timeout))

\* The head of net_sock_recv_tcp_wifi and of the other transfers.
Begin ==
  /\ phase = "out"
  /\ phase' = "check"
  /\ start_time' = tick
  /\ waited' = 0
  /\ spent' = 0
  /\ UNCHANGED <<tick, result>>

\* What the call has on its stack goes with it.
Returns ==
  /\ phase' = "out"
  /\ start_time' = 0
  /\ waited' = 0
  /\ spent' = 0

\* Mutant of Check: every command is given a timeout of its own.
CheckRestarts ==
  /\ phase = "check"
  /\ IF net_timeout_left_ms(start_time, tick, Timeout) <= 0
     THEN Returns /\ result' = "timeout"
     ELSE phase' = "call" /\ spent' = 0 /\ start_time' = tick /\ UNCHANGED <<waited, result>>
  /\ UNCHANGED tick

\* The condition at the top of the loop, and the command it leads to.  The
\* command is given the whole timeout again, not what is left of it.
Check ==
  /\ phase = "check"
  /\ IF net_timeout_left_ms(start_time, tick, Timeout) <= 0
     THEN Returns /\ result' = "timeout"
     ELSE phase' = "call" /\ spent' = 0 /\ UNCHANGED <<start_time, waited, result>>
  /\ UNCHANGED tick

\* WIFI_ReceiveData or WIFI_SendData succeeds and has moved no byte.
CallEmpty ==
  /\ phase = "call"
  /\ phase' = "check"
  /\ UNCHANGED <<tick, start_time, result, waited, spent>>

\* The command moved bytes, or failed: the loop ends.
CallEnds ==
  /\ phase = "call"
  /\ Returns
  /\ result' \in {"data", "error"}
  /\ UNCHANGED tick

\* The tick interrupt.  It may come anywhere in a blocking call, which passes
\* its check at least once every CallBound ticks.
Tick ==
  /\ phase # "out" => spent < CallBound
  /\ tick' = U(tick + 1)
  /\ IF phase # "out"
     THEN /\ waited' = IF waited < M THEN waited + 1 ELSE M
          /\ spent' = spent + 1
     ELSE UNCHANGED <<waited, spent>>
  /\ UNCHANGED <<phase, start_time, result>>

Init ==
  /\ tick \in Words
  /\ phase = "out"
  /\ start_time = 0
  /\ result = "none"
  /\ waited = 0
  /\ spent = 0

Next == Begin \/ Check \/ CallEmpty \/ CallEnds \/ Tick

Spec == Init /\ [][Next]_vars

\* The tick interrupt keeps coming, and the commands keep returning.
FairSpec ==
  /\ Spec
  /\ WF_vars(Tick)
  /\ WF_vars(Check)
  /\ WF_vars(CallEmpty \/ CallEnds)

-----------------------------------------------------------------------------
(* Properties. *)

\* A blocking call that reports NET_TIMEOUT has waited for the whole timeout,
\* wherever the wrap of the tick fell.
NeverEarly == [][result' = "timeout" /\ phase = "check" /\ phase' = "out"
                   => waited >= Timeout]_vars

\* As long as the tick has not wrapped in it, a blocking call outlives its timeout
\* by at most one command, the one it began just before the end.
EndsInTime ==
  phase # "out" /\ tick >= start_time => waited <= (Timeout - 1) + CallBound

\* A blocking call ends, even when nothing is ever received or sent.
CallTerminates == phase # "out" ~> phase = "out"

\* What the comment in net_timeout_left_ms says and the code does not do: it "is
\* robust to uint32_t overflows", and the bound holds across the wrap too.
EndsInTimeOverWrap == phase # "out" => waited <= (Timeout - 1) + CallBound

=============================================================================
