------------------------------- MODULE AtLink -------------------------------
(***************************************************************************)
(* The AT command link to the Wi-Fi module: the calls of es_wifi.c, each a *)
(* sequence of commands that ends at the first one that fails, over the    *)
(* SPI transfer of es_wifi_io.c in its bare-metal build.                   *)
(*                                                                         *)
(* One command is an exchange of three steps.  The driver waits until the  *)
(* module shows CMDDATA_READY, arms the flag cmddata_rdy_rising_event and  *)
(* sends; it waits for the interrupt of a rising edge of the same line to  *)
(* clear the flag; and it reads while the line is high.  Each wait has a   *)
(* timeout, after which the call fails and nothing is done about the       *)
(* answer that may still come.                                             *)
(*                                                                         *)
(* The module is external.  It is taken to execute one command at a time,  *)
(* to raise the line with an answer and again when it is ready for the     *)
(* next command, and to keep it high while a command is being sent, so the *)
(* data that follow an S3 are part of that command.  What it does with a   *)
(* command sent while an old answer waits is not known: it may drop the    *)
(* answer, or take the transfer for the reading of it.                     *)
(***************************************************************************)
EXTENDS Integers, Sequences

CONSTANTS
  Sockets,   \* numbers of the module's sockets
  None
ASSUME SocketsAssumption == Sockets \subseteq Nat /\ 0 \in Sockets /\ None \notin Sockets

VARIABLES
  call,     \* the call in progress or the last one: the socket it is about
            \* and its commands
  at,       \* which of them is being exchanged
  pc,       \* "idle", "send", "wait"
  armed,    \* cmddata_rdy_rising_event
  result,   \* what the last call returned: "none", "ok", "failed", "timeout"
  mod,      \* the module: its state, the socket that P0 selected, the
            \* command it has and its answer to it
  ran,      \* history: the commands of this call that were executed
  excuse    \* history: why this call may fail

driver == <<call, at, pc, armed, result>>
vars == <<driver, mod, ran, excuse>>
-----------------------------------------------------------------------------
(* The calls of es_wifi.c, as the commands they send.                       *)

\* With a RemotePort of 0 the first two send nothing and fail.
StartClientConnection ==
  {<<"P0", "P1", "P2", "P4", "P3", "P6=1">>,         \* TCP
   <<"P0", "P1", "P2", "P4", "P3", "P9", "P6=1">>,   \* TCP_SSL
   <<"P0", "P1", "P2", "P6=1">>}                     \* UDP
StartMQTTClientConnection ==
  <<"P0", "P1", "P4", "P3", "PM=0", "PM=1", "PM=2", "PM=5", "PM", "P6=1">>
StopClientConnection == <<"P0", "P6=0">>
StartServerSingleConn ==
  {<<"P0", "PK", "P1", "P8", "P2", "P5=11">>, <<"P0", "P1", "P8", "P2", "P5=11">>}
CloseServerConnection == <<"P0", "P5=10">>
StopServerSingleConn == <<"P0", "P5=0">>
SendData == <<"P0", "S2", "S3">>
SendDataTo == <<"P0", "P2", "P4", "P3", "S2", "S3">>
ReceiveData == <<"P0", "R1", "R2", "R0">>
ReceiveDataFrom ==   \* the peer's address is asked for when data came
  {<<"P0", "R1", "R2", "R0">>, <<"P0", "R1", "R2", "R0", "P?">>}

\* Calls about the module as a whole.
Info == <<"I?">>
Connect == <<"C1", "C2", "C3", "C0">>
IsConnected == <<"CS">>
Disconnect == <<"CD">>
GetNetworkSettings == <<"C?">>
GetMACAddress == <<"Z5">>
DNS_LookUp == <<"D0">>
Ping == <<"T1", "T2", "T3", "T">>
\* One round of the loop of ES_WIFI_WaitServerConnection: it asks for the
\* state of whichever socket is selected.
WaitServerConnection == <<"MR", "P?">>

Calls ==
  [n : Sockets,
   cmds : StartClientConnection \union StartServerSingleConn \union ReceiveDataFrom
          \union {StartMQTTClientConnection, StopClientConnection,
                  CloseServerConnection, StopServerSingleConn,
                  SendData, SendDataTo, ReceiveData}]
  \union
  [n : {None},
   cmds : {Info, Connect, IsConnected, Disconnect, GetNetworkSettings, GetMACAddress,
           DNS_LookUp, Ping, WaitServerConnection}]

Command == UNION {{c.cmds[i] : i \in DOMAIN c.cmds} : c \in Calls}
Garbled == "garbled"   \* a command of which only a part was sent
-----------------------------------------------------------------------------
Idle == [state |-> "ready", sel |-> 0, n |-> None, cmd |-> Garbled, answer |-> "OK"]

Init ==
  /\ call = [n |-> None, cmds |-> Info]
  /\ at = 1
  /\ pc = "idle"
  /\ armed = FALSE
  /\ result = "none"
  /\ mod = Idle
  /\ ran = <<>>
  /\ excuse = "none"

\* CMDDATA_READY
Ready == mod.state \in {"ready", "answered"}

\* No command and no answer is under way.
Clean == mod.state \in {"ready", "read"}

\* The module does something the driver can do nothing about.
Trouble == excuse' = "own"

Begins(c) ==
  /\ call' = c
  /\ at' = 1
  /\ pc' = "send"
  /\ result' = "none"
  /\ excuse' = IF Clean THEN "none" ELSE "inherited"

Begin ==
  /\ pc = "idle"
  /\ \E c \in Calls : Begins(c)
  /\ UNCHANGED <<armed, mod, ran>>

\* SPI_WIFI_ResetModule: it falls and rises again, so nothing stays armed.
ResetModule == mod' = Idle /\ armed' = FALSE

\* ES_WIFI_Init: the reset, then I? when the prompt came.
ESWifiInit ==
  /\ pc = "idle"
  /\ ResetModule
  /\ call' = [n |-> None, cmds |-> Info]
  /\ at' = 1
  /\ \/ pc' = "send" /\ result' = "none" /\ excuse' = "none"
     \/ pc' = "idle" /\ result' = "failed" /\ Trouble
  /\ UNCHANGED ran

Returns(r) ==
  /\ pc' = "idle"
  /\ result' = r
  /\ UNCHANGED <<call, at>>

Fails == Returns("failed")

\* What the module has received when the command was sent as a whole.
Takes(c) == mod' = [mod EXCEPT !.state = "busy", !.n = call.n, !.cmd = c]

\* Mutant of Armed: the flag is armed by the first command only.
ArmedOnce == UNCHANGED armed
Armed == armed' = TRUE

\* The first command of a call follows whatever was still executed before.
StartsCount == ran' = IF at = 1 THEN <<>> ELSE ran

MaySend == pc = "send" /\ Ready

\* SPI_WIFI_SendData
Transmit ==
  /\ MaySend
  /\ Armed
  /\ StartsCount
  /\ pc' = "wait"
  /\ \/ Takes(call.cmds[at])
     \/ mod.state = "answered" /\ mod' = [mod EXCEPT !.state = "read"]
  /\ UNCHANGED <<call, at, result, excuse>>

\* HAL_SPI_Transmit_IT fails: nothing was sent, or all but the last byte.
TransmitFails ==
  /\ MaySend
  /\ Armed
  /\ StartsCount
  /\ UNCHANGED mod \/ Takes(Garbled)
  /\ Fails
  /\ Trouble

\* wait_spi_tx_event times out, which nobody looks at: none or a part of the command
\* was sent, and its answer is waited for.
TransmitStalls ==
  /\ MaySend
  /\ Armed
  /\ StartsCount
  /\ UNCHANGED mod \/ Takes(Garbled)
  /\ pc' = "wait"
  /\ Trouble
  /\ UNCHANGED <<call, at, result>>

NotReadyInTime ==
  /\ pc = "send"
  /\ ~Ready
  /\ Fails
  /\ Trouble
  /\ UNCHANGED <<armed, mod, ran>>

\* Mutant of NoAnswerInTime: the answer is waited for without end.
WaitsOn ==
  /\ pc = "wait"
  /\ armed
  /\ UNCHANGED vars

\* wait_cmddata_rdy_rising_event times out.
NoAnswerInTime ==
  /\ pc = "wait"
  /\ armed
  /\ Fails
  /\ Trouble
  /\ UNCHANGED <<armed, mod, ran>>

\* Mutant of Last: one command too many.
LastTooLate == at = Len(call.cmds) + 1
Last == at = Len(call.cmds)
\* The end of a round of the wait for a connection: somebody has connected,
\* the deadline is over, or it begins again.
EndsRound ==
  \/ Returns("ok") \/ Returns("timeout")
  \/ at' = 1 /\ pc' = "send" /\ UNCHANGED <<call, result>>

NextCommand == at' = at + 1 /\ pc' = "send" /\ UNCHANGED <<call, result>>

\* Mutant of Goes: the answer to P0 is not looked at.
GoesAnyway ==
  \/ ~Last /\ (mod.answer = "OK" \/ at = 1) /\ NextCommand
  \/ mod.answer = "OK" /\ Last /\ call.cmds # WaitServerConnection /\ Returns("ok")
  \/ mod.answer = "OK" /\ Last /\ call.cmds = WaitServerConnection /\ EndsRound
  \/ mod.answer = "ERROR" /\ at # 1 /\ Fails

\* if (ret == ES_WIFI_STATUS_OK) ... from command to command.
Goes ==
  \/ mod.answer = "OK" /\ ~Last /\ NextCommand
  \/ mod.answer = "OK" /\ Last /\ call.cmds # WaitServerConnection /\ Returns("ok")
  \/ mod.answer = "OK" /\ Last /\ call.cmds = WaitServerConnection /\ EndsRound
  \/ mod.answer = "ERROR" /\ Fails

Cleared == pc = "wait" /\ ~armed

\* SPI_WIFI_ReceiveData, AT_ExecuteCommand, AT_RequestSendData and
\* AT_RequestReceiveData: an answer that ends, or nothing when the line is
\* low after all.
Receive ==
  /\ Cleared
  /\ IF Ready THEN /\ mod.state = "answered"
                   /\ mod.answer # "endless"
                   /\ Goes
                   /\ mod' = [mod EXCEPT !.state = "read"]
              ELSE Fails /\ UNCHANGED mod
  /\ UNCHANGED <<armed, ran, excuse>>

\* An answer without end fills the buffer, and so do the fill bytes of a
\* module that has no answer: the module is reset.
Stuffed ==
  /\ Cleared
  /\ mod.state = "ready" \/ (mod.state = "answered" /\ mod.answer = "endless")
  /\ ResetModule
  /\ Fails
  /\ UNCHANGED <<ran, excuse>>

\* HAL_SPI_Receive_IT fails: the rest of the answer stays in the module.
ReceiveFails ==
  /\ Cleared
  /\ mod.state = "answered"
  /\ Fails
  /\ Trouble
  /\ UNCHANGED <<armed, mod, ran>>

\* ES_WIFI_ResetModule: ZR, and a read that gives up after 1 ms.
SoftReset ==
  /\ pc = "idle"
  /\ Ready
  /\ Armed
  /\ \/ mod' = [Idle EXCEPT !.state = "read"]
     \/ mod.state = "answered" /\ mod' = [mod EXCEPT !.state = "read"]
  /\ UNCHANGED <<call, at, pc, result, ran, excuse>>
-----------------------------------------------------------------------------
\* SPI_WIFI_ISR on a rising edge.
Rises == armed' = FALSE

Executed ==
  /\ ran' = IF pc = "wait" THEN Append(ran, mod.cmd) ELSE ran
  /\ mod' = [mod EXCEPT !.state = "answered", !.answer = "OK",
                        !.sel = IF mod.cmd = "P0" THEN mod.n ELSE @]
  /\ UNCHANGED excuse

\* The command is refused, or answered with more than a buffer holds.
Refused ==
  /\ \E a \in {"ERROR", "endless"} :
       mod' = [mod EXCEPT !.state = "answered", !.answer = a]
  /\ IF pc = "wait" THEN Trouble ELSE UNCHANGED excuse
  /\ UNCHANGED ran

Answers ==
  /\ mod.state = "busy"
  /\ Rises
  /\ (mod.cmd # Garbled /\ Executed) \/ Refused
  /\ UNCHANGED <<call, at, pc, result>>

BecomesReady ==
  /\ mod.state = "read"
  /\ Rises
  /\ mod' = [mod EXCEPT !.state = "ready"]
  /\ UNCHANGED <<call, at, pc, result, ran, excuse>>

Driver ==
  \/ Transmit \/ TransmitFails \/ TransmitStalls \/ NotReadyInTime
  \/ NoAnswerInTime \/ Receive \/ Stuffed \/ ReceiveFails

Module == Answers \/ BecomesReady

Next == Begin \/ ESWifiInit \/ SoftReset \/ Driver \/ Module

Spec == Init /\ [][Next]_vars

\* The waits of the driver end.
FairSpec == Spec /\ WF_vars(Driver)
-----------------------------------------------------------------------------
\* Types of the driver's and of the module's state.
TypeOK ==
  /\ call \in Calls
  /\ at \in DOMAIN call.cmds
  /\ pc \in {"idle", "send", "wait"}
  /\ armed \in BOOLEAN
  /\ result \in {"none", "ok", "failed", "timeout"}
  /\ mod \in [state : {"ready", "busy", "answered", "read"}, sel : Sockets,
              n : Sockets \union {None}, cmd : Command \union {Garbled},
              answer : {"OK", "ERROR", "endless"}]
  /\ ran \in Seq(Command)
  /\ excuse \in {"none", "inherited", "own"}

\* A call that reports success has had every one of its commands executed,
\* once, in order and none else, whatever was late, lost or left over from
\* the calls before it.
OkMeansExecuted == result = "ok" => ran = call.cmds

\* A command about a socket reaches the socket of its own call: the selection
\* is global to the module, and each call makes its own before.  The wait for
\* a connection makes none.
OwnSocketOnly ==
  [][mod.state = "busy" /\ mod'.state = "answered" /\ mod'.answer = "OK"
     /\ mod.n # None => mod'.sel = mod.n]_vars

\* Driver and module stay in step: a call fails only when the module let it
\* down, or the call before it, and what a call inherits it does not pass on.
FailureExplained == result = "failed" => excuse # "none"
NotPassedOn == result = "failed" /\ excuse = "inherited" => Clean
LinkStaysInStep == FailureExplained /\ NotPassedOn

\* Every call but the wait for a connection returns.
CallsReturn == (pc # "idle" /\ call.cmds # WaitServerConnection) ~> pc = "idle"
=============================================================================
