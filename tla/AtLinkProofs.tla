---------------------------- MODULE AtLinkProofs ----------------------------
(***************************************************************************)
(* The safety of the AT command link, for any sockets of the module: what  *)
(* a successful call has executed, which socket a command reaches, and why *)
(* a call may fail.                                                        *)
(***************************************************************************)
EXTENDS AtLink, TLAPS

\* The commands of the call up to this one were executed, and none else.
Done(k) == ran \in Seq(Command) /\ Len(ran) = k /\ \A i \in 1..k : ran[i] = call.cmds[i]

-----------------------------------------------------------------------------
(* The invariant, by the phase of the exchange.                             *)

\* Before a command is sent the module has nothing left of this call; what it
\* may have left of another one is met by the first command and excuses.
Sending ==
  pc = "send" =>
    /\ at = 1 \/ Done(at - 1)
    /\ mod.state \in {"busy", "answered"} => at = 1 /\ excuse # "none"
    /\ at # 1 /\ call.n # None => mod.sel = call.n

\* The module has the command that is waited for, or it took the sending of it
\* for the reading of an old answer, or it got a part of it or nothing.
Waiting ==
  pc = "wait" =>
    /\ mod.state = "busy" => \/ mod.cmd = Garbled /\ excuse = "own"
                             \/ /\ mod.cmd = call.cmds[at] /\ mod.n = call.n
                                /\ Done(at - 1)
    /\ mod.state = "answered" /\ mod.answer = "OK" /\ ~armed =>
         Done(at) /\ (call.n # None => mod.sel = call.n)
    /\ mod.state = "answered" /\ mod.answer # "OK" => excuse = "own"
    /\ mod.state \in {"read", "ready"} => excuse # "none"
    /\ mod.state \in {"read", "busy"} => armed

\* Only the first command of a call selects a socket, so the one a command
\* under way is about is selected already.
Selected ==
  mod.state = "busy" =>
    /\ mod.n # None /\ mod.cmd \notin {"P0", Garbled} => mod.sel = mod.n
    /\ mod.cmd = "P0" => mod.n # None

IInv ==
  /\ TypeOK
  /\ pc # "idle" => result = "none"
  /\ result = "ok" => Done(Len(call.cmds))
  /\ Sending
  /\ Waiting
  /\ Selected
  /\ FailureExplained
  /\ NotPassedOn
-----------------------------------------------------------------------------
(* The calls.                                                               *)

\* A sequence of at least one command.
Shape(s) ==
  /\ Len(s) \in Nat /\ Len(s) >= 1
  /\ DOMAIN s = 1..Len(s) /\ s = [i \in 1..Len(s) |-> s[i]]

\* A call about a socket selects it first, the others select none.
LEMMA CallShape ==
  ASSUME NEW c \in Calls
  PROVE  /\ c.n \in Sockets \union {None}
         /\ Shape(c.cmds)
         /\ c.n # None => c.cmds[1] = "P0"
         /\ c.n = None => \A i \in DOMAIN c.cmds : c.cmds[i] # "P0"
<1> DEFINE About == StartClientConnection \union StartServerSingleConn \union ReceiveDataFrom
                    \union {StartMQTTClientConnection, StopClientConnection,
                            CloseServerConnection, StopServerSingleConn,
                            SendData, SendDataTo, ReceiveData}
           Whole == {Info, Connect, IsConnected, Disconnect, GetNetworkSettings,
                     GetMACAddress, DNS_LookUp, Ping, WaitServerConnection}
<1>1. \/ c.n \in Sockets /\ c.cmds \in About
      \/ c.n = None /\ c.cmds \in Whole
  BY DEF Calls
<1>2. \A s \in About : Shape(s) /\ s[1] = "P0"
  <2>1. \A s \in StartClientConnection : Shape(s) /\ s[1] = "P0"
    <3> DEFINE a == <<"P0", "P1", "P2", "P4", "P3", "P6=1">>
               b == <<"P0", "P1", "P2", "P4", "P3", "P9", "P6=1">>
               c1 == <<"P0", "P1", "P2", "P6=1">>
    <3>1. Shape(a) /\ a[1] = "P0"
      BY DEF Shape
    <3>2. Shape(b) /\ b[1] = "P0"
      BY DEF Shape
    <3>3. Shape(c1) /\ c1[1] = "P0"
      BY DEF Shape
    <3>4. StartClientConnection = {a, b, c1}
      BY DEF StartClientConnection
    <3> HIDE DEF a, b, c1
    <3> QED
      BY <3>1, <3>2, <3>3, <3>4
  <2>2. \A s \in StartServerSingleConn : Shape(s) /\ s[1] = "P0"
    <3> DEFINE a == <<"P0", "PK", "P1", "P8", "P2", "P5=11">>
               b == <<"P0", "P1", "P8", "P2", "P5=11">>
    <3>1. Shape(a) /\ a[1] = "P0"
      BY DEF Shape
    <3>2. Shape(b) /\ b[1] = "P0"
      BY DEF Shape
    <3>3. StartServerSingleConn = {a, b}
      BY DEF StartServerSingleConn
    <3> HIDE DEF a, b
    <3> QED
      BY <3>1, <3>2, <3>3
  <2>3. \A s \in ReceiveDataFrom : Shape(s) /\ s[1] = "P0"
    <3> DEFINE a == <<"P0", "R1", "R2", "R0">>
               b == <<"P0", "R1", "R2", "R0", "P?">>
    <3>1. Shape(a) /\ a[1] = "P0"
      BY DEF Shape
    <3>2. Shape(b) /\ b[1] = "P0"
      BY DEF Shape
    <3>3. ReceiveDataFrom = {a, b}
      BY DEF ReceiveDataFrom
    <3> HIDE DEF a, b
    <3> QED
      BY <3>1, <3>2, <3>3
  <2>4. Shape(StartMQTTClientConnection) /\ StartMQTTClientConnection[1] = "P0"
    BY DEF StartMQTTClientConnection, Shape
  <2>5. /\ Shape(StopClientConnection) /\ StopClientConnection[1] = "P0"
        /\ Shape(CloseServerConnection) /\ CloseServerConnection[1] = "P0"
        /\ Shape(StopServerSingleConn) /\ StopServerSingleConn[1] = "P0"
    BY DEF StopClientConnection, CloseServerConnection, StopServerSingleConn, Shape
  <2>6. /\ Shape(SendData) /\ SendData[1] = "P0"
        /\ Shape(SendDataTo) /\ SendDataTo[1] = "P0"
        /\ Shape(ReceiveData) /\ ReceiveData[1] = "P0"
    BY DEF SendData, SendDataTo, ReceiveData, Shape
  <2> QED
    BY <2>1, <2>2, <2>3, <2>4, <2>5, <2>6
<1>3. \A s \in Whole : Shape(s) /\ \A i \in DOMAIN s : s[i] # "P0"
  <2> DEFINE Free(s) == Shape(s) /\ \A i \in DOMAIN s : s[i] # "P0"
  <2>1. Free(Info) /\ Free(IsConnected) /\ Free(Disconnect)
    BY DEF Shape, Info, IsConnected, Disconnect
  <2>2. Free(GetNetworkSettings) /\ Free(GetMACAddress) /\ Free(DNS_LookUp)
    BY DEF Shape, GetNetworkSettings, GetMACAddress, DNS_LookUp
  <2>3. Free(Connect)
    BY DEF Shape, Connect
  <2>4. Free(Ping)
    BY DEF Shape, Ping
  <2>5. Free(WaitServerConnection)
    BY DEF Shape, WaitServerConnection
  <2> QED
    BY <2>1, <2>2, <2>3, <2>4, <2>5
<1> HIDE DEF About, Whole
<1> QED
  BY <1>1, <1>2, <1>3, SocketsAssumption DEF SocketsAssumption

\* The question for the state of the module is a call.
LEMMA InfoIsCall == [n |-> None, cmds |-> Info] \in Calls
BY DEF Calls

\* The commands of a call are commands.
LEMMA CallCommands ==
  ASSUME NEW c \in Calls, NEW i \in DOMAIN c.cmds
  PROVE  c.cmds[i] \in Command
BY DEF Command

\* The module is reset and no call has been made.
LEMMA InitInv == Init => IInv
<1> SUFFICES ASSUME Init PROVE IInv
  OBVIOUS
<1>1. TypeOK
  <2>1. call \in Calls /\ at \in DOMAIN call.cmds
    BY InfoIsCall DEF Init, Info
  <2>2. mod \in [state : {"ready", "busy", "answered", "read"}, sel : Sockets,
                 n : Sockets \union {None}, cmd : Command \union {Garbled},
                 answer : {"OK", "ERROR", "endless"}]
    BY SocketsAssumption DEF Init, Idle, SocketsAssumption
  <2>3. ran \in Seq(Command)
    BY DEF Init
  <2> QED
    BY <2>1, <2>2, <2>3 DEF Init, TypeOK
<1> QED
  BY <1>1 DEF Init, IInv, Sending, Waiting, Selected, FailureExplained, NotPassedOn, Idle
-----------------------------------------------------------------------------
(* The steps.                                                               *)

\* The states of the module in the type invariant.
ModuleStates == [state : {"ready", "busy", "answered", "read"}, sel : Sockets,
                 n : Sockets \union {None}, cmd : Command \union {Garbled},
                 answer : {"OK", "ERROR", "endless"}]

\* What the type invariant says of the call.
LEMMA CallType ==
  ASSUME TypeOK
  PROVE  /\ call \in Calls /\ Shape(call.cmds)
         /\ at \in Nat /\ 1 <= at /\ at <= Len(call.cmds) /\ Len(call.cmds) \in Nat
         /\ call.n \in Sockets \union {None}
         /\ call.cmds[at] \in Command
         /\ call.n # None => call.cmds[1] = "P0"
         /\ call.cmds[at] = "P0" => call.n # None
BY CallShape, CallCommands DEF TypeOK, Shape

\* What a step that keeps the call and the commands executed keeps of Done.
LEMMA DoneKept ==
  ASSUME NEW k, Done(k), UNCHANGED <<ran, call>>
  PROVE  Done(k)'
BY DEF Done

\* A call begins with the module in any state.
LEMMA BeginsInv ==
  ASSUME IInv, NEW c \in Calls, pc = "idle", Begins(c), UNCHANGED <<armed, mod, ran>>
  PROVE  IInv'
<1>1. /\ call' = c /\ at' = 1 /\ pc' = "send" /\ result' = "none"
      /\ excuse' = IF Clean THEN "none" ELSE "inherited"
  BY DEF Begins
<1>2. TypeOK'
  <2>1. Shape(c.cmds)
    BY CallShape
  <2>2. 1 \in DOMAIN c.cmds
    BY <2>1 DEF Shape
  <2> QED
    BY <1>1, <2>2 DEF IInv, TypeOK
<1>3. mod.state \in {"busy", "answered"} => excuse' # "none"
  BY <1>1 DEF Clean
<1> QED
  BY <1>1, <1>2, <1>3 DEF IInv, Sending, Waiting, Selected, FailureExplained, NotPassedOn

\* A reset leaves nothing of the calls before it.
LEMMA ResetInv ==
  ASSUME IInv, ESWifiInit
  PROVE  IInv'
<1>1. mod' = Idle /\ armed' = FALSE /\ call' = [n |-> None, cmds |-> Info] /\ at' = 1 /\ ran' = ran
  BY DEF ESWifiInit, ResetModule
<1>2. \/ pc' = "send" /\ result' = "none" /\ excuse' = "none"
      \/ pc' = "idle" /\ result' = "failed" /\ excuse' = "own"
  BY DEF ESWifiInit, Trouble
<1>3. TypeOK'
  <2>1. call' \in Calls /\ at' \in DOMAIN call'.cmds
    BY <1>1, InfoIsCall DEF Info
  <2>2. mod' \in ModuleStates
    BY <1>1, SocketsAssumption DEF Idle, SocketsAssumption, ModuleStates
  <2> QED
    BY <1>1, <1>2, <2>1, <2>2 DEF IInv, TypeOK, ModuleStates
<1>4. mod'.state = "ready"
  BY <1>1 DEF Idle
<1> QED
  BY <1>1, <1>2, <1>3, <1>4
     DEF IInv, Sending, Waiting, Selected, FailureExplained, NotPassedOn

\* A command is sent, and taken, or used up for reading an old answer.
LEMMA TransmitInv ==
  ASSUME IInv, Transmit
  PROVE  IInv'
<1>1. /\ pc = "send" /\ Ready /\ armed' = TRUE /\ pc' = "wait"
      /\ ran' = IF at = 1 THEN <<>> ELSE ran
      /\ UNCHANGED <<call, at, result, excuse>>
  BY DEF Transmit, MaySend, Armed, StartsCount
<1>2. TypeOK /\ mod \in ModuleStates /\ result = "none"
  BY <1>1 DEF IInv, TypeOK, ModuleStates
<1>3. Done(at - 1)'
  <2>1. CASE at = 1
    BY <1>1, <2>1 DEF Done
  <2>2. CASE at # 1
    <3>1. Done(at - 1) /\ ran' = ran
      BY <1>1, <2>2 DEF IInv, Sending
    <3> QED
      BY <1>1, <3>1 DEF Done
  <2> QED
    BY <2>1, <2>2
<1>4. ran' \in Seq(Command)
  BY <1>3 DEF Done
<1>5. CASE Takes(call.cmds[at])
  <2>1. mod' = [mod EXCEPT !.state = "busy", !.n = call.n, !.cmd = call.cmds[at]]
    BY <1>5 DEF Takes
  <2>2. /\ mod' \in ModuleStates /\ mod'.state = "busy" /\ mod'.n = call.n
        /\ mod'.cmd = call.cmds[at] /\ mod'.sel = mod.sel
    BY <1>2, <2>1, CallType DEF ModuleStates
  <2>3. TypeOK'
    BY <1>1, <1>2, <1>4, <2>2 DEF TypeOK, ModuleStates
  <2>4. Selected'
    <3>1. call.n # None /\ call.cmds[at] # "P0" => mod.sel = call.n
      BY <1>1, <1>2, CallType DEF IInv, Sending
    <3> QED
      BY <1>2, <2>2, <3>1, CallType DEF Selected
  <2>5. Waiting'
    BY <1>1, <1>3, <2>2 DEF Waiting
  <2> QED
    BY <1>1, <1>2, <2>3, <2>4, <2>5 DEF IInv, Sending, FailureExplained, NotPassedOn
<1>6. CASE mod.state = "answered" /\ mod' = [mod EXCEPT !.state = "read"]
  <2>1. mod' \in ModuleStates /\ mod'.state = "read"
    BY <1>2, <1>6 DEF ModuleStates
  <2>2. TypeOK'
    BY <1>1, <1>2, <1>4, <2>1 DEF TypeOK, ModuleStates
  <2>3. excuse # "none"
    BY <1>1, <1>6 DEF IInv, Sending
  <2> QED
    BY <1>1, <1>2, <2>1, <2>2, <2>3
       DEF IInv, Sending, Waiting, Selected, FailureExplained, NotPassedOn
<1> QED
  BY <1>5, <1>6 DEF Transmit

\* A step after which no call is in progress and none has succeeded.
LEMMA FailsInv ==
  ASSUME IInv, Fails, ran' \in Seq(Command), armed' \in BOOLEAN, mod' \in ModuleStates,
         excuse' \in {"inherited", "own"}, Selected', NotPassedOn'
  PROVE  IInv'
<1>1. pc' = "idle" /\ result' = "failed" /\ UNCHANGED <<call, at>>
  BY DEF Fails, Returns
<1>2. TypeOK'
  BY <1>1 DEF IInv, TypeOK, ModuleStates
<1> QED
  BY <1>1, <1>2 DEF IInv, Sending, Waiting, FailureExplained

\* The driver gives up on a module that is late.
LEMMA TroubleInv ==
  ASSUME IInv, Fails, Trouble, UNCHANGED <<armed, mod, ran>>
  PROVE  IInv'
<1>1. Selected' /\ mod' \in ModuleStates /\ armed' \in BOOLEAN /\ ran' \in Seq(Command)
  BY DEF IInv, TypeOK, Selected, ModuleStates
<1>2. excuse' = "own"
  BY DEF Trouble
<1> QED
  BY <1>1, <1>2, FailsInv DEF NotPassedOn

\* A part of the command may have been sent.
LEMMA TransmitFailsInv ==
  ASSUME IInv, TransmitFails
  PROVE  IInv'
<1>1. /\ Fails /\ excuse' = "own" /\ armed' = TRUE
      /\ ran' = IF at = 1 THEN <<>> ELSE ran
      /\ mod' = mod \/ Takes(Garbled)
  BY DEF TransmitFails, Trouble, Armed, StartsCount
<1>2. mod \in ModuleStates /\ ran \in Seq(Command) /\ call.n \in Sockets \union {None}
  BY CallType DEF IInv, TypeOK, ModuleStates
<1>3. ran' \in Seq(Command)
  BY <1>1, <1>2
<1>4. mod' \in ModuleStates /\ Selected'
  <2>1. CASE mod' = mod
    BY <1>2, <2>1 DEF IInv, Selected
  <2>2. CASE Takes(Garbled)
    <3>1. mod' = [mod EXCEPT !.state = "busy", !.n = call.n, !.cmd = Garbled]
      BY <2>2 DEF Takes
    <3>2. mod' \in ModuleStates /\ mod'.cmd = Garbled
      BY <1>2, <3>1 DEF ModuleStates
    <3> QED
      BY <3>2 DEF Selected, Garbled
  <2> QED
    BY <1>1, <2>1, <2>2
<1> QED
  BY <1>1, <1>3, <1>4, FailsInv DEF NotPassedOn

\* A part of the command may have been sent, and its answer is waited for.
LEMMA TransmitStallsInv ==
  ASSUME IInv, TransmitStalls
  PROVE  IInv'
<1>1. /\ pc = "send" /\ pc' = "wait" /\ excuse' = "own" /\ armed' = TRUE
      /\ ran' = IF at = 1 THEN <<>> ELSE ran
      /\ mod' = mod \/ Takes(Garbled)
      /\ UNCHANGED <<call, at, result>>
  BY DEF TransmitStalls, MaySend, Trouble, Armed, StartsCount
<1>2. /\ mod \in ModuleStates /\ ran \in Seq(Command) /\ call.n \in Sockets \union {None}
      /\ result = "none" /\ TypeOK
  BY <1>1, CallType DEF IInv, TypeOK, ModuleStates
<1>3. ran' \in Seq(Command)
  BY <1>1, <1>2
<1>4. /\ mod' \in ModuleStates /\ Selected'
      /\ mod'.state = "busy" => mod.state = "busy" \/ mod'.cmd = Garbled
  <2>1. CASE mod' = mod
    BY <1>2, <2>1 DEF IInv, Selected
  <2>2. CASE Takes(Garbled)
    <3>1. mod' = [mod EXCEPT !.state = "busy", !.n = call.n, !.cmd = Garbled]
      BY <2>2 DEF Takes
    <3>2. mod' \in ModuleStates /\ mod'.cmd = Garbled
      BY <1>2, <3>1 DEF ModuleStates
    <3> QED
      BY <3>2 DEF Selected, Garbled
  <2> QED
    BY <1>1, <2>1, <2>2
<1>5. mod.state # "busy"
  BY DEF TransmitStalls, MaySend, Ready
<1>6. Waiting'
  BY <1>1, <1>4, <1>5 DEF Waiting
<1>7. TypeOK'
  BY <1>1, <1>2, <1>3, <1>4 DEF TypeOK, ModuleStates
<1> QED
  BY <1>1, <1>2, <1>4, <1>6, <1>7 DEF IInv, Sending, FailureExplained, NotPassedOn

\* The answer to the command is read, and the call goes on or ends.
LEMMA ReceiveInv ==
  ASSUME IInv, Receive
  PROVE  IInv'
<1>1. pc = "wait" /\ ~armed /\ UNCHANGED <<armed, ran, excuse>>
  BY DEF Receive, Cleared
<1>2. TypeOK /\ mod \in ModuleStates /\ result = "none" /\ ran \in Seq(Command)
  BY <1>1 DEF IInv, TypeOK, ModuleStates
<1>3. mod.state \in {"answered", "ready"} /\ Ready
  BY <1>1, <1>2 DEF IInv, Waiting, ModuleStates, Ready
<1>4. /\ mod.state = "answered" /\ mod.answer # "endless" /\ Goes
      /\ mod' = [mod EXCEPT !.state = "read"]
  BY <1>3 DEF Receive
<1>5. mod' \in ModuleStates /\ mod'.state = "read" /\ mod'.sel = mod.sel
  BY <1>2, <1>4 DEF ModuleStates
<1>6. CASE mod.answer = "ERROR"
  <2>1. Fails /\ excuse' = "own"
    BY <1>1, <1>4, <1>6 DEF Goes, IInv, Waiting
  <2> QED
    BY <1>1, <1>2, <1>5, <2>1, FailsInv DEF IInv, TypeOK, Selected, NotPassedOn
<1>7. CASE mod.answer = "OK"
  <2>1. Done(at) /\ (call.n # None => mod.sel = call.n)
    BY <1>1, <1>4, <1>7 DEF IInv, Waiting
  <2>2. CASE ~Last /\ NextCommand
    <3>1. at' = at + 1 /\ pc' = "send" /\ UNCHANGED <<call, result>>
      BY <2>2 DEF NextCommand
    <3>2. TypeOK'
      <4>1. at' \in DOMAIN call'.cmds
        BY <1>2, <2>2, <3>1, CallType DEF Last, Shape
      <4> QED
        BY <1>1, <1>2, <1>5, <3>1, <4>1 DEF TypeOK, ModuleStates
    <3>3. Done(at - 1)'
      <4>1. at' - 1 = at
        BY <1>2, <3>1, CallType
      <4> QED
        BY <1>1, <2>1, <3>1, <4>1 DEF Done
    <3> QED
      BY <1>1, <1>2, <1>5, <2>1, <3>1, <3>2, <3>3
         DEF IInv, Sending, Waiting, Selected, FailureExplained, NotPassedOn
  <2>3. CASE Returns("ok") /\ Last
    <3>1. pc' = "idle" /\ result' = "ok" /\ UNCHANGED <<call, at>>
      BY <2>3 DEF Returns
    <3>2. TypeOK'
      BY <1>1, <1>2, <1>5, <3>1 DEF TypeOK, ModuleStates
    <3>3. Done(Len(call.cmds))'
      BY <1>1, <2>1, <2>3, <3>1 DEF Done, Last
    <3> QED
      BY <1>5, <3>1, <3>2, <3>3
         DEF IInv, Sending, Waiting, Selected, FailureExplained, NotPassedOn
  <2>4. CASE Returns("timeout")
    <3>1. pc' = "idle" /\ result' = "timeout" /\ UNCHANGED <<call, at>>
      BY <2>4 DEF Returns
    <3>2. TypeOK'
      BY <1>1, <1>2, <1>5, <3>1 DEF TypeOK, ModuleStates
    <3> QED
      BY <1>5, <3>1, <3>2
         DEF IInv, Sending, Waiting, Selected, FailureExplained, NotPassedOn
  <2>5. CASE at' = 1 /\ pc' = "send" /\ UNCHANGED <<call, result>>
    <3>1. TypeOK'
      <4>1. at' \in DOMAIN call'.cmds
        BY <1>2, <2>5, CallType DEF Shape
      <4> QED
        BY <1>1, <1>2, <1>5, <2>5, <4>1 DEF TypeOK, ModuleStates
    <3> QED
      BY <1>2, <1>5, <2>5, <3>1
         DEF IInv, Sending, Waiting, Selected, FailureExplained, NotPassedOn
  <2> QED
    BY <1>4, <1>7, <2>2, <2>3, <2>4, <2>5 DEF Goes, EndsRound
<1> QED
  BY <1>2, <1>4, <1>6, <1>7 DEF ModuleStates

\* An answer without end is ended by a reset.
LEMMA StuffedInv ==
  ASSUME IInv, Stuffed
  PROVE  IInv'
<1>1. /\ pc = "wait" /\ mod' = Idle /\ armed' = FALSE /\ Fails /\ UNCHANGED <<ran, excuse>>
      /\ mod.state = "ready" \/ (mod.state = "answered" /\ mod.answer = "endless")
  BY DEF Stuffed, Cleared, ResetModule
<1>2. excuse' \in {"inherited", "own"}
  BY <1>1 DEF IInv, Waiting, TypeOK
<1>3. mod' \in ModuleStates /\ mod'.state = "ready"
  BY <1>1, SocketsAssumption DEF Idle, SocketsAssumption, ModuleStates
<1> QED
  BY <1>1, <1>2, <1>3, FailsInv DEF IInv, TypeOK, Selected, NotPassedOn, Clean

\* The module's own steps: an answer, and getting ready again.
LEMMA AnswersInv ==
  ASSUME IInv, Answers
  PROVE  IInv'
<1>1. mod.state = "busy" /\ armed' = FALSE /\ UNCHANGED <<call, at, pc, result>>
  BY DEF Answers, Rises
<1>2. TypeOK /\ mod \in ModuleStates /\ ran \in Seq(Command)
  BY DEF IInv, TypeOK, ModuleStates
<1>3. CASE mod.cmd # Garbled /\ Executed
  <2>1. /\ mod' = [mod EXCEPT !.state = "answered", !.answer = "OK",
                              !.sel = IF mod.cmd = "P0" THEN mod.n ELSE mod.sel]
        /\ ran' = IF pc = "wait" THEN Append(ran, mod.cmd) ELSE ran
        /\ excuse' = excuse
    BY <1>2, <1>3 DEF Executed, ModuleStates
  <2>2. (IF mod.cmd = "P0" THEN mod.n ELSE mod.sel) \in Sockets /\ mod.cmd \in Command
    BY <1>1, <1>2, <1>3 DEF IInv, Selected, ModuleStates
  <2>3. /\ mod' \in ModuleStates /\ mod'.state = "answered" /\ mod'.answer = "OK"
        /\ mod'.sel = IF mod.cmd = "P0" THEN mod.n ELSE mod.sel
    BY <1>2, <2>1, <2>2 DEF ModuleStates
  <2>4. mod.n # None => mod'.sel = mod.n
    BY <1>1, <1>3, <2>3 DEF IInv, Selected
  <2>5. ran' \in Seq(Command)
    BY <1>2, <2>1, <2>2
  <2>6. TypeOK'
    BY <1>1, <1>2, <2>1, <2>3, <2>5 DEF TypeOK, ModuleStates
  <2>7. pc = "wait" => Done(at)'
    <3> SUFFICES ASSUME pc = "wait" PROVE Done(at)'
      OBVIOUS
    <3>1. Done(at - 1) /\ mod.cmd = call.cmds[at]
      BY <1>1, <1>3 DEF IInv, Waiting
    <3>2. /\ ran' = Append(ran, call.cmds[at]) /\ at \in Nat /\ 1 <= at
          /\ call.cmds[at] \in Command
      BY <1>2, <2>1, <3>1, CallType
    <3>3. Len(ran) = at - 1 /\ ran \in Seq(Command)
      BY <3>1 DEF Done
    <3>4. Len(ran') = at /\ ran'[at] = call.cmds[at]
      BY <3>2, <3>3
    <3>5. \A i \in 1..at - 1 : ran'[i] = call.cmds[i]
      BY <3>1, <3>2, <3>3 DEF Done
    <3> QED
      BY <1>1, <2>5, <3>2, <3>4, <3>5 DEF Done
  <2>8. pc = "wait" => (call.n # None => mod'.sel = call.n)
    BY <1>1, <1>3, <2>4 DEF IInv, Waiting
  <2>9. pc # "wait" => ran' = ran
    BY <2>1
  <2>10. Waiting'
    BY <1>1, <2>3, <2>7, <2>8 DEF Waiting
  <2>11. Sending'
    BY <1>1, <2>1, <2>3 DEF IInv, Sending
  <2>12. result' = "ok" => Done(Len(call.cmds))'
    BY <1>1, <2>9 DEF IInv, Done
  <2>13. FailureExplained' /\ NotPassedOn' /\ Selected'
    BY <1>1, <2>1, <2>3 DEF IInv, FailureExplained, NotPassedOn, Selected, Clean
  <2> QED
    BY <1>1, <2>6, <2>10, <2>11, <2>12, <2>13 DEF IInv
<1>4. CASE Refused
  <2>1. PICK a \in {"ERROR", "endless"} : mod' = [mod EXCEPT !.state = "answered", !.answer = a]
    BY <1>4 DEF Refused
  <2>2. mod' \in ModuleStates /\ mod'.state = "answered" /\ mod'.answer # "OK"
    BY <1>2, <2>1 DEF ModuleStates
  <2>3. ran' = ran /\ excuse' = IF pc = "wait" THEN "own" ELSE excuse
    BY <1>4 DEF Refused, Trouble
  <2>4. TypeOK'
    BY <1>1, <1>2, <2>2, <2>3 DEF TypeOK, ModuleStates
  <2>5. Sending' /\ Waiting'
    BY <1>1, <2>2, <2>3 DEF IInv, Sending, Waiting
  <2>6. result' = "ok" => Done(Len(call.cmds))'
    BY <1>1, <2>3 DEF IInv, Done
  <2>7. FailureExplained' /\ NotPassedOn' /\ Selected'
    BY <1>1, <2>2, <2>3 DEF IInv, FailureExplained, NotPassedOn, Selected, Clean
  <2> QED
    BY <1>1, <2>4, <2>5, <2>6, <2>7 DEF IInv
<1> QED
  BY <1>3, <1>4 DEF Answers

\* The old answer is read, or another command of no call's is sent.
LEMMA QuietInv ==
  ASSUME IInv, mod' \in ModuleStates, mod'.state \in {"read", "ready"},
         armed' \in BOOLEAN, UNCHANGED <<call, at, pc, result, ran, excuse>>,
         \/ pc = "idle"
         \/ mod.state = "read" /\ mod'.state = "ready" /\ mod'.sel = mod.sel
  PROVE  IInv'
<1>1. TypeOK'
  BY DEF IInv, TypeOK, ModuleStates
<1>2. Sending'
  <2>1. pc = "send" => mod'.sel = mod.sel
    OBVIOUS
  <2>2. pc = "send" => at = 1 \/ Done(at - 1)'
    BY DEF IInv, Sending, Done
  <2> QED
    BY <2>1, <2>2 DEF IInv, Sending
<1>3. Waiting'
  BY DEF IInv, Waiting
<1>4. result' = "ok" => Done(Len(call.cmds))'
  BY DEF IInv, Done
<1> QED
  BY <1>1, <1>2, <1>3, <1>4 DEF IInv, Selected, FailureExplained, NotPassedOn, Clean

\* Every step preserves the invariant.
LEMMA NextInv == IInv /\ [Next]_vars => IInv'
<1> SUFFICES ASSUME IInv, [Next]_vars PROVE IInv'
  OBVIOUS
<1>1. TypeOK /\ mod \in ModuleStates
  BY DEF IInv, TypeOK, ModuleStates
<1>2. CASE Begin
  BY <1>2, BeginsInv DEF Begin
<1>3. CASE ESWifiInit
  BY <1>3, ResetInv
<1>4. CASE SoftReset
  <2>1. mod' \in ModuleStates /\ mod'.state = "read"
    <3>1. CASE mod' = [Idle EXCEPT !.state = "read"]
      BY <3>1, SocketsAssumption DEF Idle, SocketsAssumption, ModuleStates
    <3>2. CASE mod' = [mod EXCEPT !.state = "read"]
      BY <1>1, <3>2 DEF ModuleStates
    <3> QED
      BY <1>4, <3>1, <3>2 DEF SoftReset
  <2> QED
    BY <1>4, <2>1, QuietInv DEF SoftReset, Armed
<1>5. CASE Transmit
  BY <1>5, TransmitInv
<1>6. CASE TransmitFails
  BY <1>6, TransmitFailsInv
<1>15. CASE TransmitStalls
  BY <1>15, TransmitStallsInv
<1>7. CASE NotReadyInTime
  BY <1>7, TroubleInv DEF NotReadyInTime
<1>8. CASE NoAnswerInTime
  BY <1>8, TroubleInv DEF NoAnswerInTime
<1>9. CASE Receive
  BY <1>9, ReceiveInv
<1>10. CASE Stuffed
  BY <1>10, StuffedInv
<1>11. CASE ReceiveFails
  BY <1>11, TroubleInv DEF ReceiveFails
<1>12. CASE Answers
  BY <1>12, AnswersInv
<1>13. CASE BecomesReady
  <2>1. /\ mod.state = "read" /\ mod' = [mod EXCEPT !.state = "ready"] /\ armed' = FALSE
        /\ UNCHANGED <<call, at, pc, result, ran, excuse>>
    BY <1>13 DEF BecomesReady, Rises
  <2>2. mod' \in ModuleStates /\ mod'.state = "ready" /\ mod'.sel = mod.sel
    BY <1>1, <2>1 DEF ModuleStates
  <2> QED
    BY <2>1, <2>2, QuietInv
<1>14. CASE UNCHANGED vars
  BY <1>14 DEF vars, driver, IInv, TypeOK, Sending, Waiting, Selected, Done,
               FailureExplained, NotPassedOn, Clean
<1> QED
  BY <1>2, <1>3, <1>4, <1>5, <1>6, <1>7, <1>8, <1>9, <1>10, <1>11, <1>12, <1>13, <1>14,
     <1>15
     DEF Next, Driver, Module

-----------------------------------------------------------------------------
(* The theorems.                                                            *)

\* The invariant holds in every state of the link.
THEOREM Inductive == Spec => []IInv
BY InitInv, NextInv, PTL DEF Spec

\* The driver's and the module's state have their types.
THEOREM Types == Spec => []TypeOK
<1>1. IInv => TypeOK
  BY DEF IInv
<1> QED
  BY <1>1, Inductive, PTL

\* A call that reports success has had its own commands executed and none else.
THEOREM Executions == Spec => []OkMeansExecuted
<1>1. IInv => OkMeansExecuted
  <2> SUFFICES ASSUME IInv, result = "ok" PROVE ran = call.cmds
    BY DEF OkMeansExecuted
  <2>1. Done(Len(call.cmds)) /\ Shape(call.cmds)
    BY CallType DEF IInv
  <2>2. ran = [i \in 1..Len(ran) |-> ran[i]]
    BY <2>1 DEF Done
  <2>3. Len(ran) = Len(call.cmds) /\ \A i \in 1..Len(call.cmds) : ran[i] = call.cmds[i]
    BY <2>1 DEF Done
  <2>4. call.cmds = [i \in 1..Len(call.cmds) |-> call.cmds[i]]
    BY <2>1 DEF Shape
  <2> QED
    BY <2>2, <2>3, <2>4
<1> QED
  BY <1>1, Inductive, PTL

\* A call fails only for what the module did, and does not pass the fault of
\* the call before it on to the next one.
THEOREM InStep == Spec => []LinkStaysInStep
<1>1. IInv => LinkStaysInStep
  BY DEF IInv, LinkStaysInStep
<1> QED
  BY <1>1, Inductive, PTL

\* A command about a socket is executed with that socket selected.
THEOREM OwnSockets == Spec => OwnSocketOnly
<1> DEFINE Own == mod.state = "busy" /\ mod'.state = "answered" /\ mod'.answer = "OK"
                  /\ mod.n # None => mod'.sel = mod.n
<1>1. IInv /\ [Next]_vars => [Own]_vars
  <2> SUFFICES ASSUME IInv, [Next]_vars, mod.state = "busy", mod'.state = "answered",
                      mod'.answer = "OK", mod.n # None
               PROVE  mod'.sel = mod.n
    OBVIOUS
  <2>1. TypeOK /\ mod \in ModuleStates
    BY DEF IInv, TypeOK, ModuleStates
  <2>2. CASE Answers /\ mod.cmd # Garbled /\ Executed
    <3>1. mod' = [mod EXCEPT !.state = "answered", !.answer = "OK",
                             !.sel = IF mod.cmd = "P0" THEN mod.n ELSE mod.sel]
      BY <2>1, <2>2 DEF Executed, ModuleStates
    <3> QED
      BY <2>1, <3>1, <2>2 DEF IInv, Selected, ModuleStates
  <2>3. CASE Answers /\ Refused
    BY <2>1, <2>3 DEF Refused, ModuleStates
  <2>4. CASE ~Answers
    <3>1. CASE mod' = mod
      BY <3>1
    <3>2. CASE mod' # mod
      <4>1. mod'.state # "answered"
        BY <2>1, <2>4, <3>2 DEF Next, Driver, Module, vars, driver, Begin, ESWifiInit, SoftReset,
           ResetModule, Transmit, TransmitFails, TransmitStalls, Takes, NotReadyInTime, NoAnswerInTime,
           Receive, Stuffed, ReceiveFails, BecomesReady, MaySend, Ready, ModuleStates, Idle
      <4> QED
        BY <4>1
    <3> QED
      BY <3>1, <3>2
  <2> QED
    BY <2>2, <2>3, <2>4 DEF Answers
<1> QED
  BY <1>1, Inductive, PTL DEF Spec, OwnSocketOnly
=============================================================================
