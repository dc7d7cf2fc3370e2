--------------------------- MODULE NetSockProofs ---------------------------
(***************************************************************************)
(* Theorems about NetSock, for any number of socket structures, servers    *)
(* and module sockets, unless a theorem says otherwise.                    *)
(***************************************************************************)
EXTENDS MCNetSock, TLAPS

\* A number picked by the scan is a free number of the module, or -1.
LEMMA FirstFreeNumber ==
  ASSUME NEW h \in Handles, NEW i, FirstFree(h, i)
  PROVE  /\ i \in Numbers \cup {Unset}
         /\ i # Unset => i \notin Busy(h)
BY DEF FirstFree

\* A socket of the list that has a number is counted by every other scan.
LEMMA BusyNumber ==
  ASSUME NEW g \in Handles, NEW h \in Handles, g # h, state[g] # "free", und[g] # Unset
  PROVE  und[g] \in Busy(h)
BY DEF Busy, sock_list

\* 0 is a number of the module, and -1 is not.
LEMMA Zero == 0 \in Numbers /\ 1 \in Numbers /\ Unset \notin Numbers
BY NumSocketsAssumption DEF Numbers, Unset

\* Types alone are not preserved: a transfer selects the number of its socket,
\* which is one of the module only because the socket is open.
Inv == TypeOK /\ Consistent

-----------------------------------------------------------------------------
(* Types. *)

LEMMA TypeInit == Init => TypeOK
<1> SUFFICES ASSUME Init PROVE TypeOK
  OBVIOUS
<1>1. /\ hnet \in BOOLEAN /\ wifiUp \in BOOLEAN
      /\ bound \in [Servers -> BOOLEAN] /\ serving \in [Servers -> BOOLEAN]
  BY DEF Init
<1>2. /\ state \in [Handles -> States]
      /\ proto \in [Handles -> Protos]
      /\ und \in [Handles -> Numbers \cup {Unset}]
      /\ srv_sock \in [Servers -> Handles \cup {None}]
  BY Zero DEF Init, States, Protos
<1>3. /\ sel \in Numbers
      /\ link \in [Numbers -> Links]
  BY Zero DEF Init, Links
<1> QED
  BY <1>1, <1>2, <1>3 DEF TypeOK

LEMMA TypeNetwork ==
  ASSUME TypeOK, Network
  PROVE  TypeOK'
<1>1. CASE NetInit
  BY <1>1, Zero DEF TypeOK, NetInit, Links
<1>2. CASE NetDeinit
  BY <1>2 DEF TypeOK, NetDeinit
<1>3. CASE NetReinit
  BY <1>3, Zero DEF TypeOK, NetReinit, Links
<1>4. CASE LinkUpDown
  BY <1>4 DEF TypeOK, LinkUpDown
<1>5. CASE ModuleReset
  BY <1>5, Zero DEF TypeOK, ModuleReset, Links
<1>6. ASSUME NEW n \in Numbers, ConnLost(n) \/ RemoteConnects(n)
      PROVE  TypeOK'
  BY <1>6 DEF TypeOK, ConnLost, RemoteConnects, Links
<1> QED
  BY <1>1, <1>2, <1>3, <1>4, <1>5, <1>6 DEF Network

LEMMA TypeOpening ==
  ASSUME Inv, NEW h \in Handles, Opening(h)
  PROVE  TypeOK'
<1> USE DEF Inv
<1>1. ASSUME NEW p \in Protos, Create(h, p) PROVE TypeOK'
  BY <1>1, Zero DEF TypeOK, Create, States
<1>2. CASE OpenScan(h)
  BY <1>2, FirstFreeNumber DEF TypeOK, OpenScan, States
<1>3. CASE OpenLookupFails(h)
  BY <1>3 DEF TypeOK, OpenLookupFails, States
<1>4. CASE OpenConnected(h)
  BY <1>4 DEF TypeOK, OpenConnected, StartClient, States, Links
<1>5. CASE OpenConnectFails(h)
  <2>1. /\ sel' \in Numbers
        /\ link' \in [Numbers -> Links]
    BY <1>5 DEF TypeOK, OpenConnectFails, StartClient, Refused, Links
  <2>2. und' \in [Handles -> Numbers \cup {Unset}] /\ state' \in [Handles -> States]
    BY <1>5 DEF TypeOK, OpenConnectFails, States
  <2> QED
    BY <1>5, <2>1, <2>2 DEF TypeOK, OpenConnectFails
<1>6. CASE Transfer(h)
  BY <1>6 DEF TypeOK, Transfer, Consistent, OpenNumbered
<1> QED
  BY <1>1, <1>2, <1>3, <1>4, <1>5, <1>6 DEF Opening

LEMMA CloseNumberType == ASSUME NEW u PROVE CloseNumber(u) \in Numbers
BY Zero DEF CloseNumber

LEMMA TypeClose ==
  ASSUME TypeOK, NEW h \in Handles, Close(h) \/ Destroy(h)
  PROVE  TypeOK'
<1>1. CASE Close(h)
  <2>1. sel' \in Numbers /\ link' \in [Numbers -> Links]
    BY <1>1, CloseNumberType DEF TypeOK, Close, StopClient, Refused, Links
  <2>2. und' \in [Handles -> Numbers \cup {Unset}] /\ state' \in [Handles -> States]
    BY <1>1 DEF TypeOK, Close, States
  <2> QED
    BY <1>1, <2>1, <2>2 DEF TypeOK, Close
<1>2. CASE Destroy(h)
  BY <1>2 DEF TypeOK, Destroy, States
<1> QED
  BY <1>1, <1>2

\* A server without a socket may name any module socket, and no other number.
LEMMA NumbersOfType ==
  ASSUME Inv, NEW s \in Servers
  PROVE  NumbersOf(s) \subseteq Numbers
BY Zero DEF NumbersOf, Inv, Consistent, ServersLive

LEMMA TypeServer ==
  ASSUME Inv, NEW s \in Servers, Server(s)
  PROVE  TypeOK'
<1> USE DEF Inv
<1>1. ASSUME NEW h \in Handles, SrvBind(s, h)
      PROVE  TypeOK'
  <2>1. /\ sel' \in Numbers
        /\ link' \in [Numbers -> Links]
        /\ srv_sock' \in [Servers -> Handles \cup {None}]
        /\ bound' \in [Servers -> BOOLEAN]
    BY <1>1, Zero DEF TypeOK, SrvBind, StartServer, Refused, Links
  <2>2. /\ und' \in [Handles -> Numbers \cup {Unset}]
        /\ state' \in [Handles -> States]
        /\ proto' \in [Handles -> Protos]
    BY <1>1, Zero DEF TypeOK, SrvBind, States, Protos
  <2> QED
    BY <1>1, <2>1, <2>2 DEF TypeOK, SrvBind
<1>2. CASE SrvListen(s)
  BY <1>2 DEF TypeOK, SrvListen
<1>3. CASE SrvTransfer(s)
  BY <1>3, NumbersOfType DEF TypeOK, SrvTransfer
<1>4. CASE SrvNextConn(s)
  <2>1. /\ sel' \in Numbers /\ link' \in [Numbers -> Links]
        /\ serving' \in [Servers -> BOOLEAN]
    BY <1>4, NumbersOfType DEF TypeOK, SrvNextConn, Refused, Links
  <2> QED
    BY <1>4, <2>1 DEF TypeOK, SrvNextConn
<1>5. CASE SrvClose(s)
  <2>1. srv_sock[s] # None => Stopped(srv_sock[s]) = {}
    BY DEF Stopped, Consistent, ServersLive
  <2>2. sel' = sel /\ link' \in [Numbers -> Links]
    BY <1>5, <2>1 DEF TypeOK, SrvClose, GiveUpSocket
  <2>3. /\ state' \in [Handles -> States]
        /\ srv_sock' \in [Servers -> Handles \cup {None}]
        /\ bound' \in [Servers -> BOOLEAN]
        /\ serving' \in [Servers -> BOOLEAN]
    BY <1>5 DEF TypeOK, SrvClose, GiveUpSocket, States
  <2> QED
    BY <1>5, <2>2, <2>3 DEF TypeOK, SrvClose
<1> QED
  BY <1>1, <1>2, <1>3, <1>4, <1>5 DEF Server

-----------------------------------------------------------------------------
(* Consistency. *)

LEMMA ConsistentOpening ==
  ASSUME Inv, NEW h \in Handles, Opening(h)
  PROVE  Consistent'
<1> USE DEF Inv, Consistent, OpenNumbered, ServersLive
<1>1. ASSUME NEW p \in Protos, Create(h, p) PROVE Consistent'
  BY <1>1 DEF TypeOK, Create
<1>2. CASE OpenScan(h)
  BY <1>2 DEF TypeOK, OpenScan
<1>3. CASE OpenLookupFails(h)
  BY <1>3 DEF TypeOK, OpenLookupFails
<1>4. CASE OpenConnected(h)
  BY <1>4 DEF TypeOK, OpenConnected
<1>5. CASE OpenConnectFails(h)
  BY <1>5 DEF TypeOK, OpenConnectFails
<1>6. CASE Transfer(h)
  BY <1>6 DEF Transfer
<1> QED
  BY <1>1, <1>2, <1>3, <1>4, <1>5, <1>6 DEF Opening

LEMMA ConsistentClose ==
  ASSUME Inv, NEW h \in Handles, Close(h) \/ Destroy(h)
  PROVE  Consistent'
<1> USE DEF Inv, Consistent, OpenNumbered, ServersLive
<1>1. CASE Close(h)
  BY <1>1 DEF TypeOK, Close
<1>2. CASE Destroy(h)
  BY <1>2 DEF TypeOK, Destroy
<1> QED
  BY <1>1, <1>2

LEMMA ConsistentServer ==
  ASSUME Inv, NEW s \in Servers, Server(s)
  PROVE  Consistent'
<1> USE DEF Inv, Consistent, OpenNumbered, ServersLive
<1>1. ASSUME NEW h \in Handles, SrvBind(s, h)
      PROVE  Consistent'
  BY <1>1, NoneAssumption DEF TypeOK, SrvBind
<1>2. CASE SrvListen(s)
  BY <1>2 DEF TypeOK, SrvListen
<1>3. CASE SrvTransfer(s)
  BY <1>3 DEF SrvTransfer
<1>4. CASE SrvNextConn(s)
  BY <1>4 DEF TypeOK, SrvNextConn
<1>5. CASE SrvClose(s)
  BY <1>5 DEF TypeOK, SrvClose, GiveUpSocket
<1> QED
  BY <1>1, <1>2, <1>3, <1>4, <1>5 DEF Server

LEMMA ConsistentNetwork ==
  ASSUME Inv, Network
  PROVE  Consistent'
<1> UNCHANGED <<state, und, bound, srv_sock>>
  BY DEF Network, NetInit, NetDeinit, NetReinit, LinkUpDown, ModuleReset,
         ConnLost, RemoteConnects
<1> QED
  BY DEF Inv, Consistent, OpenNumbered, ServersLive

\* Every call leaves the structures, the servers and the module well typed,
\* every open socket with a number and the socket of a server, if any, live.
THEOREM Invariance == Spec => []Inv
<1>1. Init => Inv
  BY TypeInit DEF Init, Inv, Consistent, OpenNumbered, ServersLive
<1>2. Inv /\ [Next]_vars => Inv'
  <2> SUFFICES ASSUME Inv, [Next]_vars PROVE Inv'
    OBVIOUS
  <2>1. CASE Network
    BY <2>1, TypeNetwork, ConsistentNetwork DEF Inv
  <2>2. ASSUME NEW h \in Handles, Opening(h) PROVE Inv'
    BY <2>2, TypeOpening, ConsistentOpening DEF Inv
  <2>3. ASSUME NEW h \in Handles, Close(h) \/ Destroy(h) PROVE Inv'
    BY <2>3, TypeClose, ConsistentClose DEF Inv
  <2>4. ASSUME NEW s \in Servers, Server(s) PROVE Inv'
    BY <2>4, TypeServer, ConsistentServer DEF Inv
  <2>5. CASE UNCHANGED vars
    BY <2>5 DEF vars, Inv, TypeOK, Consistent, OpenNumbered, ServersLive
  <2> QED
    BY <2>1, <2>2, <2>3, <2>4, <2>5 DEF Next
<1> QED
  BY <1>1, <1>2, PTL DEF Spec

\* The type invariant, of Invariance.
THEOREM TypeCorrect == Spec => []TypeOK
<1>1. Inv => TypeOK
  BY DEF Inv
<1> QED
  BY <1>1, Invariance, PTL

-----------------------------------------------------------------------------
(* Numbers. *)

LEMMA DistinctOpening ==
  ASSUME Inv, DistinctNumbers, NEW h \in Handles, Opening(h)
  PROVE  DistinctNumbers'
<1> USE DEF Inv, TypeOK, DistinctNumbers, Holds
<1>1. ASSUME NEW p \in Protos, Create(h, p) PROVE DistinctNumbers'
  BY <1>1 DEF Create
<1>2. CASE OpenScan(h)
  <2>1. PICK i \in Numbers \cup {Unset} : FirstFree(h, i) /\ und' = [und EXCEPT ![h] = i]
    BY <1>2 DEF OpenScan
  <2>2. state' = [state EXCEPT ![h] = "opening"]
    BY <1>2 DEF OpenScan
  <2>3. ASSUME NEW g \in Handles, g # h, Holds(g)'
        PROVE  und'[g] # und'[h]
    <3>1. state[g] # "free" /\ und[g] # Unset /\ und'[g] = und[g]
      BY <2>1, <2>2, <2>3
    <3>2. und[g] \in Busy(h)
      BY <2>3, <3>1, BusyNumber
    <3> QED
      BY <2>1, <3>1, <3>2, FirstFreeNumber
  <2>4. ASSUME NEW f \in Handles, NEW g \in Handles, f # g, f # h, g # h, Holds(f)', Holds(g)'
        PROVE  und'[f] # und'[g]
    BY <2>1, <2>2, <2>4
  <2> QED
    BY <2>3, <2>4
<1>3. CASE OpenLookupFails(h)
  BY <1>3 DEF OpenLookupFails
<1>4. CASE OpenConnected(h)
  BY <1>4 DEF OpenConnected
<1>5. CASE OpenConnectFails(h)
  BY <1>5 DEF OpenConnectFails
<1>6. CASE Transfer(h)
  BY <1>6 DEF Transfer
<1> QED
  BY <1>1, <1>2, <1>3, <1>4, <1>5, <1>6 DEF Opening

LEMMA DistinctClose ==
  ASSUME Inv, DistinctNumbers, NEW h \in Handles, Close(h) \/ Destroy(h)
  PROVE  DistinctNumbers'
<1> USE DEF Inv, TypeOK, DistinctNumbers, Holds
<1>1. CASE Close(h)
  BY <1>1 DEF Close
<1>2. CASE Destroy(h)
  BY <1>2 DEF Destroy
<1> QED
  BY <1>1, <1>2

LEMMA DistinctServer ==
  ASSUME Inv, DistinctNumbers, NEW s \in Servers, Server(s)
  PROVE  DistinctNumbers'
<1> USE DEF Inv, TypeOK, DistinctNumbers, Holds
<1>1. ASSUME NEW h \in Handles, SrvBind(s, h) PROVE DistinctNumbers'
  BY <1>1 DEF SrvBind
<1>2. CASE SrvListen(s) \/ SrvTransfer(s) \/ SrvNextConn(s)
  BY <1>2 DEF SrvListen, SrvTransfer, SrvNextConn
<1>3. CASE SrvClose(s)
  BY <1>3 DEF SrvClose, GiveUpSocket
<1> QED
  BY <1>1, <1>2, <1>3 DEF Server

LEMMA DistinctNetwork ==
  ASSUME DistinctNumbers, Network
  PROVE  DistinctNumbers'
<1> UNCHANGED <<state, und>>
  BY DEF Network, NetInit, NetDeinit, NetReinit, LinkUpDown, ModuleReset,
         ConnLost, RemoteConnects
<1> QED
  BY DEF DistinctNumbers, Holds

\* No call on an open socket reaches the module with number -1, and the socket a
\* server points to is its own, which no other call frees or renumbers.
THEOREM ConsistentAlways == Spec => []Consistent
<1>1. Inv => Consistent
  BY DEF Inv
<1> QED
  BY <1>1, Invariance, PTL

\* The scan of net_sock_open_wifi never gives one module socket to two socket
\* structures, whatever calls are made in whatever order.
THEOREM NumbersDistinct == Spec => []DistinctNumbers
<1>1. Init => DistinctNumbers
  BY DEF Init, DistinctNumbers, Holds
<1>2. Inv /\ DistinctNumbers /\ [Next]_vars => DistinctNumbers'
  <2> SUFFICES ASSUME Inv, DistinctNumbers, [Next]_vars PROVE DistinctNumbers'
    OBVIOUS
  <2>1. CASE Network
    BY <2>1, DistinctNetwork
  <2>2. ASSUME NEW h \in Handles, Opening(h) PROVE DistinctNumbers'
    BY <2>2, DistinctOpening
  <2>3. ASSUME NEW h \in Handles, Close(h) \/ Destroy(h) PROVE DistinctNumbers'
    BY <2>3, DistinctClose
  <2>4. ASSUME NEW s \in Servers, Server(s) PROVE DistinctNumbers'
    BY <2>4, DistinctServer
  <2>5. CASE UNCHANGED vars
    BY <2>5 DEF vars, DistinctNumbers, Holds
  <2> QED
    BY <2>1, <2>2, <2>3, <2>4, <2>5 DEF Next
<1> QED
  BY <1>1, <1>2, Invariance, PTL DEF Spec

-----------------------------------------------------------------------------
(* Careful use of sockets.  CloseNumber confuses the module sockets above 1 *)
(* with 1, so independence holds only while no socket gets one.             *)

\* At most two structures, or at most two module sockets.
FewSockets ==
  \/ \A f, g, h \in Handles : f = g \/ g = h \/ f = h
  \/ NumSockets <= 2

\* The numbers net_sock_close tells apart.
LowNumbers == \A h \in Handles : state[h] # "free" => und[h] \in {Unset, 0, 1}

\* No client connection was made on top of a server.
NoServers == \A n \in Numbers : link[n] \in {"closed", "client"}

CarefulInv == Inv /\ DistinctNumbers /\ LowNumbers /\ NoServers

LEMMA ScanLow ==
  ASSUME FewSockets, NEW h \in Handles, NEW i \in Numbers \cup {Unset}, FirstFree(h, i)
  PROVE  i \in {Unset, 0, 1}
<1>1. CASE NumSockets <= 2
  BY <1>1, NumSocketsAssumption DEF Numbers, Unset
<1>2. CASE \A f, g, k \in Handles : f = g \/ g = k \/ f = k
  <2>1. 0 \notin Busy(h) \/ 1 \notin Busy(h)
    BY <1>2 DEF Busy, sock_list
  <2>2. ASSUME i # Unset PROVE i <= 0 \/ i <= 1
    BY <2>1, <2>2, Zero DEF FirstFree
  <2> QED
    BY <2>2, NumSocketsAssumption DEF Numbers, Unset
<1> QED
  BY <1>1, <1>2 DEF FewSockets

LEMMA CarefulIsAny == CarefulSpec => Spec
<1>1. CarefulNext => Next
  BY DEF CarefulNext, Next
<1> QED
  BY <1>1, PTL DEF CarefulSpec, Spec

LEMMA LowStep ==
  ASSUME FewSockets, Inv, LowNumbers, [CarefulNext]_vars
  PROVE  LowNumbers'
<1> USE DEF Inv, TypeOK, LowNumbers
<1>1. CASE Network
  BY <1>1 DEF Network, NetInit, NetDeinit, NetReinit, LinkUpDown, ModuleReset,
         ConnLost, RemoteConnects
<1>2. ASSUME NEW h \in Handles, NEW p \in Protos, Create(h, p) PROVE LowNumbers'
  BY <1>2 DEF Create
<1>3. ASSUME NEW h \in Handles, OpenScan(h) PROVE LowNumbers'
  BY <1>3, ScanLow DEF OpenScan
<1>4. ASSUME NEW h \in Handles, OpenLookupFails(h) PROVE LowNumbers'
  BY <1>4 DEF OpenLookupFails
<1>5. ASSUME NEW h \in Handles, OpenConnected(h) PROVE LowNumbers'
  BY <1>5 DEF OpenConnected
<1>6. ASSUME NEW h \in Handles, OpenConnectFails(h) PROVE LowNumbers'
  BY <1>6 DEF OpenConnectFails
<1>7. ASSUME NEW h \in Handles, Transfer(h) PROVE LowNumbers'
  BY <1>7 DEF Transfer
<1>8. ASSUME NEW h \in Handles, Close(h) PROVE LowNumbers'
  BY <1>8 DEF Close
<1>9. ASSUME NEW h \in Handles, Destroy(h) PROVE LowNumbers'
  BY <1>9 DEF Destroy
<1>10. CASE UNCHANGED vars
  BY <1>10 DEF vars
<1> QED
  BY <1>1, <1>2, <1>3, <1>4, <1>5, <1>6, <1>7, <1>8, <1>9, <1>10 DEF CarefulNext, Opening

LEMMA NoServersStep ==
  ASSUME Inv, NoServers, [CarefulNext]_vars
  PROVE  NoServers'
<1> USE DEF Inv, TypeOK, NoServers
<1>1. CASE Network
  BY <1>1 DEF Network, NetInit, NetDeinit, NetReinit, LinkUpDown, ModuleReset,
         ConnLost, RemoteConnects
<1>2. ASSUME NEW h \in Handles, Opening(h) PROVE NoServers'
  BY <1>2 DEF Opening, Create, OpenScan, OpenLookupFails, OpenConnected, OpenConnectFails,
         Transfer, StartClient, Refused
<1>3. ASSUME NEW h \in Handles, Close(h) \/ Destroy(h) PROVE NoServers'
  BY <1>3 DEF Close, Destroy, StopClient, Refused
<1>4. CASE UNCHANGED vars
  BY <1>4 DEF vars
<1> QED
  BY <1>1, <1>2, <1>3, <1>4 DEF CarefulNext

LEMMA CarefulInvariance ==
  ASSUME FewSockets
  PROVE  CarefulSpec => []CarefulInv
<1>1. Init => LowNumbers /\ NoServers
  BY DEF Init, LowNumbers, NoServers
<1>2. Inv /\ LowNumbers /\ NoServers /\ [CarefulNext]_vars => LowNumbers' /\ NoServers'
  BY LowStep, NoServersStep
<1> QED
  BY <1>1, <1>2, CarefulIsAny, Invariance, NumbersDistinct, PTL DEF CarefulSpec, CarefulInv

\* The abstract state.
Conns == [h \in Handles |-> Conn(h)]

\* The module socket of an open socket belongs to it.
LEMMA OpenNumber ==
  ASSUME CarefulInv, NEW h \in Handles, state[h] = "open"
  PROVE  und[h] \in Numbers /\ CloseNumber(und[h]) = und[h]
BY Zero DEF CarefulInv, Inv, TypeOK, Consistent, OpenNumbered, LowNumbers, CloseNumber

\* A step of the module or the network is seen by all sockets, or by one.
LEMMA NetworkImplements ==
  ASSUME CarefulInv, Network
  PROVE  Abs!Next \/ UNCHANGED Conns
<1>1. CASE NetInit \/ NetReinit \/ ModuleReset
  <2>1. state' = state /\ und' = und /\ link' = [n \in Numbers |-> "closed"]
    BY <1>1 DEF NetInit, NetReinit, ModuleReset
  <2>2. ASSUME NEW h \in Handles
        PROVE  Conn(h)' = IF Conn(h) = "up" THEN "down" ELSE Conn(h)
    BY <2>1, OpenNumber DEF Conn
  <2> QED
    BY <2>2 DEF Abs!Next, Abs!LoseAll
<1>2. CASE NetDeinit \/ LinkUpDown
  BY <1>2 DEF NetDeinit, LinkUpDown, Conns, Conn
<1>3. ASSUME NEW n \in Numbers, RemoteConnects(n) PROVE UNCHANGED Conns
  BY <1>3 DEF RemoteConnects, Conns, Conn, CarefulInv, NoServers
<1>4. ASSUME NEW n \in Numbers, ConnLost(n) PROVE Abs!Next \/ UNCHANGED Conns
  <2>1. /\ state' = state /\ und' = und /\ link \in [Numbers -> Links]
        /\ link[n] = "client" /\ link' = [link EXCEPT ![n] = "closed"]
    BY <1>4 DEF ConnLost, CarefulInv, Inv, TypeOK
  <2>2. CASE \E h \in Handles : state[h] = "open" /\ und[h] = n
    <3>1. PICK h \in Handles : state[h] = "open" /\ und[h] = n
      BY <2>2
    <3>2. Conn(h) = "up" /\ Conn(h)' = "down"
      BY <2>1, <3>1 DEF Conn
    <3>3. ASSUME NEW g \in Handles, g # h PROVE Conn(g)' = Conn(g)
      BY <2>1, <3>1, <3>3, OpenNumber DEF Conn, CarefulInv, DistinctNumbers, Holds,
         Inv, Consistent, OpenNumbered
    <3>4. Abs!Lose(h)
      BY <3>2, <3>3 DEF Abs!Lose
    <3> QED
      BY <3>4 DEF Abs!Next
  <2>3. CASE ~ \E h \in Handles : state[h] = "open" /\ und[h] = n
    BY <2>1, <2>3, OpenNumber DEF Conns, Conn
  <2> QED
    BY <2>2, <2>3
<1> QED
  BY <1>1, <1>2, <1>3, <1>4 DEF Network

\* Opening a socket touches no other socket's module socket.
LEMMA OpeningImplements ==
  ASSUME CarefulInv, NEW h \in Handles, Opening(h)
  PROVE  Abs!Next \/ UNCHANGED Conns
<1> USE DEF CarefulInv, Inv, TypeOK
<1>1. ASSUME NEW g \in Handles, g # h, state[g] = "open", state[h] = "opening", und[h] # Unset
      PROVE  und[g] # und[h]
  BY <1>1 DEF DistinctNumbers, Holds, Consistent, OpenNumbered
<1>2. ASSUME NEW p \in Protos, Create(h, p) PROVE UNCHANGED Conns
  BY <1>2 DEF Create, Conns, Conn
<1>3. CASE OpenScan(h)
  BY <1>3 DEF OpenScan, Conns, Conn
<1>4. CASE OpenLookupFails(h)
  BY <1>4 DEF OpenLookupFails, Conns, Conn
<1>5. CASE OpenConnected(h)
  <2>1. Conn(h) = "none" /\ Conn(h)' = "up"
    BY <1>5 DEF OpenConnected, StartClient, Conn
  <2>2. ASSUME NEW g \in Handles, g # h PROVE Conn(g)' = Conn(g)
    BY <1>1, <1>5, <2>2, OpenNumber DEF OpenConnected, StartClient, Conn
  <2>3. Abs!Open(h)
    BY <2>1, <2>2 DEF Abs!Open
  <2> QED
    BY <2>3 DEF Abs!Next
<1>6. CASE OpenConnectFails(h)
  <2>1. ASSUME NEW g \in Handles PROVE Conn(g)' = Conn(g)
    <3>1. Conn(h)' = "none" /\ Conn(h) = "none"
      BY <1>6 DEF OpenConnectFails, Conn
    <3>2. CASE g # h /\ state[g] = "open"
      <4>1. link'[und[g]] = link[und[g]]
        BY <1>1, <1>6, <3>2, OpenNumber DEF OpenConnectFails, StartClient, Refused
      <4> QED
        BY <1>6, <3>2, <4>1 DEF OpenConnectFails, Conn
    <3>3. CASE g # h /\ state[g] # "open"
      BY <1>6, <3>3 DEF OpenConnectFails, Conn
    <3> QED
      BY <3>1, <3>2, <3>3
  <2> QED
    BY <2>1 DEF Conns
<1>7. CASE Transfer(h)
  BY <1>7 DEF Transfer, Conns, Conn
<1> QED
  BY <1>2, <1>3, <1>4, <1>5, <1>6, <1>7 DEF Opening

\* Closing an open socket ends its own connection, whatever the outcome.
LEMMA CloseImplements ==
  ASSUME CarefulInv, NEW h \in Handles, state[h] = "open", Close(h)
  PROVE  Abs!Next \/ UNCHANGED Conns
<1> USE DEF CarefulInv, Inv, TypeOK
<1> DEFINE n == und[h]
<1>1. n \in Numbers /\ CloseNumber(n) = n
  BY OpenNumber
<1>2. Conn(h) \in {"up", "down"}
  BY DEF Conn
<1>3. link' = link \/ link' = [link EXCEPT ![n] = "closed"]
  BY <1>1 DEF Close, StopClient, Refused
<1>4. ASSUME NEW g \in Handles, g # h PROVE Conn(g)' = Conn(g)
  <2>1. state'[g] = state[g] /\ und'[g] = und[g]
    BY <1>4 DEF Close
  <2>2. CASE state[g] = "open"
    <3>1. und[g] \in Numbers /\ und[g] # n
      BY <1>1, <1>4, <2>2, OpenNumber DEF DistinctNumbers, Holds, Consistent, OpenNumbered
    <3> QED
      BY <1>3, <2>1, <2>2, <3>1 DEF Conn
  <2> QED
    BY <2>1, <2>2 DEF Conn
<1>5. CASE state'[h] = "closed"
  <2>1. Abs!Close(h)
    BY <1>2, <1>4, <1>5 DEF Abs!Close, Conn
  <2> QED
    BY <2>1 DEF Abs!Next
<1>6. CASE state'[h] # "closed"
  <2>1. state' = state /\ und' = und
    BY <1>6 DEF Close
  <2>2. CASE Conn(h)' = Conn(h)
    BY <1>4, <2>2 DEF Conns
  <2>3. CASE Conn(h)' # Conn(h)
    <3>1. Conn(h) = "up" /\ Conn(h)' = "down"
      BY <1>1, <1>3, <2>1, <2>3 DEF Conn
    <3>2. Abs!Lose(h)
      BY <1>4, <3>1 DEF Abs!Lose
    <3> QED
      BY <3>2 DEF Abs!Next
  <2> QED
    BY <2>2, <2>3
<1> QED
  BY <1>5, <1>6

\* A careful call is a call on one socket, or on none.
LEMMA CarefulImplements ==
  ASSUME CarefulInv, [CarefulNext]_vars
  PROVE  Abs!Next \/ UNCHANGED Conns
<1>1. CASE Network
  BY <1>1, NetworkImplements
<1>2. ASSUME NEW h \in Handles, Opening(h) PROVE Abs!Next \/ UNCHANGED Conns
  BY <1>2, OpeningImplements
<1>3. ASSUME NEW h \in Handles, state[h] = "open", Close(h)
      PROVE  Abs!Next \/ UNCHANGED Conns
  BY <1>3, CloseImplements
<1>4. ASSUME NEW h \in Handles, Destroy(h) PROVE Abs!Next \/ UNCHANGED Conns
  <2>1. /\ state' = [state EXCEPT ![h] = "free"] /\ state \in [Handles -> States]
        /\ link' = link /\ und' = und
    BY <1>4 DEF Destroy, CarefulInv, Inv, TypeOK
  <2>2. Conn(h)' = "none"
    BY <2>1 DEF Conn
  <2>3. ASSUME NEW g \in Handles, g # h PROVE Conn(g)' = Conn(g)
    BY <2>1, <2>3 DEF Conn
  <2>4. CASE Conn(h) = "none"
    BY <2>2, <2>3, <2>4 DEF Conns
  <2>5. CASE Conn(h) # "none"
    <3>1. Abs!Close(h)
      BY <2>2, <2>3, <2>5 DEF Abs!Close, Conn
    <3> QED
      BY <3>1 DEF Abs!Next
  <2> QED
    BY <2>4, <2>5
<1>5. CASE UNCHANGED vars
  BY <1>5 DEF vars, Conns, Conn
<1> QED
  BY <1>1, <1>2, <1>3, <1>4, <1>5 DEF CarefulNext

\* A few sockets used with care are independent connections, whatever becomes
\* of the network and of the module's answers.
THEOREM Independence ==
  ASSUME FewSockets
  PROVE  CarefulSpec => IndependentSockets
<1>1. Init => Abs!Init
  BY DEF Init, Abs!Init, Conn
<1>2. CarefulInv /\ [CarefulNext]_vars => [Abs!Next]_Conns
  BY CarefulImplements
<1> QED
  BY <1>1, <1>2, CarefulInvariance, PTL DEF CarefulSpec, IndependentSockets, Abs!Spec, Conns

\* They are so until the first call that is not careful, among any calls on any
\* sockets and servers.
THEOREM IndependenceAmongAnyCalls ==
  ASSUME FewSockets
  PROVE  MCSpec => IndependentWhileCareful
<1> DEFINE Kept == careful => LowNumbers /\ NoServers
<1>1. MCInit => Abs!Init /\ Kept
  BY DEF MCInit, Init, Abs!Init, Conn, LowNumbers, NoServers
<1>2. Inv /\ Kept /\ [MCNext]_<<vars, careful>> => Kept'
  <2> SUFFICES ASSUME Inv, Kept, [MCNext]_<<vars, careful>>, careful'
               PROVE  LowNumbers' /\ NoServers'
    OBVIOUS
  <2>1. [CarefulNext]_vars /\ careful
    BY DEF MCNext
  <2> QED
    BY <2>1, LowStep, NoServersStep
<1>3. Inv /\ DistinctNumbers /\ Kept /\ [MCNext]_<<vars, careful>>
        => (careful' => [Abs!Next]_connections)
  <2> SUFFICES ASSUME Inv, DistinctNumbers, Kept, [MCNext]_<<vars, careful>>, careful'
               PROVE  Abs!Next \/ UNCHANGED Conns
    BY DEF connections, Conns
  <2>1. [CarefulNext]_vars /\ careful
    BY DEF MCNext
  <2> QED
    BY <2>1, CarefulImplements DEF CarefulInv
<1>4. MCInit => Init
  BY DEF MCInit
<1>5. [MCNext]_<<vars, careful>> => [Next]_vars
  BY DEF MCNext, CarefulNext, Next
<1> QED
  BY <1>1, <1>2, <1>3, <1>4, <1>5, Invariance, NumbersDistinct, PTL
  DEF MCSpec, Spec, IndependentWhileCareful
=============================================================================
