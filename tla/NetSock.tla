------------------------------- MODULE NetSock -------------------------------
(***************************************************************************)
(* The socket layer over the ISM43362 Wi-Fi module: the interface context  *)
(* of net.c, the TCP and UDP sockets of net_tcp_wifi.c, the single-client  *)
(* servers of net_srv.c, and the AT commands of es_wifi.c they end in.     *)
(*                                                                         *)
(* A socket structure is identified by its address, a member of Handles    *)
(* that malloc may hand out again after free().  The module has NumSockets *)
(* numbered sockets of its own and a register (command P0) naming the one  *)
(* the other commands act on.  Nothing but the scan in net_sock_open_wifi  *)
(* keeps two structures from using one number.                             *)
(***************************************************************************)
EXTENDS Integers, FiniteSets

CONSTANTS
  Handles,      \* addresses malloc can return for a net_sock_ctxt_t
  Servers,      \* the net_srv_conn_t structures of the HTTP and WebSocket servers
  NumSockets,   \* WIFI_MAX_CONNECTIONS
  None,         \* NULL
  AnswersLost   \* TRUE: the answer to a command the module executed may be lost

ASSUME NumSocketsAssumption == NumSockets \in Nat /\ NumSockets >= 2
ASSUME NoneAssumption == None \notin Handles
ASSUME AnswersLostAssumption == AnswersLost \in BOOLEAN

VARIABLES
  hnet,       \* the interface context exists
  wifiUp,     \* the module is associated with an access point
  state,      \* what the last call on a socket structure left it as
  proto,      \* sock->proto
  und,        \* sock->underlying_sock_ctxt
  bound,      \* net_srv_bind returned NET_OK, and the server was not closed since
  srv_sock,   \* srv->sock of each server
  serving,    \* the server is between net_srv_listen and net_srv_next_conn
  sel,        \* the module socket selected by the last P0 command
  link        \* what each module socket is doing

vars == <<hnet, wifiUp, state, proto, und, bound, srv_sock, serving, sel, link>>

Numbers == 0 .. NumSockets - 1
Unset == -1

\* "free": not allocated.  "fresh": created and never opened.  "opening":
\* inside net_sock_open, blocked in a name lookup.  "open": the last open
\* returned NET_OK.  "failed": it returned an error.  "closed": the last
\* close returned NET_OK.  "server": created by net_srv_bind.
States == {"free", "fresh", "opening", "open", "failed", "closed", "server"}
Protos == {"TCP", "UDP"}
Links  == {"closed", "client", "listening", "accepted"}

TypeOK ==
  /\ hnet \in BOOLEAN
  /\ wifiUp \in BOOLEAN
  /\ state \in [Handles -> States]
  /\ proto \in [Handles -> Protos]
  /\ und \in [Handles -> Numbers \cup {Unset}]
  /\ bound \in [Servers -> BOOLEAN]
  /\ srv_sock \in [Servers -> Handles \cup {None}]
  /\ serving \in [Servers -> BOOLEAN]
  /\ sel \in Numbers
  /\ link \in [Numbers -> Links]

\* The linked list of the interface: insertion is at the head and removal
\* unlinks, and no code depends on the order, so a set stands for it.
sock_list == {h \in Handles : state[h] # "free"}

Init ==
  /\ hnet = FALSE
  /\ wifiUp = FALSE
  /\ state = [h \in Handles |-> "free"]
  /\ proto = [h \in Handles |-> "TCP"]
  /\ und = [h \in Handles |-> 0]
  /\ bound = [s \in Servers |-> FALSE]
  /\ srv_sock = [s \in Servers |-> None]
  /\ serving = [s \in Servers |-> FALSE]
  /\ sel = 0
  /\ link = [n \in Numbers |-> "closed"]

-----------------------------------------------------------------------------
(* The module.  A command may be refused, or executed with its answer lost  *)
(* (the SPI transfer times out): the caller cannot tell these two apart.    *)

Executed == {"ok"} \cup (IF AnswersLost THEN {"lost"} ELSE {})

\* P0=n, then the parameters, then P6=1: connect socket n.
\* What the module does with a socket that is already in use is not
\* documented, so it may refuse, or drop the old connection.
StartClient(n) ==
  /\ sel' = n
  /\ link' = [link EXCEPT ![n] = "client"]

\* P0=n, then P6=0.  Sent to a server socket it may leave the server alone.
StopClient(n) ==
  /\ sel' = n
  /\ \/ link' = [link EXCEPT ![n] = "closed"]
     \/ link[n] \in {"listening", "accepted"} /\ link' = link

\* P0=n, then the parameters, then P5=11: listen on socket n.
StartServer(n) ==
  /\ sel' = n
  /\ link' = [link EXCEPT ![n] = "listening"]

\* A refused command changes at most the selected socket.
Refused(n) ==
  /\ sel' \in {sel, n}
  /\ UNCHANGED link

-----------------------------------------------------------------------------
(* The network interface. *)

\* net_init: the interface callback resets the module and tries to join the
\* network; the context is kept only if it could.
NetInit ==
  /\ ~hnet
  /\ hnet' \in BOOLEAN
  /\ wifiUp' = hnet'
  /\ sel' = 0
  /\ link' = [n \in Numbers |-> "closed"]
  /\ UNCHANGED <<state, proto, und, bound, srv_sock, serving>>

\* net_deinit refuses while a socket is on the list; the module is left alone.
NetDeinit ==
  /\ hnet
  /\ sock_list = {}
  /\ hnet' = FALSE
  /\ UNCHANGED <<wifiUp, state, proto, und, bound, srv_sock, serving, sel, link>>

\* net_reinit: the same refusal; the callback resets the module and tries to
\* join again, and its verdict is ignored.
NetReinit ==
  /\ hnet
  /\ sock_list = {}
  /\ wifiUp' \in BOOLEAN
  /\ sel' = 0
  /\ link' = [n \in Numbers |-> "closed"]
  /\ UNCHANGED <<hnet, state, proto, und, bound, srv_sock, serving>>

\* The link to the access point comes and goes; net_is_up asks the module.
LinkUpDown ==
  /\ hnet
  /\ wifiUp' = ~wifiUp
  /\ UNCHANGED <<hnet, state, proto, und, bound, srv_sock, serving, sel, link>>

\* The module talks past the receive buffer and the SPI driver resets it.
ModuleReset ==
  /\ hnet
  /\ wifiUp' = FALSE
  /\ sel' = 0
  /\ link' = [n \in Numbers |-> "closed"]
  /\ UNCHANGED <<hnet, state, proto, und, bound, srv_sock, serving>>

\* A remote host ends a connection.
ConnLost(n) ==
  /\ link[n] = "client"
  /\ link' = [link EXCEPT ![n] = "closed"]
  /\ UNCHANGED <<hnet, wifiUp, state, proto, und, bound, srv_sock, serving, sel>>

\* A remote host connects to a listening module socket.
RemoteConnects(n) ==
  /\ link[n] = "listening"
  /\ link' = [link EXCEPT ![n] = "accepted"]
  /\ UNCHANGED <<hnet, wifiUp, state, proto, und, bound, srv_sock, serving, sel>>

-----------------------------------------------------------------------------
(* Client sockets: net_tcp_wifi.c. *)

\* net_sock_create refuses while the network is down.  memset leaves the
\* number of the new structure 0, which is a number of the module.
Create(h, p) ==
  /\ hnet
  /\ wifiUp
  /\ state[h] = "free"
  /\ state' = [state EXCEPT ![h] = "fresh"]
  /\ proto' = [proto EXCEPT ![h] = p]
  /\ und' = [und EXCEPT ![h] = 0]
  /\ UNCHANGED <<hnet, wifiUp, bound, srv_sock, serving, sel, link>>

\* Mutants of Busy: the scan misses the sockets of the other protocol; it sees
\* only the sockets that are open.
BusyOneProtocol(h) == {und[g] : g \in {f \in sock_list \ {h} : proto[f] = "TCP"}} \ {Unset}
BusyOpen(h) == {und[g] : g \in {f \in sock_list \ {h} : state[f] = "open"}} \ {Unset}

\* underlying_socket_busy as the scan computes it for structure h, which has
\* just set its own number to -1: every other structure counts, those never
\* opened included.
Busy(h) == {und[g] : g \in sock_list \ {h}} \ {Unset}

\* The first number that is not busy, or -1 when all are.
FirstFree(h, i) ==
  LET free == Numbers \ Busy(h)
  IN  IF free = {} THEN i = Unset ELSE i \in free /\ \A j \in free : i <= j

\* net_sock_open_wifi up to the name lookup, which may block for seconds
\* while other tasks run.  The test for "no free socket" compares a pointer
\* with 0 and is always true, so an open that found none goes on with -1.
OpenScan(h) ==
  /\ state[h] \in {"fresh", "failed", "closed"}
  /\ \E i \in Numbers \cup {Unset} :
       /\ FirstFree(h, i)
       /\ und' = [und EXCEPT ![h] = i]
  /\ state' = [state EXCEPT ![h] = "opening"]
  /\ UNCHANGED <<hnet, wifiUp, proto, bound, srv_sock, serving, sel, link>>

\* The rest of net_sock_open_wifi when it never reaches the module: a TCP
\* socket with a local port, or whose host has no address.  The number is kept.
OpenLookupFails(h) ==
  /\ state[h] = "opening"
  /\ proto[h] = "TCP"
  /\ state' = [state EXCEPT ![h] = "failed"]
  /\ UNCHANGED <<hnet, wifiUp, proto, und, bound, srv_sock, serving, sel, link>>

\* ... when the module connects.  A UDP socket gets here also when its host
\* has no address.
OpenConnected(h) ==
  /\ state[h] = "opening"
  /\ und[h] # Unset
  /\ StartClient(und[h])
  /\ state' = [state EXCEPT ![h] = "open"]
  /\ UNCHANGED <<hnet, wifiUp, proto, und, bound, srv_sock, serving>>

\* ... when the module refuses (it always refuses 255, which -1 becomes in
\* eight bits), or its answer is lost: the number is given up.
OpenConnectFails(h) ==
  /\ state[h] = "opening"
  /\ \/ und[h] = Unset /\ UNCHANGED <<sel, link>>
     \/ und[h] # Unset /\ Refused(und[h])
     \/ und[h] # Unset /\ "lost" \in Executed /\ StartClient(und[h])
  /\ und' = [und EXCEPT ![h] = Unset]
  /\ state' = [state EXCEPT ![h] = "failed"]
  /\ UNCHANGED <<hnet, wifiUp, proto, bound, srv_sock, serving>>

\* Send and receive address the module socket with the structure's number.
Transfer(h) ==
  /\ state[h] = "open"
  /\ sel' = und[h]
  /\ UNCHANGED <<hnet, wifiUp, state, proto, und, bound, srv_sock, serving, link>>

\* Mutant of CloseNumber: -1 is passed on.
CloseNumberUnmasked(u) == u

\* The module socket net_sock_close_tcp_wifi closes: (uint32_t) und && 0xFF
\* is a logical conjunction, 1 for every number but 0, for -1 too.
CloseNumber(u) == IF u = 0 THEN 0 ELSE 1

\* net_sock_close_tcp_wifi.
Close(h) ==
  /\ state[h] \in {"fresh", "open", "failed", "closed"}
  /\ \/ /\ StopClient(CloseNumber(und[h]))
        /\ und' = [und EXCEPT ![h] = Unset]
        /\ state' = [state EXCEPT ![h] = "closed"]
     \/ /\ Refused(CloseNumber(und[h]))
        /\ UNCHANGED <<und, state>>
     \/ /\ "lost" \in Executed
        /\ StopClient(CloseNumber(und[h]))
        /\ UNCHANGED <<und, state>>
  /\ UNCHANGED <<hnet, wifiUp, proto, bound, srv_sock, serving>>

\* net_sock_destroy_tcp_wifi unlinks and frees; the module is not told.
Destroy(h) ==
  /\ state[h] \in {"fresh", "open", "failed", "closed"}
  /\ state' = [state EXCEPT ![h] = "free"]
  /\ UNCHANGED <<hnet, wifiUp, proto, und, bound, srv_sock, serving, sel, link>>

-----------------------------------------------------------------------------
(* Servers: net_srv.c, as the HTTP and WebSocket servers call it. *)

\* net_srv_bind creates a socket, whose number is therefore 0, and starts a
\* server on it.  If the module does not, it still returns NET_OK: the new
\* socket stays on the list with nothing pointing to it, and srv->sock NULL.
SrvBind(s, h) ==
  /\ hnet
  /\ wifiUp
  /\ ~bound[s]
  /\ state[h] = "free"
  /\ bound' = [bound EXCEPT ![s] = TRUE]
  /\ state' = [state EXCEPT ![h] = "server"]
  /\ proto' = [proto EXCEPT ![h] = "TCP"]
  /\ und' = [und EXCEPT ![h] = 0]
  /\ \/ StartServer(0) /\ srv_sock' = [srv_sock EXCEPT ![s] = h]
     \/ Refused(0) /\ UNCHANGED srv_sock
     \/ "lost" \in Executed /\ StartServer(0) /\ UNCHANGED srv_sock
  /\ UNCHANGED <<hnet, wifiUp, serving>>

\* The number read through srv->sock: behind a NULL there may be any.
NumbersOf(s) == IF srv_sock[s] = None THEN Numbers ELSE {und[srv_sock[s]]}

\* net_srv_listen reads the number of its socket, also when that is NULL, for
\* a call that ignores it: it polls the connection of the module socket that
\* happens to be selected (P? without a P0) and returns when it has a remote
\* end.  ws_server_run listens whether or not its server was started.
SrvListen(s) ==
  /\ ~serving[s]
  /\ link[sel] \in {"client", "accepted"}
  /\ serving' = [serving EXCEPT ![s] = TRUE]
  /\ UNCHANGED <<hnet, wifiUp, state, proto, und, bound, srv_sock, sel, link>>

\* Reading a request and sending the response.  Through NULL the methods called
\* are not functions of the program: it may stop here, or select any number.
SrvTransfer(s) ==
  /\ serving[s]
  /\ sel' \in NumbersOf(s)
  /\ UNCHANGED <<hnet, wifiUp, state, proto, und, bound, srv_sock, serving, link>>

\* net_srv_next_conn (P0, P5=10).  Its callers go back to listening whatever
\* it returns; ws_server_client_close leaves it out when srv->sock is NULL.
SrvNextConn(s) ==
  /\ bound[s] \/ serving[s]
  /\ \E n \in NumbersOf(s) :
       \/ /\ sel' = n
          /\ link[n] = "accepted"
          /\ link' = [link EXCEPT ![n] = "listening"]
       \/ Refused(n)
  /\ serving' = [serving EXCEPT ![s] = FALSE]
  /\ UNCHANGED <<hnet, wifiUp, state, proto, und, bound, srv_sock>>

\* The module sockets net_srv_close tells the module to stop (P5=0): the
\* number of a server is 0, and 0 is taken for "already closed".
Stopped(h) == IF und[h] > 0 THEN {und[h]} ELSE {}

\* The socket of a server is stopped and destroyed.
GiveUpSocket(h) ==
  /\ link' = [n \in Numbers |-> IF n \in Stopped(h) THEN "closed" ELSE link[n]]
  /\ state' = [state EXCEPT ![h] = "free"]
  /\ sel' = IF Stopped(h) = {} THEN sel ELSE und[h]

\* Mutant of SrvClose: the server structure keeps its pointer.
SrvCloseKeepsPointer(s) ==
  /\ srv_sock[s] # None
  /\ GiveUpSocket(srv_sock[s])
  /\ UNCHANGED <<hnet, wifiUp, proto, und, bound, srv_sock, serving>>

\* net_srv_close: the server structure is cleared; without a socket there is
\* "nothing to close".
SrvClose(s) ==
  /\ bound[s]
  /\ IF srv_sock[s] = None THEN UNCHANGED <<state, sel, link>> ELSE GiveUpSocket(srv_sock[s])
  /\ bound' = [bound EXCEPT ![s] = FALSE]
  /\ srv_sock' = [srv_sock EXCEPT ![s] = None]
  /\ serving' = [serving EXCEPT ![s] = FALSE]
  /\ UNCHANGED <<hnet, wifiUp, proto, und>>

-----------------------------------------------------------------------------

Network ==
  \/ NetInit \/ NetDeinit \/ NetReinit \/ LinkUpDown \/ ModuleReset
  \/ \E n \in Numbers : ConnLost(n) \/ RemoteConnects(n)

\* The calls that need no care from their caller.
Opening(h) ==
  \/ \E p \in Protos : Create(h, p)
  \/ OpenScan(h) \/ OpenLookupFails(h) \/ OpenConnected(h) \/ OpenConnectFails(h)
  \/ Transfer(h)

Server(s) ==
  \/ \E h \in Handles : SrvBind(s, h)
  \/ SrvListen(s) \/ SrvTransfer(s) \/ SrvNextConn(s) \/ SrvClose(s)

\* Any sequence of calls on live sockets.
Next ==
  \/ Network
  \/ \E h \in Handles : Opening(h) \/ Close(h) \/ Destroy(h)
  \/ \E s \in Servers : Server(s)

Spec == Init /\ [][Next]_vars

\* Client sockets used with care, as net_sock_open_mbedtls does with the TCP
\* socket under a TLS one: a socket is closed only when it is open, and destroyed
\* whether or not the close succeeded.  There is no server.
CarefulNext ==
  \/ Network
  \/ \E h \in Handles : Opening(h) \/ (state[h] = "open" /\ Close(h)) \/ Destroy(h)

CarefulSpec == Init /\ [][CarefulNext]_vars

\* mqtt_hard_reset, and every other caller that is done with a socket: it is
\* closed and destroyed, whatever the close returned.
HardReset(h) ==
  /\ state[h] = "open"
  /\ StopClient(CloseNumber(und[h])) \/ Refused(CloseNumber(und[h]))
  /\ state' = [state EXCEPT ![h] = "free"]
  /\ UNCHANGED <<hnet, wifiUp, proto, und, bound, srv_sock, serving>>

ResetNext == Network \/ \E h \in Handles : Opening(h) \/ HardReset(h)

ResetSpec == Init /\ [][ResetNext]_vars

-----------------------------------------------------------------------------
(* Properties of any sequence of calls. *)

Holds(h) == state[h] \in {"opening", "open", "failed"} /\ und[h] # Unset

\* No two sockets that went through net_sock_open hold the same module socket,
\* whatever the order of their opens, failed opens, closes and destroys, and
\* although other sockets run while one waits for its name lookup.
DistinctNumbers ==
  \A g, h \in Handles : g # h /\ Holds(g) /\ Holds(h) => und[g] # und[h]

\* An open socket has a module socket, so that no transfer reaches the module
\* with number -1 although an open may go on with it; and the socket a server
\* points to is its own, which nothing else frees or renumbers.
OpenNumbered == \A h \in Handles : state[h] = "open" => und[h] # Unset

ServersLive ==
  /\ \A s \in Servers : srv_sock[s] # None =>
       bound[s] /\ state[srv_sock[s]] = "server" /\ und[srv_sock[s]] = 0
  /\ \A s, t \in Servers : s # t /\ srv_sock[s] # None => srv_sock[s] # srv_sock[t]

Consistent == OpenNumbered /\ ServersLive

-----------------------------------------------------------------------------
(* Properties of careful use. *)

\* What a caller of net.h can know of a socket.
Conn(h) ==
  IF state[h] # "open" THEN "none"
  ELSE IF link[und[h]] = "client" THEN "up" ELSE "down"

Abs == INSTANCE Sockets WITH conn <- [h \in Handles |-> Conn(h)]

\* Of CarefulSpec: sockets are independent of one another, the interface implements Sockets.
IndependentSockets == Abs!Spec

-----------------------------------------------------------------------------
(* What the documentation says and the code does not do. *)

\* net.h, of net_sock_close: "Close a socket", NET_OK for success.
CloseClosesItsConnection ==
  [][\A h \in Handles :
       state[h] = "open" /\ state'[h] = "closed" => link'[und[h]] # "client"]_vars

\* The comment before the name lookup of net_sock_open_wifi: "Free socket found".
FreeSocketFound == \A h \in Handles : state[h] = "opening" => und[h] # Unset

\* The comment before its scan: "Find a free underlying socket on the network
\* interface".  A module socket is free when the module does nothing with it and no
\* other socket has it but one whose open failed: the scan finds none only when
\* there is no such socket.
InUse(n, h) ==
  \/ link[n] # "closed"
  \/ \E g \in sock_list \ {h} : state[g] # "failed" /\ und[g] = n
ScanFindsFree ==
  [][\A h \in Handles :
       OpenScan(h) /\ und'[h] = Unset => \A n \in Numbers : InUse(n, h)]_vars

\* Of ResetSpec: mqtt_hard_reset will "Always close underlying socket/TLS".
ResetClosesConnection ==
  [][\A h \in Handles :
       state[h] = "open" /\ state'[h] = "free" => link'[und[h]] # "client"]_vars

\* NET_OK, which net_srv_bind returned, is "Success": a server that serves a
\* connection then has the socket it serves it through.
ServedThroughItsSocket == \A s \in Servers : bound[s] /\ serving[s] => srv_sock[s] # None
=============================================================================
