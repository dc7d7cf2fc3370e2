# Specifications of Embedded-Journey

A TLA+ development of the network stack of this repository: firmware for STM32
boards with an ISM43362 Wi-Fi module, with sockets, TLS, MQTT, WebSocket and
HTTP on top, and a clock set from the network.  Modules are checked with TLC;
theorems are proved with TLAPS.

## The system

| Part | Code | State it keeps | Operations |
|---|---|---|---|
| Wi-Fi driver | `es_wifi/Src` | one command buffer, the module's selected socket, settings | an AT command and its answer over SPI; reset |
| Interface | `netsock/src/net.c`, `wifi_net.c` | one context with the list of its sockets | init, deinit, reinit, is-up |
| Sockets | `netsock/src/net_tcp_wifi.c` | per socket: protocol, options, number of the module socket | create, open, send, recv, close, destroy |
| Servers | `netsock/src/net_srv.c` | per server: the socket it runs on, the remote end | bind, listen, next_conn, close |
| TLS sockets | `netsock/src/net_tls_mbedtls.c` | an mbedTLS session and the TCP socket under it | the same as sockets |
| MQTT client | `mqtt/mqtt_client` | connected, ping outstanding, three timers, next packet id, handlers | connect, subscribe, unsubscribe, publish, yield, disconnect |
| MQTT application | `mqtt/mqtt_apps`, `netsock/src/net_mqtt.c` | the socket of the session, the back-off | a loop: connect, yield, publish, reset |
| WebSocket | `websocket` | open flag, bytes received early, socket | connect, send, recv, close; accept for the server |
| HTTP server | `Http/src/http_server.c` | running, error and link-down counts | serve one request, supervise, restart |
| HTTP client, REST | `Http/src/http_lib.c`, `restAPI` | the socket of one request | one request and one answer |
| Clock | `Time/src`, `ntp/src` | the registers of the RTC | set from NTP in either of two ways, read as date, weekday or count |
| mbedTLS | `mbedtls/src` | per session: the state of the handshake, keys, the record to send | handshake step, read, write, close notification |
| Vendored | `json` | | |
| Board I/O | `Sensors`, `retarget` | | |

Everything meets in the socket layer.  A socket is a structure from `malloc` on
the list of the interface; it holds the number of one of the four sockets of
the module.  Its open scans the list for a number nobody holds, looks the host
name up (which may take seconds) and starts a client connection with three AT
commands; the module executes a command whether or not its answer arrives.
MQTT, WebSocket, HTTP and NTP create and destroy such sockets in many orders,
also after errors; the HTTP and the WebSocket server share the one module.
Below the sockets, each command of the module is an exchange over SPI with a
timeout of its own, whose answer may come when the call has long failed.  The
time stamps of the telemetry come from the clock, which counts on its own
between the moments at which it is set.

`PROJECT.json` lists under `hazards` what is hard to test in this code, at its
line, with the properties that would see it go wrong.

### What makes each part correct

- Sockets: no two sockets on one module socket; a number lost to no path; the
  close of one socket never touches another; no connection of the module
  without a socket that will close it.
- Servers: a bound server has a socket; listen returns for its own remote host
  only; a closed server is closed in the module.
- TLS: every path of open and close gives back the TCP socket.
- MQTT: the application never uses a socket it gave back, and connects again
  after a loss; an acknowledgement settles the request it answers.
- WebSocket and MQTT streams: a timeout never shifts the packet boundaries.
- HTTP server: it supervises the network while it serves, and a restart leaves
  one server.
- Timeouts: the time left is right across the wrap of the tick counter.
- Driver: a call that succeeds had its own commands executed on its own socket;
  a late answer does not put driver and module out of step.
- TLS sessions: both ends agree on the keys and read what the other has sent.
- Clock: once set it shows the true date, whatever comes between the writes.

## Plan

1. `Sockets`, `NetSock`, `NetSockProofs`: the socket layer.  *Done.*
2. `Ticks`, `BlockingWait`, `PahoTimer`, `Board` and their proofs: waits and timers
   over one tick that wraps.  *Done.*
3. `MqttClient`, the session against a broker, refining what the client promises
   whoever calls it, `MqttPromise`, and `MqttApp`, the loop of the application over
   the session; `MqttProofs` about all three.  *Done.*
4. `TlsRecords`, `TlsClient`, `TlsServer`, `NetTls`: a TLS socket and the
   protocol of the library under it.  *Done.*
5. `WsWire`, `WsClient`, `WsServer`, `WsLink`: the frame stream and the session,
   refining an abstract sequence of messages, `WsChannel`.  *Done.*
6. `AtLink`: the exchange of commands under every call of the driver.  *Done for
   the default build; the lock of the RTOS build is left, see Not modelled.*
7. `Calendar`, `Clock`: setting, counting and reading the time.  *Done.*
8. Theorems: type correctness and every safety invariant of a run; refinement
   steps where there is an abstract specification.  *Done.*

## Modules

### Sockets

What `net.h` promises a caller: each socket is a connection of its own.  Open,
Close and Lose change one socket; only a reset of the module (`LoseAll`) is
seen by several.

### NetSock

| State | Code |
|---|---|
| `hnet` | the global interface context exists (`net_init`/`net_deinit`) |
| `wifiUp` | what `net_is_up` would answer |
| `state`, `proto`, `und` | per address of a `net_sock_ctxt_t`: what the last call left it as, `sock->proto`, `sock->underlying_sock_ctxt` |
| `bound`, `srv_sock`, `serving` | bind reported success; `srv->sock`, which is NULL when the module refused the server; the server is between listen and next_conn |
| `sel`, `link` | in the module: the socket selected by the last `P0`, what each socket does |

A structure is its address, so that `malloc` may hand it out again.
`sock_list` is the set of the structures that exist: the order of the list is
never used.  Sockets under TLS sockets are ordinary TCP sockets of this module.

Every call of the layer is one action, except `net_sock_open`, which is split
at its only long blocking call, the name lookup: `OpenScan` chooses the number,
then `OpenLookupFails`, `OpenConnected` or `OpenConnectFails` ends the call while
other sockets may be used in between.  In the default build one task makes all the calls
and nothing comes between: the split allows more than that, and the properties hold all
the same.  `ModuleReset` is the reset the SPI driver
does when the module talks past the receive buffer; it is an action of its own
because it can happen in any command, and the command then fails or goes on.
The module's side of a command is `StartClient`, `StopClient`, `StartServer` and
`Refused`; with `AnswersLost` the command may be executed and reported failed.
Where the module's behaviour is not visible in the driver (what a start or a
stop of a socket in another use does) both outcomes are allowed.

Four disciplines of calling are specified:

- `Spec`: any sequence of calls on structures that exist, one server allowed
  per server structure.
- `CarefulSpec`: a socket is closed only when it is open; it may be destroyed
  at any time but during its own open.  `net_sock_open_mbedtls` treats the TCP
  socket under it this way.
- `MCSpec` (in `MCNetSock`): any calls, with a history variable `careful` that is
  true until the first one that is not careful.
- `ResetSpec`: a client socket is closed and then destroyed whatever the close
  returned (`HardReset`), as `mqtt_hard_reset` and every other caller does.

A server whose start the module refused is bound all the same and goes on through
NULL: `NumbersOf` lets it reach any module socket then.

Not modelled: a failing `malloc` (create then returns an error and changes
nothing), socket options, the bytes of a transfer, sockets of the module's own
TLS (compiled only without mbedTLS), `NET_NOT_FOUND` against `NET_ERR`, and a
preemption inside the scan of the list: in the default build the MQTT task is
not created (`mqtt_tasks.c`) and one task uses the layer.

### Ticks, BlockingWait, PahoTimer, Board

`Ticks` is arithmetic on the words of `HAL_GetTick`: `U(x)` is the `uint32_t`
of x and `Signed(x)` its conversion to `int32_t`, for words of any even number
`M` of values (2^32 in the code).  It declares `tick`, which the modules below share.

`BlockingWait` is the loop that every blocking transfer of `net_tcp_wifi.c`
runs around `net_timeout_left_ms`:

| State | Code |
|---|---|
| `tick` | `HAL_GetTick()` |
| `start_time`, `phase`, `result` | the start of the call; whether it is at its check or in a command; what it returned |
| `waited`, `spent` | history: the true time since the call began and since its last check |

`Check` is the head of the loop, `CallEmpty` a module command that moved
nothing (the loop goes on), `CallEnds` one that ends the call, `Tick` the
interrupt.  Two checks are at most `CallBound` ticks apart.  The transfers over TLS
have the same loop, but what they return may be the timeout of a lower layer,
so `NeverEarly` says nothing of them.  The wait for a connection in
`es_wifi.c`, whose deadline wraps, is not modelled here: `net_srv_listen`
repeats it, and `AtLink` lets it end after any round.

`PahoTimer` is the timer of the MQTT client, `paho_timer.c` (`Time/src/timer.c`
is a copy).  `TimerLeftMS` rewrites the timer it reads when the tick has
wrapped, so the interesting states are those after several readings; `age` is
the true time since `TimerCountdownMS`, `due` the period it was given.

`Board` puts both over the one tick of the board.  The one task that uses them
looks at its timer between socket calls (`BetweenCalls`, as `waitfor` does between the
rounds of `cycle()`), and the timer goes on while a call blocks (`SysTick`).

### MqttClient

| State | Code |
|---|---|
| `mc` | the fields of `MQTTClient`; `sockHandle` is what `Network.sockHandle` points at: nothing, an open socket, a destroyed one, or one used after that |
| `call`, `result` | the call in progress, what the last one returned |
| `toBroker`, `toClient`, `link` | packets on the way; the connection |
| `broker` | the broker's session and subscriptions |

A call sends its packet in one action and then makes rounds of `cycle()`, each an
action (`WaitCycle`, `YieldCycle`): read, answer, keepalive and the close of
the session on an error.  The two differences between a fresh and an expired
timer that matter are kept: `late` (nothing more is sent in this round, and the
loop ends after it) and `WaitExpires`.  `readPacket` may time out although a
packet is there, which stands for every delay.  The broker acknowledges in
order, may send a retained message ahead of the SUBACK, may refuse, and ends a
connection on a protocol error.  Packets are whole: that `readPacket` loses the
packet boundary when it times out in the middle of one is not modelled.  Topic
matching is equality.  With its socket the client loses what is still on the way to the broker;
a broker that takes a last packet before it sees the end forgets the session
with it, but may have passed a message on.

### MqttPromise

What the client promises whoever calls it, with nothing left of packets, timers and
keepalive: whether each side has a session, the handlers, the subscriptions, the request
in progress and what became of it (`settled`: no answer yet, performed, refused, lost).
The broker performs a request at most once, and during its call.  A call succeeds only
after that, or when a subscription was refused (the code reports that as success, and
the handlers stay as they are).  A request that fails has ended the session on both
sides, whether it was performed or not: the caller need not know.  Only a call loses
a session.  `Unsubscribed` says what the code does: the client takes UNSUBACK for an error,
so a successful MQTTUnsubscribe ends the session.

`MqttClient` implements it (`KeepsPromise`).  The refinement mapping takes `settled`
from what is on the way to the client: the request is performed as soon as its
answer is there, and lost when the connection is gone and it is not.

### MqttApp

Extends `MqttClient` by the control of `mqtt_app.c`: `pc` names the client's
call in progress or just ended.  `mqtt_hard_reset` is split before
`sockHandle = NULL`, so that a second destruction can be seen.  The application
subscribes with QoS 0, so the broker sends nothing else here (`MaxQos = 0`).

### WsChannel, WsWire, WsClient, WsServer, WsLink

`WsChannel` is what a direction of a connection promises: messages in order,
none invented, repeated or skipped unless too big, nothing after CLOSE, and no
promise at all once the stream has lost its frame boundaries.

| State | Code |
|---|---|
| `link`, `wire`, `broken` | the TCP connection, the frames on it, whether a stream has lost its boundaries |
| `cli` | the place in `ws_client.c`, `ctx->open`, `ctx->handshake_ok`, the socket; `over`: the 2 s of a close are over |
| `srv` | the place in `ws_server.c`, `ctx->open` |
| `sent`, `last`, `closes`, `noise`, `strange`, `accused` | history, most of it the state of `WsChannel` |

The frame functions of `ws_common.c` and the stream are `WsWire`; the two ends
extend it, and `WsLink` composes them with a network that ends the connection
and, between two frames, injects one this code would not send.  A frame is read in
one action unless its reader gives up inside it (`ClientTimesOut`,
`ServerTimesOut`); a send is whole, not at all, or cut.  What is read from a
broken stream may look like any frame.  Length matters where the code tells
lengths apart: an empty message, a close frame of one byte, one that fits and
one that does not.  A user may send pings and pongs of any length (`SendControl`); one
that is longer than a control frame may be is `strange` to the reader, which is this same
code.  Only the server's reader ends a session for a timeout; the client's goes on.

The 2 s of a close are a clock of their own (`ClosingTimeOver`), but the code looks at it
only between frames: at the head of the loop (`ClosesAgain`) and when a read brings
nothing (`ClosingWaits`).  A frame is one step, so the time a peer takes over
one large frame is not bounded here, as it is not in the code: `ws_client_close` stays in its
drain loop as long as the frame goes on.

### AtLink

| State | Code |
|---|---|
| `call`, `at` | a function of `es_wifi.c`, as the commands it sends, and the one in progress |
| `pc`, `armed` | in which wait of `es_wifi_io.c`; `cmddata_rdy_rising_event` |
| `result` | what the last call returned |
| `mod` | the module (external): ready, busy, answered or read; the socket `P0` selected; command and answer |
| `ran`, `excuse` | history: commands executed for this call; why it may fail |

Every function that sends commands is a sequence of them in `Calls`, ended by the
first failure (`Goes`), as the chains of `if (ret == ES_WIFI_STATUS_OK)` do.  A
command is sent (`Transmit`), its rising edge waited for, and its answer read
(`Receive`); each wait and each transfer has its failure as an action.  The timeout
of the transfer itself is not looked at by the code: the call goes on to wait for an answer to what
was sent, or to nothing (`TransmitStalls`).  The same timeout of a read
(es_wifi_io.c:364) is not modelled.  An answer
that is longer than the buffer resets the module (`Stuffed`).  `Answers` may
come at any time, so also after the driver gave up.

The module is assumed to hold `CMDDATA_READY` high while a command with data is
sent, to refuse a command of which only a part came, and either to drop an
answer nobody read when the next command is sent or to lose that command.  The
two commands of the reset are modelled without their times.

### TlsRecords, TlsClient, TlsServer, NetTls, MCNetTls

| State | Code |
|---|---|
| `conf` | what both ends are set up for: key exchange, tickets, certificates |
| `ssl` | per end, `mbedtls_ssl_context`: the state of the handshake, the transcript, the keys, `keep_current_message` |
| `out`, `in` | the record built and not yet flushed (`out_left`); the records on the way |
| `gone`, `link` | an end has closed; the connection |
| `sock` | the TLS socket of `net_tls_mbedtls.c` |
| `sent`, `skipped`, `got`, `notified` | history: messages put into records, whether the user of the socket (the client here) was told that a message is sent of which there is no record, messages read, the close notification read |

`TlsRecords` is the record layer of `ssl_tls.c` and the handshake steps both ends
share; `TlsClient` and `TlsServer` have one action for each state of the two step
functions; `NetTls` puts the life of the socket around the client and adds data,
alerts and the close notification.  Cryptography is symbolic: a key is the
transcript it was derived from, and a record opens under the same key only.  A
signature is the transcript it signs.  The peer runs the same library, with any
of the setups; the handshake may be aborted at any step on both sides.

A call that sends while a record is pending hands over that record and reports the length
of its own message, whichever that is (`FlushData`): passing the same message again is right,
passing another one sets `skipped` at the socket, which is the client here.  `sent` counts records, so `SentArrives`
asks nothing of the caller.

`f_send` may report an error for a record that has gone: the record is sent
again under a used sequence number (`FlushReportedLost`).

### Calendar, Clock

| State | Code |
|---|---|
| `rtc` | the registers of the RTC: year, month, date, hour |
| `pc`, `epoch` | the place in `TimingSystemSetSystemTime` or `rtc_settime`, the time being written |
| `now`, `civil`, `weekday` | the true time, by a calendar written independently of the code's |
| `synced` | history: the last setting wrote a time that was true |

`Calendar` holds the pure functions: `gmtime` (the loop of `gmtimeMDK`),
`date2days`, `unixtime`, `rtc_dow`.  `Clock` sets the clock in the two ways the
code has, with a midnight possible between the two writes and with either
write failing, and lets it count.  The unit is the hour: minutes and seconds pass
through every conversion unchanged.  Where the compiler is not Arm's the C
library's `gmtime` is used in the place of `gmtimeMDK`; the model follows the
code in the repository.

### The modules of proofs

`NetSockProofs`, `BlockingWaitProofs`, `PahoTimerProofs`, `MqttProofs`, `WsLinkProofs`,
`AtLinkProofs`, `NetTlsProofs`, `ClockProofs`: one for each component, about every action of it.

See Proofs.

## Runs

| Run | Instance | Shows |
|---|---|---|
| `sock_calls` | `MCSpec`, 3 structures, 1 server, 2 module sockets, answers lost | types; `Consistent`, `DistinctNumbers`, `IndependentWhileCareful` (every step is one of `Sockets` until a call is not careful) |
| `board_ticks` | `BoardFairSpec`, a word of 14 values, every start tick | `NeverEarly`, `EndsInTime` (while the tick does not wrap), `CallTerminates`; `TimerAccurate`, `TimerNeverGrows` |
| `mqtt_session` | two filters, one handler, two packet identifiers, two packets of the broker or the user on the way | `SubscriptionsAgree`, `AckMatches`, `MessageHasHandler`, `PingOnTheWay`, `KeepsPromise` (the client implements `MqttPromise`) |
| `mqtt_app` | `AppFairSpec`, one topic, no refusals | `ListensWhileConnected`, `DeadPeerNoticed` |
| `ws_link` | `FairSpec`, both ends, two messages and one fault per connection | `HonestPeersAgree`, `MessagesToClient`, `MessagesToServer` (each direction implements `WsChannel`), `CloseEnds`, `ServerServesAgain` |
| `at_link` | two sockets, every call | `OkMeansExecuted`, `LinkStaysInStep`, `OwnSocketOnly`, `CallsReturn` |
| `tls_session` | `FairSpec`, `MCSetups`, two messages from each end | `SessionsAgree`, `SentArrives`, `OpenReturns` |
| `clock_years` | 2027 to 2033, midnight and 23 h | `ClockRight`, `WeekDayRight` |

The four other runs (`sock_close_third`, `wait_wraps`, `tls_reported`, `clock_stamps`)
state what a comment or a header says, and TLC finds what the code does instead;
see the disagreements.

Bounds.  Three structures on two module sockets exhaust the module, and leave a
structure free to be created while one is open and one is opening; a fourth adds
no new pair.  Closing by a logical conjunction is harmless for module sockets 0 and 1,
so independence is stated for as many as use no other: two module sockets in the run,
and two of them or two structures in the theorem; `sock_close_third` has the third.
No counter is cut off: the models are finite.

Words are small because only their wrap and the order of start, timeout and
wrap matter: every start is tried, so every position of the wrap is.  One
handler for two filters fills the table; two packet identifiers wrap.
`MaxQueue` bounds what the user and the broker start on their own; answers are
never held back by it, so the model stays finite without cutting a reply off.
In `mqtt_app` fewer packets are on the way whenever the loop connects, so it holds
back messages of the broker only, never the application.

In `ws_link` a window of one frame to the server is full with every frame, and two to
the client let a reply meet a message.  The two messages of a connection
(`MaxMessages`) may go the same way, one behind the other, or opposite ways; a broken
stream yields every kind of frame, so a second fault on the same connection adds little.
The theorems have no such bounds, and there are any number
of connections.  `at_link` has no bound but its two sockets: a call knows its own
socket and the module the selected one.  The setups of the TLS runs are every way
a client is asked for a certificate and answers, and every way the server's own
is taken, with tickets and key exchanges taken in turn; `Lost` keeps at most one
record per direction.  `clock_years` has two leap years, the end of the epochs
NTP accepts (May 2033) and every month's end; the clock is looked at in the
first and the last hour of a day, where the dates of two hours differ.  In it
`NtpFails` happens on 1 January only, and the run ends after the last
year, which is why deadlock is not checked there.

Fairness.  `Board!BoardFairSpec` is weakly fair to the tick, to the check and to
the return of a command: each is the board itself running; a timer need not be read.
`MqttApp!AppFairSpec` is weakly fair to the program, to the end of a wait and to
each of the two keepalive timers, for the same reason; nothing is assumed of
the broker or the connection, and a socket may go on accepting bytes for ever.
`WsLink!FairSpec` is weakly fair to the calls in progress at the two ends and to
the clock of a close, which alone ends nothing: the boards and their clocks run.  `AtLink!FairSpec` is
weakly fair to the driver, whose waits all have a timeout; nothing is assumed of
the module.  `NetTls!FairSpec` is weakly fair to the steps of both ends, the
server's too: the loop of `net_sock_open_mbedtls` has no timeout, so against a
silent peer it does not return, and `OpenReturns` says only that the two ends of
this library never wait for each other.  Nothing that fails is under fairness.
`Clock` states none.

### Disagreements between the code and its documentation

These have a run that must find its counterexample:

| Run | What is said | What the code does |
|---|---|---|
| `sock_close_third` | net.h:322 "Close a socket." | The module socket is computed with `&&` instead of `&`: from the third socket on close stops module socket 1 and reports success (`CloseClosesItsConnection`). |
| `wait_wraps` | net.c:656 "robust to uint32_t overflows" | The time left is computed as if the wait had begun at the wrap (`EndsInTimeOverWrap`); lemma `WhatIsLeft` of `BlockingWaitProofs` states exactly what is returned. |
| `tls_reported` | net.h:309 "number of bytes written" | Another message passed over a pending record is reported sent, and never is (`ReportedArrives`). |
| `clock_stamps` | rtc.h:18 "Epoch time from NTP raw" | `unixtime` is an hour behind, and in a leap year up to a day off (`StampsTrue`); theorem `Stamps` states its error. |

Further counterexamples.  These have a configuration each, which is not among the
listed runs: `tlc -config <configuration>.cfg <module>.tla` finds the violation of the
property named, in seconds.

| Configuration, module | What is said | What the code does |
|---|---|---|
| `NetSockNoneFree`, `NetSock` | net_tcp_wifi.c:160 "Free socket found" | The test compares a pointer with 0 and always succeeds: an exhausted open goes on with -1 (`FreeSocketFound`). |
| `NetSockScan`, `NetSock` | net_tcp_wifi.c:137 "Find a free underlying socket" | An open whose lookup failed keeps its number, so an open may find none although the module uses none of them (`ScanFindsFree`). |
| `NetSockReset`, `NetSock` | mqtt_app.c:56 "Always close underlying socket/TLS" | A close the module refuses is followed by the destruction: the connection stays without a socket (`ResetClosesConnection`). |
| `NetSockBind`, `NetSock` | net.h:55, of `NET_OK`: "Success" | `net_srv_bind` returns it when the server did not start, and the server goes on through NULL (`ServedThroughItsSocket`). |
| `MqttReset`, `MqttApp` | mqtt_app.c:56 "Always close underlying socket/TLS" | The clean disconnect before it has closed and destroyed the socket; freed memory is closed and destroyed again (`ResetClosesSocket`). |
| `MqttReconnect`, `MqttApp` | mqtt_app.c:80 "Ensure connected" | After the first session the loop connects over the destroyed socket or over none, for ever (`ConnectsOverSocket`). |
| `WsLongPing`, `WsLink` | ws_client.c:137 "payload <=125" | A longer ping is sent as it is, and the peer ends the session (`NoProtocolError`). |
| `WsEmpty`, `WsLink` | ws_server.c:237 "0  : clean close" | An empty message is 0 too, and ends the session (`CleanCloseIsClose`). |
| `WsKeptBytes`, `WsLink` | ws_client.c:277 "so the frame parser does not desync" | 256 bytes are kept; what is more shifts the frames (`KeptBytesEnough`). |
| `WsDrain`, `WsLink` | ws_client.c:169 "Drain and discard to keep stream aligned" | A late read ends the drain inside the frame, and the session stays open (`DrainKeepsAligned`). |
| `ClockMidnight`, `Clock` | STM32CubeRTCInterface.c:66 "success(1)" | A midnight of the old time between the two writes leaves the date a day off (`SystemTimeSet`). |

These are visible in the actions or the code named, and have no run of their
own.  Sockets and servers:

- `net_sock_close` of a socket that is not open ("do nothing if the socket was
  not open") stops module socket 0 or 1, whoever uses it (`Close`).
- `net_srv_close` never tells the module, because a server's number is always 0
  (`Stopped`).
- `net_srv_listen` ("wait forever for a remote connection") asks for the state
  of whichever module socket is selected (`SrvListen`).

MQTT:

- `MQTTSubscribe` reports success when the broker refused (`Accepted`);
  `MQTTUnsubscribe` closes the session it succeeds in, because `cycle` has no
  case for the UNSUBACK (`cycle`).
- `network_read` ignores its timeout, so a message that needs an
  acknowledgement can arrive after the timer of the call and close a working
  session (`YieldCycle`).

WebSocket:

- `ws_client_close` frees a client that is not open and leaks its socket
  (`ClientForgets`); after a failed connect `ws_client_run` closes the freed
  client once more (ws_client.c:418).
- A receive that times out inside a frame header begins a new header at the wrong
  byte (`ClientTimesOut`); the handshakes wait for a silent peer for ever.

Driver:

- `ES_WIFI_STATUS_MODULE_CRASH` is never reported for received data: es_wifi.c:858
  shortens the length before line 888 compares it (`Stuffed`: the call just fails).
- The deadline of `ES_WIFI_WaitServerConnection` is a sum that wraps
  (es_wifi.c:2053).

TLS sockets:

- The close of a socket that was never opened (net.h: "do nothing if the socket
  was not open") dereferences a session that does not exist, so `Close` has the
  open state as a guard.
- `net_sock_recv_mbedtls` returns `NET_ERR` for the peer's close notification
  where net.h promises `NET_EOF`; a close with a record pending sends no
  notification (`Farewell`).
- Three errors of open leave the TCP socket on the list
  (net_tls_mbedtls.c:244, :271, :292).

Time:

- `rtc_settime` after a failed NTP request writes -1 as the time, and the clock
  shows 31 December 2065, or a day of 2106 where `gmtimeMDK` takes it for an unsigned
  number (`NtpFails`).
- `dateutils_setDateTime` and its like set the time of the network whatever their
  arguments are; the weekday register is written with Sunday as 1;
  `strDaySufix` gives 11st; `ntp.c`:185 destroys the socket of the last request
  when the creation of a new one fails.

HTTP server (not modelled):

- "should not block forever" (http_server.c:409): serving a request waits for a
  connection without end, so the supervision above it runs only between requests.
- `http_srv_restart` enters the loop of a new server inside the old one
  (http_server.c:445); the resets of the counters after it are never reached.

## Proofs

`NetSockProofs` proves, for any sets of addresses and servers and any number of
module sockets of at least two:

- `TypeCorrect`, from the inductive invariant `Inv == TypeOK /\ Consistent`
  (theorem `Invariance`).  `Consistent` is needed because the actions of a server
  reach the number of its socket, and a transfer the number of an open socket:
  without it they could write -1 or `None` where the types exclude it.
- `NumbersDistinct`: `DistinctNumbers` is inductive relative to `Inv`.  The one
  step that matters is `OpenScan`, whose number is outside `Busy`.
- `IndependenceAmongAnyCalls`: with at most two addresses, or at most two module sockets
  (`FewSockets`), `IndependentWhileCareful` holds of any calls, and so `CarefulSpec`
  implements `Sockets!Spec` (`Independence`).  The invariant adds that as long as calls
  are careful numbers stay below 2, where the logical conjunction of close is the
  identity, and that no client connection was made on top of a server.
- `ConsistentAlways`: `Consistent` itself, the part of `Inv` that a run checks.

`BlockingWaitProofs` and `PahoTimerProofs` prove, for words of any size, any
timeouts and any bounds allowed by the assumptions of those modules (a timeout
and a command together at most half a word; a timer read at most half a word
after it was set), over two lemmas on the reduction of sums and differences to a word
(`Reduced`, `SignedSmall`):

- `EndsInTimeAlways` (for a call in which the tick does not wrap) and `NeverEarlyAlways`.  The inductive invariant has three
  parts beside the types: `Elapsed` ties the two ticks to the true duration of
  the call, `LastCheck` says that the timeout was not over at the last check, and
  `NearWrap` that a call which met the wrap began shortly before it.  Without
  `LastCheck` a command could begin after the timeout; without `NearWrap` a call
  could have been waiting for most of a word, and the difference of two words
  would read as something else.
- `Accurate` and `NeverGrows`: a running timer is `Original`, as it was set, or
  `Rewritten` by a reading after the wrap, and then start and period still name
  the true end but for one tick.  The invariant is the disjunction; with the types
  (`Typing`) it holds of every reachable state.
- `BoardHasBoth`: the board of `board_ticks` is a `BlockingWait` and a `PahoTimer`, so all of
  these hold of it.

`AtLinkProofs` proves, for any set of sockets with 0 among them, `Types`, `Executions`, `InStep` and
`OwnSockets` (the four safety properties of `at_link`).  Its inductive invariant
says, for each phase of the driver, what the module may be doing:

- `Sending`: only the first command of a call can meet something left over
  from before; a later one finds an answer that was read.  Without it the second
  command of a call could be taken for done by the first one's late answer.
- `Waiting`: the module has the command in progress, has executed it, or has an
  excuse; while it works on it the flag is armed, so a late edge cannot have been
  taken for its answer.
- `Selected`: the command the module has is about the socket that is selected,
  unless it is the one that selects; this gives `OwnSockets`.

`MqttProofs` proves, for any set of filters, any number of packet
identifiers and handlers and whatever the broker refuses, the six properties of
`mqtt_session`: `Types`, `Subscriptions`, `Pings`, `Acknowledgements`, `Handlers`
and `PromiseKept`; and `Sockets`, that a session has an open socket.  The client
compares only the types of packets, so each of them rests on what can be on the way.
The inductive invariant `IInv` has, beside the types:

- `Linked`, `Session`, `Calling`: the connection is that of the socket, a session
  has a socket and a closed one no handlers, a call waits for its own type of
  acknowledgement, and a request over an open socket has a session;
- `Pending`: between requests neither a request nor an acknowledgement is on the
  way; during one there is at most one, in one of the directions, with the
  identifier and the filter of the call.  It survives because a request that
  is not answered in time closes the socket, and everything on the way is lost
  with it.  Without it a late acknowledgement could settle the next request;
- `Agreement`: over a working connection the broker's subscriptions are the
  handlers, but for an accepted answer on the way (`Subs`), and an accepted
  connection finds the broker without any;
- `Messages`: a message on the way has its handler or is behind the subscription
  whose SUBACK is on the way too;
- `Pinged`, which is `PingOnTheWay` over the packets of the queues.

The argument has two halves.  The lemmas up to `Cycle` say what a round of
`cycle()` may do whatever it reads: keep the socket and send answers, of which one
carries a request on (`Left`), or close the session (`Shut`).  Then a
step of the client keeps the socket (`KeepStep`), leaves none (`ShutStep`),
or is one of the three that begin or end something: `RequestStep`, `DoneStep`,
`ConnectedStep`; a step of the broker is a reply (`ReplyStep`) or a loss (`LossStep`).

The application runs the same client, so its steps are those steps with the place in
`mqtt_main` beside them.  `AppInductive` is `IInv` of the session together with four
parts of the application:

- `InCall`: the place in the loop agrees with the request in progress;
- `Unconnected`: before the application connects there is no session, and
  nothing it did is left at the broker;
- `Listening`: once it waits for messages its topic has a handler;
- `NothingRefused`: no answer on the way refuses anything.

From these follow `Listens` (`ListensWhileConnected`), for a broker that refuses
nothing, and `AppSessions` (`SubscriptionsAgree` for the application).  The first
has that hypothesis because the application ignores the result of the
subscription; `mqtt_app` runs under the same one.  Both cover the
case where the application has no topic yet.

`PromiseKept` is the refinement of `MqttPromise`.  Its invariant `PInv` is `IInv` with
`Told`, what the answers on the way say about the broker: an accepted CONNACK means
that it has a session, a refused one that it has none and has cut the connection,
and nothing but a connection or a subscription is refused.  Without it a late CONNACK
could open a session the broker has forgotten.  Each step of the client and of the broker is then
mapped once (the lemmas named `...Promised`).  `SettledIs` turns `settled` into a
question about the packets of the queue, so a step that adds no answer to the call
leaves the request as it was (`SameFate`); the broker's acknowledgement is
`Performs` or `Refuses` because `Pending` allows no answer before it (`Settling`);
a round of `cycle()` that reads it finds the request performed or refused
(`HeadSettles`); and every failure goes through `MQTTCloseSession`, which ends both
sides (`Closed`).  In `Shut` of the round this needs that a closed session was
connected or has no socket any more.

`WsLinkProofs` proves, for any bounds on what is on the way and on the messages of a
connection, the safety of `ws_link`: `Typing`, `Agreement`
(`HonestPeersAgree`), and that each direction implements `WsChannel` (`ToServerRefines`,
`ToClientRefines`).  The actions of the two ends are looked at once, to show what a
step may do to a stream (`StreamStep`): begin a new one, append a frame or a message, take the
first frame off with or without delivering it, or lose the boundaries.
The invariant `IInv` has beside the types:

- `StreamInv`, for each stream that has kept its boundaries: every frame on it is
  one the writer sends (`Sendable`) unless the stream is `strange`, the messages are in the order of their numbers (`Ordered`),
  and of those after the last one delivered only those too big for the
  reader's buffer are missing (`Complete`).  It and the refinement follow from `StreamStep`
  alone: an appended message is a send of `WsChannel`, a delivered one a receive;
- `EndsInv`: a session that is read is open, and an end that may still
  speak has not said CLOSE.  This is why there is one CLOSE at most;
- `HonestPeersAgree` itself.

`NetTlsProofs` proves, for any setups, any numbers of messages and tickets, and whatever record
`None` is not (`NoneAssumption`: a record is never taken for its absence), that the types are
kept (`Typing`) and that an end which reads a close notification has read every record of
data made before it (`Arrival`, the property `SentArrives`), whatever the users pass.  A handshake has too many steps to argue about each, so
each is first shown to be one of a few shapes: it moves on (`Moves`), writes one
record (`Writes`), takes one (`Takes`), fails with an alert (`Fails`), or hands over
what is pending (`FlushOutput`).  The inductive invariant `IInv` has beside the types:

- `Content`: a record on the way was formed by the other end, and the suite of
  an end is the one both chose;
- `Delivery`, in four parts for each direction: no record is read that was not sent
  (`NoneMade`); none is missing, but behind a fatal alert (`NoneLost`); a close notification
  is the last record of a stream (`Last`); and a stream that ended is never
  written again (`Over`).

`Arrival` then counts: messages sent are those read and those on the way, and an
empty stream has none of them.

`Agreement` (`SessionsAgree`) is about the handshake as a whole.  Its messages have the fixed
places 1 to 14 in the transcript, some of which a setup leaves empty (`Mine`); `T(g, m)` is the
transcript at a place and `Rec(g, s, m)` the record that belongs there.  `Agreed`, inductive
with the types, says for each end:

- `Fits`: its context knows exactly what an end at its place knows with this setup: the
  transcript, the keys, the suite, the peer, which directions are sealed;
- `Reading`: the records on the way to it continue the handshake where it is, none skipped, none
  twice;
- `Writing`: over a connection that is whole, what it writes continues the handshake where those
  records end, so that the two skip the same optional messages;
- `Drained`: its last message is sent before its handshake is over;

and `Passed`: whatever the client has read or will read of the server's messages, the server has
written.  It is why a client that is through has a server that finished.  A step keeps
`Agreed` because it has one of five shapes: the end goes on over places that
are empty (`Passes`), writes the record of its place (`Says`), takes the record
of its place (`Follows`), gives up (`Quits`), or hands over what is pending
(`FlushOutput`).  Each shape is shown to keep it, and each action of `ClientStep`, `ServerStep` and
`HandshakeTrouble` to have one.  Two cases of `Reason`, why a record is refused, overlapped in the
model, which this proof needed to be told apart; its guards are now disjoint.

`ClockProofs` proves, for any years from 2001 to 2067 and any hours, `WeekDays`,
`Stamps`, `Right` and `TypeCorrect`.  The invariant `IInv` says that the true date is a day of these years,
that after the last one only its midnight is reached, and that the day of the week and
the count computed by the code from the true date are the true ones, but for
the stated error.  It is preserved because both computations grow by one from
a day to the next: `DowSum` by one less a multiple of seven, and `DaySum`, less the
error of a leap year, by one, with the ends of months and years as cases.

`Right` needs what `gmtime` computes, which is recursive, where induction over data is not
available.  Two observations replace it.  The equation that defines a recursive
function holds of it as soon as some function satisfies it, and the closed form of the
loop is one: `Ended` takes a day count to the year that holds the day and the days left,
which one round of the loop does not change (`YearLoop`, `MonthLoop`).  And only finitely many
rounds are needed: `Doubled` gets twice as many rounds and one more from a number of them, so
that seven steps give every number up to 127 (`ManyRounds`), more than the years from 1970;
the months are followed one by one (`MonthRounds`).  `DateOfTime` then says that `gmtime` is the
inverse of the count of days, the leap years by the rule of 4, 100 and 400 included.  The
state adds `SetInv`: from the answer to the write of the time no time passes for
`TimingSystemSetSystemTime`, and a clock whose date is written and whose time is not does not
count as set.  `TypeCorrect` rests on `TypeInv`: a date can be made of every time being written.

Only model-checked:

- liveness, out of the prover's reach: `CallTerminates`, `DeadPeerNoticed`, `CallsReturn`,
  `CloseEnds`, `ServerServesAgain`, `OpenReturns`;
- the counterexamples of the disagreements, each with a configuration of its own.

## Not modelled

- The HTTP server: a sequential loop over one server socket, whose calls
  `NetSock` models; see the disagreements for its supervision.
- The HTTP client and its pages, the REST client, JSON: text around one request
  and one answer, with no state of their own.
- The driver lock and the tasks of the RTOS build (`es_wifi_conf.h:63` takes the
  lock with a timeout of 0 and ignores the result): the default build defines
  neither, and `mqtt_tasks.c` creates no task.
- Sockets of the module's own TLS, the Ethernet and the cellular interface: other
  builds than the one the examples have.
- Serialisation of MQTT packets, masking and SHA-1 of WebSocket, cryptography and
  certificates of mbedTLS, its renegotiation, resumption and DTLS: layout, data,
  or not used by the sockets.
- Sensors, console, examples: plain input and output.
- In the modelled parts: a failing `malloc`, socket options, the bytes of a
  transfer, the split of an MQTT packet by a timeout, formatting of dates.
