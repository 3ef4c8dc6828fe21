# TLA+ models of the Eclipse Paho MQTT C client

The Paho C client is a library that speaks MQTT 3.1, 3.1.1 and 5 to a server. Two
APIs share one protocol core: `MQTTClient.c` (synchronous, with one receive thread)
and `MQTTAsync.c` / `MQTTAsyncUtils.c` (a send thread and a receive thread, commands
and callbacks). This directory models the core, checks the models with TLC on small
instances, and proves some of the results for all values of the parameters with
TLAPS. Paths below are relative to `src/src/`.

    tlc -config Session_delivery.cfg MCSession # one run; PROJECT.json lists them all
    tlapm SessionProofs.tla                    # one module of proofs

## 1. Inventory

| Part | State | Operations | What makes it correct | What is hard |
|---|---|---|---|---|
| Message ids (`MQTTProtocolClient.c`, `MQTTAsyncUtils.c`) | `msgID`, ids in the lists | `assignMsgId` | first free id, unique, terminates | wrap-around, restart with `msgID` 0, all ids in use |
| QoS 1/2 exchanges (`MQTTProtocolClient.c`) | `outboundMsgs`, `inboundMsgs`, `outboundQueue` | publish, handlers of PUBLISH, PUBACK, PUBREC, PUBREL, PUBCOMP, retry | exactly once, at least once, order, nothing lost | repetition after a loss, state of client and server out of step, kills |
| Persistence (`MQTTPersistence.c`) | records `s-`, `sc-`, `r-`, `c-`, `q-` by id or sequence number | put, remove, restore, re-order | the store and the lists agree at every point where the program can be killed | kill between two steps, ids that wrapped, orphaned records |
| Packets (`MQTTPacket.c`, `MQTTPacketOut.c`, `MQTTProperties.c`) | none (one static buffer) | encode, decode | decode inverts encode, lengths | boundaries of the variable length, data that arrives in pieces |
| Sockets (`Socket.c`, `SocketBuffer.c`) | poll sets, pending writes, partly read packets | getReadySocket, putdatas, continueWrites | bytes go out in order and once; nothing is written into the middle of a packet | partial writes, several sockets in one pass |
| Keepalive (`MQTTProtocolClient.c`) | `ping_outstanding`, `ping_due`, times | check, PINGREQ, PINGRESP | talks in time, notices a dead server, no false alarm | time against partial writes; interval shared by all clients |
| Async API (`MQTTAsync.c`, `MQTTAsyncUtils.c`) | `MQTTAsync_commands`, `responses`, `pending_write` | addCommand, processCommand, writeComplete, checkTimeouts, callbacks | each command is reported once, commands keep their order, the buffer limit | two threads, disconnects in between, tokens reused |
| Connection (`MQTTAsyncUtils.c`, `MQTTProtocolOut.c`) | `connect_state`, URI list, back-off | connect, connecting, CONNACK, nextOrClose, automatic reconnect | ends in connected or in one failure report | time-outs racing late answers |
| Sync API (`MQTTClient.c`) | semaphores, `connect_state`, `messageQueue` | connect, subscribe, publish, waitfor, receive, yield | a call returns, and returns its own answer | mutex released while waiting |
| Lists, trees, UTF-8, Base64, WebSocket frames | data structures | insert, remove, find; encode, decode | agree with a reference definition | boundaries |

The parts interact as follows. An API call runs under the library's mutex, changes
the lists of a client and writes packets through `MQTTPacket.c`, which puts a
PUBLISH or PUBREL in the store before it is written. A write may be partial; the
rest is then kept by `SocketBuffer.c`, and until it has gone out acknowledgements
are queued (`outboundQueue`) and API calls wait. The receive thread goes round a
cycle: finish pending writes, read one packet, call its handler, run the retry
function (keepalive and retries). Closing a session is a call from any of these.

## 2. Plan

1. `MsgIds`, `MsgIdSearch`: ids. **Done**, with proofs.
2. `Session`, with the abstract specification `Delivery`: exchanges, store, partial
   writes, losses, kills. **Done**; proofs of types, unique ids, agreement of the store,
   nothing lost, ids suffice, all sent on a new connection, order of publication, exactly once
   in both directions, and that both directions implement `Delivery`.
3. `Keepalive`. **Done**, all invariants proved.
4. `AsyncQueue`, `Async`: the command queue, the responses and the connection state
   machine of the asynchronous API with the send thread, the receive thread and the
   threads of the application as actors; buffering, the store of commands, time-outs,
   the URI list, automatic reconnect. **Done**; proofs of count, order and stored copy of the
   queue, of distinct ids, of callbacks called once, of true successes, and that no request is forgotten.
5. `PacketReader`: polling, reads that are interrupted anywhere, the remaining length.
   **Done**, model-checked; that sockets take turns is proved.
6. `SyncClient`: the blocking calls, the background thread, connectionLost. **Done**,
   all invariants proved.
7. Left: the queue of undelivered messages (`q-`); the passes over pending writes of
   several sockets; UTF-8, Base64, lists and trees against reference definitions.
8. Proofs left: `AttemptIsKnown` of `Async`; nothing lost for MQTTAsync while the server
   keeps the session.

## 3. Modules

| Module | Models | Uses |
|---|---|---|
| `MsgIds` | the arithmetic of `MQTTProtocol_assignMsgId` and what it returns | |
| `MsgIdSearch` | the search as a loop, one action per branch, with ids released and the program restarted between calls; its theorems | `MsgIds` |
| `Delivery` | abstract: what QoS 1 and QoS 2 promise to two applications | |
| `Session` | exchanges, store, queued acknowledgements, loss, retry, reconnect, kill; an external server | `MsgIds`, `Delivery` |
| `MCSession` | the scenarios of the runs | `Session` |
| `SessionProofs` | theorems about types, ids, the store, the order of the list and resending, and that QoS 2 publications are taken exactly once | `Session` |
| `SessionInProofs` | theorems about the messages of the server, and that both directions implement `Delivery` | `SessionProofs` |
| `Keepalive` | the keepalive check and the times it looks at | |
| `MCKeepalive` | the scenarios of its runs | `Keepalive` |
| `KeepaliveProofs` | its theorems | `Keepalive` |
| `AsyncQueue` | the list of commands: insertion, choice of the next, rebuilding | |
| `Async` | commands, responses, connections and threads of the asynchronous API | `AsyncQueue`, `MsgIds` |
| `MCAsync` | the scenarios of its runs | `Async` |
| `AsyncQueueProofs` | theorems about the types and the list of commands, its count and its copy in the store | `Async` |
| `AsyncProofs` | theorems about ids and callbacks | `AsyncQueueProofs` |
| `PacketReader` | polling of sockets and reading of packets in pieces | |
| `MCPacketReader` | the streams of its runs | `PacketReader` |
| `PacketReaderProofs` | its theorem | `PacketReader` |
| `SyncClient` | blocking calls, background thread, connectionLost | |
| `MCSyncClient` | the scenarios of its runs | `SyncClient` |
| `SyncClientProofs` | its theorems | `SyncClient` |

Operators whose comment begins "A slip" are small mistakes one could make in the
code. No specification uses them; PROJECT.json ("mutants") says which definition
each would replace and which property then fails.

### Session

| Variable | Code |
|---|---|
| `connected`, `msgID`, `connect_count`, `connect_sent` | fields of `Clients` |
| `outboundMsgs` | `client->outboundMsgs`: id, message, `nextMessageType` |
| `inboundMsgs` | `client->inboundMsgs`; its order is never used, so a function of the id |
| `outboundQueue` | acknowledgements that wait for a partial write (`MQTTProtocol_queueAck`) |
| `sentKeys`, `pubrelKeys`, `rcvdKeys` | records `s-`/`s5-`, `sc-`/`sc5-`, `r-`/`r5-` |
| `pendingWrite` | the packet of which a part is with `SocketBuffer.c` |
| `c2s`, `s2c` | what is in transit on the connection |
| `srvIds`, `srvOut` | the session at the server (external) |
| `accepted`, `acked`, `refused`, `srvGot`, `srvSent`, `srvDone`, `delivered` | what the two applications know |
| `sentNow` | messages written on this connection |
| `budget`, `scenario` | how often the environment may still interfere; what is fixed for a behaviour |

| Action | Code |
|---|---|
| `Publish` | `MQTTClient_publish5`, `MQTTProtocol_startPublish` |
| `HandlePublish`, `HandlePuback`, `HandlePubrec`, `HandlePubrel`, `HandlePubcomp` | the handlers of the same names, and the record `MQTTPacket_Factory` writes for a QoS 2 PUBLISH |
| `WriteAvailable` | `Socket_continueWrites` and `MQTTProtocol_writeAvailable` |
| `ConnectionLost` | `MQTTClient_closeSession`, `MQTTAsync_closeSession` |
| `Retry` | `MQTTProtocol_retry` from the cycle |
| `Connect` | a CONNACK: `MQTTClient_connectURIVersion`, `MQTTAsync_completeConnection` |
| `Crash`, `CrashInHandler` | the program is killed and `MQTTPersistence_restorePackets` run |

Choices made in the model:

- A handler runs with the mutex held, so it is one action. A kill may still hit
  the middle of it; `CrashInHandler` has the three places where the store and
  the world differ there: a received QoS 2 message stored but not yet in the list; a
  message delivered but its record not yet removed; the PUBLISH record removed
  but the PUBREL record not.
- `MQTTProtocol_writeAvailable` stops at the first acknowledgement that is not written completely
  and then empties the queue. `WriteAvailable` does the same: those behind the partial one are
  gone. The budget `drop` says how often this may happen; property `ExchangesEnd` names it as
  its exception (`AcksDropped`).
- A write that fails is a complete write followed by `ConnectionLost`: what was
  handed to the kernel may or may not arrive, and the packets in `c2s` may be processed by
  the server until the next connection replaces them.
- The age of a message (`lastTouch`) is not modelled: a timed retry takes any messages
  in list order.
- Messages are model values; topics, payloads, properties and the dup flag
  carry no control. QoS 0 messages are not followed.
- The server keeps its session (unless a scenario lets it lose it), answers each
  packet, may refuse a message under MQTT 5, and sends what is unfinished again
  after a reconnect. It takes a QoS 2 message when it gets the PUBLISH.
- A *scenario* is chosen in `Init` and never changes: MQTT version, clean
  session, API, retry interval, whether kills may hit a handler, start value of
  `msgID`, messages in play, budget. One run so covers several kinds of client, and
  the theorems hold for every set of scenarios.

### Keepalive

Times are ages in ticks of `TickTime` ms. `Retry` is the retry function at the end of a
cycle; it runs at least every `CycleTime` (the 1000 ms for which the receive threads
wait for data) and calls the check when `retryLoopIntervalms` has passed.
`CheckKeepalive` has one disjunct for each branch of `MQTTProtocol_keepalive`. An
application that calls `MQTTClient_yield` or `MQTTClient_receive` with a longer
time-out instead of using the receive thread has a longer `CycleTime`.

### Async

| Variable | Code |
|---|---|
| `commands`, `taken`, `api` | `MQTTAsync_commands`; the command `processCommand` has taken off; the command a thread of the application is about to add |
| `connected`, `connect_state`, `outboundMsgs`, `msgID` | fields of `Clients` |
| `connect`, `disconnect`, `shouldBeConnected`, `retrying`, `responses`, `pending_write`, `noBufferedMessages`, `command_seqno` | fields of `MQTTAsyncs` |
| `store` | records `c-<seqno>` |
| `broken`, `partial`, `owed` | external: state of the connection, the packet partly written, what the server has got and not answered |
| `unused`, `accepted`, `told` | requests of the application and the callbacks called for each |
| `count`, `started`, `dropped`, `misread`, `acked`, `written`, `cut`, `dialled`, `open` | history for the properties |

| Action | Code |
|---|---|
| `Send`, `SendRefused`, `Subscribe`, `Connect`, `Disconnect`, `Reconnect` | the calls of `MQTTAsync.c` up to `MQTTAsync_addCommand` |
| `AddCommand` | `MQTTAsync_addCommand` |
| `Take`, then `ExecConnect...`, `ExecData`, `ExecDisconnect` | `MQTTAsync_processCommand`, under `mqttcommand_mutex` and after it |
| `DisconnectTimeout`, `ConnectTimeout`, `RetryTimer` | `MQTTAsync_checkTimeouts` |
| `TransportDone`, `TransportFails` | `MQTTAsync_connecting` |
| `ConnackAccepts`, `ConnackRefuses`, `SocketError`, `ServerDisconnect` | `MQTTAsync_receiveThread`, `nextOrClose` |
| `ResendFails` | `MQTTAsync_completeConnection` when `MQTTProtocol_retry` closes the connection, and the second `nextOrClose` of the receive thread |
| `Ack` | acknowledgements in `MQTTAsync_cycle` and the receive thread |
| `WriteDone`, `WriteFails` | `MQTTAsync_writeComplete` |
| `Recreate`, `Kill` | destroy and create; the program killed, clients created again |
| `KillInAddCommand` | the program killed within `MQTTAsync_addCommand`, after the new command is stored (`MQTTAsyncUtils.c:841`) and before the record of the dropped one is removed (`:895`) |

An API call has two steps because it runs without `mqttasync_mutex` where it does not
assign an id; the send thread has two because commands can be added between taking one
and executing it. The exchange of a QoS 1 or 2 message, which `Session` models, is one
acknowledgement here, and the messages in flight are sent again on a CONNACK in one go
(`ConnackAccepts`), or the resend fails and ends the connection (`ResendFails`); a resend that a partial
write interrupts and a later pass continues is in `Session`. `MQTTProtocol_retry` sends again
for other clients too, which changes nothing here; a write that fails there is `SocketError`. The
unlock between `MQTTAsync_cycle` and the rest of the receive thread is
not a step. The states of TLS, WebSocket and proxy are one with `TCP_IN_PROGRESS`. When a
retry is due is left open. `pending_write` is a pointer: once the response it points to is freed,
it may match nothing or any response allocated since (`Matches`).
`AddCommand` has three parts, for what goes to the head of the list, for a DISCONNECT of the
application and for data (`AddHead`, `AddDisconnect`, `AddData`). Data is stored unless it is a QoS 0
publication and `persistQoS0` is 0 (`Persists`). Two store operations are made where a publication has to make
room for another one; a kill between them is an action of its own, with a budget of its own (`tear`), because
what it leaves in the store is not what the list was before or after. At every other place a
kill within the call finds the store of before or after it, which is `Kill`. `MQTTAsync_persistCommand`
raises the sequence number for a DISCONNECT too, although it writes no record for it. What a restart or a
destroyed client leaves of the list is given by what it must satisfy (`Restored`, `Remaining`).

### PacketReader

| Variable | Code |
|---|---|
| `fds`, `saved`, `cur_fd` | `mod_s.fds_read`, `mod_s.saved` in `Socket.c` (the `poll` version) |
| `queues`, `def_queue` | the same in `SocketBuffer.c` |
| `call` | the locals of `MQTTPacket_Factory` and `MQTTPacket_decode` |
| `conn` | external: which connection has the socket number, bytes arrived and received, end of stream |
| `out`, `waited` | packets returned on the connection; how often others were chosen while a socket was ready |

`Poll` and `NextReady` are `Socket_getReadySocket`; `ReadHeader`, `ReadLength` and
`ReadData` are one byte or one body of `MQTTPacket_Factory`; `Close` is `Socket_close`. The
bytes of a header are real bytes, encoded by `Encode`; a body is a set of positions in
its stream, so that bytes of another packet, another connection or none are told apart.
Sockets are taken to be writable; TLS and WebSocket are not modelled.

### SyncClient

| Variable | Code |
|---|---|
| `client` | `connect_state`, `connected`, socket, the semaphores, `m->pack`, `m->rc` of each client |
| `th` | where a thread of the application, or the thread of a connectionLost, is in its call |
| `run`, `running`, `tostop` | `MQTTClient_run` and its flags |
| `mutex` | who holds `mqttclient_mutex` while waiting |
| `sync` | the semaphore of `MQTTClient_disconnect1` for connectionLost |
| `net` | external: connections, unanswered requests, packets on the way |
| `history` | calls, established connections, losses reported, and marks for the properties |

`Connect`, `StartRun`, `Dial`, `TcpComplete`, `Woken` follow `MQTTClient_connectURIVersion` from one
unlock to the next; `Check`, `SemTaken`, `SemTimeout`, `CycleHere` and `CycleTimeout` are
`MQTTClient_waitfor` with and without a background thread; `DisconnectBy`, `Stopped`,
`LostReturns` are `MQTTClient_disconnect1` and `MQTTClient_stop`; `RunStart`, `Cycle`, `Handle`,
`RunStops`, `RunLostReturns` are `MQTTClient_run`; `Callback` and `PostSync` are
`connectionLost_call`.

What is assumed: the application makes one call at a time for a client and connects only a
client that is not connected; a thread that is started begins within the 400 ms for which it is
waited; the 10 s of `MQTTClient_stop` are enough unless the thread has been started anew.
Sockets are numbered by connection, so the reuse of a descriptor between the unlock of
the cycle and the lock of the background thread is left out, as are messages, the
DISCONNECT of an MQTT 5 server, partial writes and keepalive. A poll that finds nothing changes
nothing.

## 4. Runs

Passing runs:

| Run | States | Shows |
|---|---|---|
| `MsgIdSearch` | 2 300 | The loop returns the first free id after `msgID` (`ReturnsFirstFree`), never the one given out last (`LastIdNotReusedAtOnce`), and ends if an id is free. Five ids, so that a search wraps, skips several ids in use and gives up. |
| `Session_delivery` | 238 000 | Publications of QoS 1 and 2: exactly once (QoS 2), in order of publication after ids have wrapped and a restart, all sent after a reconnect. Both directions implement `Delivery`, the one from the server for MQTT 3 (delivery on PUBREL) and 5 (delivery on PUBLISH), and every exchange ends unless its acknowledgement was dropped behind a partial write. |
| `Session_faults` | 2.1 million | Both directions, with a loss, a kill, a partial write and a periodic retry in any order, kills inside handlers, clean sessions, a server that loses the session: ids unique and sufficient, nothing unanswered lost, no stale record, no double delivery, nothing acknowledged undelivered. |
| `Keepalive` | 4.0 million | Time bounds: the client talks within the keepalive interval plus the delay of the check; a silent server is noticed within 2.5 intervals plus two delays, also when a partial write blocks the PINGREQ; a live server is not taken for dead. |
| `Async_safety` | 650 000 | A request is held by the client or has been answered, once and truly; ids of requests are distinct; the queue keeps its order, its count and its copy in the store, also after kills within `MQTTAsync_addCommand` and with QoS 0 not stored; each connection's end is reported once; the URI index stays in the list. |
| `Async_live` | 39 000 | A connect is answered, by the server or the time-outs of all attempts; automatic reconnect restores a connection; a publication is answered, also when a resend fails. |
| `PacketReader` | 108 000 | Packets come out as they were sent, whatever the pieces, at all lengths where the encoding grows; sockets take turns; a complete packet does not wait for ever. |
| `SyncClient` | 150 000 | Calls and callbacks return; a call that succeeds was given its own answer; a loss is noticed and reported once. |

Bounds, and why they suffice. `Session`: two QoS 2 messages and one of QoS 1 with a window of two
let an id be released and reused while another exchange is under way; the server has
two ids for three messages for the same reason. `MaxMsgId` 7 is the smallest at which the
wrap heuristic has a largest gap to find among three ids from both ends; 3 with a
window of 2 is the tightest the assumption `MaxInflight < MaxMsgId` allows, so that ids run
short. One fault of each kind in one behaviour reaches each pair of faults; two
losses and two kills reach a fault during the recovery from the first. Two partial writes and three
messages reach acknowledgements queued behind one that is itself written partly. `Keepalive`: for
keepalive 2 s and ticks of 500 ms the interval is 4 ticks, its one and a half 6, and a cycle
2; `MaxAge` 24 exceeds the largest bound (22 ticks). The run says nothing beyond
that age while `ping_due` is set. `Async`: three publications with a buffer of one overflow it;
two URIs and two versions give each kind of next attempt; two connects let a second
connection meet what the first left; each scenario lets a few kinds of fault happen
once or twice (two kills within `MQTTAsync_addCommand` leave two records too many, two failing resends use
both URIs up), and 4 ids for 4 requests make ids wrap. `SeqnoLimit` 8 is above the number of
requests; `InOrder` and `QueueIsStored` are claimed until these have wrapped
(`Unwrapped`: the code has 1 000 000 of them), `InOrder` also after that without a restart.
`PacketReader`: two sockets, one of them used for two connections; pieces end anywhere in a header
and at the first, last but one and last byte of a body. `SyncClient`: four calls of one
client, or two clients with three; one break. With five calls, two breaks and both
threads (up to 5 million states) the invariants were found to hold as well.

Deadlock is not checked except for `MsgIdSearch` and `Keepalive`: elsewhere requests and budgets
are finite, and a client with nothing to do may stop.

Fairness. `Session` assumes weak fairness of the client's handlers (the receive thread
does not stop), of the server, and of connecting again (automatic
reconnect, or the application). Publishing, faults and periodic retries are not fair. The
search loop of `MsgIdSearch` is fair since a thread inside a function keeps running.
`Keepalive` needs no fairness: that time cannot pass the moment at which the thread must run is
a guard of `Tick`. `Async`: weak fairness of the send thread and of calls that have begun, strong
fairness of the receive thread and the timers, since these need `mqttasync_mutex`, which the send
thread releases between any two commands. The server answers, except in the scenarios of silence, where instead the
connect time-out always comes. `PacketReader`: the reading thread keeps running, nothing of the peers. `SyncClient`:
every thread goes on when it can, a limited wait ends, a callback returns; nothing of the
server or the network.

Runs that end in a violation, each stating what the documentation or the code's own comments say:

| Run | What happens |
|---|---|
| `Session_queue` | A PUBREL waits in `outboundQueue` behind a partial write when the connection is lost. Its exchange ends on the next connection by a retry, and its id is given out again. After another partial write the old PUBREL follows the PUBLISH of the new message; the server forgets the id, and when a second loss makes the client repeat the PUBLISH, the message is taken twice. |
| `Keepalive_stuck` | `ping_due` set during a partial write is cleared only by sending a PINGREQ, but the branch for an old `ping_due` comes first and does nothing if something has arrived since. No PINGREQ is sent on this connection any more. |
| `PacketReader_reuse` | `MQTTClient_receive` and `MQTTClient_waitfor` ignore an error on the socket of another client, so that its header bytes stay in `def_queue`. The next socket whose read is interrupted is given them as its own. Code that closes the socket (`MQTTAsync`, the background thread for a connected client) passes in `PacketReader`. |
| `SyncClient_callback` | `MQTTClient_disconnect1` waits up to 5 s for connectionLost and holds the mutex. A connectionLost that calls `MQTTClient_connect` needs the mutex: the wait times out, and the later post goes to a semaphore that is destroyed, found through a structure on a stack that is gone. |

The passing properties name such cases as exceptions (`SearchEndsIfSomeFree`, `ExchangesEnd`, `BufferedCountIsTrue`,
`ExactlyOnceOut`, `ExactlyOnceIn`, `TalksInTime`,
`NoFalseAlarm`, `NoticesDeadServer`, `NoneForgotten`, `SuccessIsTrue`, `TokensDistinct`, `InOrder`,
`QueueIsStored`, `ReportedOnce`, `AttemptIsKnown`, `AnswerIsOwn`, `LossIsReported`), so that they say what does hold.

Further limits seen while modelling, without a run of their own:

Exchanges.

- With `msgID` 0 (no id given out since the start) and every id in use the search for an
  id never meets its start value and does not end, although it is documented to return 0
  (`MQTTProtocolClient.c:84`). `MQTTClient` has a window below the number of ids; `MQTTAsync` can restore
  commands without a limit. `SearchEndsIfSomeFree` and `NeverOutOfIds` are about searches with a free id. The
  search also returns 0 when only the id given out last is free.
- `MQTTProtocol_writeAvailable` drops the acknowledgements that wait behind one it cannot write
  completely (`MQTTProtocolClient.c:1068`). Without a loss of the connection, which makes both sides repeat, or
  periodic retries, the exchanges they belong to never end: the only exception of `ExchangesEnd`.
- MQTT 3: the message of a PUBREL is delivered before its record is removed
  (`MQTTProtocolClient.c:608`); killed in between, the client delivers it again. MQTT 5: a QoS 2
  message is stored when its packet is read and delivered afterwards; killed in between, the
  client takes the repetition for one it has delivered.
- `MQTTClient` does not look at sessionPresent = 0 (`MQTTClient.c:1431`): a new QoS 2 message under an
  id in `inboundMsgs` is acknowledged but never delivered. `MQTTAsync` cleans.
- `outboundQueue` is not emptied when a connection is lost. A PUBREL or PUBACK from it, sent
  on a later connection, can end another exchange under the same id (`Session_queue`). A kill can do the
  same without a loss: with periodic retries the exchange of a queued PUBREL may end before the queue is
  written, the record of the PUBREL is stored then, and a later message with that id is restored as
  released and never sent.
- MQTT 5 with periodic retries: a server that refuses a PUBLISH and takes its repetition has a message
  the client holds for refused. The id is free while the server knows it; a new message under it is
  acknowledged but not taken.
- `MQTTClient` repeats the PUBLISH of a message the server had taken in a session it has
  lost since, which takes it a second time. These three are what `Undisturbed` leaves out of `ExactlyOnceOut`.
- With periodic retries a late PUBACK can end another QoS 1 exchange under the same id, so the
  refinement of `Delivery` by publications is for QoS 1 proved without them (`OutCalm`), and checked with
  them in scenarios where no id is used twice.
- `connect_count` is there "to ensure we send them all" (`Clients.h:140`), but `connect_sent` is never set back
  (`MQTTProtocolClient.c:814`). A reconnect sends one message (1 of 1), another is published, and at the second
  reconnect a partial write of the first ends the retry: now both counts are 2, and with no retry
  interval the second message is not sent on this connection. TLC finds this without the condition on
  partial writes of `AllSentOnConnect`. `ExchangesEnd` is checked in scenarios of losses or of partial writes, not both.
- `InPublicationOrder` is claimed for one restart and for publications that span at most half of the ids. A
  second restart, after `msgID` has been set back to 0, can restore messages in the order of their ids only,
  and a large span of ids in use defeats the heuristic of `MQTTPersistence_wrapMsgID`.

Keepalive.

- `retryLoopIntervalms` belongs to the process. A client that connects with keepalive
  50 s or more makes the check run every 5 s for all; the bounds of
  `Keepalive` contain this delay, which for a keepalive of a few seconds exceeds the
  half interval that a server grants.
- `Socket_continueWrites` reports progress for pending writes whose socket was not
  writable; with a second client in the process `lastSent` then stays fresh, and a dead
  server behind a blocked write is not noticed.
- A session with a steadily progressing but long write can be closed by an old
  `ping_due`.

Asynchronous API.

- A stale `pending_write` (`MQTTAsyncUtils.c:1096`, set in 1470 also for a write that failed and a
  command that is freed) can report a QoS 0 publication that was not written to the end, or
  take away the response of a subscribe.
- Two threads: `cleanSession` sets `msgID` back between `MQTTAsync_assignMsgId` and
  `MQTTAsync_addCommand`, and the same token is given out again; two threads that pass the check of
  `maxBufferedMessages` together drop the oldest message although the application chose to refuse the newest.
- A connect that fails at once leaves the callbacks in `m->connect` set, so a later failure
  is reported again; so is one for which `MQTTAsync_reconnect` is called before its outcome.
- A resend that fails when a connection is accepted (`MQTTAsyncUtils.c:1992`): `MQTTProtocol_retry` closes the
  connection by `nextOrClose`, and the receive thread calls `nextOrClose` again (`:2148`), because
  `MQTTAsync_completeConnection` returns MQTTASYNC_DISCONNECTED. With another URI in the list the first call queues a
  CONNECT with the callbacks of the application, the second finds it queued and calls onFailure, and the queued
  CONNECT reports its own outcome later: one connect, two outcomes, against the comment "Null out callback pointers so
  they aren't accidentally called again" (`:1654`). The model has this (`ResendFails`); `ReportedOnce` excepts it.
- The search for a CONNECT or DISCONNECT of the client that is already queued looks at the first
  command only (`MQTTAsyncUtils.c:801`; the comment there speaks of any command). With a second client whose
  command comes first, automatic reconnect queues another CONNECT at each retry, and one taken while an
  attempt is under way replaces `m->connect`: the attempt then goes on with the URI of the other.
- The fallback from 3.1.1 to 3.1 does not happen on a refusing CONNACK or on the last URI; a lost
  3.1.1 connection with more URIs is tried with 3.1 on the same URI, against the comment at
  `MQTTAsyncUtils.c:1626`. Automatic reconnect stays on the last URI tried.
- `MQTTAsync_disconnect` during automatic reconnect does not stop the retries. A connection lost
  while disconnecting ends without the callback of the disconnect, and the connect time-out is
  applied then too (`MQTTAsyncUtils.c:1704`).
- A kill within `MQTTAsync_addCommand` while the oldest publication makes room leaves both records,
  so that more than `maxBufferedMessages` are restored; each further kill of this kind adds one. The
  bound of `BufferedCountIsTrue` counts them (`Spent("tear")`).
- With `persistQoS0` = 0 buffered QoS 0 publications count for `maxBufferedMessages` and are lost in a restart
  (`QueueIsStored` speaks of the commands that are stored at all).
- Killed between taking a QoS 1 or 2 command out of the store and storing the message in flight, the client
  has lost it. After the sequence number has wrapped, commands are restored in the wrong order.

Synchronous API.

- An answer that arrives in the instant its call gives up, or is handed over by a background thread that
  ends before the call asks for `running`, stays in `m->pack` with its semaphore posted; the next
  connect or subscribe can then succeed on it. A CONNACK wait that ends by an error leaves
  `connack_sem` posted if the error comes after the answer, and the next connect fails.
- A subscribe that waits while another thread connects the client again can take the CONNACK
  for its answer, or close the new connection.
- A resend that fails within `MQTTClient_connect` (`MQTTClient.c:1445`) closes the session there and then; messages are
  not part of `SyncClient`, so this is not modelled.
- A client disconnected on one thread can stop the background thread while another client is
  connecting, which is then left without one (`LossIsReported` is claimed for one client).

## 5. Proofs

The theorems hold for every value of the constants: any number of messages, ids,
losses, kills, partial writes and retries, any window smaller than `MaxMsgId`.

`MsgIdSearch`. `TypeCorrect`; `FirstFreeReturned`: when the loop ends it returns
`AssignMsgId`; `LastIdKept`. The inductive invariant says that every id
between the start and the candidate, in the order the loop visits them, is in use;
position and id are related by lemmas on `Tried`.

`SessionProofs`:

- `TypeCorrect` (`TypeOK`).
- `IdsAreUnique` (`UniqueIds`) and `NoStaleSent` (`StoreHasNoStaleSent`). Neither is
  inductive alone: a restart rebuilds the list from the store, so that ids stay
  unique only if the store has one record per entry, and the store is
  right only if an acknowledgement removes exactly one entry. `StoreInv` is the type invariant
  with `Matches`: ids are unique and the records of sent messages are exactly those of the
  list. The lemmas about `InIdOrder`, `Rotate` and `WrapMsgID` show that the restored list has
  the same entries as the store.
- `NothingLost` (`KeptUntilAnswered`): for `MQTTClient` with a kept session each accepted
  message is in list and store until it is acknowledged or refused. `KeptInv` says that
  each such message has a record; with `Matches` the record has an entry in the list.
- `IdsSuffice` (`NeverOutOfIds`): by the pigeonhole principle, with `MaxInflight < MaxMsgId`, a
  candidate other than the start is free.

- `SentOnConnect` (`AllSentOnConnect`), by induction over the steps: a reconnect whose packets are written whole goes
  through the list, and a publication is added to the list and to what has been sent at once.
- `PublicationOrder` (`InPublicationOrder`). The order alone is not inductive: a restart keeps nothing but the ids. `OrderInv`
  says how they lie until a kill: from some id `b` they go up through the list, round the end if need be, within as many steps
  as messages were published (`NumberedFrom`, `Off`). With at most half of the ids spanned, the gap behind the
  list is larger than any within, so `WrapMsgID` turns the list where it began (`WrapAtGap`), or the ids never wrapped
  and it leaves it as it is (`WrapNothing`).
- `ExactlyOnce` (`ExactlyOnceOut`), the second part of the module.

A QoS 2 message is taken by the server at most
once, and once when its exchange has been acknowledged. What the property says of one message depends
on every packet on its way, on the store and on the server's memory of ids, so the
inductive invariant `OnceInv`, which stands on `StoreInv`, follows an exchange through all of these:

- `Outgoing` is what the client has written, has partly written and has queued, in this order.
- `Wire`: where a PUBLISH of a message already taken is on its way, the server knows its id, and
  no PUBREL before it makes it forget.
- `Owned`, `Mine`: a message has one id, its packets carry that id, and its record lasts no longer than its
  exchange.
- `Open`: as long as a message is not released, the server knows its id exactly when it has taken
  the message; a positive PUBREC in transit says so truthfully.
- `Sealed`: a released message has been taken; no PUBLISH of it follows a PUBREL, and once PUBCOMP is on its
  way nothing of the exchange is left that could revive it.
- `Idle`, `Refusals`: an id without a message is unknown to the server and in no packet. This is why
  ids can be used again; it fails for MQTT 5 with repetitions on a connection, which are excluded.
- `Solo`: without repetitions on a connection an exchange has one packet on its way.
- `Records`: which messages a restart restores as released. A message released whose PUBREL is not
  yet stored is known to the server, so that the repeated PUBLISH is recognised.
- `Channel`: acknowledgements are queued only behind a partial write, so that none outlives its
  connection; `Spared`: a fault for which a scenario has no budget does not happen; `Phases`: the
  next packet expected fits the QoS.

`SessionInProofs`, which stands on the invariants above:

- `DeliveredAtMostOnce` (`AtMostOnceIn`). `InOnce` says that a message has one id wherever it is
  (`Placed`: among the server's entries, in a PUBLISH on its way, in `inboundMsgs`), and what is left of a
  message of QoS 2 once it has been delivered (`Once`). MQTT 3 delivers when it leaves `inboundMsgs`: then nothing of it is left that
  could bring it back (`Over`). MQTT 5 delivers when it comes in: a PUBLISH that may still arrive finds its id there
  (`Known`). `Fresh` and `Follows` say how a PUBREL lies among the PUBLISH packets of its id.
- `NoMessageMissed` (`ExactlyOnceIn`). A server that counts a message as done has read a PUBACK or PUBCOMP for an id, so
  `InDone` says what such an answer promises (`Promised`) while it is on its way or queued, in either direction
  (`Paired`): its exchange is the one the server has under that id, and the message of an answer that ends it has been
  delivered. An exchange has one packet on its way (`Tokens`), so none outlives it; a loss takes all packets with
  it, as `Channel` excludes acknowledgements queued for the next connection.
- `DeliversAsPromised` (`InDelivery`) and `PublishesAsPromised` (`OutDelivery`): each step is a step of `Delivery` or leaves
  its variables alone. A step of the receiver is `Take`, an acknowledgement read by the sender is `Finish` or `Refuse`, and
  the invariants give the guards: taken before, not finished before, taken once. The hypotheses are named:
  `InCalm` is the exceptions of `ExactlyOnceIn` and no kill in the middle of a handler, which makes
  an MQTT 3 client deliver twice and an MQTT 5 client not at all; `OutCalm` is `Undisturbed` and no
  repetition of QoS 1 messages on one connection.

Before its proof `OnceInv` was checked with TLC on ten kinds of scenarios (1.3 million states): this is how
the three exceptions of `Undisturbed` were found.

`AsyncQueueProofs`: `CountIsTrue` (`BufferedCountIsTrue`), `StartedInOrder` (`InOrder`), `StoreIsQueue` (`QueueIsStored`),
for any number of clients, threads, requests, URIs and faults, kills within `MQTTAsync_addCommand` included. `CountIsTrue`
bounds the count by `maxBufferedMessages` and one for each such kill; `StoreIsQueue` holds whenever no thread is between
the two store operations of `MQTTAsync_addCommand`, and speaks of the commands that are stored (`Persists`). `Types` says that all variables are of their
types, with requests and ids that fit the type of a command. The list changes in many ways: at the head, at the
end, by dropping the oldest publication, by taking one out, and as a whole when a client is destroyed or
the program restarts. The proof compares the list before and after a step: `Embeds` gives for each
command after the step the command it was before, in the same order (`KeepsOrder`), and each step either keeps the
list this way, adds one command at the end, or restores it from the store. `QueueInv`
consists of

- `ListInv`: each accepted command is in the list once, under its own number; `NumberInv`: numbers only grow;
- `StoreInv`: a record of the store has a command in the list; `KeyInv`: a command in the list has its record,
  if it is to have one, with keys in the order of the list, until the keys wrap. `AddCommand` adds both
  together, and `Take` removes both; a kill within `AddCommand` restores the list from the records as they are
  then (`Restart`), so that list and store agree again;
- `CountInv`: `noBufferedMessages` is the number of publications of the client in the list. Dropping the oldest
  removes one for the one added, a restart counts the records it puts back, which are one more
  if it was killed before that of the oldest was removed;
- `OrderInv`: the commands of a client stand in the order of their numbers, behind the last one started; the one that
  is being executed comes before them (`TakenFirst`).

`AsyncProofs`: who is told what, and how often.

- `IdsAreDistinct` (`TokensDistinct`): with one thread the id `assignMsgId` chooses differs from those of all
  requests about to be queued, queued, being executed, waiting or in flight, because it looks in all of these
  places; each other step only moves a request or lets it go (`HeldBy`). `IdleThreads`: threads outside the
  scenario call nothing.
- `NothingTwice` (`ReportedOnce`) for requests, connects and ends of connections. `PlaceInv`: a request is in one place
  only, in a call, in the list, being executed, among the responses or in `m->disconnect`, once, and not answered while a
  callback is still set there; each step moves one request (`Moves`) or tells it and lets it go. `ConnectInv`, until
  an attempt has failed at once or a resend has failed with another URI left, the two cases in which the code
  reports a connect twice: `m->connect` has callbacks only while the connect is unanswered, and then
  either one CONNECT is queued or its attempt is under way. `EndInv`: a connection is open in the
  books exactly while the client is connected, and no attempt is made meanwhile.
- `NoRequestForgotten` (`NoneForgotten`). `RememberInv`: an accepted request without a callback is waiting with its
  callbacks set in the list, in execution or among the responses (`Waiting`), or was dropped or misread. `Room`:
  with one thread a publication about to be added finds the room `MQTTAsync_send` saw, so that none is dropped
  unless the application chose to delete the oldest.
- `SuccessMeansDone` (`SuccessIsTrue`). A response is found by its message id alone, so that onSuccess is true only because
  `OwedInv` holds: what the server owes an answer for, or what is still partly written, has its message in flight or
  its response (`Backed`), and ids are distinct, hence the response found is that of the request answered. This stands on
  `FlightInv` (a message in flight is not queued as well), `ReadyInv` (data is executed only where no packet is partly
  written) and `PlaceInv`. For QoS 0 `WriteInv` says that a publication that waits for the end of its write is the one
  being written, or was written or cut off; `pending_write` may meanwhile point to something else.

`KeepaliveProofs`: `KeepaliveTypeCorrect` (`TypeOK`), `AlwaysTalks` (`TalksInTime`), `DeadServerNoticed`
(`NoticesDeadServer`), `AlarmIsTrue` (`NoFalseAlarm`), for all intervals and lengths of a tick and a cycle. The properties
bound ages at any time, the code compares them only when the check runs; the invariant says what
the last check has seen plus the age of that check (`Talks`, `Silence`, `BlockedWrite`, `Overdue`), and how old it
can be (`CheckInTime`: the last cycle that left the check out did so before the interval was over).
`Flags` relates `ping_outstanding` to what the server still owes. `NoFalseAlarm` is about servers that answer in
less than one and a half keepalive intervals.

`SyncClientProofs`: `SyncTypeCorrect` (`TypeOK`), `LossReportedOnce` (`LostOnce`), `AnswersAreOwn` (`AnswerIsOwn`), for
any number of clients, threads, calls and connections. `CoreInvariant` has who is in a call and for which
client (`Calls`), who holds the mutex while waiting (`Holds`), that a client has one open connection at
most and has it exactly while it is connected or a connect waits for it (`Connections`), and that an
established connection is used by its client, then about to be reported, then reported, by one thread
(`Losses`). `AnswerIsOwn` needs in addition that a request is asked, answered, read by the background thread and
posted once and in this order while its call waits (`Answers`), which holds until an answer comes too
late (`AnswersInTime`).

`PacketReaderProofs`: `SocketsTakeTurns` (`ServedInTurn`). The bound of twice the other sockets becomes
inductive as a bound that depends on the place in the last poll (`Turn`): a socket has waited for the
sockets passed since that poll and, if it was ready in it and its turn is still to come, for the others of the poll before.

Assumptions. `MaxMsgIdAssumption` (at least two ids); `SessionAssumption` (a positive
window smaller than the number of ids, disjoint sets of messages, scenarios of the right
type; the code has 65535 ids and a window far below that); `NoPacketAssumption` (`None` is not a packet);
`KeepaliveAssumption` (positive times, a cycle is a whole number of ticks, so that the tick at which
the thread has to run exists); `SyncAssumption` (the names of threads differ, `None` is none of them);
`SocketsAssumption` (finitely many sockets with positive numbers); `AsyncAssumption` (a positive
limit of sequence numbers, finitely many clients and threads, disjoint kinds of requests, scenarios of
the right type) and `NoneAssumption` (`None` is neither a command nor a packet). TLC evaluates each of them in a run.

Only model-checked: `TypeOK` of `Async`, of which `Types` is proved except for `AttemptIsKnown` (the URI of an attempt), and
`TypeOK` and `PacketsIntact` of `PacketReader`, whose streams of bytes are built by
recursive functions: what these compute for every input needs an induction over data that the prover cannot
do. Liveness and ENABLED are outside its reach as well and stay with TLC.

## 6. Not modelled

- The queue of undelivered messages and its records (`q-`), `messageArrived`, `MQTTClient_yield`,
  `waitForCompletion`, `isComplete` and `getPendingTokens`: readers of state that is modelled, apart
  from the queue, which uses the keys `Async` has for commands.
- The contents of packets (`MQTTProperties.c`, `MQTTReasonCodes.c`), UTF-8, Base64, SHA1, lists and trees:
  sequential functions; the models use records, sequences and functions in their place.
- TLS (`SSLSocket.c`) wraps OpenSSL and writes partly in the same way as `Socket.c`; the HTTP upgrade and
  proxy requests (`WebSocket.c`, `Proxy.c`) are text processing, and frames are a second layer of
  the buffering in `PacketReader`.
- The file store (`MQTTPersistenceDefault.c`) is a sequence of system calls; logging, heap tracking
  and the wrappers for threads and time hold no protocol state.
- Memory management is left out throughout: a freed structure is one no longer in a list, except for
  `pending_write` and the semaphore of connectionLost, which the code uses after they are freed.
