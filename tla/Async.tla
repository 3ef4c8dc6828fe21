------------------------------- MODULE Async -------------------------------
(***************************************************************************)
(* The asynchronous API: commands, responses, connections.                 *)
(*                                                                         *)
(* Application threads put commands into one list (MQTTAsync.c).  The send *)
(* thread takes them out and executes them, and checks time-outs; the      *)
(* receive thread reads packets, finishes partial writes and notices       *)
(* errors (MQTTAsyncUtils.c).  A command that waits for an answer of the   *)
(* server is in the list of responses of its client.  Callbacks of the     *)
(* application report how a request ended.                                 *)
(*                                                                         *)
(* Two mutexes: mqttasync_mutex is held by the send thread while it        *)
(* executes a command, by the receive thread while it handles a packet and *)
(* by some API calls; mqttcommand_mutex only while the list is changed.    *)
(* An API call runs partly without a mutex, so it has two steps: first     *)
(* everything up to MQTTAsync_addCommand, then that call.  processCommand  *)
(* has two steps as well: commands may be added between taking one and     *)
(* executing it, but nothing that needs mqttasync_mutex can happen.        *)
(***************************************************************************)
EXTENDS MsgIds, AsyncQueue

CONSTANTS
    Clients,                \* MQTTAsync_handles
    Threads,                \* threads of the application
    Pubs0, Pubs1, Subs,     \* requests: publish with QoS 0, with QoS 1 or 2, (un)subscribe
    Conns, Discs,           \* requests: connect, disconnect
    None,                   \* no request, no command
    SeqnoLimit,             \* PERSISTENCE_SEQNO_LIMIT
    Scenarios               \* the clients and environments to consider

Pubs == Pubs0 \cup Pubs1
Data == Pubs \cup Subs
Reqs == Data \cup Conns \cup Discs

Versions == {"default", "3.1.1", "3.1"}     \* details.conn.MQTTVersion

(* How often the environment may break a connection, let a write be partial,*)
(* stop the program, stop it within MQTTAsync_addCommand (tear), refuse     *)
(* something, let a connect fail at once, let the resend of a message fail  *)
(* on a new connection, and let a time-out pass.                            *)
Budgets ==
    [{"loss", "partial", "kill", "tear", "fail", "dial", "resend", "timeout"} -> Nat]
Unlimited == 9      \* a budget that is never used up

(* What stays the same during a behaviour.  maxBuffered is 0 if the client  *)
(* has no createOptions, of which persistQoS0 is one; default says that the *)
(* application leaves the version of MQTT open (MQTTVERSION_DEFAULT); uris  *)
(* is serverURIcount.                                                       *)
Scenario ==
    [clients : SUBSET Clients, threads : SUBSET Threads, reqs : SUBSET Reqs, budget : Budgets,
     clean : BOOLEAN, default : BOOLEAN, auto : BOOLEAN, uris : Nat,
     maxBuffered : Nat, deleteOldest : BOOLEAN, offline : BOOLEAN,
     maxInflight : Nat \ {0}, persistence : BOOLEAN, persistQoS0 : BOOLEAN]

ASSUME AsyncAssumption ==
    /\ SeqnoLimit \in Nat \ {0}
    /\ IsFiniteSet(Clients) /\ IsFiniteSet(Threads)
    /\ Scenarios \subseteq Scenario
    /\ None \notin Reqs
    /\ Pubs0 \cap Pubs1 = {} /\ Pubs \cap Subs = {}
    /\ Data \cap (Conns \cup Discs) = {} /\ Conns \cap Discs = {}

VARIABLES
    commands,           \* MQTTAsync_commands
    taken,              \* the command processCommand is executing, or None
    api,                \* [thread -> the command it is about to add, or None]
    \* MQTTAsyncs and Clients structures, by client
    connected, connect_state,
    connect,            \* m->connect: the last CONNECT executed, with its callbacks
    disconnect,         \* m->disconnect
    shouldBeConnected, retrying,
    responses, outboundMsgs, msgID,
    pending_write,      \* 0, the number n of a response, or -k: freed when there were k
    noBufferedMessages, command_seqno,
    \* persistent store: the records c-<seqno>
    store,
    \* external: the socket and the server behind it
    broken,             \* the connection is gone, which the client may not know
    partial,            \* the packet that is partly written, or None
    owed,               \* packets the server has got and not answered
    \* what the application has done and seen
    unused,             \* requests not made yet
    accepted,           \* data requests in the list or past it
    told,               \* [request -> the outcomes reported, in order]
    \* history
    count, started,     \* number of commands put at the tail; the last data command started
    dropped, misread,   \* requests freed to make room; responses freed by mistake
    acked, written,     \* requests answered by the server; written completely
    cut,                \* QoS 0 publications whose write was cut off by a close
    dialled, open,      \* URI of the connect attempt; connections not reported ended
    budget, scenario

queueVars == <<commands, taken, api>>
connVars  == <<connected, connect_state, connect, disconnect, shouldBeConnected, retrying>>
sessVars  == <<responses, pending_write, outboundMsgs, msgID>>
storeVars == <<noBufferedMessages, command_seqno, store>>
sockVars  == <<broken, partial, owed>>
appVars   == <<unused, accepted, told>>
histVars  == <<count, started, dropped, misread, acked, written, cut,
              dialled, open>>
vars == <<queueVars, connVars, sessVars, storeVars, sockVars, appVars, histVars,
          budget, scenario>>

-----------------------------------------------------------------------------
(* Commands (MQTTAsync_queuedCommand).  cb: the callbacks are set.  n and req *)
(* identify the request; the code has no such field.                         *)

Command(type, c, r, tok) ==
    [type |-> type, client |-> c, req |-> r, cb |-> r # None, tok |-> tok,
     uri |-> 0, ver |-> "default", internal |-> FALSE, key |-> 0, n |-> 0]

NoConnect(c) == Command("CONNECT", c, None, 0)
Internal(c) == [Command("DISCONNECT", c, None, 0) EXCEPT !.internal = TRUE]

ReqsOf(cmds) == {cmd.req : cmd \in {x \in cmds : x.cb}}
Callbacks(cmd) == ReqsOf({cmd})

(* Call a callback of each of the requests R. *)
Tell(t, R, outcome) == [r \in Reqs |-> IF r \in R THEN Append(t[r], outcome) ELSE t[r]]

Commands ==
    [type : {"PUBLISH", "SUBSCRIBE", "CONNECT", "DISCONNECT"}, client : Clients,
     req : Reqs \cup {None}, cb : BOOLEAN, tok : 0 .. MaxMsgId,
     uri : Nat, ver : Versions, internal : BOOLEAN, key : Nat, n : Nat]

Packets == [type : {"PUBLISH", "SUBSCRIBE", "CONNECT"}, tok : 0 .. MaxMsgId,
            req : Reqs \cup {None}]

ASSUME NoneAssumption == None \notin Commands /\ None \notin Packets

(* The URI of an attempt is one of the list, which MQTTAsync_connecting      *)
(* reads unchecked, and m->connect describes the attempt that is under way.  *)
(* Known exception: two clients, because then a second CONNECT of a client   *)
(* can get into the list and replace m->connect.                             *)
AttemptIsKnown ==
    \A c \in Clients :
        connect_state[c] \in {"TCP_IN_PROGRESS", "WAIT_FOR_CONNACK"} =>
            /\ scenario.uris > 0 => connect[c].uri < scenario.uris /\ dialled[c] < scenario.uris
            /\ Cardinality(scenario.clients) = 1 => connect[c].uri = dialled[c]

(* Types, and AttemptIsKnown.                                                *)
TypeOK ==
    /\ commands \in Seq(Commands)
    /\ taken \in Commands \cup {None}
    /\ api \in [Threads -> Commands \cup {None}]
    /\ connected \in [Clients -> BOOLEAN]
    /\ connect_state \in
         [Clients -> {"NOT_IN_PROGRESS", "TCP_IN_PROGRESS", "WAIT_FOR_CONNACK", "DISCONNECTING"}]
    /\ connect \in [Clients -> Commands] /\ disconnect \in [Clients -> Commands]
    /\ shouldBeConnected \in [Clients -> BOOLEAN] /\ retrying \in [Clients -> BOOLEAN]
    /\ responses \in [Clients -> Seq(Commands)]
    /\ pending_write \in [Clients -> Int]
    /\ outboundMsgs \in [Clients -> Seq([tok : Ids, req : Pubs1])]
    /\ msgID \in [Clients -> 0 .. MaxMsgId]
    /\ noBufferedMessages \in [Clients -> Nat]
    /\ command_seqno \in [Clients -> 0 .. SeqnoLimit - 1]
    /\ store \in [Clients -> SUBSET Commands]
    /\ broken \in [Clients -> BOOLEAN]
    /\ partial \in [Clients -> Packets \cup {None}]
    /\ owed \in [Clients -> SUBSET Packets]
    /\ unused \subseteq Reqs /\ accepted \subseteq Data
    /\ told \in [Reqs -> Seq({"ok", "fail"})]
    /\ count \in Nat /\ started \in [Clients -> Nat]
    /\ dropped \subseteq Pubs /\ misread \subseteq Data
    /\ acked \subseteq Data /\ written \subseteq Data /\ cut \subseteq Pubs0
    /\ dialled \in [Clients -> Nat] /\ open \in [Clients -> Int]
    /\ budget \in Budgets /\ scenario \in Scenarios
    /\ AttemptIsKnown

Each(v) == [c \in Clients |-> v]

Init ==
    /\ scenario \in Scenarios
    /\ taken = None
    /\ api = [t \in Threads |-> None]
    /\ connected = Each(FALSE)
    /\ connect_state = Each("NOT_IN_PROGRESS")
    /\ connect = [c \in Clients |-> NoConnect(c)]
    /\ disconnect = [c \in Clients |-> Command("DISCONNECT", c, None, 0)]
    /\ shouldBeConnected = Each(FALSE)
    /\ retrying = Each(FALSE)
    /\ responses = Each(<<>>)
    /\ pending_write = Each(0)
    /\ msgID = Each(0)
    /\ broken = Each(FALSE)
    /\ partial = Each(None)
    /\ owed = Each({})
    /\ open = Each(0)
    /\ dialled = Each(0)
    /\ commands = <<>>
    /\ outboundMsgs = Each(<<>>)
    /\ noBufferedMessages = Each(0)
    /\ command_seqno = Each(0)
    /\ store = Each({})
    /\ unused = scenario.reqs
    /\ accepted = {}
    /\ told = [r \in Reqs |-> <<>>]
    /\ count = 0 /\ started = Each(0)
    /\ dropped = {} /\ misread = {} /\ acked = {} /\ written = {} /\ cut = {}
    /\ budget = scenario.budget

Spend(what) ==
    /\ budget[what] > 0
    /\ budget' = [budget EXCEPT ![what] = IF @ = Unlimited THEN @ ELSE @ - 1]
AsyncMutexFree == taken = None

-----------------------------------------------------------------------------
(* Application threads.                                                      *)

(* Start a call that will add cmd: the part before MQTTAsync_addCommand. *)
Call(t, r, cmd) ==
    /\ t \in scenario.threads /\ api[t] = None
    /\ r \in unused /\ unused' = unused \ {r}
    /\ api' = [api EXCEPT ![t] = cmd]

(* A slip: only the messages in flight are looked at. *)
UsedIdsInFlight(c) == {m.tok : m \in ToSet(outboundMsgs[c])}

(* MQTTAsync_assignMsgId looks at all commands and needs mqttasync_mutex. *)
UsedIds(c) ==
    {cmd.tok : cmd \in ToSet(commands) \cup ToSet(responses[c])}
        \cup {m.tok : m \in ToSet(outboundMsgs[c])}
NewToken(c) == AssignMsgId(msgID[c], UsedIds(c))

Full(c) ==
    scenario.maxBuffered > 0 /\ noBufferedMessages[c] >= scenario.maxBuffered

(* MQTTAsync_send: the id is given out before the buffer is looked at. *)
Send(t, c, r) ==
    LET tok == IF r \in Pubs1 THEN NewToken(c) ELSE 0
    IN  /\ connected[c] \/ (scenario.maxBuffered > 0 /\ scenario.offline)
        /\ r \in Pubs1 => AsyncMutexFree /\ tok # 0
        /\ ~(Full(c) /\ ~scenario.deleteOldest)
        /\ Call(t, r, Command("PUBLISH", c, r, tok))
        /\ msgID' = [msgID EXCEPT ![c] = IF r \in Pubs1 THEN tok ELSE @]
        /\ UNCHANGED <<commands, taken, connVars, responses, pending_write, outboundMsgs,
                       storeVars, sockVars, accepted, told, histVars, budget, scenario>>

(* MQTTASYNC_MAX_BUFFERED_MESSAGES: the call fails, the id is gone. *)
SendRefused(t, c, r) ==
    LET tok == IF r \in Pubs1 THEN NewToken(c) ELSE 0
    IN  /\ t \in scenario.threads /\ api[t] = None
        /\ connected[c] \/ (scenario.maxBuffered > 0 /\ scenario.offline)
        /\ r \in Pubs1 => AsyncMutexFree /\ tok # 0
        /\ Full(c) /\ ~scenario.deleteOldest
        /\ r \in unused /\ unused' = unused \ {r}
        /\ msgID' = [msgID EXCEPT ![c] = IF r \in Pubs1 THEN tok ELSE @]
        /\ UNCHANGED <<queueVars, connVars, responses, pending_write, outboundMsgs,
                       storeVars, sockVars, accepted, told, histVars, budget, scenario>>

(* MQTTAsync_subscribeMany, MQTTAsync_unsubscribeMany. *)
Subscribe(t, c, r) ==
    /\ connected[c] /\ AsyncMutexFree /\ NewToken(c) # 0
    /\ Call(t, r, Command("SUBSCRIBE", c, r, NewToken(c)))
    /\ msgID' = [msgID EXCEPT ![c] = NewToken(c)]
    /\ UNCHANGED <<commands, taken, connVars, responses, pending_write, outboundMsgs,
                   storeVars, sockVars, accepted, told, histVars, budget, scenario>>

(* The application connects a client only if nothing is under way for it. *)
ConnectQueued(c) ==
    \E cmd \in ToSet(commands) \cup {taken} \cup {api[t] : t \in Threads} :
        cmd # None /\ cmd.type = "CONNECT" /\ cmd.client = c
Idle(c) ==
    /\ ~connected[c] /\ connect_state[c] = "NOT_IN_PROGRESS"
    /\ ~retrying[c] /\ ~ConnectQueued(c)

(* MQTTAsync_connect: the callbacks go into m->connect as well. *)
Connect(t, c, r) ==
    /\ Idle(c)
    /\ Call(t, r, Command("CONNECT", c, r, 0))
    /\ connect' = [connect EXCEPT ![c].req = r, ![c].cb = TRUE]
    /\ shouldBeConnected' = [shouldBeConnected EXCEPT ![c] = TRUE]
    /\ UNCHANGED <<commands, taken, connected, connect_state, disconnect, retrying,
                   sessVars, storeVars, sockVars,
                   accepted, told, histVars, budget, scenario>>

(* MQTTAsync_disconnect; without a connection it only says so. *)
Disconnect(t, c, r) ==
    /\ IF connected[c]
       THEN Call(t, r, Command("DISCONNECT", c, r, 0))
       ELSE /\ t \in scenario.threads /\ api[t] = None
            /\ r \in unused /\ unused' = unused \ {r}
            /\ UNCHANGED api
    /\ shouldBeConnected' = [shouldBeConnected EXCEPT ![c] = FALSE]
    /\ UNCHANGED <<commands, taken, connected, connect_state, connect, disconnect, retrying,
                   sessVars, storeVars, sockVars,
                   accepted, told, histVars, budget, scenario>>

(* MQTTAsync_addCommand for a command that goes to the head: ignored if the  *)
(* first element is a CONNECT or DISCONNECT of the same client.              *)
Inserted(q, cmd) == IF Duplicate(q, cmd) THEN q ELSE <<cmd>> \o q

(* Slips: the count goes up although one was dropped; the record of the     *)
(* dropped one stays.                                                       *)
CountUpAlways(c, full) == noBufferedMessages[c] + 1
CountUp(c, full) == IF full THEN noBufferedMessages[c] ELSE noBufferedMessages[c] + 1
StoredKeepsDropped(cmd, gone) == {rec \in store[cmd.client] : rec.key # cmd.key} \cup {cmd}

(* A command is stored unless it is a QoS 0 publication and createOptions    *)
(* say that these are not.                                                   *)
Persists(cmd) ==
    /\ scenario.persistence
    /\ cmd.req \in Pubs0 => scenario.persistQoS0 \/ scenario.maxBuffered = 0

(* The records after the new one is written, and after a dropped one is      *)
(* removed.                                                                  *)
WithRecord(cmd) ==
    IF Persists(cmd) THEN {rec \in store[cmd.client] : rec.key # cmd.key} \cup {cmd}
                     ELSE store[cmd.client]
Stored(cmd, gone) == {rec \in WithRecord(cmd) : rec.key \notin gone}

(* The command as it is queued: with the next sequence number as its key. *)
Seqno(c) ==
    IF scenario.persistence THEN (command_seqno[c] + 1) % SeqnoLimit ELSE command_seqno[c]
Numbered(cmd) ==
    [cmd EXCEPT !.n = count + 1, !.key = IF Persists(cmd) THEN Seqno(cmd.client) ELSE 0]

(* MQTTAsync_addCommand: CONNECT or DISCONNECT of the library; DISCONNECT of *)
(* the application; data.                                                    *)
AddHead(cmd) ==
    /\ GoesToHead(cmd)
    /\ commands' = Inserted(commands, cmd)
    /\ UNCHANGED <<storeVars, accepted, count, dropped>>

AddDisconnect(cmd) ==
    /\ cmd.type = "DISCONNECT"
    /\ commands' = Append(commands, cmd)
    /\ command_seqno' = [command_seqno EXCEPT ![cmd.client] = Seqno(cmd.client)]
    /\ count' = count + 1
    /\ UNCHANGED <<noBufferedMessages, store, accepted, dropped>>

AddData(cmd) ==
    LET c == cmd.client
        q == Append(commands, Numbered(cmd))
        full == cmd.type = "PUBLISH" /\ Full(c)
        old == IF full THEN {q[OldestPublish(q, c)]} ELSE {}
    IN  /\ IsData(cmd)
        /\ commands' = IF full THEN RemoveAt(q, OldestPublish(q, c)) ELSE q
        /\ command_seqno' = [command_seqno EXCEPT ![c] = IF Persists(cmd) THEN Seqno(c) ELSE @]
        /\ store' = IF scenario.persistence
                    THEN [store EXCEPT ![c] = Stored(Numbered(cmd), {x.key : x \in old})]
                    ELSE store
        /\ noBufferedMessages' =
             [noBufferedMessages EXCEPT ![c] = IF cmd.type = "PUBLISH" THEN CountUp(c, full) ELSE @]
        /\ dropped' = dropped \cup {x.req : x \in old}
        /\ accepted' = accepted \cup {cmd.req}
        /\ count' = count + 1

(* MQTTAsync_addCommand called from an API call. *)
AddCommand(t) ==
    /\ api[t] # None
    /\ api' = [api EXCEPT ![t] = None]
    /\ AddHead(api[t]) \/ AddDisconnect(api[t]) \/ AddData(api[t])
    /\ UNCHANGED <<taken, connVars, sessVars, sockVars, unused, told, started, misread,
                   acked, written, cut, dialled, open, budget, scenario>>

(* MQTTAsync_reconnect, by an application that waits for the outcome of its  *)
(* connect first.                                                            *)
Reconnect(c) ==
    /\ AsyncMutexFree
    /\ \E r \in Conns : connect[c].req = r /\ told[r] # <<>>
    /\ IF scenario.auto
       THEN /\ shouldBeConnected[c] /\ ~retrying[c]
            /\ retrying' = [retrying EXCEPT ![c] = TRUE]
            /\ UNCHANGED commands
       ELSE /\ Idle(c)
            /\ commands' = Inserted(commands,
                              IF scenario.default THEN [connect[c] EXCEPT !.ver = "default"]
                                                  ELSE connect[c])
            /\ UNCHANGED retrying
    /\ Spend("timeout")
    /\ UNCHANGED <<taken, api, connected, connect_state, connect, disconnect, shouldBeConnected,
                   sessVars, storeVars, sockVars, appVars, histVars, scenario>>

-----------------------------------------------------------------------------
(* What several handlers do.                                                 *)

(* MQTTAsync_closeOnly.  Socket_close forgets what was left of a write. *)
CloseOnly(c) ==
    /\ connected' = [connected EXCEPT ![c] = FALSE]
    /\ connect_state' = [connect_state EXCEPT ![c] = "NOT_IN_PROGRESS"]
    /\ broken' = [broken EXCEPT ![c] = FALSE]
    /\ partial' = [partial EXCEPT ![c] = None]
    /\ owed' = [owed EXCEPT ![c] = {}]
    /\ cut' = IF partial[c] # None THEN cut \cup ({partial[c].req} \cap Pubs0) ELSE cut

(* MQTTAsync_cleanSession, if cleans, with the callbacks t called before.    *)
(* pending_write is not reset: it then points to freed memory.               *)
CleanSession(c, cleans, t) ==
    IF cleans
    THEN /\ outboundMsgs' = [outboundMsgs EXCEPT ![c] = <<>>]
         /\ msgID' = [msgID EXCEPT ![c] = 0]
         /\ responses' = [responses EXCEPT ![c] = <<>>]
         /\ told' = Tell(t, ReqsOf(ToSet(responses[c])), "fail")
         /\ pending_write' = [pending_write EXCEPT ![c] = IF @ > 0 THEN -count ELSE @]
    ELSE /\ told' = t
         /\ UNCHANGED <<outboundMsgs, msgID, responses, pending_write>>

(* MQTTAsync_startConnectRetry; when the timer goes off is left open. *)
StartConnectRetry(c, should) ==
    retrying' = [retrying EXCEPT ![c] = @ \/ (scenario.auto /\ should)]

(* A slip: the last URI counts as one that has a next. *)
CheckConnPastEnd(cmd, was) == cmd.uri < scenario.uris

(* MQTTAsync_checkConn: is there another URI or version to try? *)
CheckConn(cmd, was) ==
    \/ cmd.uri + 1 < scenario.uris
    \/ ~was /\ cmd.ver = "3.1" /\ scenario.default

NextURI(cmd) == [cmd EXCEPT !.uri = @ + 1, !.ver = IF scenario.default THEN "default" ELSE @]

(* The CONNECT that nextOrClose queues. *)
NextConnect(cmd, was) ==
    IF scenario.default /\ was /\ cmd.ver # "3.1" THEN cmd ELSE NextURI(cmd)

(* A slip: connectionLost is called where the session is closed although it *)
(* has been called before the CONNECT was queued.                           *)
LostCallsTwice(more, added) == IF more /\ ~added THEN 2 ELSE 1

(* How often nextOrClose calls connectionLost for a connection. *)
LostCalls(more, added) == 1

(* nextOrClose.  was: m->c->connected; ended: disconnected has been called. *)
NextOrClose(c, was, ended) ==
    LET conn == NextConnect(connect[c], was)
        more == CheckConn(connect[c], was)
        added == more /\ ~Duplicate(commands, conn)
    IN  /\ CloseOnly(c)
        /\ open' = [open EXCEPT ![c] = @ - (IF was THEN LostCalls(more, added)
                                            ELSE IF ended THEN 1 ELSE 0)]
        /\ \/ /\ added
              /\ commands' = <<conn>> \o commands
              /\ UNCHANGED <<connect, retrying, sessVars, told>>
           \/ /\ ~added
              /\ CleanSession(c, scenario.clean, Tell(told, Callbacks(connect[c]), "fail"))
              /\ connect' = [connect EXCEPT ![c].cb = FALSE]
              /\ StartConnectRetry(c, shouldBeConnected[c])
              /\ UNCHANGED commands
        /\ UNCHANGED <<taken, api, disconnect, shouldBeConnected, storeVars, unused, accepted,
                       count, started, dropped, misread, acked, written, dialled, scenario>>

(* MQTTAsync_checkDisconnect when it closes; t: callbacks called before. *)
CloseForDisconnect(c, cmd, t) ==
    /\ CloseOnly(c)
    /\ CleanSession(c, scenario.clean,
                    IF cmd.internal THEN t ELSE Tell(t, Callbacks(cmd), "ok"))
    /\ open' = [open EXCEPT ![c] = IF connected[c] THEN @ - 1 ELSE @]
    /\ IF cmd.internal THEN StartConnectRetry(c, shouldBeConnected[c]) ELSE UNCHANGED retrying

-----------------------------------------------------------------------------
(* The send thread: MQTTAsync_processCommand in two steps.                   *)

Blocked(cmd) ==
    LET c == cmd.client
        inflight == Len(outboundMsgs[c])
    IN  /\ IsData(cmd)
        /\ \/ ~connected[c] \/ connect_state[c] # "NOT_IN_PROGRESS" \/ partial[c] # None
           \/ inflight >= MaxMsgId - 1
           \/ cmd.req \notin Pubs0 /\ inflight >= scenario.maxInflight

(* MQTTAsync_unpersistCommand. *)
Unpersisted(cmd) == {rec \in store[cmd.client] : rec.key # cmd.key}

(* Take the first command that is not blocked off the list and out of the store. *)
Take ==
    LET able == Takeable(commands, {i \in DOMAIN commands : Blocked(commands[i])})
        first == CHOOSE i \in able : \A j \in able : i <= j
        cmd == commands[first]
    IN  /\ AsyncMutexFree /\ able # {}
        /\ taken' = cmd
        /\ commands' = RemoveAt(commands, first)
        /\ noBufferedMessages' =
             [noBufferedMessages EXCEPT ![cmd.client] = IF cmd.type = "PUBLISH" THEN @ - 1 ELSE @]
        /\ store' = [store EXCEPT ![cmd.client] = Unpersisted(cmd)]
        /\ UNCHANGED <<api, connVars, sessVars, command_seqno, sockVars, appVars, histVars,
                       budget, scenario>>

(* The version of MQTT for an attempt. *)
VersionOf(cmd) ==
    IF scenario.default /\ cmd.ver # "default" THEN "3.1" ELSE "3.1.1"

ConnectPacket == [type |-> "CONNECT", tok |-> 0, req |-> None]

(* CONNECT while connecting or connected: it replaces m->connect all the same. *)
ExecConnectBusy ==
    LET c == taken.client
    IN  /\ taken # None /\ taken.type = "CONNECT"
        /\ connect_state[c] # "NOT_IN_PROGRESS" \/ connected[c]
        /\ connect' = [connect EXCEPT ![c] = taken]
        /\ taken' = None
        /\ UNCHANGED <<commands, api, connected, connect_state, disconnect, shouldBeConnected,
                       retrying, sessVars, storeVars, sockVars, appVars, histVars, budget, scenario>>

(* CONNECT: MQTTProtocol_connect waits for TCP or has sent the CONNECT packet. *)
ExecConnect ==
    LET c == taken.client
    IN  /\ taken # None /\ taken.type = "CONNECT"
        /\ connect_state[c] = "NOT_IN_PROGRESS" /\ ~connected[c]
        /\ \/ /\ connect_state' = [connect_state EXCEPT ![c] = "TCP_IN_PROGRESS"]
              /\ UNCHANGED owed
           \/ /\ connect_state' = [connect_state EXCEPT ![c] = "WAIT_FOR_CONNACK"]
              /\ owed' = [owed EXCEPT ![c] = {ConnectPacket}]
        /\ connect' = [connect EXCEPT ![c] = [taken EXCEPT !.ver = VersionOf(taken)]]
        /\ dialled' = [dialled EXCEPT ![c] = taken.uri]
        /\ taken' = None
        /\ UNCHANGED <<commands, api, connected, disconnect, shouldBeConnected, retrying,
                       sessVars, storeVars, broken, partial, appVars, count, started, dropped,
                       misread, acked, written, cut, open, budget, scenario>>

(* CONNECT: it fails at once.  The callbacks stay in m->connect; if there is *)
(* more to try and the command is a duplicate, nobody is told.               *)
ExecConnectFails ==
    LET c == taken.client
        tried == [taken EXCEPT !.ver = VersionOf(taken)]
        again == IF scenario.default /\ tried.ver # "3.1" THEN tried ELSE NextURI(tried)
    IN  /\ taken # None /\ taken.type = "CONNECT"
        /\ connect_state[c] = "NOT_IN_PROGRESS" /\ ~connected[c]
        /\ Spend("dial")
        /\ shouldBeConnected' = [shouldBeConnected EXCEPT ![c] = TRUE]
        /\ dialled' = [dialled EXCEPT ![c] = taken.uri]
        /\ taken' = None
        /\ \/ /\ CheckConn(tried, FALSE)
              /\ commands' = Inserted(commands, again)
              /\ UNCHANGED <<connect, told, retrying>>
           \/ /\ ~CheckConn(tried, FALSE)
              /\ told' = Tell(told, Callbacks(tried), "fail")
              /\ connect' = [connect EXCEPT ![c] = tried]
              /\ StartConnectRetry(c, TRUE)
              /\ UNCHANGED commands
        /\ UNCHANGED <<api, connected, connect_state, disconnect, sessVars, storeVars, sockVars,
                       unused, accepted, count, started, dropped, misread, acked, written, cut,
                       open, scenario>>

(* PUBLISH, SUBSCRIBE, UNSUBSCRIBE: how the write of the packet ends. *)
ExecData(outcome) ==
    LET c == taken.client
        r == taken.req
        p == [type |-> taken.type, tok |-> taken.tok, req |-> r]
        waits == IF outcome = "complete" THEN r \notin Pubs0 ELSE outcome = "interrupted"
    IN  /\ taken # None /\ IsData(taken)
        /\ taken' = None
        /\ \/ outcome = "complete" /\ UNCHANGED <<broken, budget>>
           \/ outcome = "interrupted" /\ Spend("partial") /\ UNCHANGED broken
           \/ outcome = "error" /\ broken[c] /\ UNCHANGED <<broken, budget>>
        \* MQTTProtocol_startPublish keeps the message whatever comes of the write
        /\ outboundMsgs' =
             IF r \in Pubs1 THEN [outboundMsgs EXCEPT ![c] = Append(@, [tok |-> taken.tok, req |-> r])]
                            ELSE outboundMsgs
        /\ responses' = IF waits THEN [responses EXCEPT ![c] = Append(@, taken)] ELSE responses
        /\ partial' = IF outcome = "interrupted" THEN [partial EXCEPT ![c] = p] ELSE partial
        /\ owed' = IF outcome = "complete" /\ r \notin Pubs0
                   THEN [owed EXCEPT ![c] = @ \cup {p}] ELSE owed
        /\ written' = IF outcome = "complete" THEN written \cup {r} ELSE written
        /\ pending_write' =
             CASE r \in Pubs0 /\ outcome = "interrupted" -> [pending_write EXCEPT ![c] = taken.n]
               [] r \in Pubs0 /\ outcome = "error" -> [pending_write EXCEPT ![c] = -count]
               [] OTHER -> pending_write
        /\ told' = CASE r \in Pubs0 /\ outcome = "complete" -> Tell(told, Callbacks(taken), "ok")
                     [] outcome = "error" -> Tell(told, Callbacks(taken), "fail")
                     [] OTHER -> told
        \* MQTTAsync_disconnect_internal
        /\ commands' = IF outcome = "error" /\ connected[c] THEN Inserted(commands, Internal(c))
                                                            ELSE commands
        /\ started' = [started EXCEPT ![c] = taken.n]
        /\ UNCHANGED <<api, connVars, msgID, storeVars, unused, accepted, count, dropped,
                       misread, acked, cut, dialled, open, scenario>>

(* DISCONNECT.  A connect that is under way ends with onFailure; then the    *)
(* connection is closed at once, or later from MQTTAsync_checkTimeouts.      *)
ExecDisconnect ==
    LET c == taken.client
        busy == connect_state[c] # "NOT_IN_PROGRESS"
        t == IF busy THEN Tell(told, Callbacks(connect[c]), "fail") ELSE told
    IN  /\ taken # None /\ taken.type = "DISCONNECT"
        /\ taken' = None
        /\ disconnect' = [disconnect EXCEPT ![c] = taken]
        /\ connect' = IF busy THEN [connect EXCEPT ![c].cb = FALSE] ELSE connect
        /\ \/ /\ busy \/ connected[c]
              /\ CloseForDisconnect(c, taken, t)
              /\ IF taken.internal \/ outboundMsgs[c] = <<>> THEN UNCHANGED budget
                                                             ELSE Spend("timeout")
           \/ /\ busy \/ connected[c]
              /\ ~taken.internal /\ outboundMsgs[c] # <<>>
              /\ connect_state' = [connect_state EXCEPT ![c] = "DISCONNECTING"]
              /\ told' = t
              /\ UNCHANGED <<connected, retrying, sessVars, sockVars, cut, open, budget>>
           \/ /\ ~busy /\ ~connected[c]
              /\ UNCHANGED <<connected, connect_state, retrying, sessVars, sockVars, told, cut,
                             open, budget>>
        /\ UNCHANGED <<commands, api, shouldBeConnected, storeVars, unused, accepted, count,
                       started, dropped, misread, acked, written, dialled, scenario>>

-----------------------------------------------------------------------------
(* MQTTAsync_checkTimeouts, in the send thread as well: its three checks.    *)

DisconnectTimeout(c) ==
    /\ AsyncMutexFree /\ connect_state[c] = "DISCONNECTING"
    /\ IF outboundMsgs[c] = <<>> THEN UNCHANGED budget ELSE Spend("timeout")
    /\ CloseForDisconnect(c, disconnect[c], told)
    /\ UNCHANGED <<queueVars, connect, disconnect, shouldBeConnected, storeVars, unused,
                   accepted, count, started, dropped, misread, acked, written, dialled, scenario>>

(* A slip: only the TCP connect has a time-out. *)
ConnectTimeoutTcpOnly(c) ==
    /\ AsyncMutexFree /\ connect_state[c] = "TCP_IN_PROGRESS"
    /\ Spend("timeout")
    /\ NextOrClose(c, connected[c], FALSE)

(* It is measured from the start of the last connect, and also applied while *)
(* a disconnect waits for messages in flight.                                *)
ConnectTimeout(c) ==
    /\ AsyncMutexFree /\ connect_state[c] # "NOT_IN_PROGRESS"
    /\ connect_state[c] = "DISCONNECTING" => outboundMsgs[c] # <<>>
    /\ Spend("timeout")
    /\ NextOrClose(c, connected[c], FALSE)

(* A slip: the retry stops once a CONNECT is queued. *)
RetryingOnce(c) == [retrying EXCEPT ![c] = FALSE]

(* retrying is reset by a CONNACK only. *)
RetryingStill(c) == retrying

(* The retry timer goes off.  It is not stopped by the CONNECT it queues. *)
RetryTimer(c) ==
    /\ AsyncMutexFree
    /\ scenario.auto /\ retrying[c]
    /\ commands' = Inserted(commands, IF scenario.default THEN [connect[c] EXCEPT !.ver = "default"]
                                                          ELSE connect[c])
    /\ retrying' = RetryingStill(c)
    /\ UNCHANGED <<taken, api, connected, connect_state, connect, disconnect, shouldBeConnected,
                   sessVars, storeVars, sockVars, appVars, histVars, budget, scenario>>

-----------------------------------------------------------------------------
(* The receive thread.                                                       *)

(* MQTTAsync_connecting: TCP is connected; send the CONNECT packet. *)
TransportDone(c) ==
    /\ AsyncMutexFree /\ connect_state[c] = "TCP_IN_PROGRESS" /\ ~broken[c]
    /\ connect' = [connect EXCEPT ![c].ver = IF @ = "default" THEN "3.1.1" ELSE @]
    /\ connect_state' = [connect_state EXCEPT ![c] = "WAIT_FOR_CONNACK"]
    /\ owed' = [owed EXCEPT ![c] = {ConnectPacket}]
    /\ UNCHANGED <<queueVars, connected, disconnect, shouldBeConnected, retrying, sessVars,
                   storeVars, broken, partial, appVars, histVars, budget, scenario>>

TransportFails(c) ==
    /\ AsyncMutexFree /\ connect_state[c] = "TCP_IN_PROGRESS"
    /\ IF broken[c] THEN UNCHANGED budget ELSE Spend("fail")
    /\ NextOrClose(c, FALSE, FALSE)

(* A slip: nothing is sent again. *)
ResentNone(out) == {}

(* What MQTTProtocol_retry sends on a new connection. *)
Resent(out) == {[type |-> "PUBLISH", tok |-> m.tok, req |-> m.req] : m \in ToSet(out)}

(* A slip: the callbacks stay set. *)
ForgottenNot(c) == connect

(* The callbacks of the connect are set to NULL once one has been called. *)
Forgotten(c) == [connect EXCEPT ![c].cb = FALSE]

(* MQTTAsync_completeConnection: a clean session, or the server has none. *)
Cleans(present) == scenario.clean \/ (~scenario.default /\ ~present)

(* CONNACK with return code 0; the messages in flight are sent again, in one *)
(* go: the resend that a partial write interrupts and a later pass continues *)
(* is in Session.  MQTTProtocol_retry also sends again for other clients,    *)
(* which adds nothing to owed; a write that fails there is SocketError.      *)
ConnackAccepts(c, present) ==
    /\ AsyncMutexFree /\ connect_state[c] = "WAIT_FOR_CONNACK" /\ ~broken[c]
    /\ ConnectPacket \in owed[c]
    /\ retrying' = [retrying EXCEPT ![c] = FALSE]
    /\ connected' = [connected EXCEPT ![c] = TRUE]
    /\ connect_state' = [connect_state EXCEPT ![c] = "NOT_IN_PROGRESS"]
    /\ CleanSession(c, Cleans(present), Tell(told, Callbacks(connect[c]), "ok"))
    /\ owed' = [owed EXCEPT ![c] = Resent(outboundMsgs'[c])]
    /\ connect' = Forgotten(c)
    /\ open' = [open EXCEPT ![c] = @ + 1]
    /\ UNCHANGED <<queueVars, disconnect, shouldBeConnected, storeVars, broken, partial, unused,
                   accepted, count, started, dropped, misread, acked, written, cut, dialled,
                   budget, scenario>>

(* The resend fails (or a PUBREL is written partly): MQTTProtocol_retry      *)
(* calls nextOrClose, and because the client is not connected any more the   *)
(* receive thread calls it again.  The first call queues a CONNECT, with the *)
(* callbacks, if there is another URI; the second then finds that command    *)
(* and reports the failure, which else the first has done.  (It never has    *)
(* more to try than the first: version 3.1 is only tried on a URI that has   *)
(* a next.)  Nothing is sent again in a clean session.                       *)
ResendFails(c) ==
    LET conn == NextConnect(connect[c], TRUE)
        more == CheckConn(connect[c], TRUE)
        added == more /\ ~Duplicate(commands, conn)
    IN  /\ AsyncMutexFree /\ connect_state[c] = "WAIT_FOR_CONNACK"
        /\ ConnectPacket \in owed[c]
        /\ ~Cleans(TRUE) /\ outboundMsgs[c] # <<>>
        /\ Spend("resend")
        /\ CloseOnly(c)
        /\ commands' = IF added THEN <<conn>> \o commands ELSE commands
        /\ told' = Tell(told, Callbacks(connect[c]), "fail")
        /\ connect' = Forgotten(c)
        /\ retrying' = [retrying EXCEPT ![c] = scenario.auto /\ shouldBeConnected[c]]
        /\ open' = [open EXCEPT ![c] = @ + 1 - LostCalls(more, added)]
        /\ UNCHANGED <<taken, api, disconnect, shouldBeConnected, sessVars, storeVars, unused,
                       accepted, count, started, dropped, misread, acked, written, dialled,
                       scenario>>

(* Another return code; or a CONNACK that comes after the wait was given up. *)
ConnackRefuses(c) ==
    /\ AsyncMutexFree /\ ~broken[c] /\ ConnectPacket \in owed[c]
    /\ \/ connect_state[c] = "WAIT_FOR_CONNACK" /\ Spend("fail")
       \/ connect_state[c] = "DISCONNECTING" /\ UNCHANGED budget
    /\ NextOrClose(c, connected[c], FALSE)

(* A slip: an answered response stays in the list. *)
WithoutNothing(q, I) == q

(* The response or message of an acknowledgement: the first with its token. *)
Answered(q, tok) ==
    {i \in DOMAIN q : q[i].tok = tok /\ \A j \in 1 .. i - 1 : q[j].tok # tok}
Without(q, I) == IF I = {} THEN q ELSE RemoveAt(q, CHOOSE i \in I : TRUE)

(* PUBACK, PUBCOMP, a refusing PUBREC, SUBACK or UNSUBACK. *)
Ack(c, p, outcome) ==
    LET I == Answered(responses[c], p.tok)
    IN  /\ AsyncMutexFree /\ connected[c] /\ ~broken[c]
        /\ p \in owed[c] /\ IsData(p)
        /\ \/ outcome = "ok" /\ UNCHANGED budget
           \/ outcome = "fail" /\ Spend("fail") /\ (p.type = "PUBLISH" => ~scenario.default)
        /\ owed' = [owed EXCEPT ![c] = @ \ {p}]
        /\ outboundMsgs' = IF p.type = "PUBLISH"
                           THEN [outboundMsgs EXCEPT ![c] = Without(@, Answered(@, p.tok))]
                           ELSE outboundMsgs
        /\ responses' = [responses EXCEPT ![c] = Without(@, I)]
        /\ told' = Tell(told, ReqsOf({responses[c][i] : i \in I}), outcome)
        /\ acked' = acked \cup {p.req}
        /\ UNCHANGED <<queueVars, connVars, msgID, pending_write, storeVars, broken, partial,
                       unused, accepted, count, started, dropped, misread, written, cut,
                       dialled, open, scenario>>

(* The responses pending_write may be taken for: the one it points to, or,   *)
(* once that is freed, none or one that was added since and has its address. *)
Matches(c) ==
    IF pending_write[c] >= 0
    THEN {{i} : i \in {k \in DOMAIN responses[c] : responses[c][k].n = pending_write[c]}} \cup
         (IF pending_write[c] = 0 THEN {{}} ELSE {})
    ELSE {{}} \cup {{i} : i \in {k \in DOMAIN responses[c] : responses[c][k].n > -pending_write[c]}}

(* A slip: every publication is reported, not only QoS 0. *)
WrittenTellsAll(cmd) == TRUE
WrittenTells(cmd) == cmd.req \in Pubs0

(* MQTTAsync_writeComplete with rc 1: the rest of the packet is written. *)
WriteDone(c) ==
    LET p == partial[c]
    IN  /\ AsyncMutexFree /\ p # None /\ ~broken[c]
        /\ partial' = [partial EXCEPT ![c] = None]
        /\ pending_write' = [pending_write EXCEPT ![c] = 0]
        /\ written' = written \cup {p.req}
        /\ owed' = IF p.tok # 0 THEN [owed EXCEPT ![c] = @ \cup {p}] ELSE owed
        /\ \E I \in Matches(c) :
             LET cmds == {responses[c][i] : i \in I}
                 done == {x \in cmds : x.type = "PUBLISH" /\ WrittenTells(x)}
                 kept == {x \in cmds : x.type = "PUBLISH" /\ ~WrittenTells(x)}
             IN  /\ told' = Tell(told, ReqsOf(done), "ok")
                 /\ responses' = IF kept # {} THEN responses
                                 ELSE [responses EXCEPT ![c] = Without(@, I)]
                 /\ misread' = misread \cup {x.req : x \in cmds \ (done \cup kept)}
        /\ UNCHANGED <<queueVars, connVars, outboundMsgs, msgID, storeVars, broken, unused,
                       accepted, count, started, dropped, acked, cut, dialled, open, budget,
                       scenario>>

(* MQTTAsync_writeComplete with rc -1, and then the error of the socket. *)
WriteFails(c) ==
    /\ AsyncMutexFree /\ partial[c] # None /\ broken[c]
    /\ partial' = [partial EXCEPT ![c] = None]
    /\ pending_write' = [pending_write EXCEPT ![c] = 0]
    /\ cut' = cut \cup ({partial[c].req} \cap Pubs0)
    /\ \E I \in Matches(c) :
         LET cmds == {responses[c][i] : i \in I}
             failed == {x \in cmds : x.type = "PUBLISH"}
         IN  /\ told' = Tell(told, ReqsOf(failed), "fail")
             /\ responses' = [responses EXCEPT ![c] = Without(@, I)]
             /\ misread' = misread \cup {x.req : x \in cmds \ failed}
    /\ UNCHANGED <<queueVars, connVars, outboundMsgs, msgID, storeVars, broken, owed, unused,
                   accepted, count, started, dropped, acked, written, dialled, open, budget,
                   scenario>>

(* SOCKET_ERROR from MQTTAsync_cycle. *)
SocketError(c) ==
    /\ AsyncMutexFree /\ broken[c]
    /\ connected[c] \/ connect_state[c] \in {"WAIT_FOR_CONNACK", "DISCONNECTING"}
    /\ NextOrClose(c, connected[c], FALSE)
    /\ UNCHANGED budget

(* A DISCONNECT packet (MQTT 5): connected is reset first, so nextOrClose    *)
(* does not call connectionLost; the callback was disconnected.              *)
ServerDisconnect(c) ==
    /\ AsyncMutexFree /\ connected[c] /\ ~broken[c] /\ ~scenario.default
    /\ Spend("loss")
    /\ NextOrClose(c, FALSE, TRUE)

-----------------------------------------------------------------------------
(* The environment.                                                          *)

Break(c) ==
    /\ connected[c] \/ connect_state[c] # "NOT_IN_PROGRESS"
    /\ ~broken[c] /\ Spend("loss")
    /\ broken' = [broken EXCEPT ![c] = TRUE]
    /\ UNCHANGED <<queueVars, connVars, sessVars, storeVars, partial, owed, appVars, histVars,
                   scenario>>

(* What MQTTAsync_restoreCommands makes of records; callbacks are not stored. *)
RestoreCommands(records) == {[rec EXCEPT !.cb = FALSE] : rec \in records}
Largest(S) == IF S = {} THEN 0 ELSE CHOOSE x \in S : \A y \in S : y <= x
Inflight(c) == IF scenario.persistence THEN outboundMsgs[c] ELSE <<>>

CountRestored(records) == Cardinality({rec \in records : rec.type = "PUBLISH"})

(* The program is killed; it creates its clients again, in some order, and   *)
(* finds these records in the store.                                         *)
Restart(records) ==
    /\ store' = records
    /\ taken' = None
    /\ api' = [t \in Threads |-> None]
    /\ connected' = Each(FALSE)
    /\ connect_state' = Each("NOT_IN_PROGRESS")
    /\ connect' = [c \in Clients |-> NoConnect(c)]
    /\ disconnect' = [c \in Clients |-> Command("DISCONNECT", c, None, 0)]
    /\ shouldBeConnected' = Each(FALSE)
    /\ retrying' = Each(FALSE)
    /\ responses' = Each(<<>>)
    /\ pending_write' = Each(0)
    /\ msgID' = Each(0)
    /\ broken' = Each(FALSE)
    /\ partial' = Each(None)
    /\ owed' = Each({})
    /\ open' = Each(0)
    /\ dialled' = Each(0)
    /\ \E order \in Injection(Clients, 1 .. Cardinality(Clients)) :
         commands' \in Restored(UNION {RestoreCommands(records[c]) : c \in Clients}, order)
    /\ outboundMsgs' = [c \in Clients |-> Inflight(c)]
    /\ noBufferedMessages' = [c \in Clients |-> CountRestored(records[c])]
    /\ command_seqno' = [c \in Clients |-> Largest({rec.key : rec \in records[c]})]
    /\ accepted' = {}
    /\ UNCHANGED <<unused, told, started, dropped, misread, acked, written, cut, scenario>>

Kill ==
    /\ Spend("kill")
    /\ Restart(store)
    /\ UNCHANGED count

(* Killed within MQTTAsync_addCommand: the new record is written, that of    *)
(* the publication which has to make room is still there.                    *)
KillInAddCommand(t) ==
    LET cmd == api[t]
    IN  /\ cmd # None /\ cmd.type = "PUBLISH"
        /\ Full(cmd.client) /\ Persists(cmd)
        /\ Spend("tear")
        /\ Restart([store EXCEPT ![cmd.client] = WithRecord(Numbered(cmd))])
        /\ count' = count + 1

(* A slip: the callbacks of the queued commands are not called. *)
FreedNone(c) == {}
Freed(c) == {cmd \in ToSet(commands) : cmd.client = c} \cup ToSet(responses[c])

InUse(c) == \E t \in Threads : api[t] # None /\ api[t].client = c

(* MQTTAsync_destroy and MQTTAsync_create for a client that no thread uses. *)
Recreate(c) ==
    LET inflight == IF scenario.clean THEN <<>> ELSE Inflight(c)
    IN  /\ AsyncMutexFree /\ Spend("kill")
        /\ ~InUse(c)
        /\ CloseOnly(c)
        /\ told' = Tell(told, ReqsOf(Freed(c)), "fail")
        /\ responses' = [responses EXCEPT ![c] = <<>>]
        /\ \E others \in Remaining(commands, {i \in DOMAIN commands : commands[i].client # c}),
              own \in Restored(RestoreCommands(store[c]), Each(0)) :
             commands' = others \o own
        /\ outboundMsgs' = [outboundMsgs EXCEPT ![c] = inflight]
        /\ msgID' = [msgID EXCEPT ![c] = 0]
        /\ pending_write' = [pending_write EXCEPT ![c] = 0]
        /\ connect' = [connect EXCEPT ![c] = NoConnect(c)]
        /\ disconnect' = [disconnect EXCEPT ![c] = Command("DISCONNECT", c, None, 0)]
        /\ shouldBeConnected' = [shouldBeConnected EXCEPT ![c] = FALSE]
        /\ retrying' = [retrying EXCEPT ![c] = FALSE]
        /\ noBufferedMessages' = [noBufferedMessages EXCEPT ![c] = CountRestored(store[c])]
        /\ command_seqno' = [command_seqno EXCEPT ![c] = Largest({rec.key : rec \in store[c]})]
        /\ open' = [open EXCEPT ![c] = 0]
        /\ UNCHANGED <<taken, api, store, unused, accepted, count, started, dropped, misread,
                       acked, written, dialled, scenario>>

-----------------------------------------------------------------------------
Application(t) ==
    \/ AddCommand(t)
    \/ \E c \in scenario.clients :
         \/ \E r \in Pubs : Send(t, c, r) \/ SendRefused(t, c, r)
         \/ \E r \in Subs : Subscribe(t, c, r)
         \/ \E r \in Conns : Connect(t, c, r)
         \/ \E r \in Discs : Disconnect(t, c, r)

SendThread ==
    \/ Take
    \/ ExecConnectBusy \/ ExecConnect \/ ExecConnectFails
    \/ \E outcome \in {"complete", "interrupted", "error"} : ExecData(outcome)
    \/ ExecDisconnect

ReceiveThread(c) ==
    \/ TransportDone(c) \/ TransportFails(c)
    \/ \E present \in BOOLEAN : ConnackAccepts(c, present)
    \/ ResendFails(c) \/ ConnackRefuses(c)
    \/ \E p \in owed[c], outcome \in {"ok", "fail"} : Ack(c, p, outcome)
    \/ WriteDone(c) \/ WriteFails(c)
    \/ SocketError(c) \/ ServerDisconnect(c)

Next ==
    \/ \E t \in Threads : Application(t)
    \/ SendThread
    \/ \E c \in Clients : DisconnectTimeout(c) \/ ConnectTimeout(c) \/ RetryTimer(c)
    \/ \E c \in Clients : ReceiveThread(c)
    \/ \E c \in scenario.clients : Reconnect(c) \/ Break(c) \/ Recreate(c)
    \/ Kill \/ \E t \in Threads : KillInAddCommand(t)

Spec == Init /\ [][Next]_vars

(* Threads that can run do; a thread that waits for mqttasync_mutex is not   *)
(* starved by the ones that take it again and again.  The server answers,    *)
(* unless the connect time-out may always come first.                        *)
ServerAnswers == scenario.budget.timeout # Unlimited
Notices(c) ==
    \/ SocketError(c) \/ (broken[c] /\ TransportFails(c))
    \/ WriteDone(c) \/ WriteFails(c)
    \/ /\ ServerAnswers
       /\ \/ TransportDone(c)
          \/ \E present \in BOOLEAN : ConnackAccepts(c, present)
          \/ \E p \in owed[c] : Ack(c, p, "ok")
TimesOut(c) == DisconnectTimeout(c) \/ (~ServerAnswers /\ ConnectTimeout(c))
Fairness ==
    /\ WF_vars(SendThread)
    /\ \A t \in Threads : WF_vars(AddCommand(t))
    /\ \A c \in Clients : SF_vars(Notices(c)) /\ SF_vars(TimesOut(c)) /\ SF_vars(RetryTimer(c))

FairSpec == Spec /\ Fairness

-----------------------------------------------------------------------------
(* Properties.                                                               *)

OneThread == Cardinality(scenario.threads) = 1
Unspent(what) == budget[what] = scenario.budget[what] /\ budget[what] # Unlimited

(* The sequence numbers of commands have not wrapped. *)
Unwrapped == count < SeqnoLimit

Spent(what) == scenario.budget[what] - budget[what]

(* noBufferedMessages is the number of publications of the client in the     *)
(* list, through sends, drops, executions, destroy and restart, and never    *)
(* more than maxBufferedMessages and one for each time the program was       *)
(* killed between the two store operations of addCommand: addCommand,        *)
(* processCommand and restoreCommands each keep their share of the count.    *)
BufferedCountIsTrue ==
    \A c \in Clients :
        /\ noBufferedMessages[c] = Cardinality(Publishes(commands, c))
        /\ scenario.maxBuffered > 0 /\ budget["tear"] # Unlimited =>
              noBufferedMessages[c] <= scenario.maxBuffered + Spent("tear")

(* No callback of a publication, a subscription or a disconnect is called    *)
(* twice: writeComplete, the acknowledgement, cleanSession, destroy and an   *)
(* error on the write all look for the same response.                        *)
AnsweredAtMostOnce == \A r \in Data \cup Discs : Len(told[r]) <= 1

(* A request that MQTTAsync_addCommand took over has had a callback or is    *)
(* still held by the client.  Known exceptions: a publication that made room *)
(* for a newer one (which with one thread happens only if the application    *)
(* asked for it), and a response that a stale pending_write was taken for.   *)
NoneForgotten ==
    /\ \A r \in accepted :
         \/ told[r] # <<>> \/ r \in dropped \cup misread
         \/ r \in ReqsOf(ToSet(commands) \cup ({taken} \ {None})
                         \cup UNION {ToSet(responses[c]) : c \in Clients})
    /\ dropped # {} /\ OneThread => scenario.deleteOldest

(* onSuccess means that the server has acknowledged this very request, or,   *)
(* for QoS 0, that the packet has been written to the end.  Known exception: *)
(* a QoS 0 publication whose write was cut off by the end of a connection    *)
(* can be reported when another write ends later; and once a response has    *)
(* been freed by mistake its id is given out again too early.                *)
SuccessIsTrue ==
    OneThread /\ misread = {} =>
        \A r \in Data : "ok" \in ToSet(told[r]) =>
            IF r \in Pubs0 THEN r \in written \cup cut ELSE r \in acked

(* Publications and subscriptions of a client are started in the order in    *)
(* which they were accepted, also after a restart.  Known exception: a       *)
(* restart once the sequence numbers have wrapped.                           *)
InOrder ==
    Unwrapped \/ ~scenario.persistence \/ (Unspent("kill") /\ Unspent("tear")) =>
    \A i, j \in DOMAIN commands :
        /\ IsData(commands[i]) => commands[i].n > started[commands[i].client]
        /\ i < j /\ IsData(commands[i]) /\ IsData(commands[j])
              /\ commands[i].client = commands[j].client => commands[i].n < commands[j].n

Holds(c) ==
    {[tok |-> x.tok, req |-> x.req] :
        x \in {y \in ToSet(commands) \cup {taken} \cup {api[t] : t \in Threads} : y # None /\ y.client = c}
              \cup ToSet(responses[c]) \cup ToSet(outboundMsgs[c])}

(* Two requests of a client never have the same message id, wherever they    *)
(* are: about to be queued, queued, being executed, waiting for the answer   *)
(* or in flight.  With two threads this fails (see the README).              *)
TokensDistinct ==
    OneThread => \A c \in Clients : \A x, y \in Holds(c) : x.tok = y.tok /\ x.tok # 0 => x = y

(* Killed while no thread is within addCommand, the client would find its    *)
(* queue in the store, in the order of the queue, but for QoS 0 publications *)
(* if persistQoS0 keeps them out.  Killed within addCommand it can find one  *)
(* record more (KillInAddCommand); the queue it makes of that is stored too. *)
QueueIsStored ==
    scenario.persistence /\ Unwrapped =>
        /\ \A c \in Clients :
              RestoreCommands(store[c]) =
                {[x EXCEPT !.cb = FALSE] :
                    x \in {y \in ToSet(commands) : y.client = c /\ IsData(y) /\ Persists(y)}}
        /\ \A i, j \in DOMAIN commands :
              /\ i < j /\ IsData(commands[i]) /\ IsData(commands[j])
              /\ Persists(commands[i]) /\ Persists(commands[j])
              /\ commands[i].client = commands[j].client
              => commands[i].key < commands[j].key

(* A connect has one outcome, although retries, other URIs, time-outs and    *)
(* disconnects copy and reset the callbacks in m->connect.  Two exceptions:  *)
(* an attempt that failed at once leaves the callbacks set; a resend that    *)
(* fails while there is another URI is reported as a failure, and the        *)
(* CONNECT that was queued for that URI reports again.                       *)
ConnectAnsweredOnce ==
    Unspent("dial") /\ (Unspent("resend") \/ scenario.uris <= 1) =>
        \A r \in Conns : Len(told[r]) <= 1

(* The end of every connection is reported by one callback: connectionLost,  *)
(* disconnected, or onSuccess of the disconnect.                             *)
EachEndReportedOnce == \A c \in Clients : open[c] = IF connected[c] THEN 1 ELSE 0

(* Nothing is reported twice: no request, no end of a connection, and no     *)
(* connect but for the two exceptions of ConnectAnsweredOnce.                *)
ReportedOnce == AnsweredAtMostOnce /\ ConnectAnsweredOnce /\ EachEndReportedOnce

QueuedConnect(r) == \E cmd \in ToSet(commands) : cmd.type = "CONNECT" /\ cmd.req = r

(* A connect that has been queued is answered: by a server that answers, or  *)
(* by the time-outs of all attempts.                                         *)
ConnectIsAnswered == \A r \in Conns : QueuedConnect(r) ~> (told[r] # <<>>)

(* With automatic reconnect a lost connection is established again, if the   *)
(* server answers and the application does not disconnect.                   *)
AutoReconnects ==
    \A c \in Clients :
        (scenario.auto /\ ServerAnswers /\ retrying[c]) ~> (connected[c] \/ ~shouldBeConnected[c])

(* With automatic reconnect a QoS 1 or 2 publication that is in the list is  *)
(* answered, whatever connections are lost on the way, unless it is dropped  *)
(* or the application disconnects.                                           *)
PublishIsAnswered ==
    \A r \in Pubs1 :
        (scenario.auto /\ ServerAnswers /\ r \in accepted)
            ~> (told[r] # <<>> \/ r \in dropped \/ \E c \in Clients : ~shouldBeConnected[c])

=============================================================================
