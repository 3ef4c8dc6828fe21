----------------------------- MODULE SyncClient -----------------------------
(***************************************************************************)
(* The blocking API, MQTTClient, with callbacks set: connect, subscribe    *)
(* (and unsubscribe, which is the same with another semaphore) and         *)
(* disconnect are called on threads of the application, the packets are    *)
(* read by one background thread, MQTTClient_run.  A call sends its request*)
(* and waits for a semaphore without holding mqttclient_mutex; the         *)
(* background thread leaves the answer in m->pack and posts the semaphore. *)
(* The background thread is started by connect when it does not run, and   *)
(* told to stop when the last connected client is closed.                  *)
(*                                                                         *)
(* A step is what one thread does between taking and releasing             *)
(* mqttclient_mutex; the mutex is held across steps only where the code    *)
(* waits while holding it.  connect_mutex and subscribe_mutex let one      *)
(* connect and one subscribe run at a time.  Sockets are numbered by       *)
(* connection.  TLS, WebSockets and a list of server URIs are left out.    *)
(***************************************************************************)
EXTENDS Integers, Sequences, FiniteSets

CONSTANTS Clients,      \* the clients of the process
          Apps,         \* threads of the application
          MaxConns,     \* bound on the connections of a behaviour
          None,
          Scenarios     \* the calls and faults of a behaviour, see Scenario

Conns == 1 .. MaxConns

RunThread == 0      \* the background thread, beside those of Apps and Conns

(* A scenario gives the client each thread works for (owner, None if it does *)
(* nothing), how many calls it may make (calls), the MQTT version of a       *)
(* connect, 0 for MQTTVERSION_DEFAULT (version), how many connections may    *)
(* break (breaks), and whether connectionLost calls connect (reconnects).    *)
Scenario == [owner : [Apps -> Clients \cup {None}], calls : [Apps -> Nat], version : 0 .. 5,
             breaks : Nat, reconnects : BOOLEAN]

(* A packet that answers the request id on a connection; CONNACK has id 0.   *)
Packets == [type : {"CONNACK", "SUBACK"}, conn : Conns, id : Nat, ok : BOOLEAN]

ASSUME SyncAssumption ==
    /\ MaxConns \in Nat \ {0}
    /\ Apps \cap (Conns \cup {RunThread}) = {}
    /\ None \notin Clients \cup Apps \cup Conns \cup {RunThread} \cup Packets
    /\ Scenarios \subseteq Scenario

VARIABLES
    scenario,   \* the chosen scenario
    client,     \* for each client: connect_state, connected, its connection, its
                \* semaphores, m->pack and m->rc
    net,        \* for each connection: its state, the unanswered requests, the
                \* packets on their way to the client
    th,         \* for each thread of the application, and for the thread of each
                \* connectionLost callback, where it is in its call
    run,        \* the background thread and what MQTTClient_cycle has returned to it
    running, tostop,    \* the flags of these names
    mutex,      \* who holds mqttclient_mutex between two steps, or None
    sync,       \* for each connection the semaphore of its connectionLost call
    history     \* calls made, connections established, losses reported, see below

vars == <<scenario, client, net, th, run, running, tostop, mutex, sync, history>>

-----------------------------------------------------------------------------
NewClient ==
    [connect_state |-> "NOT_IN_PROGRESS", connected |-> FALSE, conn |-> 0,
     connect_sem |-> 0, connack_sem |-> 0, suback_sem |-> 0, pack |-> None, rc |-> "ok"]

NoConn == [client |-> None, tcp |-> "none", pending |-> FALSE, asked |-> {}, in |-> <<>>]

NoCall == [pc |-> "idle", client |-> None, call |-> "none", version |-> 0, want |-> "none",
           conn |-> 0, id |-> 0, rc |-> "ok", pack |-> None, report |-> 0]

NoRun == [pc |-> "none", sock |-> 0, pack |-> None, rc |-> "ok"]

Init ==
    /\ scenario \in Scenarios
    /\ client = [c \in Clients |-> NewClient]
    /\ net = [n \in Conns |-> NoConn]
    /\ th = [t \in Apps \cup Conns |-> NoCall]
    /\ run = NoRun
    /\ running = FALSE
    /\ tostop = FALSE
    /\ mutex = None
    /\ sync = [n \in Conns |-> "none"]
    /\ history = [calls |-> [t \in Apps |-> 0], established |-> {}, lost |-> <<>>,
                  breaks |-> 0, foreign |-> FALSE, raced |-> FALSE, stray |-> FALSE]

Free == mutex = None

(* Thread_post_sem, which never makes a semaphore more than 1.               *)
Post(m, sem) == [m EXCEPT ![sem] = 1]

SemOf(want) == [CONNECT |-> "connect_sem", CONNACK |-> "connack_sem", SUBACK |-> "suback_sem"][want]

-----------------------------------------------------------------------------
(* MQTTClient_disconnect1 and MQTTClient_closeSession.                       *)

Closed(m) == [m EXCEPT !.connected = FALSE, !.connect_state = "NOT_IN_PROGRESS", !.conn = 0]

CloseConn(n) ==
    IF n = 0 THEN net ELSE [net EXCEPT ![n] = [NoConn EXCEPT !.client = net[n].client, !.tcp = "closed"]]

InUse(clients) ==
    {c \in Clients : clients[c].connected \/ clients[c].connect_state # "NOT_IN_PROGRESS"}

(* MQTTClient_stop sets tostop if no client is connected or connecting.      *)
Stops(clients) == running /\ ~tostop /\ InUse(clients) = {}

(* The connection whose end has to be reported by connectionLost.  A slip    *)
(* does not ask whether the client was connected still.                      *)
ReportedAlways(c, call_connection_lost) ==
    LET had == {n \in Conns : net[n].client = c}
    IN  IF call_connection_lost THEN CHOOSE n \in had : \A k \in had : k <= n ELSE 0
Reported(c, call_connection_lost) ==
    IF call_connection_lost /\ client[c].connected THEN client[c].conn ELSE 0

(* connectionLost is called on a thread of its own; who closes the session   *)
(* waits for it, holding the mutex.                                          *)
CallLost(who, n, threads, past) ==
    /\ th' = [threads EXCEPT ![n] = [NoCall EXCEPT !.pc = "callback", !.client = net[n].client]]
    /\ sync' = [sync EXCEPT ![n] = "waiting"]
    /\ mutex' = who
    /\ history' = [past EXCEPT !.lost = Append(@, n)]

(* What a call of the API does when it is over; the thread of a callback     *)
(* that has called connect goes on to post.                                  *)
Over(t) == IF t \in Apps THEN NoCall ELSE [NoCall EXCEPT !.pc = "post", !.client = th[t].client]

(* MQTTClient_disconnect1 on a thread t of an API call: close the session,   *)
(* stop the background thread and wait until it has stopped, report.  m is   *)
(* what the call has made of its client before.                              *)
DisconnectBy(t, m, call_connection_lost, stop, past) ==
    LET c == th[t].client
        closed == [client EXCEPT ![c] = Closed(m)]
        n == Reported(c, call_connection_lost)
    IN  /\ client' = closed
        /\ net' = CloseConn(client[c].conn)
        /\ IF stop /\ Stops(closed)
           THEN /\ tostop' = TRUE
                /\ th' = [th EXCEPT ![t].pc = "stopping", ![t].report = n]
                /\ mutex' = None
                /\ history' = past
                /\ UNCHANGED sync
           ELSE /\ UNCHANGED tostop
                /\ IF n # 0
                   THEN CallLost(t, n, [th EXCEPT ![t].pc = "lost", ![t].report = n], past)
                   ELSE /\ th' = [th EXCEPT ![t] = Over(t)]
                        /\ mutex' = None
                        /\ history' = past
                        /\ UNCHANGED sync
        /\ UNCHANGED <<scenario, run, running>>

(* MQTTClient_stop waits for the background thread to end, ten seconds at    *)
(* most, which pass only if another thread has started it again meanwhile.   *)
(* One slip does not wait, another has no time limit.                        *)
RunEndedUnchecked == TRUE
RunEndedUnlimited == ~running
RunEnded == ~running \/ ~tostop

Stopped(t) ==
    /\ th[t].pc = "stopping"
    /\ Free
    /\ RunEnded
    /\ IF th[t].report # 0
       THEN CallLost(t, th[t].report, [th EXCEPT ![t].pc = "lost"], history)
       ELSE /\ th' = [th EXCEPT ![t] = Over(t)]
            /\ UNCHANGED <<mutex, sync, history>>
    /\ UNCHANGED <<scenario, client, net, run, running, tostop>>

(* Thread_wait_sem(sync.sem, 5000) ends, and the semaphore is destroyed.  A  *)
(* callback returns within the five seconds, unless it waits for the mutex.  *)
(* A slip waits without a time limit.                                        *)
WaitOverUnlimited(n) == sync[n] = "posted"
WaitOver(n) == sync[n] = "posted" \/ th[n].pc = "enter"

LostEnds(n) ==
    /\ WaitOver(n)
    /\ sync' = [sync EXCEPT ![n] = "none"]
    /\ mutex' = None

LostReturns(t) ==
    /\ th[t].pc = "lost"
    /\ LostEnds(th[t].report)
    /\ th' = [th EXCEPT ![t] = Over(t)]
    /\ UNCHANGED <<scenario, client, net, run, running, tostop, history>>

(* connectionLost_call: the callback of the application, then the post.      *)
Callback(n) ==
    /\ th[n].pc = "callback"
    /\ th' = [th EXCEPT ![n] =
                IF scenario.reconnects THEN [@ EXCEPT !.pc = "enter", !.call = "connect"]
                ELSE [@ EXCEPT !.pc = "post"]]
    /\ UNCHANGED <<scenario, client, net, run, running, tostop, mutex, sync, history>>

PostSync(n) ==
    /\ th[n].pc = "post"
    /\ sync' = [sync EXCEPT ![n] = IF @ = "waiting" THEN "posted" ELSE @]
    /\ history' = [history EXCEPT !.stray = @ \/ sync[n] # "waiting"]
    /\ th' = [th EXCEPT ![n] = NoCall]
    /\ UNCHANGED <<scenario, client, net, run, running, tostop, mutex>>

-----------------------------------------------------------------------------
(* MQTTClient_connect.                                                       *)

Fresh == {n \in Conns : net[n] = NoConn}

(* The bound on connections leaves room for every attempt of a connect.      *)
Enough == Cardinality(Fresh) >= (IF scenario.version = 0 THEN 2 ELSE 1)

(* Nobody else is in a call that holds the mutex of its kind throughout.     *)
OnlyCall(t, call) == \A u \in DOMAIN th \ {t} : th[u].pc \in {"idle", "enter"} \/ th[u].call # call

MayCall(t) ==
    /\ t \in Apps
    /\ th[t].pc = "idle"
    /\ scenario.owner[t] # None
    /\ history.calls[t] < scenario.calls[t]

(* The application makes one call at a time for a client.                    *)
Alone(t, c) == \A u \in DOMAIN th \ {t} : th[u].client = c => th[u].call = "none" \/ th[u].pc = "enter"

Counted(t) == IF t \in Apps THEN [history EXCEPT !.calls[t] = @ + 1] ELSE history

(* The application connects a client that is not connected.                  *)
Connect(t) ==
    /\ MayCall(t) \/ th[t].pc = "enter"
    /\ OnlyCall(t, "connect")
    /\ Free
    /\ LET c == IF t \in Apps THEN scenario.owner[t] ELSE th[t].client
       IN  /\ Alone(t, c)
           /\ IF Enough /\ ~client[c].connected
              THEN /\ th' = [th EXCEPT ![t] =
                               [NoCall EXCEPT !.pc = "begin", !.client = c, !.call = "connect",
                                  !.version = IF scenario.version = 0 THEN 4 ELSE scenario.version]]
                   /\ mutex' = t
                   /\ history' = Counted(t)
              ELSE /\ t \notin Apps
                   /\ th' = [th EXCEPT ![t] = Over(t)]
                   /\ UNCHANGED <<mutex, history>>
    /\ UNCHANGED <<scenario, client, net, run, running, tostop, sync>>

(* MQTTClient_connectURIVersion: the background thread is started, unless    *)
(* running says that there is one, and given time to begin.                  *)
StartRun(t) ==
    /\ th[t].pc = "begin"
    /\ ~running
    /\ run' = [NoRun EXCEPT !.pc = "starting"]
    /\ th' = [th EXCEPT ![t].pc = "awaitRun"]
    /\ mutex' = None
    /\ UNCHANGED <<scenario, client, net, running, tostop, sync, history>>

(* A failed attempt: the socket is closed and, with MQTTVERSION_DEFAULT, the *)
(* older version is tried next.                                              *)
Fail(t, m) ==
    IF scenario.version = 0 /\ th[t].version = 4
    THEN /\ client' = [client EXCEPT ![th[t].client] = Closed(m)]
         /\ net' = CloseConn(m.conn)
         /\ th' = [th EXCEPT ![t].pc = "begin", ![t].version = 3]
         /\ mutex' = t
         /\ UNCHANGED <<scenario, run, running, tostop, sync, history>>
    ELSE DisconnectBy(t, m, FALSE, th[t].version = 3, history)

(* MQTTProtocol_connect: the connection fails at once, is in progress, or is *)
(* made at once and CONNECT sent.                                            *)
Dialled(t, n, tcp) ==
    LET c == th[t].client
        made == tcp = "up"
        want == IF made THEN "CONNACK" ELSE "CONNECT"
    IN  /\ client' = [client EXCEPT ![c].conn = n, ![c].connect_state =
                        IF made THEN "WAIT_FOR_CONNACK" ELSE "TCP_IN_PROGRESS"]
        /\ net' = [net EXCEPT ![n] = [NoConn EXCEPT !.client = c, !.tcp = tcp, !.pending = ~made,
                                        !.asked = IF made THEN {0} ELSE {}]]
        /\ th' = [th EXCEPT ![t].pc = "check", ![t].want = want, ![t].conn = n]
        /\ mutex' = None
        /\ UNCHANGED <<scenario, run, running, tostop, sync, history>>

Dial(t) ==
    /\ \/ th[t].pc = "begin" /\ running
       \/ th[t].pc = "awaitRun" /\ running /\ Free
    /\ \/ Fail(t, client[th[t].client])
       \/ \E n \in Fresh : /\ \A k \in Fresh : n <= k
                           /\ Dialled(t, n, "connecting") \/ Dialled(t, n, "up")

(* The background thread has come and gone while it was waited for.          *)
NoRunThread(t) ==
    /\ th[t].pc = "awaitRun"
    /\ Free
    /\ run.pc = "none"
    /\ Fail(t, client[th[t].client])

-----------------------------------------------------------------------------
(* MQTTClient_waitfor.                                                       *)

(* Whether the background thread runs is asked once, at the start.  If it has*)
(* ended, an answer that it has left in m->pack is not looked at.            *)
Check(t) ==
    /\ th[t].pc = "check"
    /\ Free
    /\ th' = [th EXCEPT ![t].pc = IF running THEN "sem" ELSE "cycle"]
    /\ history' = [history EXCEPT !.raced = @ \/ (~running /\ client[th[t].client].pack # None)]
    /\ UNCHANGED <<scenario, client, net, run, running, tostop, mutex, sync>>

(* The wait is over; m->pack is read without the mutex.                      *)
Wakes(t, rc, pack) == th' = [th EXCEPT ![t].pc = "woken", ![t].rc = rc, ![t].pack = pack]

SemTaken(t) ==
    LET c == th[t].client
        sem == SemOf(th[t].want)
    IN  /\ th[t].pc = "sem"
        /\ client[c][sem] = 1
        /\ client' = [client EXCEPT ![c][sem] = 0]
        /\ Wakes(t, IF th[t].want = "CONNECT" THEN client[c].rc ELSE "ok", client[c].pack)
        /\ UNCHANGED <<scenario, net, run, running, tostop, mutex, sync, history>>

SemTimeout(t) ==
    /\ th[t].pc = "sem"
    /\ client[th[t].client][SemOf(th[t].want)] = 0
    /\ Wakes(t, "timeout", client[th[t].client].pack)
    /\ UNCHANGED <<scenario, client, net, run, running, tostop, mutex, sync, history>>

(* MQTTClient_cycle: a socket that is ready, and the packet, if any, read    *)
(* from it.  A socket whose connection is being made is ready once.          *)
Ready(n) ==
    IF net[n].pending THEN net[n].tcp \in {"up", "broken"}
    ELSE net[n].tcp \in {"up", "broken"} /\ (net[n].in # <<>> \/ net[n].tcp = "broken")

TcpInProgress(n) == client[net[n].client].connect_state = "TCP_IN_PROGRESS"

ReadFrom(n) ==
    IF ~TcpInProgress(n) /\ net[n].in # <<>> THEN [rc |-> "ok", pack |-> Head(net[n].in)]
    ELSE [rc |-> IF ~TcpInProgress(n) /\ net[n].tcp = "broken" THEN "error" ELSE "ok",
          pack |-> None]

AfterRead(n) ==
    [net EXCEPT ![n].pending = FALSE, ![n].in = IF @ = <<>> \/ TcpInProgress(n) THEN @ ELSE Tail(@)]

(* Without a background thread the waiting thread reads the sockets itself,  *)
(* those of other clients too; what is not for it is dropped.                *)
CycleHere(t) ==
    /\ th[t].pc = "cycle"
    /\ Free
    /\ \E n \in Conns :
          LET r == ReadFrom(n)
              own == n = client[th[t].client].conn
          IN  /\ Ready(n)
              /\ net' = AfterRead(n)
              /\ IF own /\ r.rc = "error" THEN Wakes(t, "error", None)
                 ELSE IF own /\ r.pack # None /\ r.pack.type = th[t].want
                 THEN Wakes(t, "ok", r.pack)
                 ELSE IF own /\ TcpInProgress(n)
                 THEN Wakes(t, IF net[n].tcp = "broken" THEN "error" ELSE "ok", None)
                 ELSE UNCHANGED th
    /\ UNCHANGED <<scenario, client, run, running, tostop, mutex, sync, history>>

CycleTimeout(t) ==
    /\ th[t].pc = "cycle"
    /\ Wakes(t, "timeout", None)
    /\ UNCHANGED <<scenario, client, net, run, running, tostop, mutex, sync, history>>

-----------------------------------------------------------------------------
(* What a call does with the end of its wait.                                *)

(* Whether the answer is not the one to the request that was waited for; the *)
(* code compares neither the connection nor the message id.                  *)
Foreign(t, pack) == pack.type # th[t].want \/ pack.conn # th[t].conn \/ pack.id # th[t].id

Returns(t, m, past) ==
    /\ client' = [client EXCEPT ![th[t].client] = m]
    /\ th' = [th EXCEPT ![t] = Over(t)]
    /\ history' = past
    /\ UNCHANGED <<scenario, net, run, running, tostop, mutex, sync>>

(* The connection is made: CONNECT is sent, which may fail.                  *)
TcpComplete(t) ==
    LET c == th[t].client
        n == client[c].conn
    IN  /\ client' = [client EXCEPT ![c].connect_state = "WAIT_FOR_CONNACK"]
        /\ net' = [net EXCEPT ![n].asked = @ \cup {0}]
        /\ th' = [th EXCEPT ![t].pc = "check", ![t].want = "CONNACK"]
        /\ UNCHANGED <<scenario, run, running, tostop, mutex, sync, history>>

(* m->pack once its packet has been used.  A slip leaves it there.           *)
ConsumedNot(m) == m
Consumed(m) == [m EXCEPT !.pack = None]

Woken(t) ==
    LET w == th[t]
        m == client[w.client]
    IN  /\ w.pc = "woken"
        /\ mutex \in {None, t}
        /\ \/ /\ w.want = "CONNECT"
              /\ \/ w.rc = "ok" /\ TcpComplete(t)
                 \/ (w.rc = "ok" => net[m.conn].tcp = "broken") /\ Fail(t, m)
           \/ /\ w.want = "CONNACK"
              /\ IF w.pack = None THEN Fail(t, m)
                 ELSE IF w.pack.ok
                 THEN Returns(t, [Consumed(m) EXCEPT !.connected = TRUE,
                                                     !.connect_state = "NOT_IN_PROGRESS"],
                              [history EXCEPT !.established = @ \cup {m.conn},
                                              !.foreign = @ \/ Foreign(t, w.pack)])
                 ELSE Fail(t, Consumed(m))
           \/ /\ w.want = "SUBACK"
              /\ IF w.pack = None THEN DisconnectBy(t, m, TRUE, TRUE, history)
                 ELSE Returns(t, Consumed(m),
                              [history EXCEPT !.foreign = @ \/ Foreign(t, w.pack)])

(* MQTTClient_subscribeMany5; the message id is new.  If SUBSCRIBE cannot be *)
(* sent the call goes on, without a wait, as if no answer had come.          *)
Subscribe(t) ==
    LET c == scenario.owner[t]
        n == client[c].conn
        id == history.calls[t] + 1
    IN  /\ MayCall(t)
        /\ OnlyCall(t, "subscribe")
        /\ Alone(t, c)
        /\ Free
        /\ client[c].connected
        /\ history' = Counted(t)
        /\ \E sent \in BOOLEAN :
              /\ sent \/ net[n].tcp = "broken"
              /\ net' = IF sent THEN [net EXCEPT ![n].asked = @ \cup {id}] ELSE net
              /\ th' = [th EXCEPT ![t] =
                          [NoCall EXCEPT !.pc = IF sent THEN "check" ELSE "woken", !.client = c,
                             !.call = "subscribe", !.want = "SUBACK", !.conn = n, !.id = id]]
              /\ mutex' = IF sent THEN None ELSE t
        /\ UNCHANGED <<scenario, client, run, running, tostop, sync>>

(* MQTTClient_disconnect: in-flight messages are waited for, without the     *)
(* mutex, if the client is connected.                                        *)
Disconnect(t) ==
    LET c == scenario.owner[t]
    IN  /\ MayCall(t)
        /\ Alone(t, c)
        /\ Free
        /\ history' = Counted(t)
        /\ th' = [th EXCEPT ![t] = [NoCall EXCEPT !.pc = "drain", !.client = c,
                                      !.call = "disconnect"]]
        /\ IF client[c].connected
           THEN client' = [client EXCEPT ![c].connect_state = "DISCONNECTING"] /\ UNCHANGED mutex
           ELSE mutex' = t /\ UNCHANGED client
        /\ UNCHANGED <<scenario, net, run, running, tostop, sync>>

Drained(t) ==
    /\ th[t].pc = "drain"
    /\ mutex \in {None, t}
    /\ DisconnectBy(t, client[th[t].client], FALSE, TRUE, history)

-----------------------------------------------------------------------------
(* MQTTClient_run.                                                           *)

(* The end of the thread.  A slip does not take back the request to stop.    *)
ExitKeepsTostop == run' = NoRun /\ running' = FALSE /\ UNCHANGED tostop
Exit == run' = NoRun /\ running' = FALSE /\ tostop' = FALSE

RunStart ==
    /\ run.pc = "starting"
    /\ Free
    /\ IF tostop THEN Exit
       ELSE run' = [run EXCEPT !.pc = "cycle"] /\ running' = TRUE /\ UNCHANGED tostop
    /\ UNCHANGED <<scenario, client, net, th, mutex, sync, history>>

(* A cycle that reads; one that finds nothing ready changes nothing, and ends*)
(* the thread if it has to stop.                                             *)
Cycle(n) ==
    /\ run.pc = "cycle"
    /\ Free
    /\ Ready(n)
    /\ net' = AfterRead(n)
    /\ run' = [pc |-> "handle", sock |-> n, pack |-> ReadFrom(n).pack, rc |-> ReadFrom(n).rc]
    /\ UNCHANGED <<scenario, client, th, running, tostop, mutex, sync, history>>

RunStops ==
    /\ run.pc \in {"cycle", "handle"}
    /\ Free
    /\ tostop
    /\ Exit
    /\ UNCHANGED <<scenario, client, net, th, mutex, sync, history>>

Again == run' = [NoRun EXCEPT !.pc = "cycle"]

(* MQTTClient_disconnect_internal on this thread, which does not wait for    *)
(* itself to stop.                                                           *)
RunDisconnects(c) ==
    LET closed == [client EXCEPT ![c] = Closed(client[c])]
        n == Reported(c, TRUE)
    IN  /\ client' = closed
        /\ net' = CloseConn(client[c].conn)
        /\ tostop' = Stops(closed)
        /\ run' = [run EXCEPT !.pc = "lost"]
        /\ CallLost(RunThread, n, th, history)
        /\ UNCHANGED running

(* The packet or the state is left in the client and its semaphore posted.   *)
RunPosts(c, m, past) ==
    /\ client' = [client EXCEPT ![c] = m]
    /\ history' = past
    /\ Again
    /\ UNCHANGED <<net, th, running, tostop, mutex, sync>>

RunIgnores == Again /\ UNCHANGED <<client, net, th, running, tostop, mutex, sync, history>>

(* Nobody takes this packet: the wait for it is over without it, or it is not*)
(* for the semaphore that its thread waits.                                  *)
TooLate(c, pack) ==
    \E t \in DOMAIN th : /\ th[t].client = c
                         /\ th[t].want = pack.type
                         /\ th[t].pc = "cycle" \/ (th[t].pc = "woken" /\ th[t].pack = None)

Handle ==
    /\ run.pc = "handle"
    /\ Free
    /\ ~tostop
    /\ \/ (\A c \in Clients : client[c].conn # run.sock) /\ RunIgnores
       \/ \E c \in {d \in Clients : client[d].conn = run.sock} :
             LET m == client[c]
                 tcp == net[run.sock].tcp
             IN  CASE run.rc = "error" /\ m.connected -> RunDisconnects(c)
                   [] run.rc = "error" /\ ~m.connected /\ m.connect_state = "WAIT_FOR_CONNACK" ->
                        RunPosts(c, Post([m EXCEPT !.connect_state = "NOT_IN_PROGRESS"],
                                         "connack_sem"), history)
                   [] run.pack # None ->
                        RunPosts(c, Post([m EXCEPT !.pack = run.pack], SemOf(run.pack.type)),
                                 [history EXCEPT !.raced = @ \/ TooLate(c, run.pack)])
                   [] run.rc = "ok" /\ run.pack = None /\ m.connect_state = "TCP_IN_PROGRESS" ->
                        RunPosts(c, Post([m EXCEPT !.connect_state = "NOT_IN_PROGRESS",
                                                   !.rc = IF tcp = "broken" THEN "error" ELSE "ok"],
                                         "connect_sem"), history)
                   [] OTHER -> RunIgnores
    /\ UNCHANGED scenario

RunLostReturns ==
    /\ run.pc = "lost"
    /\ LostEnds(run.sock)
    /\ IF tostop THEN Exit ELSE Again /\ UNCHANGED <<running, tostop>>
    /\ UNCHANGED <<scenario, client, net, th, history>>

-----------------------------------------------------------------------------
(* The network and the server.                                               *)

TcpDone(n) ==
    /\ net[n].tcp = "connecting"
    /\ \E tcp \in {"up", "broken"} : net' = [net EXCEPT ![n].tcp = tcp]
    /\ UNCHANGED <<scenario, client, th, run, running, tostop, mutex, sync, history>>

Answer(n) ==
    /\ net[n].tcp = "up"
    /\ \E id \in net[n].asked, ok \in BOOLEAN :
          /\ id # 0 => ok
          /\ net' = [net EXCEPT ![n].asked = @ \ {id},
                        ![n].in = Append(@, [type |-> IF id = 0 THEN "CONNACK" ELSE "SUBACK",
                                             conn |-> n, id |-> id, ok |-> ok])]
    /\ UNCHANGED <<scenario, client, th, run, running, tostop, mutex, sync, history>>

Break(n) ==
    /\ net[n].tcp = "up"
    /\ history.breaks < scenario.breaks
    /\ net' = [net EXCEPT ![n].tcp = "broken"]
    /\ history' = [history EXCEPT !.breaks = @ + 1]
    /\ UNCHANGED <<scenario, client, th, run, running, tostop, mutex, sync>>

-----------------------------------------------------------------------------
(* What a thread does by itself once it is in a call.                        *)
ThreadStep(t) ==
    \/ th[t].pc = "enter" /\ Connect(t)
    \/ StartRun(t) \/ Dial(t) \/ NoRunThread(t)
    \/ Check(t) \/ SemTaken(t) \/ SemTimeout(t) \/ CycleHere(t) \/ CycleTimeout(t)
    \/ Woken(t) \/ Drained(t) \/ Stopped(t) \/ LostReturns(t)

CallbackStep(n) == Callback(n) \/ PostSync(n)

RunStep == RunStart \/ (\E n \in Conns : Cycle(n)) \/ RunStops \/ Handle \/ RunLostReturns

Next ==
    \/ \E t \in Apps : Connect(t) \/ Subscribe(t) \/ Disconnect(t)
    \/ \E t \in DOMAIN th : ThreadStep(t)
    \/ \E n \in Conns : CallbackStep(n)
    \/ RunStep
    \/ \E n \in Conns : TcpDone(n) \/ Answer(n) \/ Break(n)

Spec == Init /\ [][Next]_vars

(* Every thread goes on when it can, a time limit is reached, a callback     *)
(* returns.  Nothing is assumed of the server or of the network.             *)
FairSpec ==
    /\ Spec
    /\ \A t \in Apps \cup Conns : WF_vars(ThreadStep(t))
    /\ \A n \in Conns : WF_vars(CallbackStep(n))
    /\ WF_vars(RunStep)

-----------------------------------------------------------------------------
Packs == Packets \cup {None}

Results == {"ok", "error", "timeout"}

ClientRec ==
    [connect_state : {"NOT_IN_PROGRESS", "TCP_IN_PROGRESS", "WAIT_FOR_CONNACK", "DISCONNECTING"},
     connected : BOOLEAN, conn : Conns \cup {0}, connect_sem : {0, 1}, connack_sem : {0, 1},
     suback_sem : {0, 1}, pack : Packs, rc : Results]

ConnRec ==
    [client : Clients \cup {None}, tcp : {"none", "connecting", "up", "broken", "closed"},
     pending : BOOLEAN, asked : SUBSET Nat, in : Seq(Packets)]

ThreadRec ==
    [pc : {"idle", "begin", "awaitRun", "check", "sem", "cycle", "woken", "drain", "stopping",
           "lost", "callback", "enter", "post"},
     client : Clients \cup {None}, call : {"none", "connect", "subscribe", "disconnect"},
     version : 0 .. 5, want : {"none", "CONNECT", "CONNACK", "SUBACK"}, conn : Conns \cup {0},
     id : Nat, rc : Results, pack : Packs, report : Conns \cup {0}]

RunRec ==
    [pc : {"none", "starting", "cycle", "handle", "lost"}, sock : Conns \cup {0}, pack : Packs,
     rc : Results]

HistoryRec ==
    [calls : [Apps -> Nat], established : SUBSET Conns, lost : Seq(Conns), breaks : Nat,
     foreign : BOOLEAN, raced : BOOLEAN, stray : BOOLEAN]

(* Types; at most one thread holds the mutex while it waits, the background  *)
(* thread has begun if running says so, and a client has a connection of its *)
(* own while it is connected or connecting.                                  *)
TypeOK ==
    /\ scenario \in Scenarios
    /\ client \in [Clients -> ClientRec]
    /\ net \in [Conns -> ConnRec]
    /\ th \in [Apps \cup Conns -> ThreadRec]
    /\ run \in RunRec
    /\ running \in BOOLEAN /\ tostop \in BOOLEAN
    /\ mutex \in {None, RunThread} \cup Apps \cup Conns
    /\ sync \in [Conns -> {"none", "waiting", "posted"}]
    /\ history \in HistoryRec
    /\ \A c \in Clients :
          /\ client[c].conn # 0 => net[client[c].conn].client = c
          /\ client[c].connected \/ client[c].connect_state \in {"TCP_IN_PROGRESS", "WAIT_FOR_CONNACK"}
                => client[c].conn # 0
    /\ mutex \in Apps \cup Conns => th[mutex].pc \in {"begin", "woken", "drain", "lost"}
    /\ mutex = RunThread => run.pc = "lost"
    /\ running <=> run.pc \in {"cycle", "handle", "lost"}
    /\ tostop => running

(* A connect or a subscribe that succeeds was given the answer of the server *)
(* to its own request on its own connection, though the code looks at neither*)
(* the connection nor the message id: no answer is left in m->pack by an     *)
(* earlier call.  Left out is a behaviour in which an answer came in the     *)
(* instant when the call it is for gave up, or with the background thread    *)
(* that handed it over ended before the call looked for it.                  *)
AnswerIsOwn == history.foreign => history.raced

(* connectionLost is called once at most for a connection, and only for one  *)
(* that had been established, whichever of the threads notices its end first.*)
LostOnce ==
    /\ \A i, j \in DOMAIN history.lost : history.lost[i] = history.lost[j] => i = j
    /\ \A i \in DOMAIN history.lost : history.lost[i] \in history.established

(* The semaphore a connectionLost thread posts still exists.                 *)
PostsLiveSemaphore == ~history.stray

(* Every call returns, and so does the thread of every connectionLost, whoever*)
(* waits for whom: for the background thread to end, for the callback, for the*)
(* mutex.                                                                    *)
EveryCallReturns == \A t \in Apps \cup Conns : []<>(th[t].pc = "idle")

OneClient == Cardinality({scenario.owner[t] : t \in Apps} \ {None}) = 1

(* With one client there is a background thread whenever it is connected:    *)
(* the end of an established connection is reported by connectionLost, or the*)
(* connection is closed by a call.                                           *)
LossIsReported ==
    \A n \in Conns :
        (OneClient /\ n \in history.established /\ net[n].tcp = "broken") ~> (net[n].tcp = "closed")
=============================================================================
