---------------------------- MODULE AsyncProofs ----------------------------
(***************************************************************************)
(* Proofs about the callbacks and message ids of Async: who is told what,  *)
(* and how often, for any values of the constants.                         *)
(***************************************************************************)
EXTENDS AsyncQueueProofs

-----------------------------------------------------------------------------
(* The commands on their way to the send thread. *)
Queued == (ToSet(commands) \cup {taken} \cup {api[t] : t \in Threads}) \ {None}

IsConnect(x) == x # None /\ x.type = "CONNECT"
IsConnectOf(x, c) == IsConnect(x) /\ x.client = c
Attempting(c) == connect_state[c] \in {"TCP_IN_PROGRESS", "WAIT_FOR_CONNACK"}

IdleThreads == \A t \in Threads \ scenario.threads : api[t] = None

(* A connection is open exactly while the client is connected, and an attempt *)
(* is made only while it is not.                                              *)
EndInv ==
    /\ EachEndReportedOnce
    /\ \A c \in Clients : Attempting(c) => ~connected[c]

(* The process is killed, anywhere. *)
AnyKill == Kill \/ \E t \in Threads : KillInAddCommand(t)
(* It restarts from the records R, each of a command in the list q.           *)
FromList(q, R) ==
    /\ q \in Seq(Good) /\ RecordsOK(R) /\ StoreOK(q, R, scenario) /\ Restart(R)

LEMMA AnyKillWays ==
    ASSUME AnyKill
    PROVE  \E R : Restart(R)
BY DEF AnyKill, Kill, KillInAddCommand

LEMMA KillWays ==
    ASSUME Types, StoreInv, Kill
    PROVE  FromList(commands, store)
<1>1. RecordsOK(store) /\ StoreOK(commands, store, scenario) /\ commands \in Seq(Good)
    BY StoreRecords DEF StoreInv, Types, QueueTypes
<1> QED BY <1>1 DEF Kill, FromList

LEMMA TornWays ==
    ASSUME Types, StoreInv, NEW t \in Threads, KillInAddCommand(t)
    PROVE  api[t] \in DataCommands /\ FromList(Longer(api[t]), Recorded(api[t]))
<1> DEFINE x == api[t]
<1>1. x \in DataCommands /\ Restart(Recorded(x))
    BY KillInAddCommandWays
<1> HIDE DEF x
<1>2. RecordsOK(Recorded(x)) /\ StoreOK(Longer(x), Recorded(x), scenario)
    BY <1>1, RecordedFacts, LongerStore
<1>3. Longer(x) \in Seq(Good)
    BY <1>1, LongerFacts
<1> QED BY <1>1, <1>2, <1>3 DEF FromList, x

-----------------------------------------------------------------------------
(* Ends of connections                                                      *)

LEMMA EndKept ==
    ASSUME EndInv, UNCHANGED <<connected, connect_state, open>>
    PROVE  EndInv'
BY DEF EndInv, EachEndReportedOnce, Attempting

LEMMA EndSet ==
    ASSUME Types, EndInv, NEW c \in Clients, NEW b \in BOOLEAN, NEW s,
           connected' = [connected EXCEPT ![c] = b],
           connect_state' = [connect_state EXCEPT ![c] = s],
           open' = [open EXCEPT ![c] = IF b THEN 1 ELSE 0],
           b => s \notin {"TCP_IN_PROGRESS", "WAIT_FOR_CONNACK"}
    PROVE  EndInv'
<1>1. /\ connected \in [Clients -> BOOLEAN] /\ open \in [Clients -> Int]
      /\ DOMAIN connect_state = Clients
    BY DEF Types, ConnTypes, HistTypes
<1>2. \A d \in Clients : open'[d] = IF connected'[d] THEN 1 ELSE 0
    BY <1>1 DEF EndInv, EachEndReportedOnce
<1>3. \A d \in Clients : Attempting(d)' => ~connected'[d]
    BY <1>1 DEF EndInv, Attempting
<1> QED BY <1>2, <1>3 DEF EndInv, EachEndReportedOnce

LEMMA EndClosed ==
    ASSUME Types, EndInv, NEW c \in Clients, CloseOnly(c),
           open' = [open EXCEPT ![c] = 0]
    PROVE  EndInv'
<1>1. /\ connected' = [connected EXCEPT ![c] = FALSE]
      /\ connect_state' = [connect_state EXCEPT ![c] = "NOT_IN_PROGRESS"]
    BY DEF CloseOnly
<1>2. open' = [open EXCEPT ![c] = IF FALSE THEN 1 ELSE 0]
    OBVIOUS
<1> QED BY <1>1, <1>2, EndSet

LEMMA NextOrCloseEnds ==
    ASSUME open \in [Clients -> Int], NEW c \in Clients, NEW was \in BOOLEAN, NEW ended \in BOOLEAN,
           NextOrClose(c, was, ended), open[c] = IF was \/ ended THEN 1 ELSE 0
    PROVE  CloseOnly(c) /\ open' = [open EXCEPT ![c] = 0]
<1>1. CloseOnly(c)
    BY DEF NextOrClose
<1>2. open' = [open EXCEPT ![c] = @ - (IF was THEN 1 ELSE IF ended THEN 1 ELSE 0)]
    BY DEF NextOrClose, LostCalls
<1>3. (open[c] - (IF was THEN 1 ELSE IF ended THEN 1 ELSE 0)) = 0
    OBVIOUS
<1>4. open' = [open EXCEPT ![c] = open[c] - (IF was THEN 1 ELSE IF ended THEN 1 ELSE 0)]
    BY <1>2
<1>5. open' = [open EXCEPT ![c] = 0]
    BY <1>3, <1>4
<1> QED BY <1>1, <1>5

LEMMA EndDisconnects ==
    ASSUME Types, EndInv, NEW c \in Clients, NEW x, NEW t, CloseForDisconnect(c, x, t)
    PROVE  EndInv'
<1>1. /\ CloseOnly(c)
      /\ open' = [open EXCEPT ![c] = IF connected[c] THEN @ - 1 ELSE @]
    BY DEF CloseForDisconnect
<1>2. open[c] = (IF connected[c] THEN 1 ELSE 0) /\ open \in [Clients -> Int]
    BY DEF EndInv, EachEndReportedOnce, Types, HistTypes
<1>3. (IF connected[c] THEN open[c] - 1 ELSE open[c]) = 0
    BY <1>2
<1>4. open' = [open EXCEPT ![c] = IF connected[c] THEN open[c] - 1 ELSE open[c]]
    BY <1>1, <1>2
<1>5. open' = [open EXCEPT ![c] = 0]
    BY <1>3, <1>4
<1> QED BY <1>1, <1>5, EndClosed

LEMMA EndStep == Types /\ EndInv /\ [Next]_vars => EndInv'
<1> SUFFICES ASSUME Types, EndInv, [Next]_vars PROVE EndInv'
    OBVIOUS
<1>0. CASE UNCHANGED vars
    BY <1>0, EndKept DEF vars, connVars, histVars
<1>1. CASE Next
    <2>0. /\ \A c \in scenario.clients : c \in Clients
          /\ connected \in [Clients -> BOOLEAN] /\ open \in [Clients -> Int]
          /\ \A c \in Clients : open[c] = IF connected[c] THEN 1 ELSE 0
        BY ScenarioFacts DEF Types, ConnTypes, HistTypes, EndInv, EachEndReportedOnce
    <2>1. ASSUME NEW t \in Threads, AddCommand(t) PROVE EndInv'
        BY <2>1, EndKept DEF AddCommand, connVars
    <2>2. ASSUME NEW t \in Threads, NEW c \in Clients,
                 \/ \E r \in Pubs : Send(t, c, r) \/ SendRefused(t, c, r)
                 \/ \E r \in Subs : Subscribe(t, c, r)
                 \/ \E r \in Conns : Connect(t, c, r)
                 \/ \E r \in Discs : Disconnect(t, c, r)
          PROVE  EndInv'
        BY <2>2, EndKept DEF Send, SendRefused, Subscribe, Connect, Disconnect, connVars, histVars
    <2>3. CASE Take \/ ExecConnectBusy
        BY <2>3, EndKept DEF Take, ExecConnectBusy, connVars, histVars
    <2>4. CASE ExecConnect
        <3> DEFINE c == taken.client
        <3>1. c \in Clients
            BY <2>4, TakenFacts DEF ExecConnect
        <3>2. PICK s \in {"TCP_IN_PROGRESS", "WAIT_FOR_CONNACK"} :
                  connect_state' = [connect_state EXCEPT ![c] = s]
            BY <2>4, ExecConnectWays
        <3>3. ~connected[c] /\ UNCHANGED <<connected, open>>
            BY <2>4, ExecConnectWays
        <3> HIDE DEF c
        <3>4. connected' = [connected EXCEPT ![c] = FALSE] /\ open' = [open EXCEPT ![c] = 0]
            BY <2>0, <3>1, <3>3
        <3>5. open' = [open EXCEPT ![c] = IF FALSE THEN 1 ELSE 0]
            BY <3>4
        <3> QED BY <3>1, <3>2, <3>4, <3>5, EndSet
    <2>5. CASE ExecConnectFails
        BY <2>5, EndKept DEF ExecConnectFails
    <2>6. ASSUME NEW outcome \in {"complete", "interrupted", "error"}, ExecData(outcome)
          PROVE  EndInv'
        BY <2>6, EndKept DEF ExecData, connVars
    <2>7. CASE ExecDisconnect
        <3> DEFINE c == taken.client
        <3>1. c \in Clients
            BY <2>7, TakenFacts DEF ExecDisconnect
        <3>2. \/ CloseForDisconnect(c, taken, ToldBusy(c))
              \/ /\ connect_state' = [connect_state EXCEPT ![c] = "DISCONNECTING"]
                 /\ UNCHANGED <<connected, open>>
              \/ UNCHANGED <<connected, connect_state, open>>
            BY <2>7, ExecDisconnectWays
        <3> HIDE DEF c
        <3>3. CASE CloseForDisconnect(c, taken, ToldBusy(c))
            BY <3>1, <3>3, EndDisconnects
        <3>4. CASE /\ connect_state' = [connect_state EXCEPT ![c] = "DISCONNECTING"]
                   /\ UNCHANGED <<connected, open>>
            <4>1. connect_state \in [Clients -> {"NOT_IN_PROGRESS", "TCP_IN_PROGRESS",
                                                 "WAIT_FOR_CONNACK", "DISCONNECTING"}]
                BY DEF Types, ConnTypes
            <4>2. \A d \in Clients : Attempting(d)' => Attempting(d)
                BY <3>1, <3>4, <4>1 DEF Attempting
            <4> QED BY <3>4, <4>2 DEF EndInv, EachEndReportedOnce
        <3> QED BY <3>2, <3>3, <3>4, EndKept
    <2>8. ASSUME NEW c \in Clients, DisconnectTimeout(c) PROVE EndInv'
        BY <2>8, EndDisconnects DEF DisconnectTimeout
    <2>9. ASSUME NEW c \in Clients, Closes(c) PROVE EndInv'
        <3>1. \/ NextOrClose(c, connected[c], FALSE)
              \/ NextOrClose(c, FALSE, FALSE) /\ connect_state[c] = "TCP_IN_PROGRESS"
              \/ NextOrClose(c, FALSE, TRUE) /\ connected[c]
            BY <2>9, ClosesWays
        <3>2. ASSUME NEW was \in BOOLEAN, NEW ended \in BOOLEAN, NextOrClose(c, was, ended),
                     (was \/ ended) = connected[c]
              PROVE  EndInv'
            <4>1. open[c] = IF was \/ ended THEN 1 ELSE 0
                BY <2>0, <3>2
            <4>2. CloseOnly(c) /\ open' = [open EXCEPT ![c] = 0]
                BY <2>0, <3>2, <4>1, NextOrCloseEnds
            <4> QED BY <4>2, EndClosed
        <3>3. connect_state[c] = "TCP_IN_PROGRESS" => connected[c] = FALSE
            BY <2>0 DEF EndInv, Attempting
        <3>4. connected[c] \in BOOLEAN /\ TRUE \in BOOLEAN /\ FALSE \in BOOLEAN
            BY <2>0
        <3>5. CASE NextOrClose(c, connected[c], FALSE)
            BY <3>2, <3>4, <3>5
        <3>6. CASE NextOrClose(c, FALSE, FALSE) /\ connect_state[c] = "TCP_IN_PROGRESS"
            BY <3>2, <3>3, <3>4, <3>6
        <3>7. CASE NextOrClose(c, FALSE, TRUE) /\ connected[c]
            BY <3>2, <3>4, <3>7
        <3> QED BY <3>1, <3>5, <3>6, <3>7
    <2>10. ASSUME NEW c \in Clients, RetryTimer(c) \/ TransportDone(c) PROVE EndInv'
        <3>1. UNCHANGED <<connected, open>>
            BY <2>10 DEF RetryTimer, TransportDone, histVars
        <3>2. \A d \in Clients : Attempting(d)' => Attempting(d)
            <4>1. connect_state \in [Clients -> {"NOT_IN_PROGRESS", "TCP_IN_PROGRESS",
                                                 "WAIT_FOR_CONNACK", "DISCONNECTING"}]
                BY DEF Types, ConnTypes
            <4> QED BY <2>10, <4>1 DEF RetryTimer, TransportDone, Attempting
        <3> QED BY <3>1, <3>2 DEF EndInv, EachEndReportedOnce
    <2>11. ASSUME NEW c \in Clients, NEW present \in BOOLEAN, ConnackAccepts(c, present) PROVE EndInv'
        <3>1. /\ connect_state[c] = "WAIT_FOR_CONNACK"
              /\ connected' = [connected EXCEPT ![c] = TRUE]
              /\ connect_state' = [connect_state EXCEPT ![c] = "NOT_IN_PROGRESS"]
              /\ open' = [open EXCEPT ![c] = @ + 1]
            BY <2>11 DEF ConnackAccepts
        <3>2. open[c] = 0
            BY <2>0, <3>1 DEF EndInv, Attempting
        <3>3. open' = [open EXCEPT ![c] = IF TRUE THEN 1 ELSE 0]
            BY <3>1, <3>2
        <3> QED BY <3>1, <3>3, EndSet
    <2>12. ASSUME NEW c \in Clients, NEW p \in owed[c], NEW outcome \in {"ok", "fail"},
                  Ack(c, p, outcome)
           PROVE  EndInv'
        BY <2>12, EndKept DEF Ack, connVars
    <2>13. ASSUME NEW c \in Clients, WriteDone(c) \/ WriteFails(c) PROVE EndInv'
        BY <2>13, EndKept DEF WriteDone, WriteFails, connVars
    <2>14. ASSUME NEW c \in Clients, Reconnect(c) \/ Break(c) PROVE EndInv'
        BY <2>14, EndKept DEF Reconnect, Break, connVars, histVars
    <2>15. ASSUME NEW c \in Clients, Recreate(c) PROVE EndInv'
        <3>1. CloseOnly(c) /\ open' = [open EXCEPT ![c] = 0]
            BY <2>15, RecreateWays
        <3> QED BY <3>1, EndClosed
    <2>16. CASE AnyKill
        <3>1. PICK R : Restart(R)
            BY <2>16, AnyKillWays
        <3> QED BY <3>1, RestartWays DEF Each, EndInv, EachEndReportedOnce, Attempting
    <2>17. ASSUME NEW c \in Clients, ResendFails(c) PROVE EndInv'
        <3>1. CloseOnly(c) /\ open' = [open EXCEPT ![c] = @ + 1 - 1] /\ ~connected[c]
            BY <2>17, ResendFailsWays DEF EndInv, Attempting
        <3>2. open[c] = 0
            BY <2>0, <3>1
        <3>3. open' = [open EXCEPT ![c] = 0]
            BY <3>1, <3>2
        <3> QED BY <3>1, <3>3, EndClosed
    <2> QED BY <1>1, <2>0, <2>1, <2>2, <2>3, <2>4, <2>5, <2>6, <2>7, <2>8, <2>9, <2>10, <2>11,
               <2>12, <2>13, <2>14, <2>15, <2>16, <2>17, Steps DEF AnyKill
<1> QED BY <1>0, <1>1

LEMMA AlwaysEnd == Spec => []EndInv
<1>1. Init => EndInv
    BY DEF Init, EndInv, EachEndReportedOnce, Attempting, Each
<1>2. (Types /\ EndInv) /\ [Next]_vars => (Types /\ EndInv)'
    BY TypesStep, EndStep
<1> QED BY <1>1, <1>2, InitTypes, PTL DEF Spec

-----------------------------------------------------------------------------
(* Where commands come from                                                 *)

(* A call of the application that will add x. *)
NewCall(t, c, r, x) ==
    /\ Call(t, r, x) /\ UNCHANGED <<commands, taken>>
    /\ \/ Send(t, c, r) /\ r \in Pubs /\ x = Command("PUBLISH", c, r, IF r \in Pubs1 THEN NewToken(c) ELSE 0)
       \/ Subscribe(t, c, r) /\ r \in Subs /\ x = Command("SUBSCRIBE", c, r, NewToken(c))
       \/ Connect(t, c, r) /\ r \in Conns /\ x = Command("CONNECT", c, r, 0)
       \/ Disconnect(t, c, r) /\ r \in Discs /\ x = Command("DISCONNECT", c, r, 0)

FewerCalls == \A t \in Threads : api'[t] \in {api[t], None}

LEMMA ApiSteps ==
    ASSUME Types, [Next]_vars
    PROVE  FewerCalls \/ \E t \in Threads, c \in scenario.clients : \E r, x : NewCall(t, c, r, x)
<1> DEFINE Goal == FewerCalls \/ \E t \in Threads, c \in scenario.clients : \E r, x : NewCall(t, c, r, x)
<1> SUFFICES Goal
    OBVIOUS
<1>a. UNCHANGED api => FewerCalls
    BY DEF FewerCalls
<1>0. CASE UNCHANGED vars
    BY <1>0, <1>a DEF vars, queueVars
<1>1. CASE Next
    <2>0. DOMAIN api = Threads
        BY DEF Types, QueueTypes
    <2>1. ASSUME NEW t \in Threads, AddCommand(t) PROVE Goal
        BY <2>0, <2>1 DEF AddCommand, FewerCalls
    <2>2. ASSUME NEW t \in Threads, NEW c \in scenario.clients, NEW r \in Pubs, Send(t, c, r) PROVE Goal
        <3>1. NewCall(t, c, r, Command("PUBLISH", c, r, IF r \in Pubs1 THEN NewToken(c) ELSE 0))
            BY <2>2 DEF Send, NewCall
        <3> QED BY <3>1
    <2>3. ASSUME NEW t \in Threads, NEW c \in scenario.clients, NEW r \in Subs, Subscribe(t, c, r) PROVE Goal
        <3>1. NewCall(t, c, r, Command("SUBSCRIBE", c, r, NewToken(c)))
            BY <2>3 DEF Subscribe, NewCall
        <3> QED BY <3>1
    <2>4. ASSUME NEW t \in Threads, NEW c \in scenario.clients, NEW r \in Conns, Connect(t, c, r) PROVE Goal
        <3>1. NewCall(t, c, r, Command("CONNECT", c, r, 0))
            BY <2>4 DEF Connect, NewCall
        <3> QED BY <3>1
    <2>5. ASSUME NEW t \in Threads, NEW c \in scenario.clients, NEW r \in Discs, Disconnect(t, c, r) PROVE Goal
        <3>1. UNCHANGED <<commands, taken>>
            BY <2>5 DEF Disconnect
        <3>2. UNCHANGED api \/ Call(t, r, Command("DISCONNECT", c, r, 0))
            BY <2>5 DEF Disconnect
        <3>3. CASE Call(t, r, Command("DISCONNECT", c, r, 0))
            <4>1. NewCall(t, c, r, Command("DISCONNECT", c, r, 0))
                BY <2>5, <3>1, <3>3 DEF NewCall
            <4> QED BY <4>1
        <3> QED BY <1>a, <3>2, <3>3
    <2>6. ASSUME NEW t \in Threads, NEW c \in scenario.clients, NEW r \in Pubs, SendRefused(t, c, r)
          PROVE  Goal
        BY <2>6, <1>a DEF SendRefused, queueVars
    <2>7. CASE Take \/ ExecConnectBusy \/ ExecConnect \/ ExecConnectFails \/ ExecDisconnect
        BY <2>7, <1>a DEF Take, ExecConnectBusy, ExecConnect, ExecConnectFails, ExecDisconnect
    <2>8. ASSUME NEW outcome \in {"complete", "interrupted", "error"}, ExecData(outcome) PROVE Goal
        BY <2>8, <1>a DEF ExecData
    <2>9. ASSUME NEW c \in Clients, Closes(c) PROVE Goal
        <3>1. UNCHANGED api
            <4>1. PICK was, ended : NextOrClose(c, was, ended)
                BY <2>9, ClosesWays
            <4> QED BY <4>1 DEF NextOrClose
        <3> QED BY <3>1, <1>a
    <2>10. ASSUME NEW c \in Clients, DisconnectTimeout(c) \/ RetryTimer(c) \/ TransportDone(c) PROVE Goal
        BY <2>10, <1>a DEF DisconnectTimeout, RetryTimer, TransportDone, queueVars
    <2>11. ASSUME NEW c \in Clients, NEW present \in BOOLEAN, ConnackAccepts(c, present) PROVE Goal
        BY <2>11, <1>a DEF ConnackAccepts, queueVars
    <2>12. ASSUME NEW c \in Clients, NEW p \in owed[c], NEW outcome \in {"ok", "fail"},
                  Ack(c, p, outcome)
           PROVE  Goal
        BY <2>12, <1>a DEF Ack, queueVars
    <2>13. ASSUME NEW c \in Clients, WriteDone(c) \/ WriteFails(c) PROVE Goal
        BY <2>13, <1>a DEF WriteDone, WriteFails, queueVars
    <2>14. ASSUME NEW c \in Clients, Reconnect(c) \/ Break(c) \/ Recreate(c) PROVE Goal
        BY <2>14, <1>a DEF Reconnect, Break, Recreate, queueVars
    <2>15. CASE AnyKill
        <3>1. PICK R : Restart(R)
            BY <2>15, AnyKillWays
        <3> QED BY <3>1, RestartWays DEF FewerCalls
    <2>17. ASSUME NEW c \in Clients, ResendFails(c) PROVE Goal
        BY <2>17, ResendFailsWays, <1>a
    <2> HIDE DEF Goal
    <2>16. \A c \in scenario.clients : c \in Clients
        BY ScenarioFacts DEF Types
    <2> QED BY <1>1, <2>1, <2>2, <2>3, <2>4, <2>5, <2>6, <2>7, <2>8, <2>9, <2>10, <2>11,
               <2>12, <2>13, <2>14, <2>15, <2>16, <2>17, Steps DEF AnyKill
<1> QED BY <1>0, <1>1

(* Responses and messages in flight: only a command that is executed adds one. *)
FewerWaiting ==
    \A c \in Clients : /\ ToSet(responses'[c]) \subseteq ToSet(responses[c])
                       /\ ToSet(outboundMsgs'[c]) \subseteq ToSet(outboundMsgs[c])
MoreWaiting ==
    /\ \E outcome \in {"complete", "interrupted", "error"} : ExecData(outcome)
    /\ taken # None /\ IsData(taken)
    /\ \A c \in Clients :
         /\ ToSet(responses'[c]) \subseteq
              ToSet(responses[c]) \cup (IF c = taken.client THEN {taken} ELSE {})
         /\ ToSet(outboundMsgs'[c]) \subseteq
              ToSet(outboundMsgs[c]) \cup (IF c = taken.client THEN {Pair(taken)} ELSE {})

LEMMA EmptyToSet == ToSet(<<>>) = {}
BY DEF ToSet

LEMMA CleanWaiting ==
    ASSUME Types, NEW c \in Clients, NEW cleans, NEW t, CleanSession(c, cleans, t)
    PROVE  FewerWaiting
<1>1. \/ UNCHANGED <<outboundMsgs, responses>>
      \/ /\ outboundMsgs' = [outboundMsgs EXCEPT ![c] = <<>>]
         /\ responses' = [responses EXCEPT ![c] = <<>>]
    BY DEF CleanSession
<1>2. DOMAIN outboundMsgs = Clients /\ DOMAIN responses = Clients
    BY DEF Types, SessTypes
<1> QED BY <1>1, <1>2, EmptyToSet DEF FewerWaiting

LEMMA SessionSteps ==
    ASSUME Types, [Next]_vars
    PROVE  FewerWaiting \/ MoreWaiting
<1> DEFINE Goal == FewerWaiting \/ MoreWaiting
<1> SUFFICES Goal
    OBVIOUS
<1>a. UNCHANGED <<responses, outboundMsgs>> => Goal
    BY DEF FewerWaiting
<1>b. UNCHANGED sessVars => Goal
    BY <1>a DEF sessVars
<1>c. /\ responses \in [Clients -> Seq(DataCommands)]
      /\ outboundMsgs \in [Clients -> Seq([tok : Ids, req : Pubs1])]
    BY DEF Types, SessTypes
<1>d. ASSUME NEW c \in Clients, NEW q \in Seq(DataCommands), responses' = [responses EXCEPT ![c] = q],
             ToSet(q) \subseteq ToSet(responses[c]), UNCHANGED outboundMsgs
      PROVE  Goal
    BY <1>c, <1>d DEF FewerWaiting
<1>0. CASE UNCHANGED vars
    BY <1>0, <1>b DEF vars
<1>1. CASE Next
    <2>0. \A c \in scenario.clients : c \in Clients
        BY ScenarioFacts DEF Types
    <2> HIDE DEF Goal
    <2>1. ASSUME NEW t \in Threads, AddCommand(t) PROVE Goal
        BY <2>1, <1>b DEF AddCommand
    <2>2. ASSUME NEW t \in Threads, NEW c \in Clients,
                 \/ \E r \in Pubs : Send(t, c, r) \/ SendRefused(t, c, r)
                 \/ \E r \in Subs : Subscribe(t, c, r)
                 \/ \E r \in Conns : Connect(t, c, r)
                 \/ \E r \in Discs : Disconnect(t, c, r)
          PROVE  Goal
        BY <2>2, <1>a DEF Send, SendRefused, Subscribe, Connect, Disconnect, sessVars
    <2>3. CASE Take \/ ExecConnectBusy \/ ExecConnect \/ ExecConnectFails
        BY <2>3, <1>b DEF Take, ExecConnectBusy, ExecConnect, ExecConnectFails
    <2>4. ASSUME NEW outcome \in {"complete", "interrupted", "error"}, ExecData(outcome) PROVE Goal
        <3> DEFINE k == taken.client
        <3>1. /\ taken # None /\ IsData(taken)
              /\ outboundMsgs' = IF taken.req \in Pubs1
                                 THEN [outboundMsgs EXCEPT ![k] = Append(@, Pair(taken))]
                                 ELSE outboundMsgs
              /\ DataComplete(k) \/ DataInterrupted(k) \/ DataError(k)
            BY <2>4, ExecDataWays
        <3>2. taken \in DataCommands /\ k \in Clients
            BY <3>1, TakenFacts
        <3>3. responses' = responses \/ responses' = [responses EXCEPT ![k] = Append(@, taken)]
            BY <3>1 DEF DataComplete, DataInterrupted, DataError
        <3> HIDE DEF k
        <3>4. ToSet(Append(responses[k], taken)) = ToSet(responses[k]) \cup {taken}
            BY <1>c, <3>2, AppendToSet
        <3>5. taken.req \in Pubs1 =>
                ToSet(Append(outboundMsgs[k], Pair(taken))) = ToSet(outboundMsgs[k]) \cup {Pair(taken)}
            <4> DEFINE M == [tok : Ids, req : Pubs1]
            <4> SUFFICES ASSUME taken.req \in Pubs1
                         PROVE  ToSet(Append(outboundMsgs[k], Pair(taken))) =
                                  ToSet(outboundMsgs[k]) \cup {Pair(taken)}
                OBVIOUS
            <4>1. Pair(taken) \in M
                BY <3>2, PacketFacts
            <4>2. outboundMsgs[k] \in Seq(M)
                BY <1>c, <3>2
            <4> HIDE DEF M
            <4> QED BY <4>1, <4>2, AppendToSet
        <3>6. \A c \in Clients :
                 /\ \/ responses'[c] = responses[c]
                    \/ c = k /\ responses'[c] = Append(responses[k], taken)
                 /\ \/ outboundMsgs'[c] = outboundMsgs[c]
                    \/ c = k /\ taken.req \in Pubs1 /\ outboundMsgs'[c] = Append(outboundMsgs[k], Pair(taken))
            <4>1. DOMAIN responses = Clients /\ DOMAIN outboundMsgs = Clients
                BY <1>c
            <4>2. \A c \in Clients :
                    \/ responses'[c] = responses[c]
                    \/ c = k /\ responses'[c] = Append(responses[k], taken)
                <5>1. CASE responses' = responses
                    BY <5>1
                <5>2. CASE responses' = [responses EXCEPT ![k] = Append(@, taken)]
                    BY <3>2, <4>1, <5>2
                <5> QED BY <3>3, <5>1, <5>2
            <4>3. \A c \in Clients :
                    \/ outboundMsgs'[c] = outboundMsgs[c]
                    \/ c = k /\ taken.req \in Pubs1 /\ outboundMsgs'[c] = Append(outboundMsgs[k], Pair(taken))
                <5>1. outboundMsgs' = IF taken.req \in Pubs1
                                      THEN [outboundMsgs EXCEPT ![k] = Append(@, Pair(taken))]
                                      ELSE outboundMsgs
                    BY <3>1
                <5> QED BY <3>2, <4>1, <5>1
            <4> QED BY <4>2, <4>3
        <3>7. MoreWaiting
            BY <2>4, <3>1, <3>4, <3>5, <3>6 DEF MoreWaiting, k
        <3> QED BY <3>7 DEF Goal
    <2>5. CASE ExecDisconnect
        <3> DEFINE k == taken.client
        <3>1. CloseForDisconnect(k, taken, ToldBusy(k)) \/ UNCHANGED sessVars
            BY <2>5, ExecDisconnectWays
        <3>2. k \in Clients
            BY <2>5, TakenFacts DEF ExecDisconnect
        <3>3. CASE CloseForDisconnect(k, taken, ToldBusy(k))
            BY <3>2, <3>3, CleanWaiting DEF CloseForDisconnect, Goal
        <3> QED BY <3>1, <3>3, <1>b
    <2>6. ASSUME NEW c \in Clients, DisconnectTimeout(c) PROVE Goal
        BY <2>6, CleanWaiting DEF DisconnectTimeout, CloseForDisconnect, Goal
    <2>7. ASSUME NEW c \in Clients, Closes(c) PROVE Goal
        <3>1. PICK was, ended : NextOrClose(c, was, ended)
            BY <2>7, ClosesWays
        <3>2. \/ UNCHANGED sessVars
              \/ CleanSession(c, scenario.clean, Tell(told, Callbacks(connect[c]), "fail"))
            BY <3>1 DEF NextOrClose
        <3> QED BY <3>2, <1>b, CleanWaiting DEF Goal
    <2>8. ASSUME NEW c \in Clients, RetryTimer(c) \/ TransportDone(c) PROVE Goal
        BY <2>8, <1>b DEF RetryTimer, TransportDone
    <2>9. ASSUME NEW c \in Clients, NEW present \in BOOLEAN, ConnackAccepts(c, present) PROVE Goal
        BY <2>9, CleanWaiting DEF ConnackAccepts, Goal
    <2>10. ASSUME NEW c \in Clients, NEW p \in owed[c], NEW outcome \in {"ok", "fail"},
                  Ack(c, p, outcome)
           PROVE  Goal
        <3>1. /\ outboundMsgs' = IF p.type = "PUBLISH"
                                 THEN [outboundMsgs EXCEPT ![c] = Without(@, Answered(@, p.tok))]
                                 ELSE outboundMsgs
              /\ responses' = [responses EXCEPT ![c] = Without(@, Answered(@, p.tok))]
            BY <2>10, AckWays
        <3>2. /\ responses[c] \in Seq(DataCommands)
              /\ outboundMsgs[c] \in Seq([tok : Ids, req : Pubs1])
            BY <1>c
        <3>3. ToSet(Without(responses[c], Answered(responses[c], p.tok))) \subseteq ToSet(responses[c])
            BY <3>2, AnsweredFacts, WithoutWays
        <3>4. ToSet(Without(outboundMsgs[c], Answered(outboundMsgs[c], p.tok)))
                 \subseteq ToSet(outboundMsgs[c])
            BY <3>2, AnsweredFacts, WithoutWays
        <3> QED BY <1>c, <3>1, <3>3, <3>4 DEF FewerWaiting, Goal
    <2>11. ASSUME NEW c \in Clients, WriteDone(c) \/ WriteFails(c) PROVE Goal
        <3>1. /\ UNCHANGED outboundMsgs
              /\ \/ UNCHANGED responses
                 \/ \E i \in DOMAIN responses[c] :
                      FreesResponse(c, i, "ok") \/ FreesResponse(c, i, "fail")
            BY <2>11, WriteDoneWays, WriteFailsWays
        <3>2. CASE UNCHANGED responses
            BY <3>1, <3>2, <1>a
        <3>3. ASSUME NEW i \in DOMAIN responses[c],
                     FreesResponse(c, i, "ok") \/ FreesResponse(c, i, "fail")
              PROVE  Goal
            <4>1. \/ UNCHANGED responses
                  \/ responses' = [responses EXCEPT ![c] = RemoveAt(@, i)]
                BY <3>3 DEF FreesResponse
            <4>2. responses[c] \in Seq(DataCommands)
                BY <1>c
            <4>3. /\ RemoveAt(responses[c], i) \in Seq(DataCommands)
                  /\ ToSet(RemoveAt(responses[c], i)) = {responses[c][j] : j \in DOMAIN responses[c] \ {i}}
                BY <4>2, RemoveAtSet, RemoveAtShift
            <4>4. ToSet(RemoveAt(responses[c], i)) \subseteq ToSet(responses[c])
                BY <4>3 DEF ToSet
            <4> QED BY <3>1, <4>1, <4>3, <4>4, <1>a, <1>d
        <3> QED BY <3>1, <3>2, <3>3
    <2>12. ASSUME NEW c \in Clients, Reconnect(c) \/ Break(c) PROVE Goal
        BY <2>12, <1>b DEF Reconnect, Break
    <2>13. ASSUME NEW c \in Clients, Recreate(c) PROVE Goal
        <3>1. /\ responses' = [responses EXCEPT ![c] = <<>>]
              /\ outboundMsgs' = [outboundMsgs EXCEPT ![c] = InflightOf(c)]
            BY <2>13, RecreateWays
        <3>2. InflightOf(c) = outboundMsgs[c] \/ InflightOf(c) = <<>>
            BY DEF InflightOf, Inflight
        <3>3. ToSet(InflightOf(c)) \subseteq ToSet(outboundMsgs[c])
            BY <3>2, EmptyToSet
        <3> QED BY <1>c, <3>1, <3>3, EmptyToSet DEF FewerWaiting, Goal
    <2>14. CASE AnyKill
        <3>1. responses' = Each(<<>>) /\ outboundMsgs' = [c \in Clients |-> Inflight(c)]
            <4>1. PICK R : Restart(R)
                BY <2>14, AnyKillWays
            <4> QED BY <4>1, RestartWays
        <3> QED BY <3>1, EmptyToSet DEF FewerWaiting, Goal, Each, Inflight
    <2>15. ASSUME NEW c \in Clients, ResendFails(c) PROVE Goal
        BY <2>15, ResendFailsWays, <1>b
    <2> QED BY <1>1, <2>0, <2>1, <2>2, <2>3, <2>4, <2>5, <2>6, <2>7, <2>8, <2>9, <2>10, <2>11,
               <2>12, <2>13, <2>14, <2>15, Steps DEF AnyKill
<1> QED BY <1>0, <1>1

LEMMA ScenarioStays ==
    ASSUME Types, [Next]_vars
    PROVE  scenario' = scenario
<1>1. CASE KeepsList
    BY <1>1 DEF KeepsList
<1>2. ASSUME NEW t \in Threads, AddsAtEnd(api[t]) PROVE scenario' = scenario
    BY <1>2 DEF AddsAtEnd
<1>3. CASE Take
    BY <1>3 DEF Take
<1>4. ASSUME NEW c \in Clients, Recreate(c) PROVE scenario' = scenario
    BY <1>4, RecreateWays
<1>5. CASE AnyKill
    <2>1. PICK R : Restart(R)
        BY <1>5, AnyKillWays
    <2> QED BY <2>1, RestartWays
<1> QED BY <1>1, <1>2, <1>3, <1>4, <1>5, QueueSteps DEF AnyKill

LEMMA TheThread ==
    ASSUME Types, OneThread, NEW t \in scenario.threads, NEW u \in scenario.threads
    PROVE  t = u
<1>1. IsFiniteSet(scenario.threads)
    BY AsyncAssumption, ScenarioFacts, FS_Subset DEF Types
<1>2. \E x : scenario.threads = {x}
    BY <1>1, FS_Singleton DEF OneThread
<1> QED BY <1>2

-----------------------------------------------------------------------------
(* Tokens                                                                   *)

(* The data commands on their way come from earlier ones.                   *)
Later(x, y) == x.client = y.client /\ x.tok = y.tok /\ x.req = y.req

LEMMA QueuedGood ==
    ASSUME Types
    PROVE  /\ Queued \subseteq Good
           /\ \A i \in DOMAIN commands : commands[i] \in Queued
           /\ taken # None => taken \in Queued
           /\ \A t \in Threads : api[t] # None => api[t] \in Queued
           /\ \A x \in Queued : \/ \E i \in DOMAIN commands : x = commands[i]
                                \/ x = taken /\ taken # None
                                \/ \E t \in Threads : x = api[t] /\ api[t] # None
<1>1. \A i \in DOMAIN commands : commands[i] \in Good /\ commands[i] # None
    BY DatasFacts, GoodFacts DEF Types, QueueTypes
<1>2. ToSet(commands) = {commands[i] : i \in DOMAIN commands}
    BY DEF ToSet
<1>3. taken \in Good \cup {None} /\ \A t \in Threads : api[t] \in Good \cup {None}
    BY DEF Types, QueueTypes
<1> QED BY <1>1, <1>2, <1>3 DEF Queued

LEMMA HeadToken ==
    ASSUME NEW x \in Good
    PROVE  x \in HeadCommands => x.tok = 0
BY DEF HeadCommands, HeadKind

(* The data commands of the new list.                                       *)
LEMMA ListSources ==
    ASSUME Types, Types', StoreInv, [Next]_vars
    PROVE  \A j \in Datas(commands') : \E y \in Queued : Later(commands'[j], y)
<1>0. commands \in Seq(Good) /\ commands' \in Seq(Good)
    BY DEF Types, QueueTypes
<1>a. ASSUME NEW f, Embeds(commands', commands, f), NEW j \in Datas(commands')
      PROVE  \E y \in Queued : Later(commands'[j], y)
    <2>1. f[j] \in DOMAIN commands /\ Alike(commands'[j], commands[f[j]])
        BY <1>a, <1>0, DatasFacts DEF Embeds
    <2> QED BY <2>1, QueuedGood DEF Alike, Later
<1>1. CASE KeepsList
    <2>1. PICK f : Keeps(commands', commands, {}, f)
        BY <1>0, <1>1, KeepsSelf, KeepsCons DEF KeepsList
    <2> QED BY <2>1, <1>a DEF Keeps
<1>2. ASSUME NEW t \in Threads, AddCommand(t), AddsAtEnd(api[t]), NEW j \in Datas(commands')
      PROVE  \E y \in Queued : Later(commands'[j], y)
    <2> DEFINE x == api[t]
    <2>1. x \in Good /\ x \in Queued
        BY <1>2, AddCommandWays, QueuedGood DEF AddCommand
    <2>2. CASE AddDisconnect(x)
        <3>1. x \in HeadCommands /\ commands' = Append(commands, x)
            BY <2>1, <2>2, GoodFacts DEF AddDisconnect
        <3>2. PICK f : Keeps(commands', commands, {}, f)
            BY <1>0, <3>1, KeepsAppendHead
        <3> QED BY <1>2, <3>2, <1>a DEF Keeps
    <2>3. CASE AddData(x)
        <3>1. x \in DataCommands
            BY <2>1, <2>3, GoodFacts DEF AddData
        <3>2. PICK K, f : Keeps(commands', Longer(x), K, f)
            BY <2>3, <3>1, AddDataWays
        <3>3. f[j] \in Datas(Longer(x)) /\ Alike(commands'[j], Longer(x)[f[j]])
            BY <1>2, <3>2 DEF Keeps, Embeds
        <3>4. CASE f[j] \in Datas(commands)
            <4>1. commands[f[j]] \in Queued /\ Longer(x)[f[j]] = commands[f[j]]
                BY <1>0, <3>1, <3>4, LongerFacts, DatasFacts, QueuedGood
            <4> QED BY <3>3, <4>1 DEF Alike, Later
        <3>5. CASE f[j] = Len(commands) + 1
            <4>1. Longer(x)[f[j]] = Numbered(x)
                BY <3>1, <3>5, LongerFacts
            <4>2. Later(Numbered(x), x)
                BY <3>1, NumberedFacts DEF Later
            <4> QED BY <2>1, <3>3, <4>1, <4>2 DEF Alike, Later
        <3>6. Datas(Longer(x)) = Datas(commands) \cup {Len(commands) + 1}
            BY <3>1, LongerFacts
        <3> QED BY <3>3, <3>4, <3>5, <3>6
    <2> QED BY <1>2, <2>2, <2>3 DEF AddsAtEnd
<1>3. CASE Take
    <2>1. FirstTakeable \in DOMAIN commands /\ commands' = RemoveAt(commands, FirstTakeable)
        BY <1>3, TakeWays
    <2>2. PICK f : Keeps(commands', commands, {FirstTakeable}, f)
        BY <1>0, <2>1, KeepsRemoved
    <2> QED BY <2>2, <1>a DEF Keeps
<1>4. ASSUME NEW c \in Clients, Recreate(c), NEW j \in Datas(commands')
      PROVE  \E y \in Queued : Later(commands'[j], y)
    <2> DEFINE S == store[c]
    <2>1. RecordSet(S, c) /\ Held(S, commands, scenario)
        BY StoreRecords, StoreHeld DEF StoreInv
    <2>2. PICK others, own, g : commands' = others \o own /\ MovedBy(c, S, others, own, g)
        BY <1>4, RecreateMoves
    <2> HIDE DEF S
    <2>3. Embeds(commands', commands, Moved(others, own, g))
        BY <2>1, <2>2, MovedEmbeds
    <2> QED BY <1>4, <2>3, <1>a
<1>5. ASSUME Kill, NEW j \in Datas(commands')
      PROVE  \E y \in Queued : Later(commands'[j], y)
    <2>1. Embeds(commands', commands, Origins(commands))
        BY <1>5, KillWays, RestartedList DEF FromList
    <2> QED BY <1>5, <2>1, <1>a
<1>6. ASSUME NEW t \in Threads, KillInAddCommand(t), NEW j \in Datas(commands')
      PROVE  \E y \in Queued : Later(commands'[j], y)
    <2> DEFINE x == api[t]
               q == Longer(x)
               f == Origins(q)
    <2>1. x \in DataCommands /\ x \in Queued
        <3>1. x \in DataCommands /\ x # None
            BY <1>6, TornWays DEF KillInAddCommand
        <3> QED BY <3>1, QueuedGood
    <2>2. Embeds(commands', q, f)
        BY <1>6, TornWays, RestartedList DEF FromList
    <2> HIDE DEF x, q, f
    <2>3. f[j] \in Datas(q) /\ Alike(commands'[j], q[f[j]])
        BY <1>6, <2>2 DEF Embeds
    <2>4. /\ Datas(q) = Datas(commands) \cup {Len(commands) + 1}
          /\ q[Len(commands) + 1] = Numbered(x)
          /\ \A i \in Datas(commands) : q[i] = commands[i]
        BY <2>1, LongerFacts, DatasFacts, <1>0 DEF q
    <2>5. Later(Numbered(x), x)
        BY <2>1, NumberedFacts DEF Later
    <2>6. CASE f[j] \in Datas(commands)
        <3>1. commands[f[j]] \in Queued
            BY <1>0, <2>6, DatasFacts, QueuedGood
        <3> QED BY <2>3, <2>4, <2>6, <3>1 DEF Alike, Later
    <2>7. CASE f[j] = Len(commands) + 1
        BY <2>1, <2>3, <2>4, <2>5, <2>7 DEF Alike, Later
    <2> QED BY <2>3, <2>4, <2>6, <2>7
<1> QED BY <1>1, <1>2, <1>3, <1>4, <1>5, <1>6, QueueSteps

LEMMA TakenSources ==
    ASSUME Types, [Next]_vars
    PROVE  taken' = taken \/ taken' = None \/ (Take /\ taken' \in ToSet(commands))
<1>1. CASE KeepsList
    BY <1>1 DEF KeepsList
<1>2. ASSUME NEW t \in Threads, AddsAtEnd(api[t]) PROVE taken' = taken
    BY <1>2 DEF AddsAtEnd
<1>3. CASE Take
    BY <1>3, TakeWays DEF ToSet
<1>4. ASSUME NEW c \in Clients, Recreate(c) PROVE taken' = taken
    BY <1>4, RecreateWays
<1>5. CASE AnyKill
    <2>1. PICK R : Restart(R)
        BY <1>5, AnyKillWays
    <2> QED BY <2>1, RestartWays
<1> QED BY <1>1, <1>2, <1>3, <1>4, <1>5, QueueSteps DEF AnyKill

LEMMA QueuedSources ==
    ASSUME Types, Types', StoreInv, [Next]_vars, FewerCalls
    PROVE  \A x \in Queued' : x.tok = 0 \/ \E y \in Queued : Later(x, y)
<1> TAKE x \in Queued'
<1>0. commands \in Seq(Good) /\ commands' \in Seq(Good)
    BY DEF Types, QueueTypes
<1>q. \/ \E i \in DOMAIN commands' : x = commands'[i]
      \/ x = taken' /\ taken' # None
      \/ \E t \in Threads : x = api'[t] /\ api'[t] # None
    BY DEF Queued, ToSet
<1>1. ASSUME NEW i \in DOMAIN commands', x = commands'[i]
      PROVE  x.tok = 0 \/ \E y \in Queued : Later(x, y)
    <2>1. CASE i \in Datas(commands')
        BY <1>1, <2>1, ListSources
    <2>2. CASE i \notin Datas(commands')
        <3>1. x \in Good /\ ~IsData(x)
            BY <1>0, <1>1, <2>2, DatasFacts DEF Datas
        <3>2. x \in HeadCommands
            BY <3>1, GoodFacts
        <3> QED BY <3>1, <3>2, HeadToken
    <2> QED BY <2>1, <2>2
<1>2. ASSUME x = taken', taken' # None PROVE \E y \in Queued : Later(x, y)
    <2>1. x \in Queued
        BY <1>2, TakenSources, QueuedGood DEF ToSet
    <2> QED BY <2>1 DEF Later
<1>3. ASSUME NEW t \in Threads, x = api'[t], api'[t] # None PROVE \E y \in Queued : Later(x, y)
    <2>1. x \in Queued
        BY <1>3, QueuedGood DEF FewerCalls
    <2> QED BY <2>1 DEF Later
<1> QED BY <1>q, <1>1, <1>2, <1>3

-----------------------------------------------------------------------------
(* Message ids                                                              *)

HeldBy(c, h) ==
    \/ \E x \in Queued : x.client = c /\ h = Pair(x)
    \/ \E x \in ToSet(responses[c]) : h = Pair(x)
    \/ \E x \in ToSet(outboundMsgs[c]) : h = Pair(x)

LEMMA HoldsMembers ==
    ASSUME NEW c \in Clients
    PROVE  /\ \A h : h \in Holds(c) <=> HeldBy(c, h)
           /\ \A h : h \in Holds(c)' <=> HeldBy(c, h)'
<1>1. \A h : h \in Holds(c) <=> HeldBy(c, h)
    BY DEF Holds, HeldBy, Queued, Pair
<1>2. \A h : h \in Holds(c)' <=> HeldBy(c, h)'
    BY DEF Holds, HeldBy, Queued, Pair
<1> QED BY <1>1, <1>2

LEMMA FewerHolds ==
    ASSUME Types, Types', StoreInv, [Next]_vars, FewerCalls,
           NEW c \in Clients, NEW h \in Holds(c)', h.tok # 0
    PROVE  h \in Holds(c)
<1>1. HeldBy(c, h)'
    BY HoldsMembers
<1>s. SUFFICES HeldBy(c, h)
    BY HoldsMembers
<1>2. ASSUME NEW x \in Queued', x.client = c, h = Pair(x) PROVE HeldBy(c, h)
    <2>1. x.tok # 0
        BY <1>2 DEF Pair
    <2>2. PICK y \in Queued : Later(x, y)
        BY <2>1, QueuedSources
    <2> QED BY <1>2, <2>2 DEF HeldBy, Pair, Later
<1>3. ASSUME taken # None, taken.client = c, h = Pair(taken) PROVE HeldBy(c, h)
    BY <1>3, QueuedGood DEF HeldBy
<1>4. ASSUME NEW x \in ToSet(responses'[c]), h = Pair(x) PROVE HeldBy(c, h)
    <2>1. CASE FewerWaiting
        BY <1>4, <2>1 DEF FewerWaiting, HeldBy
    <2>2. CASE MoreWaiting
        <3>1. x \in ToSet(responses[c]) \/ (taken # None /\ taken.client = c /\ x = taken)
            BY <1>4, <2>2 DEF MoreWaiting
        <3> QED BY <1>3, <1>4, <3>1 DEF HeldBy
    <2> QED BY <2>1, <2>2, SessionSteps
<1>5. ASSUME NEW x \in ToSet(outboundMsgs'[c]), h = Pair(x) PROVE HeldBy(c, h)
    <2>1. CASE FewerWaiting
        BY <1>5, <2>1 DEF FewerWaiting, HeldBy
    <2>2. CASE MoreWaiting
        <3>1. x \in ToSet(outboundMsgs[c]) \/ (taken # None /\ taken.client = c /\ x = Pair(taken))
            BY <1>5, <2>2 DEF MoreWaiting
        <3>2. Pair(Pair(taken)) = Pair(taken)
            BY DEF Pair
        <3> QED BY <1>3, <1>5, <3>1, <3>2 DEF HeldBy
    <2> QED BY <2>1, <2>2, SessionSteps
<1> QED BY <1>1, <1>2, <1>4, <1>5 DEF HeldBy

(* A new command has an id that nothing of the client has, or none. *)
LEMMA NewCallHolds ==
    ASSUME Types, Types', IdleThreads, OneThread, NEW t \in Threads, NEW c \in scenario.clients,
           NEW r, NEW x, NewCall(t, c, r, x), NEW d \in Clients, NEW h \in Holds(d)'
    PROVE  \/ h \in Holds(d)
           \/ /\ d = c /\ h = Pair(x)
              /\ h.tok # 0 => \A k \in Holds(d) : k.tok # h.tok
<1>1. /\ UNCHANGED <<commands, taken, responses, outboundMsgs>>
      /\ Call(t, r, x) /\ x.client = c
    BY DEF NewCall, Send, Subscribe, Connect, Disconnect, sessVars, Command
<1>2. x.tok # 0 => taken = None /\ x.tok = NewToken(c)
    BY DEF NewCall, Send, Subscribe, Command, AsyncMutexFree
<1>3. /\ t \in scenario.threads /\ api[t] = None /\ DOMAIN api = Threads
      /\ api' = [api EXCEPT ![t] = x]
    BY <1>1 DEF Call, Types, QueueTypes
<1>4. \A u \in Threads : api[u] = None
    BY <1>3, TheThread DEF IdleThreads
<1>5. c \in Clients /\ msgID[c] \in 0 .. MaxMsgId
    BY ScenarioFacts DEF Types, SessTypes
<1>6. Queued' \subseteq Queued \cup {x}
    BY <1>1, <1>3 DEF Queued
<1>7. h \in Holds(d) \/ (d = c /\ h = Pair(x))
    <2>1. HeldBy(d, h)'
        BY HoldsMembers
    <2>2. HeldBy(d, h) \/ (d = c /\ h = Pair(x))
        BY <1>1, <1>6, <2>1 DEF HeldBy
    <2> QED BY <2>2, HoldsMembers
<1>8. ASSUME x.tok # 0, NEW k \in Holds(c) PROVE k.tok # x.tok
    <2>1. k.tok \in UsedIds(c)
        <3>1. HeldBy(c, k)
            BY <1>5, HoldsMembers
        <3>2. Queued \subseteq ToSet(commands)
            BY <1>2, <1>4, <1>8 DEF Queued
        <3> QED BY <3>1, <3>2 DEF HeldBy, UsedIds, Pair
    <2>2. NewToken(c) # 0 => NewToken(c) \notin UsedIds(c)
        BY <1>5, AssignedFree DEF NewToken
    <2> QED BY <1>2, <1>8, <2>1, <2>2
<1> QED BY <1>7, <1>8 DEF Pair

LEMMA TokensStep ==
    Types /\ Types' /\ StoreInv /\ IdleThreads /\ TokensDistinct /\ [Next]_vars
        => IdleThreads' /\ TokensDistinct'
<1> SUFFICES ASSUME Types, Types', StoreInv, IdleThreads, TokensDistinct, [Next]_vars
             PROVE  IdleThreads' /\ TokensDistinct'
    OBVIOUS
<1>0. scenario' = scenario
    BY ScenarioStays
<1>1. CASE FewerCalls
    <2>1. IdleThreads'
        BY <1>0, <1>1 DEF IdleThreads, FewerCalls
    <2>2. ASSUME OneThread, NEW c \in Clients, NEW x \in Holds(c)', NEW y \in Holds(c)',
                 x.tok = y.tok, x.tok # 0
          PROVE  x = y
        <3>1. x \in Holds(c) /\ y \in Holds(c)
            BY <1>1, <2>2, FewerHolds
        <3> QED BY <2>2, <3>1 DEF TokensDistinct
    <2> QED BY <1>0, <2>1, <2>2 DEF TokensDistinct, OneThread
<1>2. ASSUME NEW t \in Threads, NEW c \in scenario.clients, NEW r, NEW z, NewCall(t, c, r, z)
      PROVE  IdleThreads' /\ TokensDistinct'
    <2>0. t \in scenario.threads /\ api' = [api EXCEPT ![t] = z] /\ DOMAIN api = Threads
        BY <1>2 DEF NewCall, Call, Types, QueueTypes
    <2>1. IdleThreads'
        BY <1>0, <2>0 DEF IdleThreads
    <2>2. ASSUME OneThread, NEW d \in Clients, NEW x \in Holds(d)', NEW y \in Holds(d)',
                 x.tok = y.tok, x.tok # 0
          PROVE  x = y
        <3>1. \/ x \in Holds(d)
              \/ d = c /\ x = Pair(z) /\ \A k \in Holds(d) : k.tok # x.tok
            BY <1>2, <2>2, NewCallHolds
        <3>2. \/ y \in Holds(d)
              \/ d = c /\ y = Pair(z) /\ \A k \in Holds(d) : k.tok # y.tok
            BY <1>2, <2>2, NewCallHolds
        <3> QED BY <2>2, <3>1, <3>2 DEF TokensDistinct
    <2> QED BY <1>0, <2>1, <2>2 DEF TokensDistinct, OneThread
<1> QED BY <1>1, <1>2, ApiSteps

LEMMA InitTokens == Init => IdleThreads /\ TokensDistinct
<1> SUFFICES ASSUME Init PROVE IdleThreads /\ TokensDistinct
    OBVIOUS
<1>1. IdleThreads
    BY DEF Init, IdleThreads
<1>2. \A c \in Clients : Holds(c) = {}
    BY DEF Init, Holds, Each, ToSet
<1> QED BY <1>1, <1>2 DEF TokensDistinct

LEMMA AlwaysTokens == Spec => [](IdleThreads /\ TokensDistinct)
<1>1. Init => IdleThreads /\ TokensDistinct
    BY InitTokens
<1>2. (Types /\ QueueInv) /\ Types' /\ (IdleThreads /\ TokensDistinct) /\ [Next]_vars
         => (IdleThreads /\ TokensDistinct)'
    BY TokensStep DEF QueueInv
<1> QED BY <1>1, <1>2, AlwaysQueue, PTL DEF Spec

(* Two requests of a client never have the same message id, wherever they are *)
(* (MQTTAsync_assignMsgId), if the application has one thread.                *)
THEOREM IdsAreDistinct == Spec => []TokensDistinct
<1>1. IdleThreads /\ TokensDistinct => TokensDistinct
    OBVIOUS
<1> QED BY <1>1, AlwaysTokens, PTL

-----------------------------------------------------------------------------
(* Requests in lists                                                        *)

(* The requests with one answer. *)
Single == Data \cup Discs

Distinct(q) == \A i, j \in DOMAIN q : q[i].req \in Single /\ q[i].req = q[j].req => i = j

(* x stands for the request of y; it calls back only if y does. *)
Sub(x, y) == x.req = y.req /\ (x.cb => y.cb)

(* Where the elements of s with a request come from. *)
Traces(s, q, f) ==
    /\ \A j \in DOMAIN s : s[j].req \in Single => f[j] \in DOMAIN q /\ Sub(s[j], q[f[j]])
    /\ \A i, j \in DOMAIN s :
         s[i].req \in Single /\ s[j].req \in Single /\ f[i] = f[j] => i = j

LEMMA TracesFacts ==
    ASSUME NEW s, NEW q, NEW f, Traces(s, q, f), Distinct(q)
    PROVE  /\ Distinct(s)
           /\ \A x \in ToSet(s) : x.req \in Single => \E y \in ToSet(q) : Sub(x, y)
<1>1. \A i, j \in DOMAIN s : s[i].req \in Single /\ s[i].req = s[j].req => f[i] = f[j]
    BY DEF Traces, Distinct, Sub
<1>2. Distinct(s)
    BY <1>1 DEF Traces, Distinct
<1>3. ASSUME NEW x \in ToSet(s), x.req \in Single PROVE \E y \in ToSet(q) : Sub(x, y)
    <2>1. PICK j \in DOMAIN s : x = s[j]
        BY <1>3 DEF ToSet
    <2>2. f[j] \in DOMAIN q /\ Sub(x, q[f[j]])
        BY <1>3, <2>1 DEF Traces
    <2> QED BY <2>2 DEF ToSet
<1> QED BY <1>2, <1>3

LEMMA DistinctCons ==
    ASSUME NEW q \in Seq(Good), NEW x \in Good, Distinct(q),
           x.req \in Single => \A y \in ToSet(q) : y.req # x.req
    PROVE  /\ <<x>> \o q \in Seq(Good) /\ ToSet(<<x>> \o q) = ToSet(q) \cup {x}
           /\ Distinct(<<x>> \o q)
<1> DEFINE s == <<x>> \o q
<1>1. /\ s[1] = x /\ DOMAIN s \subseteq Nat
      /\ \A k \in DOMAIN s : k # 1 => k - 1 \in DOMAIN q /\ s[k] = q[k - 1]
      /\ s \in Seq(Good) /\ ToSet(s) = ToSet(q) \cup {x}
    <2>1. Len(q) \in Nat
        BY SeqFacts
    <2> QED BY <2>1, ConsFacts
<1> HIDE DEF s
<1>2. \A i \in DOMAIN q : x.req \in Single => q[i].req # x.req
    BY DEF ToSet
<1>3. ASSUME NEW i \in DOMAIN s, NEW j \in DOMAIN s, s[i].req \in Single, s[i].req = s[j].req
      PROVE  i = j
    <2>1. CASE i = 1
        BY <1>1, <1>2, <1>3, <2>1
    <2>2. CASE j = 1
        BY <1>1, <1>2, <1>3, <2>2
    <2>3. CASE i # 1 /\ j # 1
        <3>1. i - 1 = j - 1
            BY <1>1, <1>3, <2>3 DEF Distinct
        <3> QED BY <1>1, <3>1
    <2> QED BY <2>1, <2>2, <2>3
<1>4. Distinct(s)
    BY <1>3 DEF Distinct
<1> QED BY <1>1, <1>4 DEF s

LEMMA TracesRemoved ==
    ASSUME NEW q \in Seq(Good), NEW k \in DOMAIN q, Distinct(q)
    PROVE  /\ RemoveAt(q, k) \in Seq(Good)
           /\ \E f : Traces(RemoveAt(q, k), q, f)
           /\ \A x \in ToSet(RemoveAt(q, k)) : x \in ToSet(q) /\ (x.req \in Single => x.req # q[k].req)
           /\ \A x \in ToSet(q) : x = q[k] \/ x \in ToSet(RemoveAt(q, k))
<1> DEFINE s == RemoveAt(q, k)
           f == [j \in DOMAIN s |-> Shift(k, j)]
<1>1. /\ s \in Seq(Good)
      /\ \A j \in DOMAIN s : Shift(k, j) \in DOMAIN q \ {k} /\ s[j] = q[Shift(k, j)]
      /\ \A i, j \in DOMAIN s : i # j => Shift(k, i) # Shift(k, j)
    BY RemoveAtShift
<1>2. ToSet(s) = {q[i] : i \in DOMAIN q \ {k}}
    BY RemoveAtSet
<1> HIDE DEF s
<1>3. \A j \in DOMAIN s : f[j] \in DOMAIN q /\ Sub(s[j], q[f[j]])
    BY <1>1 DEF Sub
<1>4. \A i, j \in DOMAIN s : f[i] = f[j] => i = j
    BY <1>1
<1>5. Traces(s, q, f)
    BY <1>3, <1>4 DEF Traces
<1>6. \A x \in ToSet(s) : x \in ToSet(q) /\ (x.req \in Single => x.req # q[k].req)
    BY <1>2 DEF Distinct, ToSet
<1>7. \A x \in ToSet(q) : x = q[k] \/ x \in ToSet(s)
    BY <1>2 DEF ToSet
<1> QED BY <1>1, <1>5, <1>6, <1>7 DEF s

LEMMA DistinctAppend ==
    ASSUME NEW q \in Seq(Good), NEW x \in Good, Distinct(q),
           x.req \in Single => \A y \in ToSet(q) : y.req # x.req
    PROVE  /\ Append(q, x) \in Seq(Good) /\ ToSet(Append(q, x)) = ToSet(q) \cup {x}
           /\ Distinct(Append(q, x))
<1>1. Append(q, x) \in Seq(Good) /\ ToSet(Append(q, x)) = ToSet(q) \cup {x}
    BY AppendToSet
<1>2. Len(q) \in Nat /\ DOMAIN q = 1 .. Len(q)
    BY SeqFacts
<1>3. /\ DOMAIN Append(q, x) = 1 .. (Len(q) + 1)
      /\ Append(q, x)[Len(q) + 1] = x
      /\ \A k \in DOMAIN q : Append(q, x)[k] = q[k]
    BY AppendFacts
<1>4. \A i \in DOMAIN q : x.req \in Single => q[i].req # x.req
    BY DEF ToSet
<1>5. Distinct(Append(q, x))
    <2> DEFINE s == Append(q, x)
    <2> HIDE DEF s
    <2>1. \A i \in DOMAIN s : i \in DOMAIN q \/ i = Len(q) + 1
        BY <1>2, <1>3 DEF s
    <2>2. /\ s[Len(q) + 1] = x
          /\ \A k \in DOMAIN q : s[k] = q[k]
        BY <1>3 DEF s
    <2>3. Distinct(s)
        BY <1>4, <2>1, <2>2 DEF Distinct
    <2> QED BY <2>3 DEF s
<1> QED BY <1>1, <1>5

(* Answering a response, or none. *)
LEMMA DistinctWithout ==
    ASSUME NEW q \in Seq(DataCommands), NEW I, I = {} \/ \E i \in DOMAIN q : I = {i}, Distinct(q)
    PROVE  /\ Without(q, I) \in Seq(DataCommands) /\ Distinct(Without(q, I))
           /\ \A x \in ToSet(Without(q, I)) : x \in ToSet(q) /\ \A i \in I : x.req # q[i].req
<1>1. CASE I = {}
    BY <1>1 DEF Without
<1>2. ASSUME NEW i \in DOMAIN q, I = {i}
      PROVE  /\ Without(q, I) \in Seq(DataCommands) /\ Distinct(Without(q, I))
             /\ \A x \in ToSet(Without(q, I)) : x \in ToSet(q) /\ \A k \in I : x.req # q[k].req
    <2>0. q \in Seq(Good) /\ \A x \in DataCommands : x.req \in Single
        <3>1. \A x \in DataCommands : x \in Good /\ x.req \in Single
            BY GoodFacts DEF Good, Single
        <3>2. DataCommands \subseteq Good
            BY <3>1
        <3> QED BY <3>1, <3>2
    <2>1. Without(q, I) = RemoveAt(q, i)
        BY <1>2, WithoutFacts
    <2>2. RemoveAt(q, i) \in Seq(DataCommands)
        BY RemoveAtShift
    <2>3. ToSet(RemoveAt(q, i)) \subseteq DataCommands
        BY <2>2, ToSetFacts
    <2>4. /\ \E f : Traces(RemoveAt(q, i), q, f)
          /\ \A x \in ToSet(RemoveAt(q, i)) : x \in ToSet(q) /\ (x.req \in Single => x.req # q[i].req)
        BY <2>0, TracesRemoved
    <2>5. Distinct(RemoveAt(q, i))
        BY <2>4, TracesFacts
    <2>6. \A x \in ToSet(RemoveAt(q, i)) : x \in ToSet(q) /\ x.req # q[i].req
        BY <2>0, <2>3, <2>4
    <2> QED BY <1>2, <2>1, <2>2, <2>5, <2>6
<1> QED BY <1>1, <1>2

-----------------------------------------------------------------------------
(* Where requests are                                                       *)

(* Command x is at a place: about to be added by thread a, in the list, being*)
(* executed, waiting for its answer or for the messages in flight.           *)
At(k, a, x) ==
    \/ k = "api" /\ a \in Threads /\ x = api[a] /\ x # None
    \/ k = "list" /\ a = None /\ x \in ToSet(commands)
    \/ k = "taken" /\ a = None /\ x = taken /\ x # None
    \/ k = "resp" /\ a \in Clients /\ x \in ToSet(responses[a])
    \/ k = "disc" /\ a \in Clients /\ connect_state[a] = "DISCONNECTING" /\ x = disconnect[a]

(* A request is at one place only, and not answered while it calls back.     *)
PlaceInv ==
    /\ Distinct(commands)
    /\ \A c \in Clients : Distinct(responses[c])
    /\ \A k, a, x, l, b, y :
         At(k, a, x) /\ At(l, b, y) /\ x.req \in Single /\ x.req = y.req => k = l /\ a = b
    /\ \A k, a, x : At(k, a, x) /\ x.req \in Single => x.req \notin unused
    /\ \A k, a, x : At(k, a, x) /\ x.req \in Single /\ x.cb => told[x.req] = <<>>
    /\ \A r \in Single : Len(told[r]) <= 1 /\ (r \in unused => told[r] = <<>>)

DistinctLists == Distinct(commands) /\ \A c \in Clients : Distinct(responses[c])

(* A step moves request r from one place to another, and moves no other.     *)
Moves(r, k0, a0, k1, a1) ==
    /\ \A k, a, x : At(k, a, x)' /\ x.req \in Single =>
         \/ \E y : At(k, a, y) /\ Sub(x, y)
         \/ k = k1 /\ a = a1 /\ x.req = r /\ \E y : At(k0, a0, y) /\ Sub(x, y)
    /\ r \in Single => \A x : At(k0, a0, x)' => x.req # r

(* A request is answered where it was, and does not call back any more.      *)
AnsweredAt(r, k, a) ==
    /\ \E y : At(k, a, y) /\ y.req = r /\ y.cb
    /\ told'[r] \in {Append(told[r], "ok"), Append(told[r], "fail")}
    /\ \A x : At(k, a, x)' /\ x.req = r => ~x.cb
Tells(moved) ==
    \A r \in Single : told'[r] = told[r] \/ (r # moved /\ \E k, a : AnsweredAt(r, k, a))

LEMMA MovesStep ==
    ASSUME Types, Types', PlaceInv, NEW r, NEW k0, NEW a0, NEW k1, NEW a1, Moves(r, k0, a0, k1, a1),
           Tells(r), unused' \subseteq unused, DistinctLists'
    PROVE  PlaceInv'
<1>1. Distinct(commands)' /\ \A c \in Clients : Distinct(responses[c])'
    BY DEF DistinctLists
<1>2. ASSUME NEW k, NEW a, NEW x, NEW l, NEW b, NEW y, At(k, a, x)', At(l, b, y)',
             x.req \in Single, x.req = y.req
      PROVE  k = l /\ a = b
    <2>1. \/ \E u : At(k, a, u) /\ Sub(x, u)
          \/ k = k1 /\ a = a1 /\ x.req = r /\ \E u : At(k0, a0, u) /\ Sub(x, u)
        BY <1>2 DEF Moves
    <2>2. \/ \E u : At(l, b, u) /\ Sub(y, u)
          \/ l = k1 /\ b = a1 /\ y.req = r /\ \E u : At(k0, a0, u) /\ Sub(y, u)
        BY <1>2 DEF Moves
    <2>3. \A u, v, m, d, n, e : At(m, d, u) /\ At(n, e, v) /\ Sub(x, u) /\ Sub(y, v) => m = n /\ d = e
        BY <1>2 DEF PlaceInv, Sub
    <2>4. x.req = r => (k # k0 \/ a # a0) /\ (l # k0 \/ b # a0)
        BY <1>2 DEF Moves
    <2> QED BY <1>2, <2>1, <2>2, <2>3, <2>4
<1>3. ASSUME NEW k, NEW a, NEW x, At(k, a, x)', x.req \in Single
      PROVE  \E l, b, y : At(l, b, y) /\ Sub(x, y) /\ ((l = k /\ b = a) \/ x.req = r)
    BY <1>3 DEF Moves
<1>4. ASSUME NEW k, NEW a, NEW x, At(k, a, x)', x.req \in Single
      PROVE  x.req \notin unused'
    BY <1>3, <1>4 DEF PlaceInv, Sub
<1>5. ASSUME NEW k, NEW a, NEW x, At(k, a, x)', x.req \in Single, x.cb
      PROVE  told'[x.req] = <<>>
    <2>1. PICK l, b, y : At(l, b, y) /\ Sub(x, y) /\ ((l = k /\ b = a) \/ x.req = r)
        BY <1>3, <1>5
    <2>2. told[x.req] = <<>>
        BY <1>5, <2>1 DEF PlaceInv, Sub
    <2>3. ASSUME x.req # r, NEW m, NEW d, AnsweredAt(x.req, m, d) PROVE FALSE
        <3>1. PICK z : At(m, d, z) /\ z.req = x.req
            BY <2>3 DEF AnsweredAt
        <3>2. y.req = z.req /\ y.req \in Single
            BY <1>5, <2>1, <3>1 DEF Sub
        <3>3. m = l /\ d = b
            BY <2>1, <3>1, <3>2 DEF PlaceInv
        <3> QED BY <1>5, <2>1, <2>3, <3>3 DEF AnsweredAt
    <2> QED BY <1>5, <2>2, <2>3 DEF Tells
<1>6. ASSUME NEW s \in Single PROVE Len(told'[s]) <= 1 /\ (s \in unused' => told'[s] = <<>>)
    <2>1. CASE told'[s] = told[s]
        BY <2>1 DEF PlaceInv
    <2>2. ASSUME NEW k, NEW a, AnsweredAt(s, k, a)
          PROVE  Len(told'[s]) <= 1 /\ (s \in unused' => told'[s] = <<>>)
        <3>1. PICK y : At(k, a, y) /\ y.req = s /\ y.cb
            BY <2>2 DEF AnsweredAt
        <3>2. told[s] = <<>> /\ s \notin unused
            BY <3>1 DEF PlaceInv
        <3>3. Len(told'[s]) = 1
            BY <2>2, <3>2 DEF AnsweredAt
        <3> QED BY <3>2, <3>3
    <2> QED BY <2>1, <2>2 DEF Tells
<1> QED BY <1>1, <1>2, <1>4, <1>5, <1>6 DEF PlaceInv

(* A new call puts an unused request at the place of the thread.             *)
LEMMA NewCallStep ==
    ASSUME Types, Types', PlaceInv, NEW t \in Threads, NEW c, NEW r \in Reqs, NEW x, x.req = r,
           Call(t, r, x),
           UNCHANGED <<commands, taken, responses, connect_state, disconnect, told>>
    PROVE  PlaceInv'
<1>1. /\ api[t] = None /\ r \in unused /\ unused' = unused \ {r}
      /\ api' = [api EXCEPT ![t] = x] /\ DOMAIN api = Threads
    BY DEF Call, Types, QueueTypes
<1>2. \A k, a, y : At(k, a, y)' => At(k, a, y) \/ (k = "api" /\ a = t /\ y = x)
    BY <1>1 DEF At
<1>3. \A k, a, y : At(k, a, y) /\ y.req \in Single => y.req # r
    BY <1>1 DEF PlaceInv
<1>4. ASSUME NEW k, NEW a, NEW y, NEW l, NEW b, NEW z, At(k, a, y)', At(l, b, z)',
             y.req \in Single, y.req = z.req
      PROVE  k = l /\ a = b
    <2>1. At(k, a, y) \/ (k = "api" /\ a = t /\ y.req = r)
        BY <1>2, <1>4
    <2>2. At(l, b, z) \/ (l = "api" /\ b = t /\ z.req = r)
        BY <1>2, <1>4
    <2>3. At(k, a, y) => y.req # r
        BY <1>3, <1>4
    <2>4. At(l, b, z) => z.req # r
        BY <1>3, <1>4
    <2> QED BY <1>4, <2>1, <2>2, <2>3, <2>4 DEF PlaceInv
<1>5. ASSUME NEW k, NEW a, NEW y, At(k, a, y)', y.req \in Single
      PROVE  y.req \notin unused' /\ (y.cb => told'[y.req] = <<>>)
    <2>1. At(k, a, y) \/ y.req = r
        BY <1>2, <1>5
    <2> QED BY <1>1, <1>5, <2>1 DEF PlaceInv
<1>6. Distinct(commands)' /\ \A d \in Clients : Distinct(responses[d])'
    BY DEF PlaceInv, Distinct
<1>7. \A s \in Single : Len(told'[s]) <= 1 /\ (s \in unused' => told'[s] = <<>>)
    BY <1>1 DEF PlaceInv
<1> QED BY <1>4, <1>5, <1>6, <1>7 DEF PlaceInv

-----------------------------------------------------------------------------
(* Requests that stay where they are                                        *)

ApiKept == \A t \in Threads : api'[t] \in {api[t], None}
ListKept == \A x \in ToSet(commands') : x.req \in Single => \E y \in ToSet(commands) : Sub(x, y)
TakenKept == taken' \in {taken, None}
RespKept == \A c \in Clients : ToSet(responses'[c]) \subseteq ToSet(responses[c])
DiscKept ==
    \A c \in Clients : connect_state'[c] = "DISCONNECTING" =>
        connect_state[c] = "DISCONNECTING" /\ disconnect'[c] = disconnect[c]

StillAt(k) == \A a, x : At(k, a, x)' /\ x.req \in Single => \E y : At(k, a, y) /\ Sub(x, y)

LEMMA StaysAt ==
    /\ ApiKept => StillAt("api")
    /\ ListKept => StillAt("list")
    /\ TakenKept => StillAt("taken")
    /\ RespKept => StillAt("resp")
    /\ DiscKept => StillAt("disc")
    /\ \A k, a, x : At(k, a, x)' => k \in {"api", "list", "taken", "resp", "disc"}
<1>1. \A x : Sub(x, x)
    BY DEF Sub
<1>2. ASSUME ApiKept PROVE StillAt("api")
    <2> SUFFICES ASSUME NEW a, NEW x, At("api", a, x)' PROVE At("api", a, x)
        BY <1>1 DEF StillAt
    <2> QED BY <1>2 DEF ApiKept, At
<1>3. ASSUME ListKept PROVE StillAt("list")
    <2> SUFFICES ASSUME NEW a, NEW x, At("list", a, x)', x.req \in Single
                 PROVE  \E y : At("list", a, y) /\ Sub(x, y)
        BY DEF StillAt
    <2>1. x \in ToSet(commands') /\ a = None
        BY DEF At
    <2>2. PICK y \in ToSet(commands) : Sub(x, y)
        BY <1>3, <2>1 DEF ListKept
    <2>3. At("list", a, y)
        BY <2>1 DEF At
    <2> QED BY <2>2, <2>3
<1>4. ASSUME TakenKept PROVE StillAt("taken")
    <2> SUFFICES ASSUME NEW a, NEW x, At("taken", a, x)' PROVE At("taken", a, x)
        BY <1>1 DEF StillAt
    <2> QED BY <1>4 DEF TakenKept, At
<1>5. ASSUME RespKept PROVE StillAt("resp")
    <2> SUFFICES ASSUME NEW a, NEW x, At("resp", a, x)' PROVE At("resp", a, x)
        BY <1>1 DEF StillAt
    <2> QED BY <1>5 DEF RespKept, At
<1>6. ASSUME DiscKept PROVE StillAt("disc")
    <2> SUFFICES ASSUME NEW a, NEW x, At("disc", a, x)' PROVE At("disc", a, x)
        BY <1>1 DEF StillAt
    <2> QED BY <1>6 DEF DiscKept, At
<1>7. \A k, a, x : At(k, a, x)' => k \in {"api", "list", "taken", "resp", "disc"}
    BY DEF At
<1> QED BY <1>2, <1>3, <1>4, <1>5, <1>6, <1>7

LEMMA MovesNothing ==
    ASSUME ApiKept, ListKept, TakenKept, RespKept, DiscKept
    PROVE  Moves(None, "none", None, "none", None)
<1>1. \A k, a, x : At(k, a, x)' /\ x.req \in Single => \E y : At(k, a, y) /\ Sub(x, y)
    BY StaysAt DEF StillAt
<1>2. None \notin Single
    BY NoneFacts DEF Single, Reqs
<1> QED BY <1>1, <1>2 DEF Moves

LEMMA SingleFacts ==
    /\ None \notin Single /\ Single \subseteq Reqs
    /\ \A r \in Conns : r \notin Single
    /\ \A x \in DataCommands : x.req \in Data /\ x.req \in Single /\ x.req \notin Discs
<1>1. \A x \in DataCommands : x.req \in Data
    BY GoodFacts DEF Good
<1> QED BY <1>1, NoneFacts, DisjointRequests DEF Single

LEMMA TellFacts ==
    ASSUME NEW t, NEW S, NEW outcome, NEW r \in Reqs
    PROVE  /\ r \in ReqsOf(S) => Tell(t, ReqsOf(S), outcome)[r] = Append(t[r], outcome)
           /\ r \notin ReqsOf(S) => Tell(t, ReqsOf(S), outcome)[r] = t[r]
           /\ r \in ReqsOf(S) <=> \E x \in S : x.cb /\ x.req = r
BY DEF Tell, ReqsOf

LEMMA CallbackFacts ==
    ASSUME NEW x, NEW r
    PROVE  r \in Callbacks(x) <=> x.cb /\ x.req = r
BY DEF Callbacks, ReqsOf

LEMMA CleanKeeps ==
    ASSUME Types, PlaceInv, NEW c \in Clients, NEW cleans, NEW t, CleanSession(c, cleans, t)
    PROVE  /\ RespKept /\ \A d \in Clients : Distinct(responses'[d])
           /\ \A r \in Single : t[r] = told[r] => told'[r] = told[r] \/ AnsweredAt(r, "resp", c)
           /\ \A r \in Discs : told'[r] = t[r]
<1>0. DOMAIN responses = Clients /\ responses[c] \in Seq(DataCommands)
    BY DEF Types, SessTypes
<1>1. CASE ~cleans
    <2>1. told' = t /\ UNCHANGED responses
        BY <1>1 DEF CleanSession
    <2> QED BY <2>1 DEF RespKept, PlaceInv
<1>2. CASE cleans
    <2>1. /\ responses' = [responses EXCEPT ![c] = <<>>]
          /\ told' = Tell(t, ReqsOf(ToSet(responses[c])), "fail")
        BY <1>2 DEF CleanSession
    <2>2. RespKept
        BY <1>0, <2>1, EmptyToSet DEF RespKept
    <2>3. \A d \in Clients : Distinct(responses'[d])
        BY <1>0, <2>1 DEF PlaceInv, Distinct
    <2>4. \A x : ~At("resp", c, x)'
        BY <1>0, <2>1, EmptyToSet DEF At
    <2>5. \A r \in Reqs : /\ r \in ReqsOf(ToSet(responses[c])) => told'[r] = Append(t[r], "fail")
                          /\ r \notin ReqsOf(ToSet(responses[c])) => told'[r] = t[r]
                          /\ r \in ReqsOf(ToSet(responses[c])) <=>
                               \E x \in ToSet(responses[c]) : x.cb /\ x.req = r
        BY <2>1, TellFacts
    <2>6. ASSUME NEW r \in Single, t[r] = told[r] PROVE told'[r] = told[r] \/ AnsweredAt(r, "resp", c)
        <3>1. r \in Reqs
            BY SingleFacts
        <3>2. CASE r \in ReqsOf(ToSet(responses[c]))
            <4>1. PICK x \in ToSet(responses[c]) : x.cb /\ x.req = r
                BY <2>5, <3>1, <3>2
            <4>2. At("resp", c, x)
                BY DEF At
            <4>3. told'[r] = Append(told[r], "fail")
                BY <2>5, <2>6, <3>1, <3>2
            <4> QED BY <2>4, <4>1, <4>2, <4>3 DEF AnsweredAt
        <3> QED BY <2>5, <2>6, <3>1, <3>2
    <2>7. ASSUME NEW r \in Discs PROVE told'[r] = t[r]
        <3>1. r \in Reqs
            BY DisjointRequests
        <3>2. \A x \in ToSet(responses[c]) : x \in DataCommands
            BY <1>0, ToSetFacts
        <3>3. \A x \in ToSet(responses[c]) : x.req # r
            BY <3>2, SingleFacts
        <3> QED BY <2>5, <3>1, <3>3
    <2> QED BY <2>2, <2>3, <2>6, <2>7
<1> QED BY <1>1, <1>2

LEMMA QuietStep ==
    ASSUME Types, Types', PlaceInv, ApiKept, ListKept, TakenKept, RespKept, DiscKept,
           DistinctLists', unused' \subseteq unused,
           \A r \in Single : told'[r] = told[r] \/ \E k, a : AnsweredAt(r, k, a)
    PROVE  PlaceInv'
<1>1. Moves(None, "none", None, "none", None)
    BY MovesNothing
<1>2. Tells(None)
    BY SingleFacts DEF Tells
<1> QED BY <1>1, <1>2, MovesStep

LEMMA ListUnchanged == UNCHANGED commands => ListKept
BY DEF ListKept, Sub

LEMMA ConnectRequests ==
    ASSUME NEW x \in HeadCommands, x.type = "CONNECT"
    PROVE  x.req \notin Single /\ \A r \in Single : r \notin Callbacks(x)
<1>1. x.req \in Conns \cup {None}
    BY DEF HeadCommands, HeadKind
<1> QED BY <1>1, SingleFacts, CallbackFacts

LEMMA HeadOnList ==
    ASSUME Types, PlaceInv, NEW x \in HeadCommands, x.req \notin Single,
           commands' = Inserted(commands, x) \/ commands' = <<x>> \o commands
    PROVE  ListKept /\ Distinct(commands)'
<1>1. x \in Good /\ commands \in Seq(Good) /\ Distinct(commands)
    BY DEF Good, Types, QueueTypes, PlaceInv
<1>2. CASE commands' = commands
    BY <1>1, <1>2, ListUnchanged
<1>3. CASE commands' = <<x>> \o commands
    <2>1. ToSet(commands') = ToSet(commands) \cup {x} /\ Distinct(commands')
        BY <1>1, <1>3, DistinctCons
    <2> QED BY <2>1 DEF ListKept, Sub
<1> QED BY <1>2, <1>3, InsertedWays

(* Nothing moves and nobody is told. *)
LEMMA StillStep ==
    ASSUME Types, Types', PlaceInv, ApiKept, ListKept, Distinct(commands)', TakenKept, DiscKept,
           UNCHANGED responses, unused' \subseteq unused, \A r \in Single : told'[r] = told[r]
    PROVE  PlaceInv'
<1>1. RespKept /\ DistinctLists'
    BY DEF RespKept, DistinctLists, PlaceInv
<1> QED BY <1>1, QuietStep

LEMMA PlacesUnchanged ==
    ASSUME Types, Types', PlaceInv, unused' \subseteq unused,
           UNCHANGED <<api, commands, taken, responses, connect_state, disconnect, told>>
    PROVE  PlaceInv'
<1>1. ApiKept /\ ListKept /\ TakenKept /\ DiscKept /\ Distinct(commands)'
    BY ListUnchanged DEF ApiKept, TakenKept, DiscKept, PlaceInv
<1> QED BY <1>1, StillStep

-----------------------------------------------------------------------------
(* The application                                                          *)

LEMMA CallsPlaces ==
    ASSUME Types, Types', PlaceInv, NEW t \in Threads, NEW c \in scenario.clients,
           \/ \E r \in Pubs : Send(t, c, r) \/ SendRefused(t, c, r)
           \/ \E r \in Subs : Subscribe(t, c, r)
           \/ \E r \in Conns : Connect(t, c, r)
           \/ \E r \in Discs : Disconnect(t, c, r)
    PROVE  PlaceInv'
<1>0. \A type, r, tok : Command(type, c, r, tok).req = r
    BY DEF Command
<1>a. Pubs \subseteq Reqs /\ Subs \subseteq Reqs /\ Conns \subseteq Reqs /\ Discs \subseteq Reqs
    BY DisjointRequests
<1>1. ASSUME NEW r \in Pubs, Send(t, c, r) PROVE PlaceInv'
    <2>1. /\ \E x : x.req = r /\ Call(t, r, x)
          /\ UNCHANGED <<commands, taken, responses, connect_state, disconnect, told>>
        BY <1>1, <1>0 DEF Send, connVars
    <2> QED BY <1>a, <2>1, NewCallStep
<1>2. ASSUME NEW r \in Pubs, SendRefused(t, c, r) PROVE PlaceInv'
    BY <1>2, PlacesUnchanged DEF SendRefused, queueVars, connVars
<1>3. ASSUME NEW r \in Subs, Subscribe(t, c, r) PROVE PlaceInv'
    <2>1. /\ \E x : x.req = r /\ Call(t, r, x)
          /\ UNCHANGED <<commands, taken, responses, connect_state, disconnect, told>>
        BY <1>3, <1>0 DEF Subscribe, connVars
    <2> QED BY <1>a, <2>1, NewCallStep
<1>4. ASSUME NEW r \in Conns, Connect(t, c, r) PROVE PlaceInv'
    <2>1. /\ \E x : x.req = r /\ Call(t, r, x)
          /\ UNCHANGED <<commands, taken, responses, connect_state, disconnect, told>>
        BY <1>4, <1>0 DEF Connect, sessVars
    <2> QED BY <1>a, <2>1, NewCallStep
<1>5. ASSUME NEW r \in Discs, Disconnect(t, c, r) PROVE PlaceInv'
    <2>1. UNCHANGED <<commands, taken, responses, connect_state, disconnect, told>>
        BY <1>5 DEF Disconnect, sessVars
    <2>2. CASE connected[c]
        <3>1. \E x : x.req = r /\ Call(t, r, x)
            BY <1>5, <2>2, <1>0 DEF Disconnect
        <3> QED BY <1>a, <2>1, <3>1, NewCallStep
    <2>3. CASE ~connected[c]
        BY <1>5, <2>1, <2>3, PlacesUnchanged DEF Disconnect
    <2> QED BY <2>2, <2>3
<1> QED BY <1>1, <1>2, <1>3, <1>4, <1>5

(* MQTTAsync_addCommand puts the command of the thread into the list.        *)
AddsOne(x) == \A y \in ToSet(commands') : y \in ToSet(commands) \/ Sub(y, x)

LEMMA AddsOneOrNone ==
    ASSUME Types, NEW x \in Good, AddHead(x) \/ AddDisconnect(x) \/ AddData(x),
           Distinct(commands), x.req \in Single => \A y \in ToSet(commands) : y.req # x.req
    PROVE  AddsOne(x) /\ Distinct(commands')
<1>0. commands \in Seq(Good) /\ Sub(x, x)
    BY DEF Types, QueueTypes, Sub
<1>1. CASE AddHead(x)
    <2>1. commands' = commands \/ commands' = <<x>> \o commands
        BY <1>1 DEF AddHead, Inserted
    <2>2. ToSet(<<x>> \o commands) = ToSet(commands) \cup {x} /\ Distinct(<<x>> \o commands)
        BY <1>0, DistinctCons
    <2>3. CASE commands' = <<x>> \o commands
        BY <1>0, <2>2, <2>3 DEF AddsOne
    <2>4. CASE commands' = commands
        BY <2>4 DEF AddsOne
    <2> QED BY <2>1, <2>3, <2>4
<1>2. CASE AddDisconnect(x)
    <2>1. commands' = Append(commands, x)
        BY <1>2 DEF AddDisconnect
    <2> QED BY <1>0, <2>1, DistinctAppend DEF AddsOne
<1>3. CASE AddData(x)
    <2> DEFINE q == Longer(x)
    <2>1. x \in DataCommands
        BY <1>3, GoodFacts DEF AddData
    <2>2. Numbered(x) \in Good /\ Sub(Numbered(x), x) /\ Numbered(x).req = x.req
        BY <2>1, NumberedFacts DEF Sub
    <2>3. q \in Seq(Good) /\ Distinct(q) /\ ToSet(q) = ToSet(commands) \cup {Numbered(x)}
        BY <1>0, <2>2, DistinctAppend DEF Longer
    <2>4. commands' = q \/ \E k \in DOMAIN q : commands' = RemoveAt(q, k)
        <3> DEFINE o == OldestPublish(q, x.client)
        <3>1. commands' = q \/ (x.type = "PUBLISH" /\ Full(x.client) /\ commands' = RemoveAt(q, o))
            BY <1>3 DEF AddData, Longer
        <3>2. x.type = "PUBLISH" /\ Full(x.client) => o \in DOMAIN q
            BY <1>3, <2>1, AddDataFacts DEF Longer
        <3> QED BY <3>1, <3>2
    <2> HIDE DEF q
    <2>5. ASSUME NEW k \in DOMAIN q, commands' = RemoveAt(q, k)
          PROVE  Distinct(commands') /\ \A y \in ToSet(commands') : y \in ToSet(q)
        <3>1. PICK f : Traces(commands', q, f)
            BY <2>3, <2>5, TracesRemoved
        <3>2. \A y \in ToSet(commands') : y \in ToSet(q)
            BY <2>3, <2>5, TracesRemoved
        <3> QED BY <2>3, <3>1, <3>2, TracesFacts
    <2>6. Distinct(commands') /\ \A y \in ToSet(commands') : y \in ToSet(q)
        BY <2>3, <2>4, <2>5
    <2> QED BY <2>2, <2>3, <2>6 DEF AddsOne
<1> QED BY <1>1, <1>2, <1>3

LEMMA AddPlaces ==
    ASSUME Types, Types', PlaceInv, NEW t \in Threads, AddCommand(t)
    PROVE  PlaceInv'
<1> DEFINE x == api[t]
<1>1. /\ x \in Good /\ x # None /\ DOMAIN api = Threads
      /\ api' = [api EXCEPT ![t] = None]
      /\ UNCHANGED <<taken, connVars, sessVars, unused, told>>
      /\ AddHead(x) \/ AddDisconnect(x) \/ AddData(x)
    BY AddCommandWays DEF AddCommand, Types, QueueTypes
<1>2. At("api", t, x)
    BY <1>1 DEF At
<1>3. \A y \in ToSet(commands) : At("list", None, y)
    BY DEF At
<1>4. x.req \in Single => \A y \in ToSet(commands) : y.req # x.req
    BY <1>2, <1>3 DEF PlaceInv
<1>5. AddsOne(x) /\ Distinct(commands')
    BY <1>1, <1>4, AddsOneOrNone DEF PlaceInv
<1>6. ApiKept /\ TakenKept /\ RespKept /\ DiscKept /\ DistinctLists'
    BY <1>1, <1>5 DEF ApiKept, TakenKept, RespKept, DiscKept, DistinctLists, PlaceInv,
                      connVars, sessVars
<1>7. ASSUME NEW k, NEW a, NEW y, At(k, a, y)', y.req \in Single
      PROVE  \/ \E z : At(k, a, z) /\ Sub(y, z)
             \/ k = "list" /\ a = None /\ y.req = x.req /\ \E z : At("api", t, z) /\ Sub(y, z)
    <2>1. CASE k = "list"
        <3>1. a = None /\ y \in ToSet(commands')
            BY <1>7, <2>1 DEF At
        <3>2. y \in ToSet(commands) \/ Sub(y, x)
            BY <1>5, <3>1 DEF AddsOne
        <3>3. Sub(y, y)
            BY DEF Sub
        <3> QED BY <1>2, <1>3, <2>1, <3>1, <3>2, <3>3 DEF Sub
    <2>2. CASE k # "list"
        BY <1>6, <1>7, <2>2, StaysAt DEF StillAt
    <2> QED BY <2>1, <2>2
<1>8. \A y : ~At("api", t, y)'
    BY <1>1 DEF At
<1>9. Moves(x.req, "api", t, "list", None)
    BY <1>7, <1>8 DEF Moves
<1>10. Tells(x.req)
    BY <1>1 DEF Tells
<1> QED BY <1>1, <1>6, <1>9, <1>10, MovesStep

-----------------------------------------------------------------------------
(* The send thread                                                          *)

LEMMA TakePlaces ==
    ASSUME Types, Types', PlaceInv, Take
    PROVE  PlaceInv'
<1> DEFINE k == FirstTakeable
           x == commands[FirstTakeable]
<1>1. /\ k \in DOMAIN commands /\ x \in Good /\ taken = None /\ taken' = x
      /\ commands' = RemoveAt(commands, k)
      /\ UNCHANGED <<api, connVars, sessVars, appVars>>
      /\ commands \in Seq(Good) /\ Distinct(commands)
    BY TakeWays DEF Types, QueueTypes, PlaceInv
<1>2. /\ \E f : Traces(commands', commands, f)
      /\ \A y \in ToSet(commands') : y \in ToSet(commands) /\ (y.req \in Single => y.req # x.req)
    BY <1>1, TracesRemoved
<1>3. Distinct(commands')
    BY <1>1, <1>2, TracesFacts
<1>4. /\ ApiKept /\ RespKept /\ DiscKept /\ DistinctLists' /\ ListKept
      /\ At("list", None, x) /\ x # None
    <2>1. ApiKept /\ RespKept /\ DiscKept
        BY <1>1 DEF ApiKept, RespKept, DiscKept, connVars, sessVars
    <2>2. DistinctLists'
        BY <1>1, <1>3 DEF DistinctLists, PlaceInv, sessVars
    <2>3. ListKept
        BY <1>2 DEF ListKept, Sub
    <2>4. x \in ToSet(commands) /\ x # None
        BY <1>1, GoodFacts DEF ToSet
    <2> QED BY <2>1, <2>2, <2>3, <2>4 DEF At
<1> HIDE DEF x
<1>5. ASSUME NEW m, NEW a, NEW y, At(m, a, y)', y.req \in Single
      PROVE  \/ \E z : At(m, a, z) /\ Sub(y, z)
             \/ m = "taken" /\ a = None /\ y.req = x.req /\ \E z : At("list", None, z) /\ Sub(y, z)
    <2>1. CASE m = "taken"
        <3>1. a = None /\ y = x
            BY <1>1, <1>5, <2>1 DEF At
        <3>2. Sub(y, x)
            BY <3>1 DEF Sub
        <3> QED BY <1>4, <2>1, <3>1, <3>2
    <2>2. CASE m # "taken"
        BY <1>4, <1>5, <2>2, StaysAt DEF StillAt
    <2> QED BY <2>1, <2>2
<1>6. x.req \in Single => \A y : At("list", None, y)' => y.req # x.req
    <2> SUFFICES ASSUME x.req \in Single, NEW y, At("list", None, y)' PROVE y.req # x.req
        OBVIOUS
    <2>1. y \in ToSet(commands')
        BY DEF At
    <2> QED BY <1>2, <2>1
<1>7. Moves(x.req, "list", None, "taken", None)
    BY <1>5, <1>6 DEF Moves
<1>8. Tells(x.req) /\ unused' \subseteq unused
    BY <1>1 DEF Tells, appVars
<1> QED BY <1>4, <1>7, <1>8, MovesStep

LEMMA ExecConnectPlaces ==
    ASSUME Types, Types', PlaceInv, ExecConnectBusy \/ ExecConnect \/ ExecConnectFails
    PROVE  PlaceInv'
<1>1. /\ UNCHANGED <<api, disconnect, responses, unused>> /\ taken' = None
      /\ taken # None /\ taken.type = "CONNECT"
    BY ExecConnectWays, ExecConnectFailsWays DEF ExecConnectBusy, sessVars, appVars
<1>2. ApiKept /\ TakenKept
    BY <1>1 DEF ApiKept, TakenKept
<1>3. DiscKept
    <2>1. CASE UNCHANGED connect_state
        BY <1>1, <2>1 DEF DiscKept
    <2>2. CASE ExecConnect
        <3>1. PICK s \in {"TCP_IN_PROGRESS", "WAIT_FOR_CONNACK"} :
                  connect_state' = [connect_state EXCEPT ![taken.client] = s]
            BY <2>2, ExecConnectWays
        <3>2. DOMAIN connect_state = Clients
            BY DEF Types, ConnTypes
        <3> QED BY <1>1, <3>1, <3>2 DEF DiscKept
    <2> QED BY <2>1, <2>2, ExecConnectFailsWays DEF ExecConnectBusy
<1>4. ListKept /\ Distinct(commands)'
    <2>1. CASE UNCHANGED commands
        BY <2>1, ListUnchanged DEF PlaceInv
    <2>2. CASE ExecConnectFails
        <3>1. commands' = commands \/ commands' = Inserted(commands, NextTry)
            BY <2>2, ExecConnectFailsWays
        <3>2. NextTry \in HeadCommands /\ NextTry.type = "CONNECT"
            BY <1>1, NextTryFacts DEF Same
        <3> QED BY <2>1, <3>1, <3>2, ConnectRequests, HeadOnList
    <2> QED BY <2>1, <2>2, ExecConnectWays DEF ExecConnectBusy
<1>5. \A r \in Single : told'[r] = told[r]
    <2>1. CASE UNCHANGED told
        BY <2>1
    <2>2. CASE ExecConnectFails
        <3>1. told' = told \/ told' = Tell(told, Callbacks(TriedConnect), "fail")
            BY <2>2, ExecConnectFailsWays
        <3>2. \A r \in Single : r \notin Callbacks(TriedConnect)
            BY <1>1, TriedFacts, ConnectRequests DEF Same
        <3>3. \A r \in Single : r \in Reqs
            BY SingleFacts
        <3> QED BY <3>1, <3>2, <3>3 DEF Tell
    <2> QED BY <2>1, <2>2, ExecConnectWays DEF ExecConnectBusy, appVars
<1> QED BY <1>1, <1>2, <1>3, <1>4, <1>5, StillStep

LEMMA InternalRequests ==
    ASSUME NEW c \in Clients
    PROVE  Internal(c) \in HeadCommands /\ Internal(c).req \notin Single
<1>1. Internal(c).req = None
    BY DEF Internal, Command
<1> QED BY <1>1, NewHeads, SingleFacts

LEMMA ExecDataPlaces ==
    ASSUME Types, Types', PlaceInv, NEW outcome \in {"complete", "interrupted", "error"},
           ExecData(outcome)
    PROVE  PlaceInv'
<1> DEFINE c == taken.client
           x == taken
<1>1. /\ taken # None /\ IsData(taken) /\ taken' = None
      /\ DataComplete(c) \/ DataInterrupted(c) \/ DataError(c)
      /\ UNCHANGED <<api, connVars, unused>>
    BY ExecDataWays
<1>2. x \in DataCommands /\ x \in Good /\ c \in Clients /\ x.req \in Single
    BY <1>1, TakenFacts, SingleFacts
<1>3. /\ At("taken", None, x) /\ \A y : ~At("taken", None, y)'
      /\ Sub(x, x)
    BY <1>1 DEF At, Sub
<1>4. ApiKept /\ TakenKept /\ DiscKept
    BY <1>1 DEF ApiKept, TakenKept, DiscKept, connVars
<1>5. ListKept /\ Distinct(commands)'
    <2>1. commands' = commands \/ commands' = Inserted(commands, Internal(c))
        BY <1>1 DEF DataComplete, DataInterrupted, DataError
    <2>2. CASE commands' = commands
        BY <2>2, ListUnchanged DEF PlaceInv
    <2>3. CASE commands' = Inserted(commands, Internal(c))
        BY <1>2, <2>3, InternalRequests, HeadOnList
    <2> QED BY <2>1, <2>2, <2>3
<1>6. DOMAIN responses = Clients /\ responses[c] \in Seq(DataCommands) /\ responses[c] \in Seq(Good)
    <2>1. DataCommands \subseteq Good
        BY DEF Good
    <2>2. responses[c] \in Seq(DataCommands) /\ DOMAIN responses = Clients
        BY <1>2 DEF Types, SessTypes
    <2> QED BY <2>1, <2>2
<1>7. \A y \in ToSet(responses[c]) : At("resp", c, y)
    BY <1>2 DEF At
<1>8. \A y \in ToSet(responses[c]) : y.req # x.req
    BY <1>2, <1>3, <1>7 DEF PlaceInv
<1>9. responses' = responses \/ responses' = [responses EXCEPT ![c] = Append(responses[c], x)]
    BY <1>1 DEF DataComplete, DataInterrupted, DataError
<1>10. ToSet(Append(responses[c], x)) = ToSet(responses[c]) \cup {x} /\ Distinct(Append(responses[c], x))
    BY <1>2, <1>6, <1>8, DistinctAppend DEF PlaceInv
<1>11. DistinctLists'
    BY <1>2, <1>5, <1>6, <1>9, <1>10 DEF DistinctLists, PlaceInv
<1> HIDE DEF x
<1>12. CASE responses' = [responses EXCEPT ![c] = Append(responses[c], x)] /\ UNCHANGED told
    <2>1. ASSUME NEW m, NEW a, NEW y, At(m, a, y)', y.req \in Single
          PROVE  \/ \E z : At(m, a, z) /\ Sub(y, z)
                 \/ m = "resp" /\ a = c /\ y.req = x.req /\ \E z : At("taken", None, z) /\ Sub(y, z)
        <3>1. CASE m = "resp"
            <4>1. a \in Clients /\ y \in ToSet(responses'[a])
                BY <2>1, <3>1 DEF At
            <4>2. y \in ToSet(responses[a]) \/ (a = c /\ y = x)
                BY <1>6, <1>10, <1>12, <4>1
            <4>3. y \in ToSet(responses[a]) => At("resp", a, y)
                BY <4>1 DEF At
            <4>4. Sub(y, y)
                BY DEF Sub
            <4> QED BY <1>3, <3>1, <4>2, <4>3, <4>4
        <3>2. CASE m # "resp"
            BY <1>4, <1>5, <2>1, <3>2, StaysAt DEF StillAt
        <3> QED BY <3>1, <3>2
    <2>2. Moves(x.req, "taken", None, "resp", c)
        BY <1>3, <2>1 DEF Moves
    <2>3. Tells(x.req)
        BY <1>12 DEF Tells
    <2> QED BY <1>1, <1>11, <2>2, <2>3, MovesStep
<1>13. CASE responses' = responses /\ \E o \in {"ok", "fail"} : told' = Tell(told, Callbacks(x), o)
    <2>1. PICK o \in {"ok", "fail"} : told' = Tell(told, Callbacks(x), o)
        BY <1>13
    <2>2. \A r \in Reqs : /\ r \in Callbacks(x) => told'[r] = Append(told[r], o)
                          /\ r \notin Callbacks(x) => told'[r] = told[r]
                          /\ r \in Callbacks(x) <=> x.cb /\ x.req = r
        BY <2>1, CallbackFacts DEF Tell
    <2>3. ASSUME NEW r \in Single PROVE told'[r] = told[r] \/ AnsweredAt(r, "taken", None)
        <3>1. r \in Reqs
            BY SingleFacts
        <3> QED BY <1>3, <2>2, <3>1 DEF AnsweredAt
    <2>4. RespKept
        BY <1>13 DEF RespKept
    <2> QED BY <1>1, <1>4, <1>5, <1>11, <2>3, <2>4, QuietStep
<1>14. \/ responses' = [responses EXCEPT ![c] = Append(responses[c], x)] /\ UNCHANGED told
       \/ responses' = responses /\ \E o \in {"ok", "fail"} : told' = Tell(told, Callbacks(x), o)
    BY <1>1 DEF DataComplete, DataInterrupted, DataError, x
<1> QED BY <1>12, <1>13, <1>14

(* MQTTAsync_checkDisconnect: x is the command that is reported.             *)
LEMMA DisconnectsPlaces ==
    ASSUME Types, Types', PlaceInv, NEW c \in Clients, NEW x \in HeadCommands, NEW t,
           CloseForDisconnect(c, x, t), \A r \in Single : t[r] = told[r],
           x.type = "DISCONNECT", NEW k, NEW a, At(k, a, x), \A y : ~At(k, a, y)',
           UNCHANGED <<commands, api, unused>>, TakenKept,
           \A d \in Clients \ {c} : disconnect'[d] = disconnect[d]
    PROVE  PlaceInv'
<1> DEFINE T == IF x.internal THEN t ELSE Tell(t, Callbacks(x), "ok")
<1>1. /\ connect_state' = [connect_state EXCEPT ![c] = "NOT_IN_PROGRESS"]
      /\ CleanSession(c, scenario.clean, T)
    BY DEF CloseForDisconnect, CloseOnly
<1>2. ApiKept /\ ListKept /\ Distinct(commands)'
    BY ListUnchanged DEF ApiKept, PlaceInv
<1>3. DiscKept
    <2>1. DOMAIN connect_state = Clients
        BY DEF Types, ConnTypes
    <2> QED BY <1>1, <2>1 DEF DiscKept
<1>4. /\ RespKept /\ DistinctLists'
      /\ \A r \in Single : T[r] = told[r] => told'[r] = told[r] \/ AnsweredAt(r, "resp", c)
      /\ \A r \in Discs : told'[r] = T[r]
    <2> HIDE DEF T
    <2> QED BY <1>1, <1>2, CleanKeeps DEF DistinctLists
<1>5. ASSUME NEW r \in Single PROVE told'[r] = told[r] \/ \E m, b : AnsweredAt(r, m, b)
    <2>0. r \in Reqs
        BY SingleFacts
    <2>1. T[r] = t[r] \/ (T[r] = Append(t[r], "ok") /\ x.cb /\ x.req = r)
        BY <2>0, CallbackFacts DEF Tell
    <2>2. t[r] = told[r]
        OBVIOUS
    <2> HIDE DEF T
    <2>3. CASE T[r] = t[r]
        BY <1>4, <2>2, <2>3
    <2>4. CASE T[r] = Append(t[r], "ok") /\ x.cb /\ x.req = r
        <3>1. r \in Discs
            <4>1. x.req \in Discs \cup {None}
                BY DEF HeadCommands, HeadKind
            <4> QED BY <2>4, <4>1, SingleFacts
        <3>2. told'[r] = Append(told[r], "ok")
            BY <1>4, <2>2, <2>4, <3>1
        <3>3. AnsweredAt(r, k, a)
            BY <2>4, <3>2 DEF AnsweredAt
        <3> QED BY <3>3
    <2> QED BY <2>1, <2>3, <2>4
<1> QED BY <1>2, <1>3, <1>4, <1>5, QuietStep

LEMMA BusyTells ==
    ASSUME Types, NEW c \in Clients
    PROVE  \A r \in Single : ToldBusy(c)[r] = told[r]
<1>1. connect[c] \in HeadCommands /\ connect[c].type = "CONNECT"
    BY DEF Types, ConnTypes, ConnectOK
<1>2. \A r \in Single : r \notin Callbacks(connect[c]) /\ r \in Reqs
    BY <1>1, ConnectRequests, SingleFacts
<1> QED BY <1>2 DEF ToldBusy, Tell

LEMMA ExecDisconnectPlaces ==
    ASSUME Types, Types', PlaceInv, ExecDisconnect
    PROVE  PlaceInv'
<1> DEFINE c == taken.client
           x == taken
<1>1. /\ taken # None /\ taken.type = "DISCONNECT" /\ taken' = None
      /\ disconnect' = [disconnect EXCEPT ![c] = taken]
      /\ \/ CloseForDisconnect(c, taken, ToldBusy(c))
         \/ /\ connect_state' = [connect_state EXCEPT ![c] = "DISCONNECTING"]
            /\ told' = ToldBusy(c)
            /\ UNCHANGED sessVars
         \/ /\ ~Busy(c)
            /\ UNCHANGED <<connect_state, sessVars, told>>
      /\ UNCHANGED <<commands, api, unused>>
    BY ExecDisconnectWays
<1>2. x \in HeadCommands /\ c \in Clients
    BY <1>1, TakenFacts
<1>3. /\ At("taken", None, x) /\ (\A y : ~At("taken", None, y)') /\ Sub(x, x)
    BY <1>1 DEF At, Sub
<1>4. DOMAIN disconnect = Clients /\ DOMAIN connect_state = Clients
    BY DEF Types, ConnTypes, DisconnectOK
<1>5. ApiKept /\ TakenKept /\ ListKept /\ Distinct(commands)'
    BY <1>1, ListUnchanged DEF ApiKept, TakenKept, PlaceInv
<1>6. \A r \in Single : ToldBusy(c)[r] = told[r]
    BY <1>2, BusyTells
<1>7. CASE CloseForDisconnect(c, taken, ToldBusy(c))
    <2>1. \A d \in Clients \ {c} : disconnect'[d] = disconnect[d]
        BY <1>1, <1>4
    <2> QED BY <1>1, <1>2, <1>3, <1>5, <1>6, <1>7, <2>1, DisconnectsPlaces
<1>8. CASE /\ connect_state' = [connect_state EXCEPT ![c] = "DISCONNECTING"]
           /\ told' = ToldBusy(c) /\ UNCHANGED sessVars
    <2>0. RespKept /\ DistinctLists'
        BY <1>5, <1>8 DEF RespKept, DistinctLists, PlaceInv, sessVars
    <2>1. ASSUME NEW m, NEW a, NEW y, At(m, a, y)', y.req \in Single
          PROVE  \/ \E z : At(m, a, z) /\ Sub(y, z)
                 \/ m = "disc" /\ a = c /\ y.req = x.req /\ \E z : At("taken", None, z) /\ Sub(y, z)
        <3>1. CASE m = "disc"
            <4>1. a \in Clients /\ connect_state'[a] = "DISCONNECTING" /\ y = disconnect'[a]
                BY <2>1, <3>1 DEF At
            <4>2. CASE a = c
                <5>1. y = x
                    BY <1>1, <1>2, <1>4, <4>1, <4>2
                <5> QED BY <1>3, <3>1, <4>2, <5>1
            <4>3. CASE a # c
                <5>1. At("disc", a, y)
                    BY <1>1, <1>2, <1>4, <1>8, <4>1, <4>3 DEF At
                <5>2. Sub(y, y)
                    BY DEF Sub
                <5> QED BY <3>1, <5>1, <5>2
            <4> QED BY <4>2, <4>3
        <3>2. CASE m # "disc"
            BY <1>5, <2>0, <2>1, <3>2, StaysAt DEF StillAt
        <3> QED BY <3>1, <3>2
    <2>2. Moves(x.req, "taken", None, "disc", c)
        BY <1>3, <2>1 DEF Moves
    <2>3. Tells(x.req)
        BY <1>6, <1>8 DEF Tells
    <2> QED BY <1>1, <2>0, <2>2, <2>3, MovesStep
<1>9. CASE ~Busy(c) /\ UNCHANGED <<connect_state, sessVars, told>>
    <2>1. DiscKept
        BY <1>1, <1>2, <1>4, <1>9 DEF DiscKept, Busy
    <2> QED BY <1>1, <1>5, <1>9, <2>1, StillStep DEF sessVars
<1> QED BY <1>1, <1>7, <1>8, <1>9

-----------------------------------------------------------------------------
(* The end of a connection, and the receive thread                          *)

LEMMA DisconnectTimeoutPlaces ==
    ASSUME Types, Types', PlaceInv, NEW c \in Clients, DisconnectTimeout(c)
    PROVE  PlaceInv'
<1>1. /\ CloseForDisconnect(c, disconnect[c], told) /\ connect_state[c] = "DISCONNECTING"
      /\ UNCHANGED <<commands, taken, api, unused, disconnect>>
    BY DEF DisconnectTimeout, queueVars
<1>2. disconnect[c] \in HeadCommands /\ disconnect[c].type = "DISCONNECT"
    BY DEF Types, ConnTypes, DisconnectOK
<1>3. At("disc", c, disconnect[c])
    BY <1>1 DEF At
<1>4. connect_state' = [connect_state EXCEPT ![c] = "NOT_IN_PROGRESS"]
    BY <1>1 DEF CloseForDisconnect, CloseOnly
<1>5. connect_state'[c] = "NOT_IN_PROGRESS"
    BY <1>4 DEF Types, ConnTypes
<1>6. \A y : ~At("disc", c, y)'
    BY <1>5 DEF At
<1>7. TakenKept
    BY <1>1 DEF TakenKept
<1> QED BY <1>1, <1>2, <1>3, <1>6, <1>7, DisconnectsPlaces

(* A connect is reported and the session closed, or nothing but the former.  *)
LEMMA EndsPlaces ==
    ASSUME Types, Types', PlaceInv, NEW c \in Clients, NEW cleans, NEW o,
           CleanSession(c, cleans, Tell(told, Callbacks(connect[c]), o)),
           connect_state' = [connect_state EXCEPT ![c] = "NOT_IN_PROGRESS"],
           UNCHANGED <<api, commands, taken, disconnect, unused>>
    PROVE  PlaceInv'
<1>1. ApiKept /\ ListKept /\ TakenKept /\ Distinct(commands)'
    BY ListUnchanged DEF ApiKept, TakenKept, PlaceInv
<1>2. DiscKept
    <2>1. DOMAIN connect_state = Clients
        BY DEF Types, ConnTypes
    <2> QED BY <2>1 DEF DiscKept
<1>3. connect[c] \in HeadCommands /\ connect[c].type = "CONNECT"
    BY DEF Types, ConnTypes, ConnectOK
<1> DEFINE t == Tell(told, Callbacks(connect[c]), o)
<1>4. \A r \in Single : t[r] = told[r]
    <2>1. \A r \in Single : r \notin Callbacks(connect[c]) /\ r \in Reqs
        BY <1>3, ConnectRequests, SingleFacts
    <2> QED BY <2>1 DEF Tell
<1> HIDE DEF t
<1>5. /\ RespKept /\ \A d \in Clients : Distinct(responses'[d])
      /\ \A r \in Single : t[r] = told[r] => told'[r] = told[r] \/ AnsweredAt(r, "resp", c)
    <2>1. CleanSession(c, cleans, t)
        BY DEF t
    <2> QED BY <2>1, CleanKeeps
<1>6. DistinctLists'
    BY <1>1, <1>5 DEF DistinctLists
<1> QED BY <1>1, <1>2, <1>4, <1>5, <1>6, QuietStep

LEMMA ClosesPlaces ==
    ASSUME Types, Types', PlaceInv, NEW c \in Clients, Closes(c)
    PROVE  PlaceInv'
<1>1. PICK was \in BOOLEAN, ended \in BOOLEAN : NextOrClose(c, was, ended)
    <2>1. connected[c] \in BOOLEAN
        BY DEF Types, ConnTypes
    <2> QED BY <2>1, ClosesWays
<1>2. /\ connect_state' = [connect_state EXCEPT ![c] = "NOT_IN_PROGRESS"]
      /\ UNCHANGED <<taken, api, disconnect, unused>>
      /\ \/ /\ commands' = <<NextConnect(connect[c], was)>> \o commands
            /\ UNCHANGED <<sessVars, told>>
         \/ /\ CleanSession(c, scenario.clean, Tell(told, Callbacks(connect[c]), "fail"))
            /\ UNCHANGED commands
    BY <1>1, NextOrCloseWays DEF CloseOnly
<1>3. CASE commands' = <<NextConnect(connect[c], was)>> \o commands /\ UNCHANGED <<sessVars, told>>
    <2>1. connect[c] \in HeadCommands /\ connect[c].type = "CONNECT"
        BY DEF Types, ConnTypes, ConnectOK
    <2>2. NextConnect(connect[c], was) \in HeadCommands /\ NextConnect(connect[c], was).type = "CONNECT"
        BY <2>1, NextConnectFacts DEF Same
    <2>3. ListKept /\ Distinct(commands)'
        BY <1>3, <2>2, ConnectRequests, HeadOnList
    <2>4. DOMAIN connect_state = Clients
        BY DEF Types, ConnTypes
    <2>5. ApiKept /\ TakenKept /\ DiscKept
        BY <1>2, <2>4 DEF ApiKept, TakenKept, DiscKept
    <2> QED BY <1>2, <1>3, <2>3, <2>5, StillStep DEF sessVars
<1>4. CASE /\ CleanSession(c, scenario.clean, Tell(told, Callbacks(connect[c]), "fail"))
           /\ UNCHANGED commands
    BY <1>2, <1>4, EndsPlaces
<1> QED BY <1>2, <1>3, <1>4

LEMMA ConnackPlaces ==
    ASSUME Types, Types', PlaceInv, NEW c \in Clients, NEW present \in BOOLEAN,
           ConnackAccepts(c, present)
    PROVE  PlaceInv'
<1>1. /\ connect_state' = [connect_state EXCEPT ![c] = "NOT_IN_PROGRESS"]
      /\ CleanSession(c, Cleans(present), Tell(told, Callbacks(connect[c]), "ok"))
      /\ UNCHANGED <<api, commands, taken, disconnect, unused>>
    BY DEF ConnackAccepts, queueVars
<1> QED BY <1>1, EndsPlaces

LEMMA ResendPlaces ==
    ASSUME Types, Types', PlaceInv, NEW c \in Clients, ResendFails(c)
    PROVE  PlaceInv'
<1> DEFINE x == NextConnect(connect[c], TRUE)
<1>1. /\ connect_state' = [connect_state EXCEPT ![c] = "NOT_IN_PROGRESS"]
      /\ UNCHANGED <<taken, api, disconnect, unused, responses>>
      /\ commands' = <<x>> \o commands \/ UNCHANGED commands
      /\ told' = Tell(told, Callbacks(connect[c]), "fail")
      /\ x \in HeadCommands /\ Same(x, connect[c])
    BY ResendFailsWays DEF CloseOnly, sessVars
<1>2. connect[c] \in HeadCommands /\ connect[c].type = "CONNECT"
    BY DEF Types, ConnTypes, ConnectOK
<1>3. x.type = "CONNECT"
    BY <1>1, <1>2 DEF Same
<1> HIDE DEF x
<1>4. ListKept /\ Distinct(commands)'
    BY <1>1, <1>3, ConnectRequests, HeadOnList, ListUnchanged DEF PlaceInv
<1>5. ApiKept /\ TakenKept /\ DiscKept
    <2>1. DOMAIN connect_state = Clients
        BY DEF Types, ConnTypes
    <2> QED BY <1>1, <2>1 DEF ApiKept, TakenKept, DiscKept
<1>6. \A r \in Single : told'[r] = told[r]
    <2>1. \A r \in Single : r \notin Callbacks(connect[c]) /\ r \in Reqs
        BY <1>2, ConnectRequests, SingleFacts
    <2> QED BY <1>1, <2>1 DEF Tell
<1> QED BY <1>1, <1>4, <1>5, <1>6, StillStep

LEMMA AgainPlaces ==
    ASSUME Types, Types', PlaceInv, NEW c \in Clients, RetryTimer(c) \/ Reconnect(c)
    PROVE  PlaceInv'
<1>1. /\ UNCHANGED <<api, taken, responses, connect_state, disconnect, told, unused>>
      /\ commands' = commands \/ commands' = Inserted(commands, Again(c))
    BY DEF RetryTimer, Reconnect, Again, sessVars, appVars
<1>2. Again(c) \in HeadCommands /\ Again(c).type = "CONNECT"
    BY AgainFacts DEF Same, Types
<1>3. ListKept /\ Distinct(commands)'
    BY <1>1, <1>2, ConnectRequests, HeadOnList, ListUnchanged DEF PlaceInv
<1>4. ApiKept /\ TakenKept /\ DiscKept
    BY <1>1 DEF ApiKept, TakenKept, DiscKept
<1> QED BY <1>1, <1>3, <1>4, StillStep

LEMMA TransportPlaces ==
    ASSUME Types, Types', PlaceInv, NEW c \in Clients, TransportDone(c)
    PROVE  PlaceInv'
<1>1. /\ UNCHANGED <<api, commands, taken, responses, disconnect, told, unused>>
      /\ connect_state' = [connect_state EXCEPT ![c] = "WAIT_FOR_CONNACK"]
    BY DEF TransportDone, queueVars, sessVars, appVars
<1>2. DOMAIN connect_state = Clients
    BY DEF Types, ConnTypes
<1>3. ApiKept /\ TakenKept /\ DiscKept /\ ListKept /\ Distinct(commands)'
    BY <1>1, <1>2, ListUnchanged DEF ApiKept, TakenKept, DiscKept, PlaceInv
<1> QED BY <1>1, <1>3, StillStep

(* A response, or none, is taken out of the list and reported, or not.       *)
LEMMA RemovesResponse ==
    ASSUME Types, Types', PlaceInv, NEW c \in Clients, NEW I,
           I = {} \/ \E i \in DOMAIN responses[c] : I = {i},
           responses' = [responses EXCEPT ![c] = Without(responses[c], I)],
           \/ UNCHANGED told
           \/ \E o \in {"ok", "fail"} : told' = Tell(told, ReqsOf({responses[c][i] : i \in I}), o),
           UNCHANGED <<api, commands, taken, connect_state, disconnect, unused>>
    PROVE  PlaceInv'
<1>0. responses[c] \in Seq(DataCommands) /\ DOMAIN responses = Clients /\ Distinct(responses[c])
    BY DEF Types, SessTypes, PlaceInv
<1>1. /\ Distinct(Without(responses[c], I))
      /\ \A x \in ToSet(Without(responses[c], I)) :
            x \in ToSet(responses[c]) /\ \A i \in I : x.req # responses[c][i].req
    BY <1>0, DistinctWithout
<1>2. RespKept
    BY <1>0, <1>1 DEF RespKept
<1>3. DistinctLists'
    BY <1>0, <1>1 DEF DistinctLists, PlaceInv
<1>4. ApiKept /\ TakenKept /\ DiscKept /\ ListKept
    BY ListUnchanged DEF ApiKept, TakenKept, DiscKept
<1>5. ASSUME NEW o \in {"ok", "fail"}, NEW r \in Single,
             told' = Tell(told, ReqsOf({responses[c][i] : i \in I}), o)
      PROVE  told'[r] = told[r] \/ AnsweredAt(r, "resp", c)
    <2> DEFINE S == {responses[c][i] : i \in I}
    <2>0. r \in Reqs
        BY SingleFacts
    <2>1. CASE r \in ReqsOf(S)
        <3>0. \E x \in S : x.cb /\ x.req = r
            <4> HIDE DEF S
            <4> QED BY <2>1 DEF ReqsOf
        <3>1. PICK i \in I : responses[c][i].cb /\ responses[c][i].req = r
            BY <3>0
        <3>2. i \in DOMAIN responses[c]
            OBVIOUS
        <3>3. responses[c][i] \in ToSet(responses[c])
            BY <3>2 DEF ToSet
        <3>4. At("resp", c, responses[c][i])
            BY <3>3 DEF At
        <3>5. told'[r] = Append(told[r], o)
            BY <1>5, <2>0, <2>1, TellFacts
        <3>6. \A x : At("resp", c, x)' => x.req # r
            <4> SUFFICES ASSUME NEW x, At("resp", c, x)' PROVE x.req # r
                OBVIOUS
            <4>1. x \in ToSet(responses'[c])
                BY DEF At
            <4> QED BY <1>0, <1>1, <3>1, <4>1
        <3> QED BY <3>1, <3>4, <3>5, <3>6 DEF AnsweredAt
    <2>2. CASE r \notin ReqsOf(S)
        BY <1>5, <2>0, <2>2, TellFacts
    <2> QED BY <2>1, <2>2
<1> QED BY <1>2, <1>3, <1>4, <1>5, QuietStep DEF PlaceInv

LEMMA AnswersPlaces ==
    ASSUME Types, Types', PlaceInv, NEW c \in Clients,
           \/ \E p \in owed[c], outcome \in {"ok", "fail"} : Ack(c, p, outcome)
           \/ WriteDone(c) \/ WriteFails(c)
    PROVE  PlaceInv'
<1>1. ASSUME NEW p \in owed[c], NEW outcome \in {"ok", "fail"}, Ack(c, p, outcome) PROVE PlaceInv'
    <2> DEFINE I == Answered(responses[c], p.tok)
    <2>1. /\ I = {} \/ \E i \in DOMAIN responses[c] : I = {i}
          /\ responses' = [responses EXCEPT ![c] = Without(@, Answered(@, p.tok))]
          /\ told' = Tell(told, ReqsOf(Found(c, p)), outcome)
          /\ UNCHANGED <<queueVars, connVars, unused>>
        BY <1>1, AckWays
    <2>2. Found(c, p) = {responses[c][i] : i \in I}
        BY DEF Found
    <2>3. responses' = [responses EXCEPT ![c] = Without(responses[c], I)]
        BY <2>1
    <2> HIDE DEF I
    <2> QED BY <2>1, <2>2, <2>3, RemovesResponse DEF queueVars, connVars
<1>2. ASSUME NEW i \in DOMAIN responses[c], NEW o \in {"ok", "fail"}, FreesResponse(c, i, o),
             UNCHANGED <<queueVars, connVars, unused>>
      PROVE  PlaceInv'
    <2>1. CASE UNCHANGED <<responses, told>>
        BY <1>2, <2>1, PlacesUnchanged DEF queueVars, connVars
    <2>2. CASE /\ responses' = [responses EXCEPT ![c] = RemoveAt(@, i)]
               /\ told' = told \/ told' = Tell(told, Callbacks(responses[c][i]), o)
        <3>1. responses[c] \in Seq(DataCommands)
            BY DEF Types, SessTypes
        <3>2. Without(responses[c], {i}) = RemoveAt(responses[c], i)
            BY <3>1, WithoutFacts
        <3>3. responses' = [responses EXCEPT ![c] = Without(responses[c], {i})]
            BY <2>2, <3>2
        <3>4. ReqsOf({responses[c][k] : k \in {i}}) = Callbacks(responses[c][i])
            BY DEF Callbacks
        <3> QED BY <1>2, <2>2, <3>3, <3>4, RemovesResponse DEF queueVars, connVars
    <2> QED BY <1>2, <2>1, <2>2 DEF FreesResponse
<1>3. CASE WriteDone(c)
    <2>1. /\ \/ UNCHANGED <<responses, told, misread>>
             \/ \E i \in DOMAIN responses[c] : FreesResponse(c, i, "ok")
          /\ UNCHANGED <<queueVars, connVars, unused>>
        BY <1>3, WriteDoneWays
    <2>2. CASE UNCHANGED <<responses, told>>
        BY <2>1, <2>2, PlacesUnchanged DEF queueVars, connVars
    <2> QED BY <1>2, <2>1, <2>2
<1>4. CASE WriteFails(c)
    <2>1. /\ \/ UNCHANGED <<responses, told, misread>>
             \/ \E i \in DOMAIN responses[c] : FreesResponse(c, i, "fail")
          /\ UNCHANGED <<queueVars, connVars, unused>>
        BY <1>4, WriteFailsWays
    <2>2. CASE UNCHANGED <<responses, told>>
        BY <2>1, <2>2, PlacesUnchanged DEF queueVars, connVars
    <2> QED BY <1>2, <2>1, <2>2
<1> QED BY <1>1, <1>3, <1>4

(* A restart: what is in the list again comes from it, with the callbacks    *)
(* unset.                                                                    *)
RestartKept(q) ==
    /\ \A y \in ToSet(commands') : \E z \in ToSet(q) : Sub(y, z)
    /\ Distinct(q) => DistinctLists'
    /\ ApiKept /\ TakenKept /\ DiscKept /\ RespKept
    /\ \A t, y : ~At("api", t, y)'
    /\ UNCHANGED <<told, unused>>

LEMMA RestartPlaces ==
    ASSUME NEW q, NEW R, FromList(q, R)
    PROVE  RestartKept(q)
<1>0. q \in Seq(Good) /\ RecordsOK(R) /\ StoreOK(q, R, scenario) /\ Restart(R)
    BY DEF FromList
<1>1. /\ taken' = None /\ api' = [t \in Threads |-> None]
      /\ connect_state' = Each("NOT_IN_PROGRESS") /\ responses' = Each(<<>>)
      /\ UNCHANGED <<told, unused>>
    BY <1>0, RestartWays
<1> DEFINE s == commands'
           f == [j \in DOMAIN s |-> Back(q, s[j])]
<1>2. /\ s \in Seq(DataCommands) /\ ToSet(s) = AllRecords(R)
      /\ \A i, j \in DOMAIN s : s[i] = s[j] => i = j
      /\ \A i \in Datas(s) : /\ Back(q, s[i]) \in Datas(q) /\ Blank(q[Back(q, s[i])]) = s[i]
                              /\ Alike(s[i], q[Back(q, s[i])])
    BY <1>0, RestartedList
<1>3. \A j \in DOMAIN s : j \in Datas(s)
    <2>1. \A j \in DOMAIN s : s[j] \in DataCommands
        BY <1>2, SeqFacts
    <2> QED BY <2>1, GoodFacts DEF Datas, Good
<1>4. \A x \in DataCommands : Blank(x).cb = FALSE
    BY DEF DataCommands, Commands, Blank
<1> HIDE DEF s
<1>5. ASSUME NEW j \in DOMAIN s
      PROVE  f[j] \in DOMAIN q /\ Sub(s[j], q[f[j]]) /\ Blank(q[f[j]]) = s[j]
    <2>1. /\ f[j] \in Datas(q) /\ Blank(q[f[j]]) = s[j] /\ s[j].req = q[f[j]].req
        BY <1>2, <1>3 DEF Alike
    <2>2. q[f[j]] \in DataCommands /\ f[j] \in DOMAIN q
        BY <1>0, <2>1, DatasFacts
    <2>3. s[j].cb = FALSE
        BY <1>4, <2>1, <2>2
    <2> QED BY <2>1, <2>2, <2>3 DEF Sub
<1>6. Traces(s, q, f)
    BY <1>2, <1>5 DEF Traces
<1>7. \A y \in ToSet(s) : \E z \in ToSet(q) : Sub(y, z)
    BY <1>5 DEF ToSet
<1> HIDE DEF f
<1>8. Distinct(q) => Distinct(s)
    BY <1>6, TracesFacts
<1>9. \A c \in Clients : responses'[c] = <<>> /\ Distinct(responses'[c])
    BY <1>1 DEF Each, Distinct
<1>10. ApiKept /\ TakenKept /\ DiscKept /\ RespKept
    BY <1>1, <1>9, EmptyToSet DEF ApiKept, TakenKept, DiscKept, RespKept, Each
<1>11. \A t, y : ~At("api", t, y)'
    BY <1>1 DEF At
<1> QED BY <1>1, <1>7, <1>8, <1>9, <1>10, <1>11 DEF RestartKept, DistinctLists, s

LEMMA KillPlaces ==
    ASSUME Types, Types', StoreInv, PlaceInv, Kill
    PROVE  PlaceInv'
<1>1. RestartKept(commands) /\ Distinct(commands)
    BY KillWays, RestartPlaces DEF PlaceInv
<1>2. ListKept /\ DistinctLists'
    BY <1>1 DEF RestartKept, ListKept
<1> QED BY <1>1, <1>2, QuietStep DEF RestartKept

(* The command that was being added is in the list when the clients are back. *)
LEMMA TornPlaces ==
    ASSUME Types, Types', StoreInv, PlaceInv, NEW t \in Threads, KillInAddCommand(t)
    PROVE  PlaceInv'
<1> DEFINE x == api[t]
           q == Longer(x)
<1>1. x \in DataCommands /\ x # None /\ RestartKept(q)
    BY TornWays, RestartPlaces DEF KillInAddCommand
<1>2. At("api", t, x)
    BY <1>1 DEF At
<1>3. \A y \in ToSet(commands) : At("list", None, y)
    BY DEF At
<1>4. x.req \in Single => \A y \in ToSet(commands) : y.req # x.req
    BY <1>2, <1>3 DEF PlaceInv
<1>5. Numbered(x) \in Good /\ Sub(Numbered(x), x) /\ Numbered(x).req = x.req
    BY <1>1, NumberedFacts DEF Sub
<1>6. q \in Seq(Good) /\ Distinct(q) /\ ToSet(q) = ToSet(commands) \cup {Numbered(x)}
    <2>1. commands \in Seq(Good) /\ Distinct(commands)
        BY DEF Types, QueueTypes, PlaceInv
    <2> QED BY <1>4, <1>5, <2>1, DistinctAppend DEF Longer
<1> HIDE DEF x, q
<1>7. ASSUME NEW y \in ToSet(commands')
      PROVE  Sub(y, x) \/ \E z \in ToSet(commands) : Sub(y, z)
    BY <1>1, <1>5, <1>6 DEF RestartKept, Sub
<1>8. ASSUME NEW k, NEW a, NEW y, At(k, a, y)', y.req \in Single
      PROVE  \/ \E z : At(k, a, z) /\ Sub(y, z)
             \/ k = "list" /\ a = None /\ y.req = x.req /\ \E z : At("api", t, z) /\ Sub(y, z)
    <2>1. CASE k = "list"
        <3>1. a = None /\ y \in ToSet(commands')
            BY <1>8, <2>1 DEF At
        <3> QED BY <1>2, <1>3, <1>7, <2>1, <3>1 DEF Sub
    <2>2. CASE k # "list"
        BY <1>1, <1>8, <2>2, StaysAt DEF StillAt, RestartKept
    <2> QED BY <2>1, <2>2
<1>9. Moves(x.req, "api", t, "list", None)
    BY <1>1, <1>8 DEF Moves, RestartKept
<1>10. Tells(x.req) /\ DistinctLists' /\ unused' \subseteq unused
    BY <1>1, <1>6 DEF Tells, RestartKept
<1> QED BY <1>9, <1>10, MovesStep

LEMMA RecreatedList ==
    ASSUME Types, PlaceInv, NEW c \in Clients, NEW S, RecordSet(S, c), Held(S, commands, scenario),
           NEW others, NEW own, NEW g, MovedBy(c, S, others, own, g), commands' = others \o own
    PROVE  /\ ListKept /\ Distinct(commands')
           /\ \A x \in ToSet(commands') : x.cb /\ x.req \in Single =>
                \E y \in ToSet(commands) : y.client # c /\ y.req = x.req
<1> DEFINE s == others \o own
           n == Len(others)
           f == [j \in DOMAIN s |-> IF j <= n THEN g[j] ELSE Back(commands, s[j])]
<1>1. /\ n \in Nat /\ DOMAIN s = 1 .. (n + Len(own)) /\ Len(own) \in Nat
      /\ \A j \in DOMAIN s : \/ j <= n /\ j \in DOMAIN others /\ s[j] = others[j]
                             \/ j > n /\ j - n \in DOMAIN own /\ s[j] = own[j - n]
    BY ConcatFacts, SeqFacts DEF MovedBy
<1>2. \A j \in DOMAIN s : f[j] = IF j <= n THEN g[j] ELSE Back(commands, s[j])
    OBVIOUS
<1>3. commands' = s
    OBVIOUS
<1> HIDE DEF s, n, f
<1>4. ASSUME NEW j \in DOMAIN s, j <= n
      PROVE  /\ j \in DOMAIN others /\ f[j] = g[j] /\ f[j] \in DOMAIN commands
             /\ s[j] = commands[f[j]] /\ commands[f[j]].client # c
    BY <1>1, <1>2, <1>4 DEF MovedBy, OthersOf
<1>5. ASSUME NEW j \in DOMAIN s, ~(j <= n)
      PROVE  /\ f[j] \in DOMAIN commands /\ Blank(commands[f[j]]) = s[j]
             /\ s[j].cb = FALSE /\ s[j].req = commands[f[j]].req
             /\ commands[f[j]].client = c
             /\ j - n \in DOMAIN own /\ s[j] = own[j - n]
    <2>1. j - n \in DOMAIN own /\ s[j] = own[j - n]
        BY <1>1, <1>5
    <2>2. s[j] \in RestoreCommands(S)
        BY <2>1 DEF MovedBy, ToSet
    <2>3. f[j] \in Datas(commands) /\ Blank(commands[f[j]]) = s[j]
        <3>1. commands \in Seq(Good) /\ f[j] = Back(commands, s[j])
            BY <1>2, <1>5 DEF Types, QueueTypes
        <3> QED BY <2>2, <3>1, BackFacts
    <2>4. commands[f[j]] \in Good
        BY <2>3, DatasFacts DEF Types, QueueTypes
    <2>5. \A y \in Good : Blank(y).req = y.req /\ Blank(y).client = y.client
        BY GoodFacts DEF Blank, Commands
    <2>6. s[j].cb = FALSE /\ s[j].client = c
        BY <2>2, RecordFacts
    <2> QED BY <2>1, <2>3, <2>4, <2>5, <2>6 DEF Datas
<1>6. ASSUME NEW i \in DOMAIN s, NEW j \in DOMAIN s, f[i] = f[j] PROVE i = j
    <2>0. i \in Nat /\ j \in Nat
        BY <1>1
    <2>1. CASE i <= n /\ j <= n
        <3>1. g[i] = g[j] /\ i \in DOMAIN others /\ j \in DOMAIN others
            BY <1>4, <1>6, <2>1
        <3>2. g[i] \in Nat
            BY <3>1, SeqFacts DEF MovedBy, OthersOf, Types, QueueTypes
        <3>3. ~(i < j) /\ ~(j < i)
            BY <3>1, <3>2 DEF MovedBy
        <3> QED BY <2>0, <3>3
    <2>2. CASE ~(i <= n) /\ ~(j <= n)
        <3>0. own[i - n] = own[j - n] /\ i - n \in DOMAIN own /\ j - n \in DOMAIN own
            <4>1. s[i] = own[i - n] /\ s[i] = Blank(commands[f[i]]) /\ i - n \in DOMAIN own
                BY <1>5, <2>2
            <4>2. s[j] = own[j - n] /\ s[j] = Blank(commands[f[j]]) /\ j - n \in DOMAIN own
                BY <1>5, <2>2
            <4> QED BY <1>6, <4>1, <4>2
        <3>1. i - n = j - n
            BY <3>0 DEF MovedBy
        <3> QED BY <1>1, <2>0, <3>1
    <2>3. CASE i <= n /\ ~(j <= n)
        BY <1>4, <1>5, <1>6, <2>3
    <2>4. CASE ~(i <= n) /\ j <= n
        BY <1>4, <1>5, <1>6, <2>4
    <2> QED BY <2>1, <2>2, <2>3, <2>4
<1>7. \A j \in DOMAIN s : f[j] \in DOMAIN commands /\ Sub(s[j], commands[f[j]])
    BY <1>4, <1>5 DEF Sub
<1>8. Traces(s, commands, f)
    BY <1>6, <1>7 DEF Traces
<1>9. ListKept /\ Distinct(commands')
    BY <1>3, <1>8, TracesFacts DEF ListKept, PlaceInv
<1>10. ASSUME NEW x \in ToSet(commands'), x.cb
       PROVE  \E y \in ToSet(commands) : y.client # c /\ y.req = x.req
    <2>1. PICK j \in DOMAIN s : x = s[j]
        BY <1>3 DEF ToSet
    <2>2. j <= n
        BY <1>5, <1>10, <2>1
    <2> QED BY <1>4, <2>1, <2>2 DEF ToSet
<1> QED BY <1>9, <1>10

LEMMA RecreatePlaces ==
    ASSUME Types, Types', StoreInv, PlaceInv, NEW c \in Clients, Recreate(c)
    PROVE  PlaceInv'
<1>1. /\ told' = Tell(told, ReqsOf(Freed(c)), "fail")
      /\ responses' = [responses EXCEPT ![c] = <<>>]
      /\ connect_state' = [connect_state EXCEPT ![c] = "NOT_IN_PROGRESS"]
      /\ disconnect' = [disconnect EXCEPT ![c] = Command("DISCONNECT", c, None, 0)]
      /\ UNCHANGED <<taken, api, unused>>
      /\ DOMAIN responses = Clients /\ DOMAIN connect_state = Clients /\ DOMAIN disconnect = Clients
    BY RecreateWays DEF CloseOnly, Types, SessTypes, ConnTypes, DisconnectOK
<1> DEFINE S == store[c]
<1>a. RecordSet(S, c) /\ Held(S, commands, scenario)
    BY StoreRecords, StoreHeld DEF StoreInv
<1>2. PICK others, own, g : commands' = others \o own /\ MovedBy(c, S, others, own, g)
    BY RecreateMoves
<1> HIDE DEF S
<1>3. /\ ListKept /\ Distinct(commands')
      /\ \A x \in ToSet(commands') : x.cb /\ x.req \in Single =>
            \E y \in ToSet(commands) : y.client # c /\ y.req = x.req
    BY <1>2, <1>a, RecreatedList
<1>4. /\ responses'[c] = <<>> /\ ToSet(responses'[c]) = {}
      /\ \A d \in Clients : d # c => responses'[d] = responses[d]
    BY <1>1, EmptyToSet
<1>5. ApiKept /\ TakenKept /\ DiscKept /\ RespKept
    BY <1>1, <1>4 DEF ApiKept, TakenKept, DiscKept, RespKept
<1>6. \A d \in Clients : Distinct(responses'[d])
    BY <1>4 DEF Distinct, PlaceInv
<1>7. ASSUME NEW r \in Single PROVE told'[r] = told[r] \/ \E k, a : AnsweredAt(r, k, a)
    <2>0. r \in Reqs
        BY SingleFacts
    <2>1. CASE r \notin ReqsOf(Freed(c))
        BY <1>1, <2>0, <2>1, TellFacts
    <2>2. CASE r \in ReqsOf(Freed(c))
        <3>1. PICK x \in Freed(c) : x.cb /\ x.req = r
            BY <2>2 DEF ReqsOf
        <3>2. told'[r] = Append(told[r], "fail")
            BY <1>1, <2>0, <2>2, TellFacts
        <3>3. CASE x \in ToSet(commands) /\ x.client = c
            <4>1. At("list", None, x)
                BY <3>3 DEF At
            <4>2. \A y \in ToSet(commands) : y.req = r => y = x
                BY <3>1, <3>3 DEF PlaceInv, Distinct, ToSet
            <4>3. \A y : At("list", None, y)' /\ y.req = r => ~y.cb
                <5> SUFFICES ASSUME NEW y, At("list", None, y)', y.req = r, y.cb PROVE FALSE
                    OBVIOUS
                <5>1. y \in ToSet(commands')
                    BY DEF At
                <5> QED BY <1>3, <3>3, <4>2, <5>1
            <4>4. AnsweredAt(r, "list", None)
                BY <3>1, <3>2, <4>1, <4>3 DEF AnsweredAt
            <4> QED BY <4>4
        <3>4. CASE x \in ToSet(responses[c])
            <4>1. At("resp", c, x)
                BY <3>4 DEF At
            <4>2. \A y : ~At("resp", c, y)'
                BY <1>4 DEF At
            <4>3. AnsweredAt(r, "resp", c)
                BY <3>1, <3>2, <4>1, <4>2 DEF AnsweredAt
            <4> QED BY <4>3
        <3> QED BY <3>1, <3>3, <3>4 DEF Freed
    <2> QED BY <2>1, <2>2
<1>8. DistinctLists'
    BY <1>3, <1>6 DEF DistinctLists
<1> QED BY <1>1, <1>3, <1>5, <1>7, <1>8, QuietStep

LEMMA InitPlaces == Init => PlaceInv
<1> SUFFICES ASSUME Init PROVE PlaceInv
    OBVIOUS
<1>1. ToSet(<<>>) = {}
    BY EmptyToSet
<1>2. /\ commands = <<>> /\ taken = None /\ \A t \in Threads : api[t] = None
      /\ \A c \in Clients : responses[c] = <<>> /\ connect_state[c] # "DISCONNECTING"
      /\ \A r \in Reqs : told[r] = <<>>
    BY DEF Init, Each
<1>3. \A k, a, x : ~At(k, a, x)
    BY <1>1, <1>2 DEF At
<1> QED BY <1>2, <1>3, SingleFacts DEF PlaceInv, Distinct

LEMMA PlaceStep == Types /\ Types' /\ StoreInv /\ PlaceInv /\ [Next]_vars => PlaceInv'
<1> SUFFICES ASSUME Types, Types', StoreInv, PlaceInv, [Next]_vars PROVE PlaceInv'
    OBVIOUS
<1>1. CASE UNCHANGED vars
    BY <1>1, PlacesUnchanged DEF vars, queueVars, connVars, sessVars, appVars
<1>2. CASE Next
    <2>0. \A c \in scenario.clients : c \in Clients
        BY ScenarioFacts DEF Types
    <2>1. CASE \E t \in Threads : AddCommand(t)
        BY <2>1, AddPlaces
    <2>2. CASE \E t \in Threads, c \in scenario.clients :
                \/ \E r \in Pubs : Send(t, c, r) \/ SendRefused(t, c, r)
                \/ \E r \in Subs : Subscribe(t, c, r)
                \/ \E r \in Conns : Connect(t, c, r)
                \/ \E r \in Discs : Disconnect(t, c, r)
        BY <2>2, CallsPlaces
    <2>3. CASE Take \/ ExecConnectBusy \/ ExecConnect \/ ExecConnectFails
        BY <2>3, TakePlaces, ExecConnectPlaces
    <2>4. CASE \E outcome \in {"complete", "interrupted", "error"} : ExecData(outcome)
        BY <2>4, ExecDataPlaces
    <2>5. CASE ExecDisconnect
        BY <2>5, ExecDisconnectPlaces
    <2>6. ASSUME NEW c \in Clients,
                 \/ DisconnectTimeout(c) \/ RetryTimer(c) \/ Closes(c) \/ TransportDone(c)
                 \/ \E present \in BOOLEAN : ConnackAccepts(c, present)
                 \/ ResendFails(c)
                 \/ \E p \in owed[c], outcome \in {"ok", "fail"} : Ack(c, p, outcome)
                 \/ WriteDone(c) \/ WriteFails(c)
          PROVE  PlaceInv'
        BY <2>6, DisconnectTimeoutPlaces, AgainPlaces, ClosesPlaces, TransportPlaces, ConnackPlaces,
           ResendPlaces, AnswersPlaces
    <2>7. ASSUME NEW c \in scenario.clients, Reconnect(c) \/ Recreate(c) PROVE PlaceInv'
        BY <2>0, <2>7, AgainPlaces, RecreatePlaces
    <2>8. ASSUME NEW c \in scenario.clients, Break(c) PROVE PlaceInv'
        BY <2>8, PlacesUnchanged DEF Break, queueVars, connVars, sessVars, appVars
    <2>9. CASE Kill
        BY <2>9, KillPlaces
    <2>10. ASSUME NEW t \in Threads, KillInAddCommand(t) PROVE PlaceInv'
        BY <2>10, TornPlaces
    <2> QED BY <1>2, <2>1, <2>2, <2>3, <2>4, <2>5, <2>6, <2>7, <2>8, <2>9, <2>10, Steps
<1> QED BY <1>1, <1>2

LEMMA AlwaysPlaces == Spec => []PlaceInv
<1>1. Types /\ StoreInv /\ PlaceInv /\ Types' /\ [Next]_vars => PlaceInv'
    BY PlaceStep
<1>2. Types /\ QueueInv => StoreInv
    BY DEF QueueInv
<1> QED BY <1>1, <1>2, InitPlaces, AlwaysQueue, AlwaysTypes, PTL DEF Spec

-----------------------------------------------------------------------------
(* Callbacks of a connect                                                   *)

(* The list has at most one CONNECT of a client.                             *)
Lone(q, c) == \A i, j \in DOMAIN q : IsConnectOf(q[i], c) /\ IsConnectOf(q[j], c) => i = j
NotIn(q, c) == \A x \in ToSet(q) : ~IsConnectOf(x, c)

AtMostOneConnect(c) ==
    /\ Lone(commands, c)
    /\ \A t, u \in Threads : IsConnectOf(api[t], c) /\ IsConnectOf(api[u], c) => t = u
    /\ IsConnectOf(taken, c) => NotIn(commands, c)
    /\ \A t \in Threads : IsConnectOf(api[t], c) => ~IsConnectOf(taken, c) /\ NotIn(commands, c)

(* m->connect has the callbacks of a connect that is not answered: it is     *)
(* queued, once at most, or the attempt is under way.                        *)
Awaits(c) ==
    /\ ~connected[c] /\ ~retrying[c] /\ connect_state[c] # "DISCONNECTING"
    /\ told[connect[c].req] = <<>> /\ connect[c].req \notin unused
    /\ Busy(c) => \A x \in Queued : ~IsConnectOf(x, c)
    /\ AtMostOneConnect(c)

ConnectOfOK(c) ==
    /\ \A x \in Queued : IsConnectOf(x, c) /\ x.cb => connect[c].cb /\ connect[c].req = x.req
    /\ connect[c].cb => Awaits(c)

ConnectsOK ==
    /\ \A c \in Clients : ConnectOfOK(c)
    /\ \A c, d \in Clients :
         connect[c].cb /\ connect[d].cb /\ connect[c].req = connect[d].req => c = d
    /\ \A r \in Conns : Len(told[r]) <= 1 /\ (r \in unused => told[r] = <<>>)

(* The exceptions of ConnectAnsweredOnce are left out.                       *)
Undoubled == Unspent("dial") /\ (Unspent("resend") \/ scenario.uris <= 1)

ConnectInv == Undoubled => ConnectsOK

(* Lists with no new CONNECT of a client.                                    *)
FewerIn(s, q, c) ==
    /\ \A x \in ToSet(s) : IsConnectOf(x, c) => x \in ToSet(q)
    /\ Lone(q, c) => Lone(s, c)

LEMMA FewerFacts ==
    /\ \A q, c : FewerIn(q, q, c)
    /\ \A s, q, u, c : FewerIn(s, q, c) /\ FewerIn(q, u, c) => FewerIn(s, u, c)
BY DEF FewerIn

LEMMA ConsLone ==
    ASSUME NEW q \in Seq(Good), NEW x \in Good, NEW c
    PROVE  /\ ~IsConnectOf(x, c) => FewerIn(<<x>> \o q, q, c)
           /\ NotIn(q, c) => Lone(<<x>> \o q, c)
<1> DEFINE s == <<x>> \o q
<1>1. /\ s[1] = x /\ DOMAIN s \subseteq Nat
      /\ \A k \in DOMAIN s : k # 1 => k - 1 \in DOMAIN q /\ s[k] = q[k - 1]
      /\ ToSet(s) = ToSet(q) \cup {x}
    <2>1. Len(q) \in Nat
        BY SeqFacts
    <2> QED BY <2>1, ConsFacts
<1> HIDE DEF s
<1>2. ASSUME ~IsConnectOf(x, c), Lone(q, c), NEW i \in DOMAIN s, NEW j \in DOMAIN s,
             IsConnectOf(s[i], c), IsConnectOf(s[j], c)
      PROVE  i = j
    <2>1. i - 1 = j - 1
        BY <1>1, <1>2 DEF Lone
    <2> QED BY <1>1, <2>1
<1>3. ASSUME NotIn(q, c), NEW i \in DOMAIN s, IsConnectOf(s[i], c) PROVE i = 1
    BY <1>1, <1>3 DEF NotIn, ToSet
<1>4. ~IsConnectOf(x, c) => FewerIn(s, q, c)
    BY <1>1, <1>2 DEF FewerIn, Lone
<1>5. NotIn(q, c) => Lone(s, c)
    BY <1>3 DEF Lone
<1> QED BY <1>4, <1>5 DEF s

LEMMA AppendLone ==
    ASSUME NEW q \in Seq(Good), NEW x \in Good, NEW c, ~IsConnectOf(x, c)
    PROVE  FewerIn(Append(q, x), q, c)
<1> DEFINE s == Append(q, x)
<1>1. ToSet(s) = ToSet(q) \cup {x}
    BY AppendToSet
<1>2. Len(q) \in Nat /\ DOMAIN q = 1 .. Len(q)
    BY SeqFacts
<1>3. /\ DOMAIN s = 1 .. (Len(q) + 1) /\ s[Len(q) + 1] = x
      /\ \A k \in DOMAIN q : s[k] = q[k]
    BY AppendFacts
<1> HIDE DEF s
<1>4. \A i \in DOMAIN s : IsConnectOf(s[i], c) => i \in DOMAIN q /\ s[i] = q[i]
    BY <1>2, <1>3
<1>5. FewerIn(s, q, c)
    BY <1>1, <1>4 DEF FewerIn, Lone
<1> QED BY <1>5 DEF s

LEMMA RemoveAtLone ==
    ASSUME NEW q \in Seq(Good), NEW k \in DOMAIN q, NEW c
    PROVE  /\ FewerIn(RemoveAt(q, k), q, c)
           /\ Lone(q, c) /\ IsConnectOf(q[k], c) => NotIn(RemoveAt(q, k), c)
<1> DEFINE s == RemoveAt(q, k)
<1>1. /\ \A j \in DOMAIN s : Shift(k, j) \in DOMAIN q \ {k} /\ s[j] = q[Shift(k, j)]
      /\ \A i, j \in DOMAIN s : i # j => Shift(k, i) # Shift(k, j)
    BY RemoveAtShift
<1>2. ToSet(s) = {q[i] : i \in DOMAIN q \ {k}}
    BY RemoveAtSet
<1> HIDE DEF s
<1>3. Lone(q, c) => Lone(s, c)
    BY <1>1 DEF Lone
<1>4. \A x \in ToSet(s) : x \in ToSet(q)
    BY <1>2 DEF ToSet
<1>5. Lone(q, c) /\ IsConnectOf(q[k], c) => NotIn(s, c)
    BY <1>2 DEF Lone, NotIn
<1> QED BY <1>3, <1>4, <1>5 DEF FewerIn, s

(* Steps that leave a client's connect alone.                                *)
KeepsConnects(c) ==
    /\ \A x \in Queued' : IsConnectOf(x, c) => x \in Queued
    /\ AtMostOneConnect(c) => AtMostOneConnect(c)'
Calm(c) ==
    /\ connect'[c] = connect[c] /\ connected'[c] = connected[c] /\ retrying'[c] = retrying[c]
    /\ connect_state'[c] = connect_state[c]
    /\ KeepsConnects(c)
Tells0 == \A r \in Conns : told'[r] = told[r]

LEMMA QueueCalm ==
    ASSUME ApiKept, TakenKept, NEW c, FewerIn(commands', commands, c)
    PROVE  KeepsConnects(c)
<1>1. \A x \in Queued' : IsConnectOf(x, c) => x \in Queued
    BY DEF Queued, ApiKept, TakenKept, FewerIn
<1>2. \A t \in Threads : IsConnectOf(api'[t], c) => api'[t] = api[t]
    BY DEF ApiKept, IsConnectOf, IsConnect
<1>3. IsConnectOf(taken', c) => taken' = taken
    BY DEF TakenKept, IsConnectOf, IsConnect
<1>4. NotIn(commands, c) => NotIn(commands', c)
    BY DEF FewerIn, NotIn
<1>5. AtMostOneConnect(c) => AtMostOneConnect(c)'
    BY <1>2, <1>3, <1>4 DEF AtMostOneConnect, FewerIn
<1> QED BY <1>1, <1>5 DEF KeepsConnects

LEMMA ConnectRequest ==
    ASSUME Types, NEW c \in Clients
    PROVE  /\ connect[c] \in HeadCommands /\ connect[c].type = "CONNECT"
           /\ connect[c].cb => connect[c].req \in Conns
           /\ connect[c].cb \in BOOLEAN
BY DisjointRequests DEF Types, ConnTypes, ConnectOK, HeadCommands, HeadKind, Commands

LEMMA CalmOne ==
    ASSUME Types, NEW c \in Clients, ConnectOfOK(c), Calm(c), unused' \subseteq unused,
           connect[c].cb => told'[connect[c].req] = told[connect[c].req]
    PROVE  ConnectOfOK(c)'
<1>1. \A x \in Queued' : IsConnectOf(x, c) => x \in Queued
    BY DEF Calm, KeepsConnects
<1>2. ASSUME connect'[c].cb PROVE Awaits(c)'
    BY <1>1, <1>2 DEF Calm, KeepsConnects, ConnectOfOK, Awaits, Busy
<1> QED BY <1>1, <1>2 DEF ConnectOfOK, Calm

LEMMA CalmStep ==
    ASSUME Types, ConnectsOK, \A c \in Clients : Calm(c), unused' \subseteq unused, Tells0
    PROVE  ConnectsOK'
<1>1. ASSUME NEW c \in Clients PROVE ConnectOfOK(c)'
    BY ConnectRequest, CalmOne DEF ConnectsOK, Tells0
<1> QED BY <1>1 DEF ConnectsOK, Calm, Tells0

(* Steps about the connect of one client: it is answered, or not.            *)
Answers(c, r) ==
    connect[c].cb /\ connect[c].req = r /\ \E o \in {"ok", "fail"} : told'[r] = Append(told[r], o)

LEMMA ConnectsStep ==
    ASSUME Types, Types', ConnectsOK, NEW c \in Clients, \A d \in Clients : d # c => Calm(d),
           ConnectOfOK(c)', unused' \subseteq unused,
           \A r \in Conns : told'[r] = told[r] \/ Answers(c, r),
           connect'[c].cb => \/ connect[c].cb /\ connect'[c].req = connect[c].req
                             \/ connect'[c].req \in unused
    PROVE  ConnectsOK'
<1>1. ASSUME NEW d \in Clients, d # c PROVE ConnectOfOK(d)'
    <2>1. connect[d].cb => told'[connect[d].req] = told[connect[d].req]
        BY <1>1, ConnectRequest DEF ConnectsOK, Answers
    <2> QED BY <1>1, <2>1, CalmOne DEF ConnectsOK
<1>2. ASSUME NEW d \in Clients, d # c, connect'[d].cb, connect'[c].cb PROVE connect'[c].req # connect'[d].req
    <2>1. connect[d].cb /\ connect'[d].req = connect[d].req /\ connect[d].req \notin unused
        BY <1>2 DEF Calm, ConnectsOK, ConnectOfOK, Awaits
    <2> QED BY <1>2, <2>1 DEF ConnectsOK
<1>3. ASSUME NEW d \in Clients, NEW e \in Clients, connect'[d].cb, connect'[e].cb,
             connect'[d].req = connect'[e].req
      PROVE  d = e
    BY <1>2, <1>3 DEF Calm, ConnectsOK
<1>4. ASSUME NEW r \in Conns PROVE Len(told'[r]) <= 1 /\ (r \in unused' => told'[r] = <<>>)
    <2>1. CASE told'[r] = told[r]
        BY <2>1 DEF ConnectsOK
    <2>2. CASE Answers(c, r)
        <3>1. told[r] = <<>> /\ r \notin unused
            BY <2>2 DEF Answers, ConnectsOK, ConnectOfOK, Awaits
        <3>2. Len(told'[r]) = 1
            BY <2>2, <3>1 DEF Answers
        <3> QED BY <3>1, <3>2
    <2> QED BY <2>1, <2>2
<1> QED BY <1>1, <1>3, <1>4 DEF ConnectsOK

-----------------------------------------------------------------------------
(* Callbacks of a connect: the steps                                        *)

LEMMA NewCallCalm ==
    ASSUME Types, NEW t \in Threads, NEW x, ~IsConnect(x), api' = [api EXCEPT ![t] = x],
           UNCHANGED <<commands, taken>>
    PROVE  \A c : KeepsConnects(c)
<1>0. DOMAIN api = Threads
    BY DEF Types, QueueTypes
<1>1. \A u \in Threads : api'[u] = api[u] \/ (u = t /\ api'[u] = x)
    BY <1>0
<1>2. \A c, y : y \in Queued' /\ IsConnectOf(y, c) => y \in Queued
    BY <1>1 DEF Queued, IsConnectOf
<1>3. ASSUME NEW c, AtMostOneConnect(c) PROVE AtMostOneConnect(c)'
    <2>1. \A u \in Threads : IsConnectOf(api'[u], c) => api'[u] = api[u]
        BY <1>1 DEF IsConnectOf
    <2> QED BY <1>3, <2>1 DEF AtMostOneConnect, Lone, NotIn
<1> QED BY <1>2, <1>3 DEF KeepsConnects

(* Nothing about a connect changes.                                          *)
LEMMA QuietConnects ==
    ASSUME Types, ConnectsOK, ApiKept, TakenKept, \A c \in Clients : FewerIn(commands', commands, c),
           UNCHANGED <<connect, connected, retrying, connect_state>>,
           unused' \subseteq unused, Tells0
    PROVE  ConnectsOK'
<1>1. \A c \in Clients : KeepsConnects(c)
    BY QueueCalm
<1>2. \A c \in Clients : Calm(c)
    BY <1>1 DEF Calm
<1> QED BY <1>2, CalmStep

LEMMA CallConnects ==
    ASSUME Types, ConnectsOK, NEW t \in Threads, NEW x, ~IsConnect(x), api' = [api EXCEPT ![t] = x],
           UNCHANGED <<commands, taken, connect, connected, retrying, connect_state, told>>,
           unused' \subseteq unused
    PROVE  ConnectsOK'
<1>1. \A c \in Clients : Calm(c)
    BY NewCallCalm DEF Calm
<1> QED BY <1>1, CalmStep DEF Tells0

(* MQTTAsync_connect.                                                        *)
LEMMA ConnectConnects ==
    ASSUME Types, Types', ConnectsOK, NEW t \in Threads, NEW c \in Clients, NEW r \in Conns,
           Connect(t, c, r)
    PROVE  ConnectsOK'
<1> DEFINE x == Command("CONNECT", c, r, 0)
<1>1. /\ Idle(c) /\ api[t] = None /\ r \in unused /\ unused' = unused \ {r}
      /\ api' = [api EXCEPT ![t] = x] /\ DOMAIN api = Threads
      /\ connect' = [connect EXCEPT ![c].req = r, ![c].cb = TRUE]
      /\ UNCHANGED <<commands, taken, connected, connect_state, retrying, told>>
    BY DEF Connect, Call, Types, QueueTypes
<1>2. x.client = c /\ x.type = "CONNECT" /\ x.req = r
    BY DEF Command
<1> HIDE DEF x
<1>3. /\ connect'[c].req = r /\ connect'[c].cb /\ \A d \in Clients : d # c => connect'[d] = connect[d]
    <2>1. connect' = [connect EXCEPT ![c] = Requested(connect[c], r)]
        BY <1>1, ConnectRequested DEF Types, ConnTypes
    <2>2. Requested(connect[c], r).req = r /\ Requested(connect[c], r).cb = TRUE
        BY RequestConnect, ConnectRequest
    <2>3. DOMAIN connect = Clients
        BY DEF Types, ConnTypes, ConnectOK
    <2> QED BY <2>1, <2>2, <2>3
<1>4. \A u \in Threads : api'[u] = api[u] \/ (u = t /\ api'[u] = x)
    BY <1>1
<1>5. \A y \in Queued : ~IsConnectOf(y, c)
    BY <1>1 DEF Idle, ConnectQueued, IsConnectOf, IsConnect, Queued
<1>6. NotIn(commands, c) /\ ~IsConnectOf(taken, c) /\ \A u \in Threads : ~IsConnectOf(api[u], c)
    BY <1>1 DEF Idle, ConnectQueued, IsConnectOf, IsConnect, NotIn
<1>7. ASSUME NEW d \in Clients, d # c PROVE Calm(d)
    <2>1. \A u \in Threads : IsConnectOf(api'[u], d) => api'[u] = api[u]
        BY <1>2, <1>4, <1>7 DEF IsConnectOf
    <2>2. \A y : y \in Queued' /\ IsConnectOf(y, d) => y \in Queued
        BY <1>1, <2>1 DEF Queued
    <2>3. AtMostOneConnect(d) => AtMostOneConnect(d)'
        BY <1>1, <2>1 DEF AtMostOneConnect, Lone, NotIn
    <2> QED BY <1>1, <1>3, <1>7, <2>2, <2>3 DEF Calm, KeepsConnects
<1>8. ConnectOfOK(c)'
    <2>1. \A y \in Queued' : IsConnectOf(y, c) => y = x
        <3> SUFFICES ASSUME NEW y \in Queued', IsConnectOf(y, c), y # x PROVE FALSE
            OBVIOUS
        <3>1. y \in ToSet(commands) \/ y = taken \/ \E u \in Threads : y = api[u]
            BY <1>1, <1>4 DEF Queued
        <3> QED BY <1>6, <3>1 DEF NotIn
    <2>2. told'[r] = <<>> /\ r \notin unused'
        BY <1>1 DEF ConnectsOK
    <2>3. \A u \in Threads : IsConnectOf(api'[u], c) => u = t
        BY <1>4, <1>6
    <2>4. AtMostOneConnect(c)'
        BY <1>1, <1>6, <2>3 DEF AtMostOneConnect, NotIn, Lone, ToSet
    <2>5. Awaits(c)'
        BY <1>1, <1>3, <2>2, <2>4 DEF Awaits, Idle, Busy
    <2> QED BY <1>2, <1>3, <2>1, <2>5 DEF ConnectOfOK
<1> QED BY <1>1, <1>3, <1>7, <1>8, ConnectsStep

LEMMA CallsConnects ==
    ASSUME Types, Types', ConnectsOK, NEW t \in Threads, NEW c \in Clients,
           \/ \E r \in Pubs : Send(t, c, r) \/ SendRefused(t, c, r)
           \/ \E r \in Subs : Subscribe(t, c, r)
           \/ \E r \in Conns : Connect(t, c, r)
           \/ \E r \in Discs : Disconnect(t, c, r)
    PROVE  ConnectsOK'
<1>0. \A r, tok : /\ ~IsConnect(Command("PUBLISH", c, r, tok))
                  /\ ~IsConnect(Command("SUBSCRIBE", c, r, tok))
                  /\ ~IsConnect(Command("DISCONNECT", c, r, tok))
    BY DEF Command, IsConnect
<1>1. ASSUME NEW r \in Pubs, Send(t, c, r) PROVE ConnectsOK'
    <2>1. /\ \E x : ~IsConnect(x) /\ api' = [api EXCEPT ![t] = x]
          /\ UNCHANGED <<commands, taken, connect, connected, retrying, connect_state, told>>
          /\ unused' \subseteq unused
        BY <1>0, <1>1 DEF Send, Call, connVars
    <2> QED BY <2>1, CallConnects
<1>2. ASSUME NEW r \in Pubs, SendRefused(t, c, r) PROVE ConnectsOK'
    BY <1>2, QuietConnects, FewerFacts
       DEF SendRefused, queueVars, connVars, ApiKept, TakenKept, Tells0
<1>3. ASSUME NEW r \in Subs, Subscribe(t, c, r) PROVE ConnectsOK'
    <2>1. /\ \E x : ~IsConnect(x) /\ api' = [api EXCEPT ![t] = x]
          /\ UNCHANGED <<commands, taken, connect, connected, retrying, connect_state, told>>
          /\ unused' \subseteq unused
        BY <1>0, <1>3 DEF Subscribe, Call, connVars
    <2> QED BY <2>1, CallConnects
<1>5. ASSUME NEW r \in Discs, Disconnect(t, c, r) PROVE ConnectsOK'
    <2>1. /\ UNCHANGED <<commands, taken, connect, connected, retrying, connect_state, told>>
          /\ unused' \subseteq unused
          /\ \/ UNCHANGED api
             \/ \E x : ~IsConnect(x) /\ api' = [api EXCEPT ![t] = x]
        BY <1>0, <1>5 DEF Disconnect, Call
    <2>2. CASE UNCHANGED api
        BY <2>1, <2>2, QuietConnects, FewerFacts DEF ApiKept, TakenKept, Tells0
    <2> QED BY <2>1, <2>2, CallConnects
<1> QED BY <1>1, <1>2, <1>3, <1>5, ConnectConnects

(* MQTTAsync_addCommand: a CONNECT goes to the head of the list, or nowhere. *)
LEMMA AddedConnects ==
    ASSUME Types, NEW x \in Good, AddHead(x) \/ AddDisconnect(x) \/ AddData(x), NEW c
    PROVE  IF IsConnectOf(x, c)
           THEN /\ \A y \in ToSet(commands') : y \in ToSet(commands) \/ y = x
                /\ NotIn(commands, c) => Lone(commands', c)
           ELSE FewerIn(commands', commands, c)
<1>0. commands \in Seq(Good)
    BY DEF Types, QueueTypes
<1>1. CASE AddHead(x)
    <2>1. commands' = commands \/ commands' = <<x>> \o commands
        BY <1>1 DEF AddHead, Inserted
    <2>2. CASE commands' = commands
        BY <2>2, FewerFacts DEF NotIn, Lone, ToSet
    <2>3. CASE commands' = <<x>> \o commands
        <3>1. ToSet(commands') = ToSet(commands) \cup {x}
            BY <1>0, <2>3, ConsFacts
        <3> QED BY <1>0, <2>3, <3>1, ConsLone
    <2> QED BY <2>1, <2>2, <2>3
<1>2. CASE AddDisconnect(x)
    <2>1. commands' = Append(commands, x) /\ ~IsConnectOf(x, c)
        BY <1>2 DEF AddDisconnect, IsConnectOf, IsConnect
    <2> QED BY <1>0, <2>1, AppendLone
<1>3. CASE AddData(x)
    <2> DEFINE q == Longer(x)
    <2>1. x \in DataCommands /\ ~IsConnectOf(x, c) /\ x.type # "CONNECT"
        BY <1>3, GoodFacts DEF AddData, IsConnectOf, IsConnect, IsData
    <2>2. Numbered(x) \in Good /\ ~IsConnectOf(Numbered(x), c)
        BY <2>1, NumberedFacts DEF IsConnectOf, IsConnect
    <2>3. q \in Seq(Good) /\ FewerIn(q, commands, c)
        BY <1>0, <2>2, AppendLone, AppendToSet DEF Longer
    <2>4. commands' = q \/ \E k \in DOMAIN q : commands' = RemoveAt(q, k)
        <3> DEFINE o == OldestPublish(q, x.client)
        <3>1. commands' = q \/ (x.type = "PUBLISH" /\ Full(x.client) /\ commands' = RemoveAt(q, o))
            BY <1>3 DEF AddData, Longer
        <3>2. x.type = "PUBLISH" /\ Full(x.client) => o \in DOMAIN q
            BY <1>3, <2>1, AddDataFacts DEF Longer
        <3> QED BY <3>1, <3>2
    <2> HIDE DEF q
    <2>5. FewerIn(commands', q, c)
        BY <2>3, <2>4, FewerFacts, RemoveAtLone
    <2>6. FewerIn(commands', commands, c)
        BY <2>3, <2>5, FewerFacts
    <2> QED BY <2>1, <2>6
<1> QED BY <1>1, <1>2, <1>3

LEMMA AddConnects ==
    ASSUME Types, ConnectsOK, NEW t \in Threads, AddCommand(t)
    PROVE  ConnectsOK'
<1> DEFINE x == api[t]
<1>1. /\ x \in Good /\ x # None /\ DOMAIN api = Threads
      /\ api' = [api EXCEPT ![t] = None]
      /\ UNCHANGED <<taken, connVars, unused, told>>
      /\ AddHead(x) \/ AddDisconnect(x) \/ AddData(x)
    BY AddCommandWays DEF AddCommand, Types, QueueTypes
<1>2. ApiKept /\ TakenKept
    BY <1>1 DEF ApiKept, TakenKept
<1>3. ASSUME NEW c \in Clients PROVE KeepsConnects(c)
    <2>1. CASE ~IsConnectOf(x, c)
        <3>1. FewerIn(commands', commands, c)
            BY <1>1, <2>1, AddedConnects
        <3> QED BY <1>2, <3>1, QueueCalm
    <2>2. CASE IsConnectOf(x, c)
        <3>1. /\ \A y \in ToSet(commands') : y \in ToSet(commands) \/ y = x
              /\ NotIn(commands, c) => Lone(commands', c)
            BY <1>1, <2>2, AddedConnects
        <3>2. \A y \in Queued' : y \in Queued
            <4>1. x \in Queued
                BY <1>1 DEF Queued
            <4> QED BY <1>2, <3>1, <4>1 DEF Queued, ApiKept, TakenKept
        <3>3. ASSUME AtMostOneConnect(c) PROVE AtMostOneConnect(c)'
            <4>1. NotIn(commands, c) /\ ~IsConnectOf(taken, c)
                BY <2>2, <3>3 DEF AtMostOneConnect
            <4>2. \A u \in Threads : ~IsConnectOf(api'[u], c)
                BY <1>1, <2>2, <3>3 DEF AtMostOneConnect, IsConnectOf, IsConnect
            <4> QED BY <1>1, <3>1, <4>1, <4>2 DEF AtMostOneConnect
        <3> QED BY <3>2, <3>3 DEF KeepsConnects
    <2> QED BY <2>1, <2>2
<1>4. \A c \in Clients : Calm(c)
    BY <1>1, <1>3 DEF Calm, connVars
<1> QED BY <1>1, <1>4, CalmStep DEF Tells0

LEMMA TakeConnects ==
    ASSUME Types, ConnectsOK, Take
    PROVE  ConnectsOK'
<1> DEFINE k == FirstTakeable
<1>1. /\ k \in DOMAIN commands /\ taken = None /\ taken' = commands[k]
      /\ commands' = RemoveAt(commands, k)
      /\ UNCHANGED <<api, connVars, sessVars, appVars>>
      /\ commands \in Seq(Good)
    BY TakeWays DEF Types, QueueTypes
<1> HIDE DEF k
<1>2. commands[k] \in ToSet(commands)
    BY <1>1 DEF ToSet
<1>3. ASSUME NEW c \in Clients PROVE KeepsConnects(c)
    <2>1. /\ FewerIn(commands', commands, c)
          /\ Lone(commands, c) /\ IsConnectOf(commands[k], c) => NotIn(commands', c)
        BY <1>1, RemoveAtLone
    <2>2. \A x \in Queued' : IsConnectOf(x, c) => x \in Queued
        BY <1>1, <1>2, <2>1 DEF Queued, FewerIn
    <2>3. ASSUME AtMostOneConnect(c) PROVE AtMostOneConnect(c)'
        <3>1. \A t \in Threads : IsConnectOf(api[t], c) => ~IsConnectOf(commands[k], c) /\ NotIn(commands', c)
            BY <1>2, <2>1, <2>3 DEF AtMostOneConnect, NotIn, FewerIn
        <3> QED BY <1>1, <2>1, <2>3, <3>1 DEF AtMostOneConnect, FewerIn
    <2> QED BY <2>2, <2>3 DEF KeepsConnects
<1>4. \A c \in Clients : Calm(c)
    BY <1>1, <1>3 DEF Calm, connVars
<1> QED BY <1>1, <1>4, CalmStep DEF Tells0, appVars

(* The attempt of a client whose connect is executed.                        *)
LEMMA ExecutedConnect ==
    ASSUME Types, ConnectsOK, taken # None, taken.type = "CONNECT", taken' = None,
           UNCHANGED <<commands, api>>, NEW c, c = taken.client
    PROVE  /\ c \in Clients /\ taken \in HeadCommands
           /\ \A d : KeepsConnects(d)
           /\ taken.cb => connect[c].cb /\ connect[c].req = taken.req
           /\ connect[c].cb => /\ ~Busy(c) /\ ~connected[c]
                               /\ \A x \in Queued' : ~IsConnectOf(x, c)
           /\ ~connect[c].cb => \A x \in Queued' : IsConnectOf(x, c) => ~x.cb
<1>1. c \in Clients /\ taken \in HeadCommands /\ taken \in Queued /\ IsConnectOf(taken, c)
    BY TakenFacts DEF Queued, IsConnectOf, IsConnect
<1>2. \A d : KeepsConnects(d)
    <2>1. ApiKept /\ TakenKept /\ \A d : FewerIn(commands', commands, d)
        BY FewerFacts DEF ApiKept, TakenKept
    <2> QED BY <2>1, QueueCalm
<1>3. \A x \in Queued' : x \in ToSet(commands) \/ \E t \in Threads : x = api[t]
    BY DEF Queued
<1>4. \A x \in Queued' : x \in Queued
    BY <1>3 DEF Queued
<1>5. ConnectOfOK(c)
    BY <1>1 DEF ConnectsOK
<1>6. ASSUME connect[c].cb, NEW x \in Queued' PROVE ~IsConnectOf(x, c)
    BY <1>1, <1>3, <1>5, <1>6 DEF ConnectOfOK, Awaits, AtMostOneConnect, NotIn
<1>7. connect[c].cb => ~Busy(c) /\ ~connected[c]
    BY <1>1, <1>5 DEF ConnectOfOK, Awaits
<1> QED BY <1>1, <1>2, <1>4, <1>5, <1>6, <1>7 DEF ConnectOfOK

LEMMA ExecConnectConnects ==
    ASSUME Types, Types', ConnectsOK, ExecConnectBusy \/ ExecConnect
    PROVE  ConnectsOK'
<1>0. PICK c : c = taken.client
    OBVIOUS
<1>1. /\ taken # None /\ taken.type = "CONNECT" /\ taken' = None
      /\ UNCHANGED <<commands, api, connected, retrying, unused, told>>
      /\ \/ /\ Busy(c) \/ connected[c]
            /\ connect' = [connect EXCEPT ![c] = taken] /\ UNCHANGED connect_state
         \/ /\ connect' = [connect EXCEPT ![c] = TriedConnect]
            /\ \E s \in {"TCP_IN_PROGRESS", "WAIT_FOR_CONNACK"} :
                 connect_state' = [connect_state EXCEPT ![c] = s]
    BY <1>0, ExecConnectWays DEF ExecConnectBusy, appVars, Busy
<1>2. /\ c \in Clients /\ taken \in HeadCommands
      /\ \A d : KeepsConnects(d)
      /\ taken.cb => connect[c].cb /\ connect[c].req = taken.req
      /\ connect[c].cb => /\ ~Busy(c) /\ ~connected[c]
                          /\ \A x \in Queued' : ~IsConnectOf(x, c)
      /\ ~connect[c].cb => \A x \in Queued' : IsConnectOf(x, c) => ~x.cb
    BY <1>0, <1>1, ExecutedConnect
<1>3. TriedConnect.req = taken.req /\ TriedConnect.cb = taken.cb
    BY <1>1, TriedFacts
<1>4. DOMAIN connect = Clients /\ DOMAIN connect_state = Clients
    BY DEF Types, ConnTypes, ConnectOK
<1>5. connect'[c].req = taken.req /\ connect'[c].cb = taken.cb
    BY <1>1, <1>2, <1>3, <1>4
<1>6. ASSUME NEW d \in Clients, d # c PROVE Calm(d)
    BY <1>1, <1>2, <1>4, <1>6 DEF Calm
<1>7. ASSUME connect'[c].cb PROVE Awaits(c)'
    <2>1. taken.cb /\ connect[c].cb /\ connect[c].req = taken.req /\ Awaits(c)
        BY <1>2, <1>5, <1>7 DEF ConnectsOK, ConnectOfOK
    <2>2. ~Busy(c) /\ ~connected[c] /\ \A x \in Queued' : ~IsConnectOf(x, c)
        BY <1>2, <2>1
    <2>3. connect_state'[c] # "DISCONNECTING"
        BY <1>1, <1>2, <1>4, <2>2
    <2>4. AtMostOneConnect(c)'
        BY <1>2, <2>1 DEF KeepsConnects, Awaits
    <2> QED BY <1>1, <1>5, <2>1, <2>2, <2>3, <2>4 DEF Awaits
<1>8. \A x \in Queued' : IsConnectOf(x, c) => ~x.cb
    BY <1>2
<1>9. ConnectOfOK(c)'
    BY <1>7, <1>8 DEF ConnectOfOK
<1>10. connect'[c].cb => connect[c].cb /\ connect'[c].req = connect[c].req
    BY <1>2, <1>5
<1> QED BY <1>1, <1>2, <1>6, <1>9, <1>10, ConnectsStep

LEMMA InternalCalm ==
    ASSUME Types, NEW d \in Clients,
           commands' = commands \/ commands' = Inserted(commands, Internal(d))
    PROVE  \A c : FewerIn(commands', commands, c)
<1>1. Internal(d) \in Good /\ \A c : ~IsConnectOf(Internal(d), c)
    BY InternalRequests DEF Good, Internal, Command, IsConnectOf, IsConnect
<1>2. commands \in Seq(Good)
    BY DEF Types, QueueTypes
<1>3. commands' = commands \/ commands' = <<Internal(d)>> \o commands
    BY DEF Inserted
<1> QED BY <1>1, <1>2, <1>3, FewerFacts, ConsLone

LEMMA ExecDataConnects ==
    ASSUME Types, ConnectsOK, NEW outcome \in {"complete", "interrupted", "error"}, ExecData(outcome)
    PROVE  ConnectsOK'
<1> DEFINE c == taken.client
<1>1. /\ taken # None /\ IsData(taken) /\ taken' = None
      /\ DataComplete(c) \/ DataInterrupted(c) \/ DataError(c)
      /\ UNCHANGED <<api, connVars, unused>>
    BY ExecDataWays
<1>2. taken \in DataCommands /\ c \in Clients /\ taken.req \in Data
    BY <1>1, TakenFacts, GoodFacts, SingleFacts
<1>3. commands' = commands \/ commands' = Inserted(commands, Internal(c))
    BY <1>1 DEF DataComplete, DataInterrupted, DataError
<1>4. \A d : FewerIn(commands', commands, d)
    BY <1>2, <1>3, InternalCalm
<1>5. told' = told \/ \E o : told' = Tell(told, Callbacks(taken), o)
    BY <1>1 DEF DataComplete, DataInterrupted, DataError
<1>6. Tells0
    <2>1. \A r \in Conns : r \in Reqs /\ r \notin Callbacks(taken)
        BY <1>2, DisjointRequests, CallbackFacts
    <2> QED BY <1>5, <2>1 DEF Tells0, Tell
<1> QED BY <1>1, <1>4, <1>6, QuietConnects DEF ApiKept, TakenKept, connVars

LEMMA CleanConnects ==
    ASSUME Types, NEW c \in Clients, NEW cleans, NEW t, CleanSession(c, cleans, t)
    PROVE  \A r \in Conns : told'[r] = t[r]
<1>1. \A x \in ToSet(responses[c]) : x.req \in Data
    <2>1. ToSet(responses[c]) \subseteq DataCommands
        BY ToSetFacts DEF Types, SessTypes
    <2> QED BY <2>1, SingleFacts
<1>2. \A r \in Conns : r \in Reqs /\ r \notin ReqsOf(ToSet(responses[c]))
    BY <1>1, DisjointRequests DEF ReqsOf
<1>3. told' = t \/ told' = Tell(t, ReqsOf(ToSet(responses[c])), "fail")
    BY DEF CleanSession
<1> QED BY <1>2, <1>3 DEF Tell

(* A connect that is under way, or done, is reported.                        *)
LEMMA ReportedConnect ==
    ASSUME Types, Types', ConnectsOK, NEW c \in Clients, Busy(c) \/ connected[c],
           UNCHANGED <<api, commands>>, TakenKept, unused' \subseteq unused,
           connect' = [connect EXCEPT ![c].cb = FALSE],
           \A d \in Clients : d # c => /\ connected'[d] = connected[d] /\ retrying'[d] = retrying[d]
                                       /\ connect_state'[d] = connect_state[d],
           \A r \in Conns : told'[r] = told[r] \/ Answers(c, r)
    PROVE  ConnectsOK'
<1>1. /\ ~connect'[c].cb /\ \A d \in Clients : d # c => connect'[d] = connect[d]
    <2>1. connect' = [connect EXCEPT ![c] = [connect[c] EXCEPT !.cb = FALSE]]
        BY ConnectForgotten DEF Types, ConnTypes
    <2>2. [connect[c] EXCEPT !.cb = FALSE].cb = FALSE
        BY ForgetConnect, ConnectRequest
    <2>3. DOMAIN connect = Clients
        BY DEF Types, ConnTypes, ConnectOK
    <2> QED BY <2>1, <2>2, <2>3
<1>2. \A d : KeepsConnects(d)
    BY QueueCalm, FewerFacts DEF ApiKept
<1>3. \A d \in Clients : d # c => Calm(d)
    BY <1>1, <1>2 DEF Calm
<1>4. ASSUME NEW x \in Queued', IsConnectOf(x, c), x.cb PROVE FALSE
    <2>1. x \in Queued
        BY <1>2, <1>4 DEF KeepsConnects
    <2>2. connect[c].cb /\ Awaits(c)
        BY <1>4, <2>1 DEF ConnectsOK, ConnectOfOK
    <2> QED BY <1>4, <2>1, <2>2 DEF Awaits
<1>5. ConnectOfOK(c)'
    BY <1>1, <1>4 DEF ConnectOfOK
<1> QED BY <1>1, <1>3, <1>5, ConnectsStep

LEMMA ToldConnect ==
    ASSUME Types, NEW c \in Clients, NEW o \in {"ok", "fail"}, NEW r \in Conns
    PROVE  \/ Tell(told, Callbacks(connect[c]), o)[r] = told[r]
           \/ /\ connect[c].cb /\ connect[c].req = r
              /\ Tell(told, Callbacks(connect[c]), o)[r] = Append(told[r], o)
<1>1. r \in Reqs
    BY DisjointRequests
<1> QED BY <1>1, CallbackFacts DEF Tell

LEMMA DisconnectsTold ==
    ASSUME Types, NEW c \in Clients, NEW x \in HeadCommands, x.type = "DISCONNECT", NEW t,
           CloseForDisconnect(c, x, t)
    PROVE  \A r \in Conns : told'[r] = t[r]
<1> DEFINE T == IF x.internal THEN t ELSE Tell(t, Callbacks(x), "ok")
<1>1. CleanSession(c, scenario.clean, T)
    BY DEF CloseForDisconnect
<1>2. \A r \in Conns : r \in Reqs /\ r \notin Callbacks(x)
    <2>1. x.req \in Discs \cup {None}
        BY DEF HeadCommands, HeadKind
    <2> QED BY <2>1, DisjointRequests, CallbackFacts, AsyncAssumption
<1>3. \A r \in Conns : T[r] = t[r]
    BY <1>2 DEF Tell
<1> HIDE DEF T
<1>4. \A r \in Conns : told'[r] = T[r]
    BY <1>1, CleanConnects
<1> QED BY <1>3, <1>4

(* The connection of one client ends.                                        *)
LEMMA DisconnectsFrame ==
    ASSUME Types, NEW c \in Clients, NEW x, NEW t, CloseForDisconnect(c, x, t), NEW d \in Clients, d # c
    PROVE  /\ connected'[d] = connected[d] /\ retrying'[d] = retrying[d]
           /\ connect_state'[d] = connect_state[d]
BY DEF CloseForDisconnect, CloseOnly, StartConnectRetry, Types, ConnTypes

LEMMA ExecDisconnectConnects ==
    ASSUME Types, Types', ConnectsOK, ExecDisconnect
    PROVE  ConnectsOK'
<1>0. PICK c : c = taken.client
    OBVIOUS
<1>1. /\ taken # None /\ taken.type = "DISCONNECT" /\ taken' = None
      /\ connect' = IF Busy(c) THEN [connect EXCEPT ![c].cb = FALSE] ELSE connect
      /\ \/ CloseForDisconnect(c, taken, ToldBusy(c))
         \/ /\ Busy(c) \/ connected[c]
            /\ connect_state' = [connect_state EXCEPT ![c] = "DISCONNECTING"]
            /\ told' = ToldBusy(c) /\ UNCHANGED <<connected, retrying>>
         \/ /\ ~Busy(c) /\ ~connected[c]
            /\ UNCHANGED <<connected, connect_state, retrying, told>>
      /\ ~Busy(c) => connected[c] \/ UNCHANGED <<connected, connect_state, retrying, told>>
      /\ UNCHANGED <<commands, api, unused>>
    BY <1>0, ExecDisconnectWays
<1>2. taken \in HeadCommands /\ c \in Clients
    BY <1>0, <1>1, TakenFacts
<1>3. TakenKept /\ ApiKept /\ \A d : KeepsConnects(d)
    BY <1>1, QueueCalm, FewerFacts DEF TakenKept, ApiKept
<1>4. \A d \in Clients : d # c => /\ connected'[d] = connected[d] /\ retrying'[d] = retrying[d]
                                  /\ connect_state'[d] = connect_state[d]
    <2>1. DOMAIN connect_state = Clients
        BY DEF Types, ConnTypes
    <2> QED BY <1>1, <1>2, <2>1, DisconnectsFrame
<1>5. \A r \in Conns : told'[r] = ToldBusy(c)[r]
    <2>1. CASE CloseForDisconnect(c, taken, ToldBusy(c))
        BY <1>1, <1>2, <2>1, DisconnectsTold
    <2>2. CASE told' = ToldBusy(c)
        BY <2>2
    <2>3. CASE ~Busy(c) /\ UNCHANGED told
        BY <2>3 DEF ToldBusy
    <2> QED BY <1>1, <2>1, <2>2, <2>3
<1>6. CASE Busy(c)
    <2>1. \A r \in Conns : ToldBusy(c)[r] = told[r] \/
             (connect[c].cb /\ connect[c].req = r /\ ToldBusy(c)[r] = Append(told[r], "fail"))
        BY <1>2, <1>6, ToldConnect DEF ToldBusy
    <2>2. \A r \in Conns : told'[r] = told[r] \/ Answers(c, r)
        BY <1>5, <2>1 DEF Answers
    <2> QED BY <1>1, <1>2, <1>3, <1>4, <1>6, <2>2, ReportedConnect
<1>7. CASE ~Busy(c)
    <2>1. Tells0
        BY <1>5, <1>7 DEF Tells0, ToldBusy
    <2>2. CASE UNCHANGED <<connected, connect_state, retrying, told>>
        BY <1>1, <1>3, <1>7, <2>1, <2>2, FewerFacts, QuietConnects
    <2>3. CASE connected[c]
        <3>1. ~connect'[c].cb
            BY <1>1, <1>2, <1>7, <2>3 DEF ConnectsOK, ConnectOfOK, Awaits
        <3>2. ConnectOfOK(c)'
            BY <1>1, <1>2, <1>3, <1>7, <3>1 DEF ConnectsOK, ConnectOfOK, KeepsConnects
        <3>3. \A d \in Clients : d # c => Calm(d)
            BY <1>1, <1>3, <1>4, <1>7 DEF Calm
        <3> QED BY <1>1, <1>2, <2>1, <3>1, <3>2, <3>3, ConnectsStep DEF Tells0
    <2> QED BY <1>1, <1>7, <2>2, <2>3
<1> QED BY <1>6, <1>7

LEMMA DisconnectTimeoutConnects ==
    ASSUME Types, Types', ConnectsOK, NEW c \in Clients, DisconnectTimeout(c)
    PROVE  ConnectsOK'
<1>1. /\ CloseForDisconnect(c, disconnect[c], told) /\ connect_state[c] = "DISCONNECTING"
      /\ UNCHANGED <<commands, taken, api, unused, connect>>
    BY DEF DisconnectTimeout, queueVars
<1>2. disconnect[c] \in HeadCommands /\ disconnect[c].type = "DISCONNECT"
    BY DEF Types, ConnTypes, DisconnectOK
<1>3. Tells0
    BY <1>1, <1>2, DisconnectsTold DEF Tells0
<1>4. ~connect[c].cb
    BY <1>1 DEF ConnectsOK, ConnectOfOK, Awaits
<1>5. \A d : KeepsConnects(d)
    BY <1>1, QueueCalm, FewerFacts DEF ApiKept, TakenKept
<1>6. ConnectOfOK(c)'
    BY <1>1, <1>4, <1>5 DEF ConnectsOK, ConnectOfOK, KeepsConnects
<1>7. \A d \in Clients : d # c => Calm(d)
    BY <1>1, <1>5, DisconnectsFrame DEF Calm
<1> QED BY <1>1, <1>3, <1>4, <1>6, <1>7, ConnectsStep DEF Tells0

LEMMA ClosesConnects ==
    ASSUME Types, Types', ConnectsOK, NEW c \in Clients, Closes(c)
    PROVE  ConnectsOK'
<1>1. PICK was \in BOOLEAN, ended \in BOOLEAN : NextOrClose(c, was, ended)
    <2>1. connected[c] \in BOOLEAN
        BY DEF Types, ConnTypes
    <2> QED BY <2>1, ClosesWays
<1>2. taken = None /\ (Busy(c) \/ connected[c])
    BY ClosesWays DEF Busy
<1> DEFINE x == NextConnect(connect[c], was)
<1>3. /\ connected' = [connected EXCEPT ![c] = FALSE]
      /\ connect_state' = [connect_state EXCEPT ![c] = "NOT_IN_PROGRESS"]
      /\ UNCHANGED <<taken, api, unused>>
      /\ \/ /\ commands' = <<x>> \o commands
            /\ UNCHANGED <<connect, retrying, told>>
         \/ /\ CleanSession(c, scenario.clean, Tell(told, Callbacks(connect[c]), "fail"))
            /\ connect' = [connect EXCEPT ![c].cb = FALSE]
            /\ retrying' = [retrying EXCEPT ![c] = @ \/ (scenario.auto /\ shouldBeConnected[c])]
            /\ UNCHANGED commands
    BY <1>1, NextOrCloseWays DEF CloseOnly, sessVars
<1>4. /\ DOMAIN connected = Clients /\ DOMAIN connect_state = Clients /\ DOMAIN retrying = Clients
      /\ commands \in Seq(Good)
    BY DEF Types, ConnTypes, QueueTypes
<1>5. /\ x \in Good /\ x.type = "CONNECT" /\ x.client = c /\ x.req = connect[c].req /\ x.cb = connect[c].cb
      /\ IsConnectOf(x, c)
    <2>1. connect[c] \in HeadCommands /\ connect[c].type = "CONNECT" /\ connect[c].client = c
        BY DEF Types, ConnTypes, ConnectOK
    <2>2. /\ Same(x, connect[c]) /\ x.req = connect[c].req /\ x.cb = connect[c].cb
        BY <2>1, NextConnectFacts
    <2> QED BY <2>1, <2>2, GoodFacts DEF Same, IsConnectOf, IsConnect, Good
<1>6. TakenKept /\ ApiKept
    BY <1>3 DEF TakenKept, ApiKept
<1> HIDE DEF x
<1>7. CASE commands' = <<x>> \o commands /\ UNCHANGED <<connect, retrying, told>>
    <2>1. /\ \A d : ~IsConnectOf(x, d) => FewerIn(commands', commands, d)
          /\ NotIn(commands, c) => Lone(commands', c)
          /\ ToSet(commands') = ToSet(commands) \cup {x}
        BY <1>4, <1>5, <1>7, ConsLone, ConsFacts
    <2>2. \A d \in Clients : d # c => KeepsConnects(d)
        BY <1>5, <1>6, <2>1, QueueCalm DEF IsConnectOf
    <2>3. \A d \in Clients : d # c => Calm(d)
        BY <1>3, <1>4, <1>7, <2>2 DEF Calm
    <2>4. \A y \in Queued' : y \in Queued \/ y = x
        BY <1>3, <2>1 DEF Queued
    <2>5. ASSUME connect[c].cb PROVE Awaits(c)'
        <3>1. Awaits(c) /\ Busy(c) /\ \A y \in Queued : ~IsConnectOf(y, c)
            BY <1>2, <2>5 DEF ConnectsOK, ConnectOfOK, Awaits
        <3>2. /\ NotIn(commands, c) /\ \A t \in Threads : ~IsConnectOf(api[t], c)
              /\ ~IsConnectOf(taken, c)
            <4>1. \A y : IsConnectOf(y, c) => y # None
                BY DEF IsConnectOf, IsConnect
            <4> QED BY <3>1, <4>1 DEF Queued, NotIn
        <3>3. AtMostOneConnect(c)'
            BY <1>3, <2>1, <3>2 DEF AtMostOneConnect
        <3>4. ~Busy(c)' /\ connect_state'[c] = "NOT_IN_PROGRESS" /\ ~connected'[c]
            BY <1>3, <1>4 DEF Busy
        <3> QED BY <1>3, <1>7, <3>1, <3>3, <3>4 DEF Awaits
    <2>6. ConnectOfOK(c)'
        <3>1. ConnectOfOK(c)
            BY DEF ConnectsOK
        <3>2. \A y \in Queued' : IsConnectOf(y, c) /\ y.cb => connect'[c].cb /\ connect'[c].req = y.req
            BY <1>5, <1>7, <2>4, <3>1 DEF ConnectOfOK
        <3>3. connect'[c].cb => Awaits(c)'
            BY <1>7, <2>5
        <3> QED BY <3>2, <3>3 DEF ConnectOfOK
    <2> QED BY <1>3, <1>7, <2>3, <2>6, ConnectsStep
<1>8. CASE /\ CleanSession(c, scenario.clean, Tell(told, Callbacks(connect[c]), "fail"))
           /\ connect' = [connect EXCEPT ![c].cb = FALSE]
           /\ retrying' = [retrying EXCEPT ![c] = @ \/ (scenario.auto /\ shouldBeConnected[c])]
           /\ UNCHANGED commands
    <2>1. \A r \in Conns : told'[r] = Tell(told, Callbacks(connect[c]), "fail")[r]
        BY <1>8, CleanConnects
    <2>2. \A r \in Conns : told'[r] = told[r] \/ Answers(c, r)
        BY <2>1, ToldConnect DEF Answers
    <2>3. \A d \in Clients : d # c => /\ connected'[d] = connected[d] /\ retrying'[d] = retrying[d]
                                      /\ connect_state'[d] = connect_state[d]
        BY <1>3, <1>4, <1>8
    <2> QED BY <1>2, <1>3, <1>6, <1>8, <2>2, <2>3, ReportedConnect
<1> QED BY <1>3, <1>7, <1>8

LEMMA ConnackConnects ==
    ASSUME Types, Types', ConnectsOK, NEW c \in Clients, NEW present \in BOOLEAN,
           ConnackAccepts(c, present)
    PROVE  ConnectsOK'
<1>1. /\ Busy(c) /\ taken = None
      /\ connected' = [connected EXCEPT ![c] = TRUE]
      /\ retrying' = [retrying EXCEPT ![c] = FALSE]
      /\ connect_state' = [connect_state EXCEPT ![c] = "NOT_IN_PROGRESS"]
      /\ CleanSession(c, Cleans(present), Tell(told, Callbacks(connect[c]), "ok"))
      /\ connect' = [connect EXCEPT ![c].cb = FALSE]
      /\ UNCHANGED <<api, commands, taken, unused>>
    BY DEF ConnackAccepts, queueVars, Busy, Forgotten, AsyncMutexFree
<1>2. \A r \in Conns : told'[r] = Tell(told, Callbacks(connect[c]), "ok")[r]
    BY <1>1, CleanConnects
<1>3. \A r \in Conns : told'[r] = told[r] \/ Answers(c, r)
    BY <1>2, ToldConnect DEF Answers
<1>4. \A d \in Clients : d # c => /\ connected'[d] = connected[d] /\ retrying'[d] = retrying[d]
                                  /\ connect_state'[d] = connect_state[d]
    BY <1>1 DEF Types, ConnTypes
<1>5. TakenKept
    BY <1>1 DEF TakenKept
<1> QED BY <1>1, <1>3, <1>4, <1>5, ReportedConnect

(* The resend fails, and there is no other URI.                              *)
LEMMA ResendConnects ==
    ASSUME Types, Types', ConnectsOK, NEW c \in Clients, ResendFails(c), scenario.uris <= 1
    PROVE  ConnectsOK'
<1>1. /\ CloseOnly(c) /\ Busy(c) /\ taken = None
      /\ told' = Tell(told, Callbacks(connect[c]), "fail")
      /\ connect' = [connect EXCEPT ![c].cb = FALSE]
      /\ retrying' = [retrying EXCEPT ![c] = scenario.auto /\ shouldBeConnected[c]]
      /\ UNCHANGED <<taken, api, unused>>
    BY ResendFailsWays DEF Busy
<1>2. UNCHANGED commands
    <2>1. ~CheckConn(connect[c], TRUE)
        <3>1. connect[c].uri \in Nat /\ scenario.uris \in Nat
            BY ConnectRequest, ScenarioFacts DEF HeadCommands, Commands, Types
        <3> QED BY <3>1 DEF CheckConn
    <2> QED BY <2>1, ResendFailsWays
<1>3. \A r \in Conns : told'[r] = told[r] \/ Answers(c, r)
    BY <1>1, ToldConnect DEF Answers
<1>4. \A d \in Clients : d # c => /\ connected'[d] = connected[d] /\ retrying'[d] = retrying[d]
                                  /\ connect_state'[d] = connect_state[d]
    BY <1>1 DEF Types, ConnTypes, CloseOnly
<1>5. TakenKept /\ UNCHANGED <<api, commands>>
    BY <1>1, <1>2 DEF TakenKept
<1> QED BY <1>1, <1>3, <1>4, <1>5, ReportedConnect

(* The library or the application connects again: without callbacks.         *)
LEMMA AgainConnects ==
    ASSUME Types, Types', ConnectsOK, NEW c \in Clients, RetryTimer(c) \/ Reconnect(c)
    PROVE  ConnectsOK'
<1>1. /\ UNCHANGED <<api, taken, connect, connected, connect_state, told, unused>>
      /\ commands' = commands \/ commands' = Inserted(commands, Again(c))
      /\ \A d \in Clients : d # c => retrying'[d] = retrying[d]
    BY DEF RetryTimer, Reconnect, Again, sessVars, appVars, RetryingStill, Types, ConnTypes
<1>2. ~connect[c].cb
    <2>1. CASE RetryTimer(c)
        BY <2>1 DEF RetryTimer, ConnectsOK, ConnectOfOK, Awaits
    <2>2. CASE Reconnect(c)
        BY <2>2 DEF Reconnect, ConnectsOK, ConnectOfOK, Awaits
    <2> QED BY <2>1, <2>2
<1>3. /\ Again(c) \in Good /\ Again(c).cb = connect[c].cb /\ Again(c).client = c
      /\ commands \in Seq(Good)
    BY AgainFacts DEF Types, QueueTypes
<1>4. commands' = commands \/ commands' = <<Again(c)>> \o commands
    BY <1>1 DEF Inserted
<1>5. /\ \A d : ~IsConnectOf(Again(c), d) => FewerIn(commands', commands, d)
      /\ \A y \in ToSet(commands') : y \in ToSet(commands) \/ y = Again(c)
    <2>1. CASE commands' = commands
        BY <2>1, FewerFacts
    <2>2. CASE commands' = <<Again(c)>> \o commands
        BY <1>3, <2>2, ConsLone, ConsFacts
    <2> QED BY <1>4, <2>1, <2>2
<1>6. ApiKept /\ TakenKept
    BY <1>1 DEF ApiKept, TakenKept
<1>7. \A d \in Clients : d # c => KeepsConnects(d)
    BY <1>3, <1>5, <1>6, QueueCalm DEF IsConnectOf
<1>8. \A d \in Clients : d # c => Calm(d)
    BY <1>1, <1>7 DEF Calm
<1>9. \A y \in Queued' : y \in Queued \/ y = Again(c)
    BY <1>1, <1>5 DEF Queued
<1>10. ConnectOfOK(c)'
    <2>1. ConnectOfOK(c)
        BY DEF ConnectsOK
    <2> QED BY <1>1, <1>2, <1>3, <1>9, <2>1 DEF ConnectOfOK
<1> QED BY <1>1, <1>2, <1>8, <1>10, ConnectsStep

LEMMA TransportConnects ==
    ASSUME Types, Types', ConnectsOK, NEW c \in Clients, TransportDone(c)
    PROVE  ConnectsOK'
<1> DEFINE v == IF connect[c].ver = "default" THEN "3.1.1" ELSE connect[c].ver
<1>1. /\ Busy(c) /\ UNCHANGED <<api, commands, taken, connected, retrying, told, unused>>
      /\ connect_state' = [connect_state EXCEPT ![c] = "WAIT_FOR_CONNACK"]
      /\ connect' = [connect EXCEPT ![c].ver = v]
    BY DEF TransportDone, queueVars, sessVars, appVars, Busy
<1>2. /\ connect'[c].cb = connect[c].cb /\ connect'[c].req = connect[c].req
      /\ \A d \in Clients : d # c => connect'[d] = connect[d]
    <2>1. connect[c] \in HeadCommands /\ connect[c].type = "CONNECT" /\ v \in Versions
        BY ConnectRequest DEF HeadCommands, Commands, Versions
    <2> HIDE DEF v
    <2>2. connect' = [connect EXCEPT ![c] = [connect[c] EXCEPT !.ver = v]]
        BY <1>1, <2>1, ConnectVersion DEF Types, ConnTypes
    <2> DEFINE y == [connect[c] EXCEPT !.ver = v]
    <2>3. y.req = connect[c].req /\ y.cb = connect[c].cb
        BY <2>1, ChangeVersion
    <2>4. DOMAIN connect = Clients
        BY DEF Types, ConnTypes, ConnectOK
    <2> HIDE DEF y
    <2> QED BY <2>2, <2>3, <2>4 DEF y
<1> HIDE DEF v
<1>3. \A d : KeepsConnects(d)
    BY <1>1, QueueCalm, FewerFacts DEF ApiKept, TakenKept
<1>4. DOMAIN connect_state = Clients
    BY DEF Types, ConnTypes
<1>5. \A d \in Clients : d # c => Calm(d)
    BY <1>1, <1>2, <1>3, <1>4 DEF Calm
<1>6. ConnectOfOK(c)'
    <2>1. ConnectOfOK(c) /\ connect_state'[c] = "WAIT_FOR_CONNACK"
        BY <1>1, <1>4 DEF ConnectsOK
    <2>2. \A x \in Queued' : IsConnectOf(x, c) => x \in Queued
        BY <1>3 DEF KeepsConnects
    <2>3. ASSUME connect'[c].cb PROVE Awaits(c)'
        <3>1. Awaits(c) /\ \A x \in Queued : ~IsConnectOf(x, c)
            BY <1>1, <1>2, <2>1, <2>3 DEF ConnectOfOK, Awaits
        <3>2. AtMostOneConnect(c)'
            BY <1>3, <3>1 DEF KeepsConnects, Awaits
        <3> QED BY <1>1, <1>2, <2>1, <2>2, <3>1, <3>2 DEF Awaits
    <2> QED BY <1>2, <2>1, <2>2, <2>3 DEF ConnectOfOK
<1> QED BY <1>1, <1>2, <1>5, <1>6, ConnectsStep

LEMMA AnswersConnects ==
    ASSUME Types, ConnectsOK, NEW c \in Clients,
           \/ \E p \in owed[c], outcome \in {"ok", "fail"} : Ack(c, p, outcome)
           \/ WriteDone(c) \/ WriteFails(c)
    PROVE  ConnectsOK'
<1>0. \A i \in DOMAIN responses[c] : responses[c][i].req \notin Conns
    <2>1. \A i \in DOMAIN responses[c] : responses[c][i] \in DataCommands
        BY DEF Types, SessTypes
    <2> QED BY <2>1, SingleFacts, DisjointRequests
<1>a. \A r \in Conns : r \in Reqs
    BY DisjointRequests
<1>1. ASSUME NEW p, NEW outcome, Ack(c, p, outcome)
      PROVE  Tells0 /\ UNCHANGED <<queueVars, connVars, unused>>
    <2>1. told' = Tell(told, ReqsOf(Found(c, p)), outcome) /\ UNCHANGED <<queueVars, connVars, unused>>
        BY <1>1, AckWays
    <2>2. \A r \in Conns : r \notin ReqsOf(Found(c, p))
        BY <1>0 DEF ReqsOf, Found, Answered
    <2> QED BY <1>a, <2>1, <2>2 DEF Tells0, Tell
<1>2. ASSUME NEW o, UNCHANGED <<responses, told, misread>> \/ \E i \in DOMAIN responses[c] : FreesResponse(c, i, o)
      PROVE  Tells0
    <2>1. told' = told \/ \E i \in DOMAIN responses[c] : told' = Tell(told, Callbacks(responses[c][i]), o)
        BY <1>2 DEF FreesResponse
    <2>2. \A i \in DOMAIN responses[c], r \in Conns : r \notin Callbacks(responses[c][i])
        BY <1>0, CallbackFacts
    <2> QED BY <1>a, <2>1, <2>2 DEF Tells0, Tell
<1>3. Tells0 /\ UNCHANGED <<queueVars, connVars, unused>>
    <2>1. CASE WriteDone(c)
        BY <1>2, <2>1, WriteDoneWays
    <2>2. CASE WriteFails(c)
        BY <1>2, <2>2, WriteFailsWays
    <2> QED BY <1>1, <2>1, <2>2
<1> QED BY <1>3, QuietConnects, FewerFacts DEF queueVars, connVars, ApiKept, TakenKept

(* A restart forgets what was asked for, or reports it.                      *)
LEMMA RestartConnects ==
    ASSUME ConnectsOK, NEW q, NEW R, FromList(q, R)
    PROVE  ConnectsOK'
<1>1. /\ taken' = None /\ api' = [t \in Threads |-> None]
      /\ connect' = [c \in Clients |-> NoConnect(c)]
      /\ UNCHANGED <<told, unused>>
    BY RestartWays DEF FromList
<1>2. ToSet(commands') \subseteq DataCommands
    <2>1. commands' \in Seq(DataCommands)
        BY RestartedList DEF FromList
    <2> QED BY <2>1, ToSetFacts
<1>3. \A x \in Queued' : x \in DataCommands
    BY <1>1, <1>2 DEF Queued
<1>4. \A c, x : x \in Queued' => ~IsConnectOf(x, c)
    BY <1>3, GoodFacts DEF IsConnectOf, IsConnect, DataCommands, DataKind
<1>5. \A c \in Clients : ~connect'[c].cb
    BY <1>1 DEF NoConnect, Command
<1>6. \A c \in Clients : ConnectOfOK(c)'
    BY <1>4, <1>5 DEF ConnectOfOK
<1> QED BY <1>1, <1>5, <1>6 DEF ConnectsOK

LEMMA KillConnects ==
    ASSUME Types, StoreInv, ConnectsOK, AnyKill
    PROVE  ConnectsOK'
<1>1. CASE Kill
    BY <1>1, KillWays, RestartConnects
<1>2. ASSUME NEW t \in Threads, KillInAddCommand(t) PROVE ConnectsOK'
    BY <1>2, TornWays, RestartConnects
<1> QED BY <1>1, <1>2 DEF AnyKill

LEMMA RecreateConnects ==
    ASSUME Types, Types', StoreInv, ConnectsOK, NEW c \in Clients, Recreate(c)
    PROVE  ConnectsOK'
<1>1. /\ taken = None /\ ~InUse(c) /\ CloseOnly(c)
      /\ told' = Tell(told, ReqsOf(Freed(c)), "fail")
      /\ connect' = [connect EXCEPT ![c] = NoConnect(c)]
      /\ retrying' = [retrying EXCEPT ![c] = FALSE]
      /\ UNCHANGED <<taken, api, unused>>
      /\ DOMAIN connect = Clients /\ DOMAIN retrying = Clients
      /\ DOMAIN connected = Clients /\ DOMAIN connect_state = Clients
    BY RecreateWays DEF Types, ConnTypes, ConnectOK
<1> DEFINE S == store[c]
<1>a. RecordSet(S, c)
    BY StoreRecords DEF RecordsOK
<1>2. PICK others, own, g : commands' = others \o own /\ MovedBy(c, S, others, own, g)
    BY RecreateMoves
<1> HIDE DEF S
<1> DEFINE n == Len(others)
<1>3. /\ n \in Nat /\ DOMAIN commands' \subseteq Nat
      /\ \A j \in DOMAIN commands' :
           \/ j <= n /\ j \in DOMAIN others /\ commands'[j] = others[j]
           \/ j > n /\ j - n \in DOMAIN own /\ commands'[j] = own[j - n]
    <2>1. n \in Nat /\ Len(own) \in Nat /\ others \in Seq(Good) /\ own \in Seq(Good)
        BY <1>2, SeqFacts DEF MovedBy
    <2> QED BY <1>2, <2>1, ConcatFacts
<1> HIDE DEF n
<1>4. \A k \in DOMAIN own : own[k] \in DataCommands /\ own[k].type # "CONNECT"
    <2>1. \A k \in DOMAIN own : own[k] \in RestoreCommands(S)
        BY <1>2 DEF MovedBy, ToSet
    <2>2. \A x \in DataCommands : x.type # "CONNECT"
        BY DEF DataCommands, DataKind
    <2> QED BY <1>a, <2>1, <2>2, RecordFacts
<1>5. ASSUME NEW j \in DOMAIN commands', NEW d, IsConnectOf(commands'[j], d)
      PROVE  /\ j \in DOMAIN others /\ g[j] \in DOMAIN commands /\ commands'[j] = commands[g[j]]
             /\ commands'[j].client # c
    <2>1. j \in DOMAIN others /\ commands'[j] = others[j]
        BY <1>3, <1>4, <1>5 DEF IsConnectOf, IsConnect
    <2> QED BY <1>2, <2>1 DEF MovedBy, OthersOf
<1>6. ASSUME NEW i \in DOMAIN others, NEW j \in DOMAIN others, i \in Nat, j \in Nat, g[i] = g[j] PROVE i = j
    <2>1. g[i] \in Nat
        BY <1>2, SeqFacts DEF MovedBy, OthersOf, Types, QueueTypes
    <2>2. ~(i < j) /\ ~(j < i)
        BY <1>2, <1>6, <2>1 DEF MovedBy
    <2> QED BY <1>6, <2>2
<1>7. ASSUME NEW d PROVE FewerIn(commands', commands, d)
    <2>1. \A x \in ToSet(commands') : IsConnectOf(x, d) => x \in ToSet(commands)
        BY <1>5 DEF ToSet
    <2>2. ASSUME Lone(commands, d), NEW i \in DOMAIN commands', NEW j \in DOMAIN commands',
                 IsConnectOf(commands'[i], d), IsConnectOf(commands'[j], d)
          PROVE  i = j
        <3>1. g[i] = g[j]
            BY <1>5, <2>2 DEF Lone
        <3> QED BY <1>3, <1>5, <1>6, <2>2, <3>1
    <2> QED BY <2>1, <2>2 DEF FewerIn, Lone
<1>8. \A d : KeepsConnects(d)
    BY <1>1, <1>7, QueueCalm DEF ApiKept, TakenKept
<1>9. \A d \in Clients : d # c => Calm(d)
    BY <1>1, <1>8 DEF Calm, CloseOnly
<1>10. ~connect'[c].cb
    BY <1>1 DEF NoConnect, Command
<1>11. ConnectOfOK(c)'
    <2>1. \A x \in ToSet(commands') : ~IsConnectOf(x, c)
        BY <1>5 DEF ToSet, IsConnectOf
    <2>2. \A t \in Threads : ~IsConnectOf(api[t], c)
        BY <1>1 DEF InUse, IsConnectOf, IsConnect
    <2>3. \A x \in Queued' : ~IsConnectOf(x, c)
        BY <1>1, <2>1, <2>2 DEF Queued
    <2> QED BY <1>10, <2>3 DEF ConnectOfOK
<1>12. ASSUME NEW r \in Conns PROVE told'[r] = told[r] \/ Answers(c, r)
    <2>0. r \in Reqs
        BY DisjointRequests
    <2>1. CASE r \notin ReqsOf(Freed(c))
        BY <1>1, <2>0, <2>1 DEF Tell
    <2>2. CASE r \in ReqsOf(Freed(c))
        <3>1. PICK x \in Freed(c) : x.cb /\ x.req = r
            BY <2>2 DEF ReqsOf
        <3>2. told'[r] = Append(told[r], "fail")
            BY <1>1, <2>0, <2>2 DEF Tell
        <3>3. ~(x \in ToSet(responses[c]))
            <4>1. ToSet(responses[c]) \subseteq DataCommands
                BY ToSetFacts DEF Types, SessTypes
            <4> QED BY <3>1, <4>1, SingleFacts, DisjointRequests
        <3>4. x \in ToSet(commands) /\ x.client = c
            BY <3>3 DEF Freed
        <3>5. x \in Good
            BY <3>4, ToSetFacts DEF Types, QueueTypes
        <3>6. IsConnectOf(x, c) /\ x \in Queued
            <4>1. x # None
                BY <3>5, GoodFacts
            <4>2. x \notin DataCommands
                BY <3>1, SingleFacts, DisjointRequests
            <4>3. x.req \notin Discs \cup {None}
                BY <3>1, DisjointRequests, AsyncAssumption
            <4>4. x.type = "CONNECT"
                BY <3>5, <4>2, <4>3 DEF Good, HeadCommands, HeadKind
            <4> QED BY <3>4, <4>1, <4>4 DEF IsConnectOf, IsConnect, Queued
        <3>7. connect[c].cb /\ connect[c].req = r
            BY <3>1, <3>6 DEF ConnectsOK, ConnectOfOK
        <3> QED BY <3>2, <3>7 DEF Answers
    <2> QED BY <2>1, <2>2
<1> QED BY <1>1, <1>9, <1>10, <1>11, <1>12, ConnectsStep

(* A budget that is not used up has not been used before.                    *)
LEMMA DialSteps ==
    ASSUME Types, [Next]_vars
    PROVE  /\ UNCHANGED scenario
           /\ \A w \in DOMAIN budget : budget'[w] \in Nat /\ budget'[w] <= budget[w]
<1>1. budget \in Budgets /\ EnvTypes
    BY DEF Types, EnvTypes
<1>0. UNCHANGED scenario
    BY ScenarioStays
<1>2. CASE EnvSpends
    BY <1>0, <1>1, <1>2, EnvSpendsFacts
<1>3. CASE UNCHANGED budget
    BY <1>0, <1>1, <1>3 DEF Budgets
<1>4. ASSUME NEW what \in {"kill", "tear"}, Spend(what)
      PROVE  \A w \in DOMAIN budget : budget'[w] \in Nat /\ budget'[w] <= budget[w]
    BY <1>1, <1>4, SpendFacts DEF Kinds
<1>5. EnvSpends \/ UNCHANGED budget \/ Spend("kill") \/ Spend("tear")
    BY QueueSteps, RecreateWays DEF KeepsList, AddsAtEnd, Take, Kill, KillInAddCommand
<1> QED BY <1>0, <1>2, <1>3, <1>4, <1>5

LEMMA UnspentKept ==
    ASSUME Types, NumberInv, [Next]_vars, NEW what \in {"dial", "resend"}, Unspent(what)'
    PROVE  Unspent(what) /\ ~Spend(what)
<1>1. /\ what \in DOMAIN budget /\ what \in Kinds
      /\ budget[what] \in Nat /\ scenario.budget[what] \in Nat
    BY ScenarioFacts DEF Types, EnvTypes, Budgets, Kinds
<1>2. budget'[what] \in Nat /\ budget'[what] <= budget[what] /\ scenario' = scenario
    BY <1>1, DialSteps
<1>3. budget[what] <= scenario.budget[what]
    BY <1>1 DEF NumberInv
<1>4. budget'[what] = budget[what] /\ budget'[what] # Unlimited
    BY <1>1, <1>2, <1>3 DEF Unspent
<1>5. ~Spend(what)
    <2> SUFFICES ASSUME Spend(what) PROVE FALSE
        OBVIOUS
    <2>1. budget'[what] # budget[what] \/ budget'[what] = Unlimited
        BY <1>1, SpendFacts DEF Types, EnvTypes
    <2> QED BY <1>4, <2>1
<1> QED BY <1>2, <1>4, <1>5 DEF Unspent

(* Neither exception happens in the step.                                    *)
NoneDoubled == ~Spend("dial") /\ (~Spend("resend") \/ scenario.uris <= 1)

LEMMA UndoubledKept ==
    ASSUME Types, NumberInv, [Next]_vars, Undoubled'
    PROVE  Undoubled /\ NoneDoubled
<1>1. Unspent("dial") /\ ~Spend("dial")
    BY UnspentKept DEF Undoubled
<1>2. CASE Unspent("resend")'
    <2>1. Unspent("resend") /\ ~Spend("resend")
        BY <1>2, UnspentKept
    <2> QED BY <1>1, <2>1 DEF Undoubled, NoneDoubled
<1>3. CASE ~Unspent("resend")'
    <2>1. scenario.uris <= 1
        BY <1>3, ScenarioStays DEF Undoubled
    <2> QED BY <1>1, <2>1 DEF Undoubled, NoneDoubled
<1> QED BY <1>2, <1>3

LEMMA InitConnects == Init => ConnectsOK
<1> SUFFICES ASSUME Init PROVE ConnectsOK
    OBVIOUS
<1>1. ToSet(<<>>) = {}
    BY EmptyToSet
<1>2. /\ commands = <<>> /\ taken = None /\ \A t \in Threads : api[t] = None
      /\ \A c \in Clients : ~connect[c].cb
      /\ \A r \in Reqs : told[r] = <<>>
    BY DEF Init, NoConnect, Command
<1>3. Queued = {}
    BY <1>1, <1>2 DEF Queued
<1> QED BY <1>2, <1>3, DisjointRequests DEF ConnectsOK, ConnectOfOK

LEMMA ConnectsNext ==
    ASSUME Types, Types', StoreInv, ConnectsOK, [Next]_vars, NoneDoubled
    PROVE  ConnectsOK'
<1>1. CASE UNCHANGED vars
    BY <1>1, QuietConnects, FewerFacts
       DEF vars, queueVars, connVars, sessVars, appVars, ApiKept, TakenKept, Tells0
<1>2. CASE Next
    <2>0. \A c \in scenario.clients : c \in Clients
        BY ScenarioFacts DEF Types
    <2>1. CASE \E t \in Threads : AddCommand(t)
        BY <2>1, AddConnects
    <2>2. CASE \E t \in Threads, c \in scenario.clients :
                \/ \E r \in Pubs : Send(t, c, r) \/ SendRefused(t, c, r)
                \/ \E r \in Subs : Subscribe(t, c, r)
                \/ \E r \in Conns : Connect(t, c, r)
                \/ \E r \in Discs : Disconnect(t, c, r)
        BY <2>0, <2>2, CallsConnects
    <2>3. CASE Take \/ ExecConnectBusy \/ ExecConnect \/ ExecConnectFails
        BY <2>3, TakeConnects, ExecConnectConnects, ExecConnectFailsWays DEF NoneDoubled
    <2>4. CASE \E outcome \in {"complete", "interrupted", "error"} : ExecData(outcome)
        BY <2>4, ExecDataConnects
    <2>5. CASE ExecDisconnect
        BY <2>5, ExecDisconnectConnects
    <2>6. ASSUME NEW c \in Clients,
                 \/ DisconnectTimeout(c) \/ RetryTimer(c) \/ Closes(c) \/ TransportDone(c)
                 \/ \E present \in BOOLEAN : ConnackAccepts(c, present)
                 \/ \E p \in owed[c], outcome \in {"ok", "fail"} : Ack(c, p, outcome)
                 \/ WriteDone(c) \/ WriteFails(c)
          PROVE  ConnectsOK'
        BY <2>6, DisconnectTimeoutConnects, AgainConnects, ClosesConnects, TransportConnects,
           ConnackConnects, AnswersConnects
    <2>7. ASSUME NEW c \in scenario.clients, Reconnect(c) \/ Recreate(c) PROVE ConnectsOK'
        BY <2>0, <2>7, AgainConnects, RecreateConnects
    <2>8. ASSUME NEW c \in scenario.clients, Break(c) PROVE ConnectsOK'
        BY <2>8, QuietConnects, FewerFacts
           DEF Break, queueVars, connVars, sessVars, appVars, ApiKept, TakenKept, Tells0
    <2>9. CASE AnyKill
        BY <2>9, KillConnects
    <2>10. ASSUME NEW c \in Clients, ResendFails(c) PROVE ConnectsOK'
        <3>1. scenario.uris <= 1
            BY <2>10, ResendFailsWays DEF NoneDoubled
        <3> QED BY <2>10, <3>1, ResendConnects
    <2> QED BY <1>2, <2>1, <2>2, <2>3, <2>4, <2>5, <2>6, <2>7, <2>8, <2>9, <2>10, Steps DEF AnyKill
<1> QED BY <1>1, <1>2

LEMMA AlwaysConnects == Spec => []ConnectInv
<1>1. Types /\ Types' /\ StoreInv /\ NumberInv /\ ConnectInv /\ [Next]_vars => ConnectInv'
    <2> SUFFICES ASSUME Types, Types', StoreInv, NumberInv, ConnectInv, [Next]_vars, Undoubled'
                 PROVE  ConnectsOK'
        BY DEF ConnectInv
    <2>1. Undoubled /\ NoneDoubled
        BY UndoubledKept
    <2> QED BY <2>1, ConnectsNext DEF ConnectInv
<1>2. Init => ConnectInv
    BY InitConnects DEF ConnectInv
<1>3. QueueInv => StoreInv /\ NumberInv
    BY DEF QueueInv
<1> QED BY <1>1, <1>2, <1>3, AlwaysQueue, AlwaysTypes, PTL DEF Spec

(* Nothing is reported twice: neither a request, nor the end of a connection, *)
(* nor a connect, but for two cases, in which the code does report it twice: *)
(* an attempt that failed at once, and a resend that failed while there was  *)
(* another URI.  Property ReportedOnce of the runs, for                      *)
(* MQTTAsync_addCommand to MQTTAsync_receiveThread in any order, and for a   *)
(* kill at any point, also between the store operations of addCommand.       *)
THEOREM NothingTwice == Spec => []ReportedOnce
<1>1. PlaceInv => AnsweredAtMostOnce
    BY DEF PlaceInv, AnsweredAtMostOnce, Single
<1>2. ConnectInv => ConnectAnsweredOnce
    BY DEF ConnectInv, Undoubled, ConnectsOK, ConnectAnsweredOnce
<1>3. PlaceInv /\ ConnectInv /\ EndInv => ReportedOnce
    BY <1>1, <1>2 DEF ReportedOnce, EndInv
<1> QED BY <1>3, AlwaysPlaces, AlwaysConnects, AlwaysEnd, PTL

-----------------------------------------------------------------------------
(* Accepted requests                                                        *)

(* A request that is still to be reported: a command or response with its    *)
(* callbacks stands for it.                                                  *)
Waiting(r) ==
    \/ \E x \in ToSet(commands) : x.cb /\ x.req = r
    \/ taken # None /\ taken.cb /\ taken.req = r
    \/ \E c \in Clients : \E x \in ToSet(responses[c]) : x.cb /\ x.req = r

Remembered(r) == told[r] # <<>> \/ r \in dropped \cup misread \/ Waiting(r)

(* A call has its callbacks; with one thread the buffer has room for it.     *)
ApiCalls == \A t \in Threads : api[t] # None /\ IsData(api[t]) => api[t].cb
Room ==
    OneThread /\ ~scenario.deleteOldest =>
        /\ dropped = {}
        /\ \A t \in Threads : api[t] # None /\ api[t].type = "PUBLISH" => ~Full(api[t].client)

RememberInv == ApiCalls /\ Room /\ \A r \in accepted : Remembered(r)

(* What waits is remembered after the step.                                  *)
ToldGrows == \A r \in Reqs : told[r] # <<>> => told'[r] # <<>>
ListWaits == \A x \in ToSet(commands) : IsData(x) /\ x.cb => Remembered(x.req)'
TakenWaits == \A x \in {taken} : x # None /\ IsData(x) /\ x.cb => Remembered(x.req)'
RespWaits == \A c \in Clients : \A x \in ToSet(responses[c]) : x.cb => Remembered(x.req)'

LEMMA DataRequest ==
    ASSUME NEW x \in Good
    PROVE  IsData(x) <=> x.req \in Data
<1>1. x \in HeadCommands => x.req \in Conns \cup Discs \cup {None}
    BY DEF HeadCommands, HeadKind
<1>2. x \in HeadCommands => x.req \notin Data
    BY <1>1, DisjointRequests, NoneFacts
<1> QED BY <1>2, GoodFacts

LEMMA GoodCommands ==
    ASSUME Types
    PROVE  /\ commands \in Seq(Good) /\ \A x \in ToSet(commands) : x \in Good
           /\ taken # None => taken \in Good
           /\ \A c \in Clients : /\ responses[c] \in Seq(DataCommands)
                                 /\ \A x \in ToSet(responses[c]) : x \in DataCommands
<1>1. commands \in Seq(Good) /\ taken \in Good \cup {None}
    BY DEF Types, QueueTypes
<1>2. \A c \in Clients : responses[c] \in Seq(DataCommands)
    BY DEF Types, SessTypes
<1> QED BY <1>1, <1>2, ToSetFacts

LEMMA RememberStep ==
    ASSUME Types, RememberInv, ToldGrows, dropped \subseteq dropped', misread \subseteq misread',
           ListWaits, TakenWaits, RespWaits, NEW r \in accepted
    PROVE  Remembered(r)'
<1>1. r \in Data /\ r \in Reqs /\ Remembered(r)
    BY DisjointRequests DEF Types, AppTypes, RememberInv
<1>2. CASE told[r] # <<>> \/ r \in dropped \cup misread
    BY <1>1, <1>2 DEF Remembered, ToldGrows
<1>3. ASSUME NEW x \in ToSet(commands), x.cb, x.req = r PROVE Remembered(r)'
    <2>1. IsData(x)
        BY <1>1, <1>3, GoodCommands, DataRequest
    <2> QED BY <1>3, <2>1 DEF ListWaits
<1>4. CASE taken # None /\ taken.cb /\ taken.req = r
    <2>1. IsData(taken)
        BY <1>1, <1>4, GoodCommands, DataRequest
    <2>2. ASSUME NEW x \in {taken} PROVE Remembered(r)'
        BY <1>4, <2>1, <2>2 DEF TakenWaits
    <2> QED BY <2>2
<1>5. ASSUME NEW c \in Clients, NEW x \in ToSet(responses[c]), x.cb, x.req = r PROVE Remembered(r)'
    BY <1>5 DEF RespWaits
<1> QED BY <1>1, <1>2, <1>3, <1>4, <1>5 DEF Remembered, Waiting

(* Steps that leave the list, the command executed or the responses alone.   *)
LEMMA StaysWaiting ==
    /\ (\A x \in ToSet(commands) : IsData(x) => x \in ToSet(commands')) => ListWaits
    /\ taken' = taken \/ taken = None \/ ~IsData(taken) => TakenWaits
    /\ UNCHANGED responses => RespWaits
    /\ UNCHANGED told => ToldGrows
<1>1. ASSUME \A x \in ToSet(commands) : IsData(x) => x \in ToSet(commands') PROVE ListWaits
    BY <1>1 DEF ListWaits, Remembered, Waiting
<1>2. ASSUME taken' = taken \/ taken = None \/ ~IsData(taken) PROVE TakenWaits
    BY <1>2 DEF TakenWaits, Remembered, Waiting
<1>3. ASSUME UNCHANGED responses PROVE RespWaits
    <2> SUFFICES ASSUME NEW c \in Clients, NEW x \in ToSet(responses[c]), x.cb
                 PROVE  Remembered(x.req)'
        BY DEF RespWaits
    <2>1. x \in ToSet(responses'[c])
        BY <1>3
    <2> QED BY <2>1 DEF Remembered, Waiting
<1> QED BY <1>1, <1>2, <1>3 DEF ToldGrows

LEMMA RoomStays ==
    ASSUME Room, ApiKept, UNCHANGED <<dropped, noBufferedMessages, scenario>>
    PROVE  Room'
BY DEF Room, ApiKept, Full, OneThread

LEMMA RememberQuiet ==
    ASSUME Types, RememberInv, ApiKept, ToldGrows, misread \subseteq misread',
           ListWaits, TakenWaits, RespWaits,
           UNCHANGED <<accepted, dropped, noBufferedMessages, scenario>>
    PROVE  RememberInv'
<1>1. Room'
    BY RoomStays DEF RememberInv
<1>2. ApiCalls'
    BY DEF RememberInv, ApiCalls, ApiKept
<1>3. \A r \in accepted' : Remembered(r)'
    BY RememberStep
<1> QED BY <1>1, <1>2, <1>3 DEF RememberInv

(* The list may get another CONNECT or DISCONNECT.                           *)
LEMMA HeadsWait ==
    ASSUME Types, NEW x \in HeadCommands,
           \/ commands' = commands \/ commands' = Inserted(commands, x)
           \/ commands' = <<x>> \o commands \/ commands' = Append(commands, x)
    PROVE  ListWaits
<1>1. commands \in Seq(Good) /\ x \in Good
    BY GoodCommands DEF Good
<1>2. /\ ToSet(<<x>> \o commands) = ToSet(commands) \cup {x}
      /\ ToSet(Append(commands, x)) = ToSet(commands) \cup {x}
    BY <1>1, ConsFacts, AppendToSet
<1>3. Inserted(commands, x) = commands \/ Inserted(commands, x) = <<x>> \o commands
    BY InsertedWays
<1>4. ToSet(commands) \subseteq ToSet(commands')
    BY <1>2, <1>3
<1> QED BY <1>4, StaysWaiting

(* The application. *)
LEMMA NewCallRemembers ==
    ASSUME Types, RememberInv, NEW t \in Threads, NEW x, IsData(x) => x.cb,
           x.type = "PUBLISH" => ~(Full(x.client) /\ ~scenario.deleteOldest),
           api' = [api EXCEPT ![t] = x],
           UNCHANGED <<commands, taken, responses, told, accepted, dropped, misread,
                       noBufferedMessages, scenario>>
    PROVE  RememberInv'
<1>0. DOMAIN api = Threads
    BY DEF Types, QueueTypes
<1>1. ApiCalls'
    BY <1>0 DEF RememberInv, ApiCalls
<1>2. Room'
    BY <1>0 DEF RememberInv, Room, Full, OneThread
<1>3. \A r \in accepted' : Remembered(r)'
    BY RememberStep, StaysWaiting
<1> QED BY <1>1, <1>2, <1>3 DEF RememberInv

LEMMA CallsRemember ==
    ASSUME Types, RememberInv, NEW t \in Threads, NEW c \in Clients,
           \/ \E r \in Pubs : Send(t, c, r) \/ SendRefused(t, c, r)
           \/ \E r \in Subs : Subscribe(t, c, r)
           \/ \E r \in Conns : Connect(t, c, r)
           \/ \E r \in Discs : Disconnect(t, c, r)
    PROVE  RememberInv'
<1>0. \A type, r, tok : /\ Command(type, c, r, tok).type = type
                        /\ Command(type, c, r, tok).client = c
                        /\ Command(type, c, r, tok).cb = (r # None)
    BY DEF Command
<1>a. \A r \in Pubs \cup Subs : r # None
    BY DisjointRequests, NoneFacts
<1>b. UNCHANGED <<commands, taken, responses, told, accepted, dropped, misread,
                  noBufferedMessages, scenario>>
    BY DEF Send, SendRefused, Subscribe, Connect, Disconnect, queueVars, sessVars, storeVars, histVars
<1>1. ASSUME NEW r \in Pubs, Send(t, c, r) PROVE RememberInv'
    <2> DEFINE tok == IF r \in Pubs1 THEN NewToken(c) ELSE 0
    <2>1. api' = [api EXCEPT ![t] = Command("PUBLISH", c, r, tok)]
        BY <1>1 DEF Send, Call
    <2>2. ~(Full(c) /\ ~scenario.deleteOldest)
        BY <1>1 DEF Send
    <2> HIDE DEF tok
    <2> DEFINE x == Command("PUBLISH", c, r, tok)
    <2>3. r # None
        BY <1>a
    <2>4. x.cb /\ x.client = c
        BY <2>3 DEF Command
    <2> HIDE DEF x
    <2>5. api' = [api EXCEPT ![t] = x]
        BY <2>1 DEF x
    <2> QED BY <1>b, <2>2, <2>4, <2>5, NewCallRemembers
<1>2. ASSUME UNCHANGED api PROVE RememberInv'
    <2>1. ApiKept
        BY <1>2 DEF ApiKept
    <2> QED BY <1>b, <2>1, StaysWaiting, RememberQuiet
<1>3. ASSUME NEW r \in Subs, Subscribe(t, c, r) PROVE RememberInv'
    <2>1. api' = [api EXCEPT ![t] = Command("SUBSCRIBE", c, r, NewToken(c))]
        BY <1>3 DEF Subscribe, Call
    <2> QED BY <1>0, <1>a, <1>b, <2>1, NewCallRemembers
<1>4. ASSUME NEW r \in Conns, Connect(t, c, r) PROVE RememberInv'
    <2>1. api' = [api EXCEPT ![t] = Command("CONNECT", c, r, 0)]
        BY <1>4 DEF Connect, Call
    <2>2. ~IsData(Command("CONNECT", c, r, 0))
        BY <1>0 DEF IsData
    <2> QED BY <1>0, <1>b, <2>1, <2>2, NewCallRemembers
<1>5. ASSUME NEW r \in Discs, Disconnect(t, c, r) PROVE RememberInv'
    <2>1. UNCHANGED api \/ api' = [api EXCEPT ![t] = Command("DISCONNECT", c, r, 0)]
        BY <1>5 DEF Disconnect, Call
    <2>2. ~IsData(Command("DISCONNECT", c, r, 0))
        BY <1>0 DEF IsData
    <2> QED BY <1>0, <1>2, <1>b, <2>1, <2>2, NewCallRemembers
<1>6. \A r \in Pubs : SendRefused(t, c, r) => UNCHANGED api
    BY DEF SendRefused, queueVars
<1> QED BY <1>1, <1>2, <1>3, <1>4, <1>5, <1>6

(* MQTTAsync_addCommand: what is new is in the list, or was dropped.         *)
LEMMA AddedDataWaits ==
    ASSUME Types, RememberInv, NEW x \in DataCommands, AddData(x), x.cb, UNCHANGED <<taken, responses, told, misread>>
    PROVE  \A r \in accepted' : Remembered(r)'
<1> DEFINE q == Longer(x)
           o == OldestPublish(q, x.client)
<1>1. /\ q \in Seq(Good) /\ ToSet(q) = ToSet(commands) \cup {Numbered(x)}
      /\ x.type = "PUBLISH" /\ Full(x.client) => o \in DOMAIN q
    BY AddDataFacts DEF Longer
<1>2. /\ \/ commands' = q /\ dropped' = dropped
         \/ o \in DOMAIN q /\ commands' = RemoveAt(q, o) /\ dropped' = dropped \cup {q[o].req}
      /\ accepted' = accepted \cup {x.req}
    BY <1>1 DEF AddData, Longer
<1>3. Numbered(x).req = x.req /\ Numbered(x).cb
    BY NumberedFacts
<1> HIDE DEF q, o
<1>4. ASSUME NEW y \in ToSet(q) PROVE y \in ToSet(commands') \/ y.req \in dropped'
    <2>1. CASE commands' = q
        BY <2>1
    <2>2. CASE o \in DOMAIN q /\ commands' = RemoveAt(q, o) /\ dropped' = dropped \cup {q[o].req}
        <3>1. ToSet(RemoveAt(q, o)) = {q[i] : i \in DOMAIN q \ {o}}
            BY <1>1, <2>2, RemoveAtSet
        <3>2. PICK i \in DOMAIN q : y = q[i]
            BY DEF ToSet
        <3> QED BY <2>2, <3>1, <3>2
    <2> QED BY <1>2, <2>1, <2>2
<1>5. ASSUME NEW y \in ToSet(q), y.cb PROVE Remembered(y.req)'
    BY <1>4, <1>5 DEF Remembered, Waiting
<1>6. ListWaits
    BY <1>1, <1>5 DEF ListWaits
<1>7. dropped \subseteq dropped'
    BY <1>2
<1>8. Remembered(x.req)'
    BY <1>1, <1>3, <1>5
<1>9. \A r \in accepted : Remembered(r)'
    BY <1>6, <1>7, RememberStep, StaysWaiting
<1> QED BY <1>2, <1>8, <1>9

LEMMA AddRemembers ==
    ASSUME Types, RememberInv, IdleThreads, NEW t \in Threads, AddCommand(t)
    PROVE  RememberInv'
<1> DEFINE x == api[t]
<1>1. /\ x \in Good /\ x # None /\ DOMAIN api = Threads
      /\ api' = [api EXCEPT ![t] = None]
      /\ UNCHANGED <<taken, responses, told, misread, scenario>>
      /\ AddHead(x) \/ AddDisconnect(x) \/ AddData(x)
    BY AddCommandWays DEF AddCommand, Types, QueueTypes, sessVars
<1>2. ApiKept
    BY <1>1 DEF ApiKept
<1>3. CASE AddHead(x) \/ AddDisconnect(x)
    <2>1. x \in HeadCommands
        BY <1>1, <1>3, GoodFacts DEF AddHead, AddDisconnect, IsData
    <2>2. /\ \/ commands' = Inserted(commands, x) \/ commands' = Append(commands, x)
          /\ UNCHANGED <<noBufferedMessages, accepted, dropped>>
        BY <1>3 DEF AddHead, AddDisconnect, storeVars
    <2>3. ListWaits
        BY <2>1, <2>2, HeadsWait
    <2> QED BY <1>1, <1>2, <2>2, <2>3, StaysWaiting, RememberQuiet
<1>4. CASE AddData(x)
    <2>1. x \in DataCommands /\ x.cb
        BY <1>1, <1>4, GoodFacts DEF AddData, RememberInv, ApiCalls
    <2> HIDE DEF x
    <2>2. \A r \in accepted' : Remembered(r)'
        BY <1>1, <1>4, <2>1, AddedDataWaits
    <2>3. ApiCalls'
        BY <1>2 DEF RememberInv, ApiCalls, ApiKept
    <2>4. ASSUME OneThread, ~scenario.deleteOldest PROVE dropped' = {} /\ \A u \in Threads : api'[u] = None
        <3>1. ASSUME NEW u \in Threads, u # t, api[u] # None PROVE FALSE
            BY <1>1, <2>4, <3>1, TheThread DEF IdleThreads, x
        <3>2. x.type = "PUBLISH" => ~Full(x.client)
            BY <1>1, <2>4 DEF RememberInv, Room, x
        <3>3. dropped' = dropped
            BY <1>4, <3>2 DEF AddData
        <3> QED BY <1>1, <2>4, <3>1, <3>3 DEF RememberInv, Room
    <2>5. Room'
        BY <1>1, <2>4 DEF Room, OneThread
    <2> QED BY <2>2, <2>3, <2>5 DEF RememberInv
<1> QED BY <1>1, <1>3, <1>4

(* A callback that has been called is not undone; each request told has one. *)
LEMMA TellAnswers ==
    ASSUME NEW t \in [Reqs -> Seq({"ok", "fail"})], NEW S, NEW o \in {"ok", "fail"}
    PROVE  /\ \A r \in Reqs : t[r] # <<>> => Tell(t, ReqsOf(S), o)[r] # <<>>
           /\ \A x \in S : x.cb /\ x.req \in Reqs => Tell(t, ReqsOf(S), o)[x.req] # <<>>
<1>1. ASSUME NEW r \in Reqs PROVE Append(t[r], o) # <<>>
    <2>1. t[r] \in Seq({"ok", "fail"})
        OBVIOUS
    <2>2. Len(Append(t[r], o)) = Len(t[r]) + 1 /\ Len(t[r]) \in Nat
        BY <2>1
    <2>3. Len(<<>>) = 0
        OBVIOUS
    <2> QED BY <2>2, <2>3
<1>2. \A r \in Reqs : Tell(t, ReqsOf(S), o)[r] \in {t[r], Append(t[r], o)}
    BY TellFacts
<1>3. ASSUME NEW x \in S, x.cb, x.req \in Reqs PROVE Tell(t, ReqsOf(S), o)[x.req] # <<>>
    <2>1. Tell(t, ReqsOf(S), o)[x.req] = Append(t[x.req], o)
        BY <1>3, TellFacts
    <2> QED BY <1>1, <1>3, <2>1
<1> QED BY <1>1, <1>2, <1>3

LEMMA ToldTypes ==
    ASSUME Types
    PROVE  /\ told \in [Reqs -> Seq({"ok", "fail"})]
           /\ \A x \in Good : x.cb => x.req \in Reqs
           /\ \A x \in DataCommands : x \in Good /\ x.req \in Reqs
BY GoodFacts, DisjointRequests DEF Types, AppTypes, Good, DataCommands

LEMMA CleanRemembers ==
    ASSUME Types, NEW c \in Clients, NEW cleans, NEW t \in [Reqs -> Seq({"ok", "fail"})],
           \A r \in Reqs : told[r] # <<>> => t[r] # <<>>, CleanSession(c, cleans, t)
    PROVE  ToldGrows /\ RespWaits
<1>0. DOMAIN responses = Clients
    BY DEF Types, SessTypes
<1>1. CASE ~cleans
    <2>1. told' = t /\ UNCHANGED responses
        BY <1>1 DEF CleanSession
    <2> QED BY <2>1, StaysWaiting DEF ToldGrows
<1>2. CASE cleans
    <2>1. /\ responses' = [responses EXCEPT ![c] = <<>>]
          /\ told' = Tell(t, ReqsOf(ToSet(responses[c])), "fail")
        BY <1>2 DEF CleanSession
    <2>2. /\ \A r \in Reqs : t[r] # <<>> => told'[r] # <<>>
          /\ \A x \in ToSet(responses[c]) : x.cb /\ x.req \in Reqs => told'[x.req] # <<>>
        BY <2>1, TellAnswers
    <2>3. ToldGrows
        BY <2>2 DEF ToldGrows
    <2>4. ASSUME NEW d \in Clients, NEW x \in ToSet(responses[d]), x.cb PROVE Remembered(x.req)'
        <3>1. CASE d = c
            <4>1. x.req \in Reqs
                BY GoodCommands, ToldTypes
            <4> QED BY <2>2, <2>4, <3>1, <4>1 DEF Remembered
        <3>2. CASE d # c
            <4>1. x \in ToSet(responses'[d])
                BY <1>0, <2>1, <3>2
            <4> QED BY <2>4, <4>1 DEF Remembered, Waiting
        <3> QED BY <3>1, <3>2
    <2> QED BY <2>3, <2>4 DEF RespWaits
<1> QED BY <1>1, <1>2

(* The callbacks of a connect come on top.                                   *)
LEMMA ConnectTells ==
    ASSUME Types, NEW x, NEW o \in {"ok", "fail"}
    PROVE  /\ Tell(told, Callbacks(x), o) \in [Reqs -> Seq({"ok", "fail"})]
           /\ \A r \in Reqs : told[r] # <<>> => Tell(told, Callbacks(x), o)[r] # <<>>
           /\ x.cb /\ x.req \in Reqs => Tell(told, Callbacks(x), o)[x.req] # <<>>
BY ToldTypes, TellType, TellAnswers DEF Callbacks

LEMMA TakeRemembers ==
    ASSUME Types, CountInv, RememberInv, Take
    PROVE  RememberInv'
<1> DEFINE k == FirstTakeable
           x == commands[FirstTakeable]
<1>1. /\ k \in DOMAIN commands /\ x \in Good /\ taken = None /\ taken' = x
      /\ commands' = RemoveAt(commands, k)
      /\ noBufferedMessages' =
           [noBufferedMessages EXCEPT ![x.client] = IF x.type = "PUBLISH" THEN @ - 1 ELSE @]
      /\ UNCHANGED <<api, responses, accepted, told, dropped, misread, scenario>>
      /\ commands \in Seq(Good)
    BY TakeWays, GoodCommands DEF sessVars, appVars, histVars
<1>2. ToSet(commands') = {commands[i] : i \in DOMAIN commands \ {k}}
    BY <1>1, RemoveAtSet
<1>3. x # None /\ x.client \in Clients
    BY <1>1, GoodFacts
<1> HIDE DEF k
<1>4. ASSUME NEW y \in ToSet(commands), y.cb PROVE Remembered(y.req)'
    <2>1. PICK i \in DOMAIN commands : y = commands[i]
        BY DEF ToSet
    <2>2. CASE i = k
        BY <1>1, <1>3, <1>4, <2>1, <2>2 DEF Remembered, Waiting, k
    <2>3. CASE i # k
        BY <1>2, <1>4, <2>1, <2>3 DEF Remembered, Waiting
    <2> QED BY <2>2, <2>3
<1>5. ListWaits
    BY <1>4 DEF ListWaits
<1>6. \A r \in accepted' : Remembered(r)'
    BY <1>1, <1>5, StaysWaiting, RememberStep
<1>7. \A d \in Clients : noBufferedMessages'[d] <= noBufferedMessages[d] /\ noBufferedMessages[d] \in Nat
    BY <1>1, <1>3 DEF CountInv
<1>8. ASSUME NEW d \in Clients, Full(d)' PROVE Full(d)
    <2>1. scenario.maxBuffered \in Nat /\ scenario' = scenario
        BY <1>1, ScenarioFacts DEF Types
    <2>2. noBufferedMessages'[d] \in Int
        BY <1>1, <1>3 DEF CountInv
    <2> QED BY <1>7, <1>8, <2>1, <2>2 DEF Full
<1>9. Room'
    <2>1. \A u \in Threads : api[u] # None => api[u].client \in Clients
        BY GoodFacts DEF Types, QueueTypes
    <2>2. ASSUME OneThread, ~scenario.deleteOldest, NEW u \in Threads, api[u] # None, api[u].type = "PUBLISH"
          PROVE  ~Full(api[u].client)'
        <3>1. ~Full(api[u].client)
            BY <2>2 DEF RememberInv, Room
        <3>2. \A d \in Clients : Full(d)' => Full(d)
            BY <1>8
        <3> DEFINE d == api[u].client
        <3>3. d \in Clients /\ d' = d
            BY <1>1, <2>1, <2>2
        <3>4. ~Full(d) => ~Full(d)'
            BY <3>2, <3>3 DEF Full
        <3> QED BY <1>1, <3>1, <3>3, <3>4
    <2> QED BY <1>1, <2>2 DEF RememberInv, Room, OneThread
<1>10. ApiCalls'
    BY <1>1 DEF RememberInv, ApiCalls
<1> QED BY <1>6, <1>9, <1>10 DEF RememberInv

(* Steps of the send thread on a CONNECT.                                    *)
LEMMA ExecConnectRemembers ==
    ASSUME Types, RememberInv, ExecConnectBusy \/ ExecConnect \/ ExecConnectFails
    PROVE  RememberInv'
<1>1. /\ taken # None /\ taken.type = "CONNECT"
      /\ UNCHANGED <<api, responses, accepted, dropped, misread, noBufferedMessages, scenario>>
      /\ commands' = commands \/ commands' = Inserted(commands, NextTry)
      /\ told' = told \/ told' = Tell(told, Callbacks(TriedConnect), "fail")
    BY ExecConnectWays, ExecConnectFailsWays
       DEF ExecConnectBusy, sessVars, storeVars, appVars, histVars
<1>2. NextTry \in HeadCommands
    BY <1>1, NextTryFacts DEF Same
<1>3. ListWaits
    BY <1>1, <1>2, HeadsWait
<1>4. TakenWaits
    BY <1>1, StaysWaiting DEF IsData
<1>5. ToldGrows
    BY <1>1, ConnectTells DEF ToldGrows
<1>6. RespWaits /\ ApiKept
    BY <1>1, StaysWaiting DEF ApiKept
<1> QED BY <1>1, <1>3, <1>4, <1>5, <1>6, RememberQuiet

LEMMA ExecDataRemembers ==
    ASSUME Types, RememberInv, NEW outcome \in {"complete", "interrupted", "error"},
           ExecData(outcome)
    PROVE  RememberInv'
<1> DEFINE c == taken.client
<1>1. /\ taken # None /\ IsData(taken) /\ taken' = None
      /\ DataComplete(c) \/ DataInterrupted(c) \/ DataError(c)
      /\ UNCHANGED <<api, accepted, dropped, misread, noBufferedMessages, scenario>>
    BY ExecDataWays DEF storeVars
<1>2. taken \in DataCommands /\ c \in Clients
    BY <1>1, TakenFacts
<1>3. DOMAIN responses = Clients /\ responses[c] \in Seq(DataCommands)
    BY <1>2 DEF Types, SessTypes
<1> HIDE DEF c
<1>4. ToSet(Append(responses[c], taken)) = ToSet(responses[c]) \cup {taken}
    BY <1>2, <1>3, AppendToSet
<1>5. /\ \/ responses' = responses /\ \E o \in {"ok", "fail"} : told' = Tell(told, Callbacks(taken), o)
         \/ responses' = [responses EXCEPT ![c] = Append(@, taken)] /\ told' = told
      /\ commands' = commands \/ commands' = Inserted(commands, Internal(c))
    BY <1>1 DEF DataComplete, DataInterrupted, DataError
<1>6. ListWaits
    BY <1>2, <1>5, NewHeads, HeadsWait
<1>7. ToldGrows
    <2>1. ASSUME NEW o \in {"ok", "fail"}, told' = Tell(told, Callbacks(taken), o) PROVE ToldGrows
        BY <2>1, ConnectTells DEF ToldGrows
    <2> QED BY <1>5, <2>1 DEF ToldGrows
<1>8. RespWaits
    <2>1. ASSUME NEW d \in Clients, NEW x \in ToSet(responses[d]), x.cb PROVE Remembered(x.req)'
        <3>1. x \in ToSet(responses'[d])
            BY <1>3, <1>4, <1>5
        <3> QED BY <2>1, <3>1 DEF Remembered, Waiting
    <2> QED BY <2>1 DEF RespWaits
<1>9. ASSUME NEW x \in {taken}, x.cb PROVE Remembered(x.req)'
    <2>0. x = taken /\ x.req \in Reqs
        BY <1>2, ToldTypes
    <2>1. ASSUME NEW o \in {"ok", "fail"}, told' = Tell(told, Callbacks(x), o) PROVE Remembered(x.req)'
        <3>1. told'[x.req] # <<>>
            BY <1>9, <2>0, <2>1, ConnectTells
        <3> QED BY <3>1 DEF Remembered
    <2>2. CASE responses' = [responses EXCEPT ![c] = Append(@, taken)]
        <3>1. x \in ToSet(responses'[c])
            BY <1>2, <1>3, <1>4, <2>0, <2>2
        <3> QED BY <1>2, <1>9, <3>1 DEF Remembered, Waiting
    <2> QED BY <1>5, <2>0, <2>1, <2>2
<1>10. TakenWaits
    BY <1>9 DEF TakenWaits
<1>11. ApiKept
    BY <1>1 DEF ApiKept
<1> QED BY <1>1, <1>6, <1>7, <1>8, <1>10, <1>11, RememberQuiet

(* A connection is closed by a DISCONNECT.                                   *)
LEMMA DisconnectsRemember ==
    ASSUME Types, NEW c \in Clients, NEW x, NEW t \in [Reqs -> Seq({"ok", "fail"})],
           \A r \in Reqs : told[r] # <<>> => t[r] # <<>>, CloseForDisconnect(c, x, t)
    PROVE  ToldGrows /\ RespWaits
<1> DEFINE u == IF x.internal THEN t ELSE Tell(t, Callbacks(x), "ok")
<1>1. CleanSession(c, scenario.clean, u)
    BY DEF CloseForDisconnect
<1>2. u \in [Reqs -> Seq({"ok", "fail"})]
    BY TellType
<1>3. \A r \in Reqs : t[r] # <<>> => Tell(t, Callbacks(x), "ok")[r] # <<>>
    BY TellAnswers DEF Callbacks
<1>4. \A r \in Reqs : told[r] # <<>> => u[r] # <<>>
    BY <1>3
<1> HIDE DEF u
<1> QED BY <1>1, <1>2, <1>4, CleanRemembers

LEMMA ExecDisconnectRemembers ==
    ASSUME Types, RememberInv, ExecDisconnect
    PROVE  RememberInv'
<1> DEFINE c == taken.client
           t == ToldBusy(c)
<1>1. /\ taken # None /\ taken.type = "DISCONNECT"
      /\ UNCHANGED <<commands, api, accepted, dropped, misread, noBufferedMessages, scenario>>
      /\ \/ CloseForDisconnect(c, taken, t)
         \/ told' = t /\ UNCHANGED responses
         \/ UNCHANGED <<told, responses>>
    BY ExecDisconnectWays DEF storeVars, sessVars
<1>2. c \in Clients
    BY <1>1, TakenFacts
<1>3. /\ t \in [Reqs -> Seq({"ok", "fail"})]
      /\ \A r \in Reqs : told[r] # <<>> => t[r] # <<>>
    BY ConnectTells, ToldTypes DEF ToldBusy
<1> HIDE DEF t, c
<1>4. ToldGrows /\ RespWaits
    <2>1. CASE CloseForDisconnect(c, taken, t)
        BY <1>2, <1>3, <2>1, DisconnectsRemember
    <2>2. CASE told' = t /\ UNCHANGED responses
        BY <1>3, <2>2, StaysWaiting DEF ToldGrows
    <2> QED BY <1>1, <2>1, <2>2, StaysWaiting
<1>5. ListWaits /\ TakenWaits /\ ApiKept
    BY <1>1, StaysWaiting DEF IsData, ApiKept
<1> QED BY <1>1, <1>4, <1>5, RememberQuiet

LEMMA DisconnectTimeoutRemembers ==
    ASSUME Types, RememberInv, NEW c \in Clients, DisconnectTimeout(c)
    PROVE  RememberInv'
<1>1. /\ CloseForDisconnect(c, disconnect[c], told)
      /\ UNCHANGED <<commands, taken, api, accepted, dropped, misread, noBufferedMessages, scenario>>
    BY DEF DisconnectTimeout, queueVars, storeVars
<1>2. ToldGrows /\ RespWaits
    BY <1>1, ToldTypes, DisconnectsRemember
<1>3. ListWaits /\ TakenWaits /\ ApiKept
    BY <1>1, StaysWaiting DEF ApiKept
<1> QED BY <1>1, <1>2, <1>3, RememberQuiet

LEMMA ClosesRemember ==
    ASSUME Types, RememberInv, NEW c \in Clients, Closes(c)
    PROVE  RememberInv'
<1>1. PICK was \in BOOLEAN, ended \in BOOLEAN : NextOrClose(c, was, ended)
    <2>1. connected[c] \in BOOLEAN
        BY DEF Types, ConnTypes
    <2> QED BY <2>1, ClosesWays
<1>2. /\ UNCHANGED <<taken, api, accepted, dropped, misread, noBufferedMessages, scenario>>
      /\ \/ /\ commands' = <<NextConnect(connect[c], was)>> \o commands
            /\ UNCHANGED <<sessVars, told>>
         \/ /\ CleanSession(c, scenario.clean, Tell(told, Callbacks(connect[c]), "fail"))
            /\ UNCHANGED commands
    BY <1>1, NextOrCloseWays DEF storeVars
<1>3. TakenWaits /\ ApiKept
    BY <1>2, StaysWaiting DEF ApiKept
<1>4. CASE commands' = <<NextConnect(connect[c], was)>> \o commands /\ UNCHANGED <<sessVars, told>>
    <2>1. connect[c] \in HeadCommands /\ connect[c].type = "CONNECT"
        BY DEF Types, ConnTypes, ConnectOK
    <2>2. NextConnect(connect[c], was) \in HeadCommands
        BY <2>1, NextConnectFacts DEF Same
    <2>3. ListWaits
        BY <1>4, <2>2, HeadsWait
    <2> QED BY <1>2, <1>3, <1>4, <2>3, StaysWaiting, RememberQuiet DEF sessVars
<1>5. CASE /\ CleanSession(c, scenario.clean, Tell(told, Callbacks(connect[c]), "fail"))
           /\ UNCHANGED commands
    <2>1. ToldGrows /\ RespWaits
        BY <1>5, ConnectTells, CleanRemembers
    <2> QED BY <1>2, <1>3, <1>5, <2>1, StaysWaiting, RememberQuiet
<1> QED BY <1>2, <1>4, <1>5

LEMMA ConnackRemembers ==
    ASSUME Types, RememberInv, NEW c \in Clients, NEW present \in BOOLEAN, ConnackAccepts(c, present)
    PROVE  RememberInv'
<1>1. /\ CleanSession(c, Cleans(present), Tell(told, Callbacks(connect[c]), "ok"))
      /\ UNCHANGED <<commands, taken, api, accepted, dropped, misread, noBufferedMessages, scenario>>
    BY DEF ConnackAccepts, queueVars, storeVars
<1>2. ToldGrows /\ RespWaits
    BY <1>1, ConnectTells, CleanRemembers
<1> QED BY <1>1, <1>2, StaysWaiting, RememberQuiet DEF ApiKept

LEMMA ResendRemembers ==
    ASSUME Types, RememberInv, NEW c \in Clients, ResendFails(c)
    PROVE  RememberInv'
<1> DEFINE x == NextConnect(connect[c], TRUE)
<1>1. /\ UNCHANGED <<taken, api, responses, accepted, dropped, misread, noBufferedMessages, scenario>>
      /\ commands' = <<x>> \o commands \/ commands' = commands
      /\ told' = Tell(told, Callbacks(connect[c]), "fail")
      /\ x \in HeadCommands
    BY ResendFailsWays DEF sessVars, storeVars
<1> HIDE DEF x
<1>2. ListWaits /\ ToldGrows
    BY <1>1, HeadsWait, ConnectTells DEF ToldGrows
<1> QED BY <1>1, <1>2, StaysWaiting, RememberQuiet DEF ApiKept

-----------------------------------------------------------------------------
(* Accepted requests: answers and restarts                                  *)

(* A CONNECT is queued again; the connection goes on or breaks.              *)
LEMMA AgainRemembers ==
    ASSUME Types, RememberInv, NEW c \in Clients,
           RetryTimer(c) \/ Reconnect(c) \/ TransportDone(c) \/ Break(c)
    PROVE  RememberInv'
<1>1. /\ commands' = commands \/ commands' = Inserted(commands, Again(c))
      /\ UNCHANGED <<taken, api, responses, told, accepted, dropped, misread, noBufferedMessages,
                     scenario>>
    BY DEF RetryTimer, Reconnect, TransportDone, Break, Again, queueVars, sessVars, storeVars,
           appVars, histVars
<1>2. Again(c) \in HeadCommands
    BY AgainFacts DEF Same, Types
<1>3. ListWaits
    BY <1>1, <1>2, HeadsWait
<1> QED BY <1>1, <1>3, StaysWaiting, RememberQuiet DEF ApiKept

(* A response is taken out of the list: it is reported, or a mistake.        *)
LEMMA ResponseRemembers ==
    ASSUME Types, RememberInv, NEW c \in Clients, NEW I,
           I = {} \/ \E i \in DOMAIN responses[c] : I = {i},
           responses' = [responses EXCEPT ![c] = Without(responses[c], I)],
           misread \subseteq misread',
           \/ \E o \in {"ok", "fail"} : told' = Tell(told, ReqsOf({responses[c][i] : i \in I}), o)
           \/ UNCHANGED told /\ \A i \in I : responses[c][i].req \in misread',
           UNCHANGED <<queueVars, accepted, dropped, noBufferedMessages, scenario>>
    PROVE  RememberInv'
<1>0. responses[c] \in Seq(DataCommands) /\ DOMAIN responses = Clients
    BY DEF Types, SessTypes
<1>1. ToSet(Without(responses[c], I)) = {responses[c][i] : i \in DOMAIN responses[c] \ I}
    BY <1>0, WithoutWays
<1>2. ASSUME NEW o \in {"ok", "fail"}, told' = Tell(told, ReqsOf({responses[c][i] : i \in I}), o)
      PROVE  /\ ToldGrows
             /\ \A i \in I : responses[c][i].cb => told'[responses[c][i].req] # <<>>
    <2> DEFINE S == {responses[c][i] : i \in I}
    <2>1. \A i \in I : responses[c][i] \in S /\ responses[c][i].req \in Reqs
        BY <1>0, ToldTypes
    <2> HIDE DEF S
    <2>2. told' = Tell(told, ReqsOf(S), o)
        BY <1>2 DEF S
    <2> QED BY <2>1, <2>2, ToldTypes, TellAnswers DEF ToldGrows
<1>3. ToldGrows
    BY <1>2 DEF ToldGrows
<1>4. ASSUME NEW d \in Clients, NEW x \in ToSet(responses[d]), x.cb PROVE Remembered(x.req)'
    <2>1. CASE d # c
        <3>1. x \in ToSet(responses'[d])
            BY <1>0, <2>1
        <3> QED BY <1>4, <3>1 DEF Remembered, Waiting
    <2>2. CASE d = c
        <3>1. PICK i \in DOMAIN responses[c] : x = responses[c][i]
            BY <2>2 DEF ToSet
        <3>2. CASE i \notin I
            <4>1. x \in ToSet(responses'[c])
                BY <1>0, <1>1, <3>1, <3>2
            <4> QED BY <1>4, <4>1 DEF Remembered, Waiting
        <3>3. CASE i \in I
            <4>1. told'[x.req] # <<>> \/ x.req \in misread'
                BY <1>2, <1>4, <3>1, <3>3
            <4> QED BY <4>1 DEF Remembered
        <3> QED BY <3>2, <3>3
    <2> QED BY <2>1, <2>2
<1>5. RespWaits
    BY <1>4 DEF RespWaits
<1> QED BY <1>3, <1>5, StaysWaiting, RememberQuiet DEF queueVars, ApiKept

LEMMA AnswersRemember ==
    ASSUME Types, RememberInv, NEW c \in Clients,
           \/ \E p \in owed[c], outcome \in {"ok", "fail"} : Ack(c, p, outcome)
           \/ WriteDone(c) \/ WriteFails(c)
    PROVE  RememberInv'
<1>1. ASSUME NEW p \in owed[c], NEW outcome \in {"ok", "fail"}, Ack(c, p, outcome)
      PROVE  RememberInv'
    <2> DEFINE I == Answered(responses[c], p.tok)
    <2>1. /\ I = {} \/ \E i \in DOMAIN responses[c] : I = {i}
          /\ responses' = [responses EXCEPT ![c] = Without(@, Answered(@, p.tok))]
          /\ told' = Tell(told, ReqsOf(Found(c, p)), outcome)
          /\ UNCHANGED <<queueVars, accepted, dropped, misread, noBufferedMessages, scenario>>
        BY <1>1, AckWays DEF storeVars
    <2>2. Found(c, p) = {responses[c][i] : i \in I}
        BY DEF Found
    <2>3. responses' = [responses EXCEPT ![c] = Without(responses[c], I)]
        BY <2>1
    <2> HIDE DEF I
    <2> QED BY <2>1, <2>2, <2>3, ResponseRemembers
<1>2. ASSUME UNCHANGED <<responses, told, misread>>,
             UNCHANGED <<queueVars, accepted, dropped, noBufferedMessages, scenario>>
      PROVE  RememberInv'
    BY <1>2, StaysWaiting, RememberQuiet DEF queueVars, ApiKept
<1>3. ASSUME NEW i \in DOMAIN responses[c], NEW o \in {"ok", "fail"}, FreesResponse(c, i, o),
             UNCHANGED <<queueVars, accepted, dropped, noBufferedMessages, scenario>>
      PROVE  RememberInv'
    <2>1. CASE UNCHANGED <<responses, told, misread>>
        BY <1>2, <1>3, <2>1
    <2>2. CASE /\ responses' = [responses EXCEPT ![c] = RemoveAt(@, i)]
               /\ \/ told' = Tell(told, Callbacks(responses[c][i]), o) /\ UNCHANGED misread
                  \/ UNCHANGED told /\ misread' = misread \cup {responses[c][i].req}
        <3>1. responses[c] \in Seq(DataCommands)
            BY DEF Types, SessTypes
        <3>2. Without(responses[c], {i}) = RemoveAt(responses[c], i)
            BY <3>1, WithoutFacts
        <3>3. responses' = [responses EXCEPT ![c] = Without(responses[c], {i})]
            BY <2>2, <3>2
        <3>4. ReqsOf({responses[c][k] : k \in {i}}) = Callbacks(responses[c][i])
            BY DEF Callbacks
        <3>5. \/ told' = Tell(told, ReqsOf({responses[c][k] : k \in {i}}), o)
              \/ UNCHANGED told /\ \A k \in {i} : responses[c][k].req \in misread'
            BY <2>2, <3>4
        <3>6. misread \subseteq misread'
            BY <2>2
        <3> QED BY <1>3, <3>3, <3>5, <3>6, ResponseRemembers
    <2> QED BY <1>3, <2>1, <2>2 DEF FreesResponse
<1>4. CASE WriteDone(c)
    <2>1. /\ \/ UNCHANGED <<responses, told, misread>>
             \/ \E i \in DOMAIN responses[c] : FreesResponse(c, i, "ok")
          /\ UNCHANGED <<queueVars, accepted, dropped, noBufferedMessages, scenario>>
        BY <1>4, WriteDoneWays DEF storeVars
    <2> QED BY <1>2, <1>3, <2>1
<1>5. CASE WriteFails(c)
    <2>1. /\ \/ UNCHANGED <<responses, told, misread>>
             \/ \E i \in DOMAIN responses[c] : FreesResponse(c, i, "fail")
          /\ UNCHANGED <<queueVars, accepted, dropped, noBufferedMessages, scenario>>
        BY <1>5, WriteFailsWays DEF storeVars
    <2> QED BY <1>2, <1>3, <2>1
<1> QED BY <1>1, <1>4, <1>5

(* A restarted program has forgotten every request; only what was dropped    *)
(* stays dropped.                                                            *)
LEMMA KillRemembers ==
    ASSUME RememberInv, AnyKill
    PROVE  RememberInv'
<1>1. PICK R : Restart(R)
    BY AnyKillWays
<1> QED BY <1>1, RestartWays DEF RememberInv, ApiCalls, Room, OneThread

(* A destroyed client reports what it has; the other clients' commands stay. *)
LEMMA RecreateRemembers ==
    ASSUME Types, RememberInv, NEW c \in Clients, Recreate(c)
    PROVE  RememberInv'
<1>1. /\ ~InUse(c)
      /\ told' = Tell(told, ReqsOf(Freed(c)), "fail")
      /\ responses' = [responses EXCEPT ![c] = <<>>]
      /\ noBufferedMessages' = [noBufferedMessages EXCEPT ![c] = CountRestored(store[c])]
      /\ UNCHANGED <<taken, api, accepted, dropped, misread, scenario>>
      /\ DOMAIN responses = Clients
    BY RecreateWays DEF Types, SessTypes
<1> DEFINE S == store[c]
<1>2. PICK others, own, g : commands' = others \o own /\ MovedBy(c, S, others, own, g)
    BY RecreateMoves
<1> HIDE DEF S
<1>3. ToSet(commands') = ToSet(others) \cup ToSet(own)
    BY <1>2, ConcatFacts DEF MovedBy
<1>4. /\ ToldGrows
      /\ \A x \in Freed(c) : x.cb /\ x.req \in Reqs => told'[x.req] # <<>>
    BY <1>1, ToldTypes, TellAnswers DEF ToldGrows
<1>5. ASSUME NEW x \in ToSet(commands), x.cb PROVE Remembered(x.req)'
    <2>1. CASE x.client = c
        <3>1. x \in Freed(c) /\ x.req \in Reqs
            BY <1>5, <2>1, GoodCommands, ToldTypes DEF Freed
        <3> QED BY <1>4, <1>5, <3>1 DEF Remembered
    <2>2. CASE x.client # c
        <3>1. PICK i \in DOMAIN commands : x = commands[i]
            BY DEF ToSet
        <3>2. i \in OthersOf(c)
            BY <2>2, <3>1 DEF OthersOf
        <3>3. PICK k \in DOMAIN others : g[k] = i
            BY <1>2, <3>2 DEF MovedBy
        <3>4. others[k] = x
            BY <1>2, <3>1, <3>3 DEF MovedBy
        <3>5. x \in ToSet(commands')
            BY <1>3, <3>4 DEF ToSet
        <3> QED BY <1>5, <3>5 DEF Remembered, Waiting
    <2> QED BY <2>1, <2>2
<1>6. ASSUME NEW d \in Clients, NEW x \in ToSet(responses[d]), x.cb PROVE Remembered(x.req)'
    <2>1. CASE d = c
        <3>1. x \in Freed(c) /\ x.req \in Reqs
            BY <2>1, GoodCommands, ToldTypes DEF Freed
        <3> QED BY <1>4, <1>6, <3>1 DEF Remembered
    <2>2. CASE d # c
        <3>1. x \in ToSet(responses'[d])
            BY <1>1, <2>2
        <3> QED BY <1>6, <3>1 DEF Remembered, Waiting
    <2> QED BY <2>1, <2>2
<1>7. \A r \in accepted' : Remembered(r)'
    <2>1. ListWaits /\ RespWaits
        BY <1>5, <1>6 DEF ListWaits, RespWaits
    <2> QED BY <1>1, <1>4, <2>1, StaysWaiting, RememberStep
<1>8. Room'
    <2>1. \A d \in Clients : d # c => (Full(d)' <=> Full(d))
        BY <1>1 DEF Full, Types, StoreTypes
    <2>2. \A u \in Threads : api[u] # None => api[u].client \in Clients /\ api[u].client # c
        BY <1>1, GoodFacts DEF InUse, Types, QueueTypes
    <2>3. \A u \in Threads : api[u] # None => noBufferedMessages'[api[u].client] = noBufferedMessages[api[u].client]
        BY <1>1, <2>2
    <2> QED BY <1>1, <2>3 DEF RememberInv, Room, OneThread, Full
<1>9. ApiCalls'
    BY <1>1 DEF RememberInv, ApiCalls
<1> QED BY <1>7, <1>8, <1>9 DEF RememberInv

LEMMA InitRemember == Init => RememberInv
BY DEF Init, RememberInv, ApiCalls, Room

LEMMA RememberNext ==
    ASSUME Types, CountInv, IdleThreads, RememberInv, [Next]_vars
    PROVE  RememberInv'
<1>1. CASE UNCHANGED vars
    BY <1>1, StaysWaiting, RememberQuiet
       DEF vars, queueVars, sessVars, storeVars, appVars, histVars, ApiKept
<1>2. CASE Next
    <2>0. \A c \in scenario.clients : c \in Clients
        BY ScenarioFacts DEF Types
    <2>1. CASE \E t \in Threads : AddCommand(t)
        BY <2>1, AddRemembers
    <2>2. CASE \E t \in Threads, c \in scenario.clients :
                \/ \E r \in Pubs : Send(t, c, r) \/ SendRefused(t, c, r)
                \/ \E r \in Subs : Subscribe(t, c, r)
                \/ \E r \in Conns : Connect(t, c, r)
                \/ \E r \in Discs : Disconnect(t, c, r)
        BY <2>0, <2>2, CallsRemember
    <2>3. CASE Take \/ ExecConnectBusy \/ ExecConnect \/ ExecConnectFails
        BY <2>3, TakeRemembers, ExecConnectRemembers
    <2>4. CASE \E outcome \in {"complete", "interrupted", "error"} : ExecData(outcome)
        BY <2>4, ExecDataRemembers
    <2>5. CASE ExecDisconnect
        BY <2>5, ExecDisconnectRemembers
    <2>6. ASSUME NEW c \in Clients,
                 \/ DisconnectTimeout(c) \/ RetryTimer(c) \/ Closes(c) \/ TransportDone(c)
                 \/ \E present \in BOOLEAN : ConnackAccepts(c, present)
                 \/ ResendFails(c)
                 \/ \E p \in owed[c], outcome \in {"ok", "fail"} : Ack(c, p, outcome)
                 \/ WriteDone(c) \/ WriteFails(c)
          PROVE  RememberInv'
        BY <2>6, DisconnectTimeoutRemembers, AgainRemembers, ClosesRemember, ConnackRemembers,
           ResendRemembers, AnswersRemember
    <2>7. ASSUME NEW c \in scenario.clients, Reconnect(c) \/ Break(c) \/ Recreate(c)
          PROVE  RememberInv'
        BY <2>0, <2>7, AgainRemembers, RecreateRemembers
    <2>8. CASE AnyKill
        BY <2>8, KillRemembers
    <2> QED BY <1>2, <2>1, <2>2, <2>3, <2>4, <2>5, <2>6, <2>7, <2>8, Steps DEF AnyKill
<1> QED BY <1>1, <1>2

LEMMA AlwaysRemembered == Spec => []RememberInv
<1>1. QueueInv => CountInv
    BY DEF QueueInv
<1>2. Types /\ QueueInv /\ IdleThreads /\ RememberInv /\ [Next]_vars => RememberInv'
    BY <1>1, RememberNext
<1> QED BY <1>2, InitRemember, AlwaysQueue, AlwaysTokens, PTL DEF Spec

(* A request that MQTTAsync_addCommand took over is reported by a callback   *)
(* or still held by the client, whatever MQTTAsync_processCommand, timers,   *)
(* acknowledgements, closed connections and MQTTAsync_destroy did with it,   *)
(* apart from the exceptions the property names.  Property NoneForgotten.    *)
THEOREM NoRequestForgotten == Spec => []NoneForgotten
<1>1. ASSUME RememberInv PROVE NoneForgotten
    <2>1. ASSUME NEW r \in accepted, Waiting(r)
          PROVE  r \in ReqsOf(ToSet(commands) \cup ({taken} \ {None})
                              \cup UNION {ToSet(responses[c]) : c \in Clients})
        <3> DEFINE S == ToSet(commands) \cup ({taken} \ {None})
                        \cup UNION {ToSet(responses[c]) : c \in Clients}
        <3>1. \E x \in S : x.cb /\ x.req = r
            BY <2>1 DEF Waiting
        <3> HIDE DEF S
        <3>2. r \in ReqsOf(S)
            BY <3>1 DEF ReqsOf
        <3> QED BY <3>2 DEF S
    <2>2. \A r \in accepted : told[r] # <<>> \/ r \in dropped \cup misread \/ Waiting(r)
        BY <1>1 DEF RememberInv, Remembered
    <2>3. dropped # {} /\ OneThread => scenario.deleteOldest
        BY <1>1 DEF RememberInv, Room
    <2> QED BY <2>1, <2>2, <2>3 DEF NoneForgotten
<1> QED BY <1>1, AlwaysRemembered, PTL

-----------------------------------------------------------------------------
(* What is written and what the server owes                                 *)

(* Only a connected client has a packet that is partly written, and data is  *)
(* executed only where there is none.                                        *)
ReadyInv ==
    /\ \A c \in Clients : partial[c] # None => connected[c]
    /\ taken # None /\ IsData(taken) => connected[taken.client] /\ partial[taken.client] = None

LEMMA ReadyKept ==
    ASSUME ReadyInv, UNCHANGED <<partial, connected>>, taken' \in {taken, None}
    PROVE  ReadyInv'
BY DEF ReadyInv

LEMMA ReadyClosed ==
    ASSUME Types, ReadyInv, NEW c \in Clients, CloseOnly(c),
           taken' = None \/ (taken = None /\ UNCHANGED taken)
    PROVE  ReadyInv'
<1>1. /\ connected' = [connected EXCEPT ![c] = FALSE]
      /\ partial' = [partial EXCEPT ![c] = None]
      /\ DOMAIN connected = Clients /\ DOMAIN partial = Clients
    BY DEF CloseOnly, Types, ConnTypes, SockTypes
<1>2. taken' = None
    OBVIOUS
<1> QED BY <1>1, <1>2 DEF ReadyInv

LEMMA ReadyStep ==
    ASSUME Types, EndInv, ReadyInv, [Next]_vars
    PROVE  ReadyInv'
<1>a. DOMAIN connected = Clients /\ DOMAIN partial = Clients
    BY DEF Types, ConnTypes, SockTypes
<1>1. CASE UNCHANGED vars
    BY <1>1, ReadyKept DEF vars, queueVars, connVars, sockVars
<1>2. CASE Next
    <2>0. \A c \in scenario.clients : c \in Clients
        BY ScenarioFacts DEF Types
    <2>1. ASSUME NEW t \in Threads, AddCommand(t) PROVE ReadyInv'
        BY <2>1, ReadyKept DEF AddCommand, connVars, sockVars
    <2>2. ASSUME NEW t \in Threads, NEW c \in scenario.clients,
                 \/ \E r \in Pubs : Send(t, c, r) \/ SendRefused(t, c, r)
                 \/ \E r \in Subs : Subscribe(t, c, r)
                 \/ \E r \in Conns : Connect(t, c, r)
                 \/ \E r \in Discs : Disconnect(t, c, r)
          PROVE  ReadyInv'
        BY <2>2, ReadyKept DEF Send, SendRefused, Subscribe, Connect, Disconnect, connVars, sockVars,
           queueVars
    <2>3. CASE Take
        <3>1. /\ taken' = commands[FirstTakeable] /\ ~Blocked(commands[FirstTakeable])
              /\ UNCHANGED <<connected, partial>>
            BY <2>3, TakeWays DEF connVars, sockVars
        <3>2. IsData(taken') => connected[taken'.client] /\ partial[taken'.client] = None
            BY <3>1 DEF Blocked
        <3> QED BY <3>1, <3>2 DEF ReadyInv
    <2>4. CASE ExecConnectBusy \/ ExecConnect \/ ExecConnectFails
        BY <2>4, ReadyKept DEF ExecConnectBusy, ExecConnect, ExecConnectFails, sockVars
    <2>5. ASSUME NEW outcome \in {"complete", "interrupted", "error"}, ExecData(outcome)
          PROVE  ReadyInv'
        <3> DEFINE k == taken.client
        <3>1. /\ taken # None /\ IsData(taken) /\ taken' = None /\ UNCHANGED connected
              /\ DataComplete(k) \/ DataInterrupted(k) \/ DataError(k)
            BY <2>5, ExecDataWays DEF connVars
        <3>2. partial' = partial \/ partial' = [partial EXCEPT ![k] = PacketOf(taken)]
            BY <3>1 DEF DataComplete, DataInterrupted, DataError
        <3>3. connected[k]
            BY <3>1 DEF ReadyInv
        <3> QED BY <1>a, <3>1, <3>2, <3>3 DEF ReadyInv
    <2>6. CASE ExecDisconnect
        <3> DEFINE k == taken.client
        <3>1. /\ taken # None /\ taken' = None
              /\ \/ CloseForDisconnect(k, taken, ToldBusy(k))
                 \/ UNCHANGED <<connected, sockVars>>
            BY <2>6, ExecDisconnectWays
        <3>2. k \in Clients
            BY <3>1, TakenFacts
        <3>3. CASE CloseForDisconnect(k, taken, ToldBusy(k))
            BY <3>1, <3>2, <3>3, ReadyClosed DEF CloseForDisconnect
        <3>4. CASE UNCHANGED <<connected, sockVars>>
            BY <3>1, <3>4, ReadyKept DEF sockVars
        <3> QED BY <3>1, <3>3, <3>4
    <2>7. ASSUME NEW c \in Clients, DisconnectTimeout(c) PROVE ReadyInv'
        BY <2>7, ReadyClosed DEF DisconnectTimeout, CloseForDisconnect, AsyncMutexFree, queueVars
    <2>8. ASSUME NEW c \in Clients, Closes(c) PROVE ReadyInv'
        <3>1. taken = None /\ \E was, ended : NextOrClose(c, was, ended)
            BY <2>8, ClosesWays
        <3>2. CloseOnly(c) /\ UNCHANGED taken
            BY <3>1 DEF NextOrClose
        <3> QED BY <3>1, <3>2, ReadyClosed
    <2>9. ASSUME NEW c \in Clients, RetryTimer(c) \/ TransportDone(c) PROVE ReadyInv'
        BY <2>9, ReadyKept DEF RetryTimer, TransportDone, sockVars, queueVars
    <2>10. ASSUME NEW c \in Clients, NEW present \in BOOLEAN, ConnackAccepts(c, present) PROVE ReadyInv'
        <3>1. /\ connected' = [connected EXCEPT ![c] = TRUE]
              /\ UNCHANGED <<partial, taken>> /\ taken = None
            BY <2>10 DEF ConnackAccepts, AsyncMutexFree, queueVars
        <3> QED BY <1>a, <3>1 DEF ReadyInv
    <2>11. ASSUME NEW c \in Clients, NEW p \in owed[c], NEW outcome \in {"ok", "fail"},
                  Ack(c, p, outcome)
           PROVE  ReadyInv'
        BY <2>11, ReadyKept DEF Ack, queueVars, connVars
    <2>12. ASSUME NEW c \in Clients, WriteDone(c) \/ WriteFails(c) PROVE ReadyInv'
        <3>1. /\ partial' = [partial EXCEPT ![c] = None]
              /\ UNCHANGED <<connected, taken>>
              /\ taken = None
            BY <2>12 DEF WriteDone, WriteFails, AsyncMutexFree, queueVars, connVars
        <3> QED BY <1>a, <3>1 DEF ReadyInv
    <2>13. ASSUME NEW c \in Clients, Reconnect(c) \/ Break(c) PROVE ReadyInv'
        BY <2>13, ReadyKept DEF Reconnect, Break, sockVars, queueVars, connVars
    <2>14. ASSUME NEW c \in Clients, Recreate(c) PROVE ReadyInv'
        BY <2>14, RecreateWays, ReadyClosed
    <2>15. CASE AnyKill
        <3>1. taken' = None /\ partial' = Each(None)
            BY <2>15, AnyKillWays, RestartWays
        <3> QED BY <3>1 DEF ReadyInv, Each
    <2>16. ASSUME NEW c \in Clients, ResendFails(c) PROVE ReadyInv'
        BY <2>16, ResendFailsWays, ReadyClosed
    <2> QED BY <1>2, <2>0, <2>1, <2>2, <2>3, <2>4, <2>5, <2>6, <2>7, <2>8, <2>9, <2>10, <2>11,
               <2>12, <2>13, <2>14, <2>15, <2>16, Steps DEF AnyKill
<1> QED BY <1>1, <1>2

(* A message in flight is not queued as well.                                *)
FlightInv ==
    \A c \in Clients : \A m \in ToSet(outboundMsgs[c]) :
        m.req \notin unused /\ \A x \in Queued : x.req # m.req

LEMMA FlightFacts ==
    ASSUME Types, NEW c \in Clients, NEW m \in ToSet(outboundMsgs[c])
    PROVE  m.req \in Pubs1 /\ m.tok \in Ids /\ m.tok # 0 /\ Pair(m) = m
<1> DEFINE M == [tok : Ids, req : Pubs1]
<1>1. outboundMsgs[c] \in Seq(M)
    BY DEF Types, SessTypes
<1>2. \A x \in M : x.req \in Pubs1 /\ x.tok \in Ids /\ Pair(x) = x
    BY DEF Pair
<1> HIDE DEF M
<1>3. m \in M
    BY <1>1, ToSetFacts
<1> QED BY <1>2, <1>3, MaxMsgIdAssumption DEF Ids

LEMMA RequestToken ==
    ASSUME NEW x \in Good, x.req \in Pubs1
    PROVE  x.tok # 0
<1>1. x \in DataCommands
    BY DisjointRequests, NoneFacts DEF Good, HeadCommands, HeadKind
<1>2. x.tok \in Ids
    BY <1>1, DisjointRequests DEF DataCommands, DataKind
<1> QED BY <1>2, MaxMsgIdAssumption DEF Ids

(* What has been called, misread, written, cut off or acknowledged stays so. *)
HistoryGrows ==
    /\ unused' \subseteq unused /\ misread \subseteq misread'
    /\ written \subseteq written' /\ cut \subseteq cut' /\ acked \subseteq acked'

LEMMA HistorySteps ==
    ASSUME Types, [Next]_vars
    PROVE  HistoryGrows
<1>a. UNCHANGED <<appVars, histVars>> => HistoryGrows
    BY DEF HistoryGrows, appVars, histVars
<1>b. ASSUME NEW c \in Clients, CloseOnly(c), UNCHANGED <<unused, misread, written, acked>>
      PROVE  HistoryGrows
    BY <1>b DEF HistoryGrows, CloseOnly
<1>1. CASE UNCHANGED vars
    BY <1>1, <1>a DEF vars
<1>2. CASE Next
    <2>0. \A c \in scenario.clients : c \in Clients
        BY ScenarioFacts DEF Types
    <2>1. ASSUME NEW t \in Threads, AddCommand(t) PROVE HistoryGrows
        BY <2>1 DEF AddCommand, HistoryGrows
    <2>2. ASSUME NEW t \in Threads, NEW c \in scenario.clients,
                 \/ \E r \in Pubs : Send(t, c, r) \/ SendRefused(t, c, r)
                 \/ \E r \in Subs : Subscribe(t, c, r)
                 \/ \E r \in Conns : Connect(t, c, r)
                 \/ \E r \in Discs : Disconnect(t, c, r)
          PROVE  HistoryGrows
        BY <2>2 DEF Send, SendRefused, Subscribe, Connect, Disconnect, Call, HistoryGrows, histVars
    <2>3. CASE Take
        BY <2>3, <1>a, TakeWays
    <2>4. CASE ExecConnectBusy \/ ExecConnect \/ ExecConnectFails
        BY <2>4 DEF ExecConnectBusy, ExecConnect, ExecConnectFails, appVars, histVars, HistoryGrows
    <2>5. ASSUME NEW outcome \in {"complete", "interrupted", "error"}, ExecData(outcome)
          PROVE  HistoryGrows
        <3> DEFINE k == taken.client
        <3>1. /\ UNCHANGED <<unused, misread, acked, cut>>
              /\ DataComplete(k) \/ DataInterrupted(k) \/ DataError(k)
            BY <2>5, ExecDataWays
        <3>2. written \subseteq written'
            BY <3>1 DEF DataComplete, DataInterrupted, DataError
        <3> QED BY <3>1, <3>2 DEF HistoryGrows
    <2>6. CASE ExecDisconnect
        <3>1. /\ taken # None /\ UNCHANGED <<unused, misread, written, acked>>
              /\ UNCHANGED cut \/ CloseOnly(taken.client)
            BY <2>6, ExecDisconnectWays DEF CloseForDisconnect
        <3> QED BY <1>b, <3>1, TakenFacts DEF HistoryGrows
    <2>7. ASSUME NEW c \in Clients, DisconnectTimeout(c) PROVE HistoryGrows
        BY <1>b, <2>7 DEF DisconnectTimeout, CloseForDisconnect
    <2>8. ASSUME NEW c \in Clients, RetryTimer(c) \/ TransportDone(c) PROVE HistoryGrows
        BY <1>a, <2>8 DEF RetryTimer, TransportDone
    <2>9. ASSUME NEW c \in Clients, Closes(c) PROVE HistoryGrows
        <3>1. \E was, ended : NextOrClose(c, was, ended)
            BY <2>9, ClosesWays
        <3> QED BY <1>b, <3>1 DEF NextOrClose
    <2>10. ASSUME NEW c \in Clients,
                 \/ \E present \in BOOLEAN : ConnackAccepts(c, present)
                 \/ \E p \in owed[c], outcome \in {"ok", "fail"} : Ack(c, p, outcome)
          PROVE  HistoryGrows
        BY <2>10 DEF ConnackAccepts, Ack, HistoryGrows
    <2>11. ASSUME NEW c \in Clients, WriteDone(c) \/ WriteFails(c) PROVE HistoryGrows
        BY <2>11 DEF WriteDone, WriteFails, HistoryGrows
    <2>12. ASSUME NEW c \in Clients, Reconnect(c) \/ Break(c) PROVE HistoryGrows
        BY <1>a, <2>12 DEF Reconnect, Break
    <2>13. ASSUME NEW c \in Clients, Recreate(c) PROVE HistoryGrows
        BY <1>b, <2>13, RecreateWays
    <2>14. CASE AnyKill
        BY <2>14, AnyKillWays, RestartWays DEF HistoryGrows
    <2>15. ASSUME NEW c \in Clients, ResendFails(c) PROVE HistoryGrows
        BY <1>b, <2>15, ResendFailsWays
    <2> QED BY <1>2, <2>0, <2>1, <2>2, <2>3, <2>4, <2>5, <2>6, <2>7, <2>8, <2>9, <2>10, <2>11,
               <2>12, <2>13, <2>14, <2>15, Steps DEF AnyKill
<1> QED BY <1>1, <1>2

LEMMA FlightStep ==
    ASSUME Types, Types', StoreInv, PlaceInv, FlightInv, [Next]_vars
    PROVE  FlightInv'
<1>0. unused' \subseteq unused
    BY HistorySteps DEF HistoryGrows
<1>1. ASSUME NEW x \in Queued', x.req \in Pubs1, FewerCalls
      PROVE  \E y \in Queued : y.req = x.req
    <2>1. x \in Good
        <3>1. ToSet(commands') \subseteq Good /\ taken' \in Good \cup {None}
            BY ToSetFacts DEF Types, QueueTypes
        <3>2. \A t \in Threads : api'[t] \in Good \cup {None}
            BY DEF Types, QueueTypes
        <3>3. x # None
            BY <1>1 DEF Queued
        <3> QED BY <1>1, <3>1, <3>2, <3>3 DEF Queued
    <2>2. x.tok # 0
        BY <1>1, <2>1, RequestToken
    <2> QED BY <1>1, <2>2, QueuedSources DEF Later
<1>2. CASE FewerWaiting /\ FewerCalls
    <2> SUFFICES ASSUME NEW c \in Clients, NEW m \in ToSet(outboundMsgs'[c])
                 PROVE  m.req \notin unused' /\ \A x \in Queued' : x.req # m.req
        BY DEF FlightInv
    <2>1. m \in ToSet(outboundMsgs[c])
        BY <1>2 DEF FewerWaiting
    <2>2. m.req \in Pubs1
        BY <2>1, FlightFacts
    <2> QED BY <1>0, <1>1, <1>2, <2>1, <2>2 DEF FlightInv
<1>3. ASSUME FewerWaiting, NEW t \in Threads, NEW d \in scenario.clients, NEW r, NEW z,
             NewCall(t, d, r, z)
      PROVE  FlightInv'
    <2> SUFFICES ASSUME NEW c \in Clients, NEW m \in ToSet(outboundMsgs'[c])
                 PROVE  m.req \notin unused' /\ \A x \in Queued' : x.req # m.req
        BY DEF FlightInv
    <2>1. m \in ToSet(outboundMsgs[c])
        BY <1>3 DEF FewerWaiting
    <2>2. /\ UNCHANGED <<commands, taken>> /\ api' = [api EXCEPT ![t] = z]
          /\ r \in unused /\ z.req = r
        BY <1>3 DEF NewCall, Call, Command
    <2>3. Queued' \subseteq Queued \cup {z}
        BY <2>2 DEF Queued, Types, QueueTypes
    <2> QED BY <1>0, <2>1, <2>2, <2>3 DEF FlightInv
<1>4. CASE MoreWaiting
    <2> SUFFICES ASSUME NEW c \in Clients, NEW m \in ToSet(outboundMsgs'[c])
                 PROVE  m.req \notin unused' /\ \A x \in Queued' : x.req # m.req
        BY DEF FlightInv
    <2>1. PICK outcome \in {"complete", "interrupted", "error"} : ExecData(outcome)
        BY <1>4 DEF MoreWaiting
    <2>2. /\ taken # None /\ IsData(taken) /\ taken' = None /\ UNCHANGED api
          /\ LET k == taken.client IN DataComplete(k) \/ DataInterrupted(k) \/ DataError(k)
        BY <2>1, ExecDataWays
    <2>3. taken \in DataCommands /\ taken.client \in Clients
        BY <2>2, TakenFacts
    <2>4. \A x \in ToSet(commands') : x \in ToSet(commands) \/ x = Internal(taken.client)
        <3>1. \/ commands' = commands
              \/ commands' = Inserted(commands, Internal(taken.client))
            BY <2>2 DEF DataComplete, DataInterrupted, DataError
        <3>2. Internal(taken.client) \in Good /\ commands \in Seq(Good)
            BY <2>3, NewHeads DEF Good, Types, QueueTypes
        <3> QED BY <3>1, <3>2, InsertedFacts
    <2>5. \A x \in Queued' : \/ x = Internal(taken.client)
                             \/ x \in ToSet(commands)
                             \/ \E t \in Threads : x = api[t] /\ api[t] # None
        BY <2>2, <2>4 DEF Queued
    <2>6. Internal(taken.client).req = None
        BY DEF Internal, Command
    <2>7. ASSUME NEW x \in Queued', x.req = taken.req PROVE FALSE
        <3>1. taken.req \in Single /\ taken.req # None
            BY <2>3, SingleFacts
        <3>2. At("taken", None, taken)
            BY <2>2 DEF At
        <3>3. At("list", None, x) \/ \E t \in Threads : At("api", t, x)
            BY <2>5, <2>6, <2>7, <3>1 DEF At
        <3> QED BY <2>7, <3>1, <3>2, <3>3 DEF PlaceInv
    <2>8. taken.req \notin unused
        <3>1. At("taken", None, taken)
            BY <2>2 DEF At
        <3> QED BY <2>3, <3>1, SingleFacts DEF PlaceInv
    <2>9. m \in ToSet(outboundMsgs[c]) \/ m = Pair(taken)
        BY <1>4 DEF MoreWaiting
    <2>10. CASE m = Pair(taken)
        <3>1. m.req = taken.req
            BY <2>10 DEF Pair
        <3> QED BY <1>0, <2>7, <2>8, <3>1
    <2>11. CASE m \in ToSet(outboundMsgs[c])
        <3>1. m.req \in Pubs1 /\ FewerCalls
            BY <2>2, <2>11, FlightFacts DEF FewerCalls
        <3> QED BY <1>0, <1>1, <2>11, <3>1 DEF FlightInv
    <2> QED BY <2>9, <2>10, <2>11
<1> QED BY <1>2, <1>3, <1>4, ApiSteps, SessionSteps

(* A publication of QoS 0 that waits for the end of its write is the one     *)
(* being written, unless it has been written or cut off.                     *)
WriteInv ==
    \A c \in Clients : \A x \in ToSet(responses[c]) :
        x.req \in Pubs0 => \/ x.req \in written \cup cut
                           \/ partial[c] # None /\ partial[c].req = x.req

LEMMA WriteKept ==
    ASSUME WriteInv, FewerWaiting, written \subseteq written', cut \subseteq cut',
           \A c \in Clients : \/ partial'[c] = partial[c]
                              \/ partial[c] = None \/ partial[c].req \notin Pubs0
                              \/ partial[c].req \in written' \cup cut'
    PROVE  WriteInv'
<1> SUFFICES ASSUME NEW c \in Clients, NEW x \in ToSet(responses'[c]), x.req \in Pubs0
             PROVE  \/ x.req \in written' \cup cut'
                    \/ partial'[c] # None /\ partial'[c].req = x.req
    BY DEF WriteInv
<1>1. x \in ToSet(responses[c])
    BY DEF FewerWaiting
<1> QED BY <1>1 DEF WriteInv

LEMMA WriteClosed ==
    ASSUME Types, WriteInv, FewerWaiting, NEW c \in Clients, CloseOnly(c), UNCHANGED written
    PROVE  WriteInv'
<1>1. /\ partial' = [partial EXCEPT ![c] = None] /\ DOMAIN partial = Clients
      /\ cut' = IF partial[c] # None THEN cut \cup ({partial[c].req} \cap Pubs0) ELSE cut
    BY DEF CloseOnly, Types, SockTypes
<1> QED BY <1>1, WriteKept

LEMMA WriteExecuted ==
    ASSUME Types, ReadyInv, WriteInv, MoreWaiting
    PROVE  WriteInv'
<1>1. PICK outcome \in {"complete", "interrupted", "error"} : ExecData(outcome)
    BY DEF MoreWaiting
<1> DEFINE k == taken.client
<1>2. /\ taken # None /\ IsData(taken) /\ UNCHANGED cut
      /\ DataComplete(k) \/ DataInterrupted(k) \/ DataError(k)
    BY <1>1, ExecDataWays
<1>3. k \in Clients /\ partial[k] = None
    BY <1>2, TakenFacts DEF ReadyInv
<1>4. DOMAIN partial = Clients /\ DOMAIN responses = Clients
    BY DEF Types, SockTypes, SessTypes
<1>5. PacketOf(taken).req = taken.req /\ PacketOf(taken) # None
    <2>1. PacketOf(taken) \in DataPackets
        BY <1>2, TakenFacts, PacketFacts
    <2> QED BY <2>1, NoneFacts DEF PacketOf
<1> HIDE DEF k
<1> SUFFICES ASSUME NEW c \in Clients, NEW x \in ToSet(responses'[c]), x.req \in Pubs0
             PROVE  \/ x.req \in written' \cup cut'
                    \/ partial'[c] # None /\ partial'[c].req = x.req
    BY DEF WriteInv
<1>6. written \subseteq written'
    BY <1>2 DEF DataComplete, DataInterrupted, DataError
<1>7. \A d \in Clients : d # k => partial'[d] = partial[d]
    <2>1. partial' = partial \/ partial' = [partial EXCEPT ![k] = PacketOf(taken)]
        BY <1>2 DEF DataComplete, DataInterrupted, DataError
    <2> QED BY <1>4, <2>1
<1>8. x \in ToSet(responses[c]) \/ (c = k /\ x = taken)
    BY DEF MoreWaiting, k
<1>9. CASE x \in ToSet(responses[c])
    <2>1. \/ x.req \in written \cup cut
          \/ c # k /\ partial[c] # None /\ partial[c].req = x.req
        BY <1>3, <1>9 DEF WriteInv
    <2> QED BY <1>2, <1>6, <1>7, <2>1
<1>10. CASE c = k /\ x = taken /\ x \notin ToSet(responses[c])
    <2>1. CASE DataComplete(k)
        <3>1. responses' = responses
            BY <1>10, <2>1 DEF DataComplete
        <3> QED BY <1>10, <3>1
    <2>2. CASE DataInterrupted(k)
        <3>1. partial'[k] = PacketOf(taken)
            BY <1>3, <1>4, <2>2 DEF DataInterrupted
        <3> QED BY <1>5, <1>10, <3>1
    <2>3. CASE DataError(k)
        BY <1>10, <2>3 DEF DataError
    <2> QED BY <1>2, <2>1, <2>2, <2>3
<1> QED BY <1>8, <1>9, <1>10

LEMMA WriteStep ==
    ASSUME Types, ReadyInv, WriteInv, [Next]_vars
    PROVE  WriteInv'
<1>f. CASE FewerWaiting
    <2>u. UNCHANGED <<written, cut, partial>> => WriteInv'
        BY <1>f, WriteKept
    <2>1. CASE UNCHANGED vars
        BY <2>1, <2>u DEF vars, histVars, sockVars
    <2>2. CASE Next
        <3>0. \A c \in scenario.clients : c \in Clients
            BY ScenarioFacts DEF Types
        <3>1. ASSUME NEW t \in Threads, AddCommand(t) PROVE WriteInv'
            BY <3>1, <2>u DEF AddCommand, sockVars
        <3>2. ASSUME NEW t \in Threads, NEW c \in scenario.clients,
                     \/ \E r \in Pubs : Send(t, c, r) \/ SendRefused(t, c, r)
                     \/ \E r \in Subs : Subscribe(t, c, r)
                     \/ \E r \in Conns : Connect(t, c, r)
                     \/ \E r \in Discs : Disconnect(t, c, r)
              PROVE  WriteInv'
            BY <3>2, <2>u DEF Send, SendRefused, Subscribe, Connect, Disconnect, histVars, sockVars
        <3>3. CASE Take
            BY <3>3, <2>u, TakeWays DEF histVars, sockVars
        <3>4. CASE ExecConnectBusy \/ ExecConnect \/ ExecConnectFails
            BY <3>4, <2>u DEF ExecConnectBusy, ExecConnect, ExecConnectFails, histVars, sockVars
        <3>5. ASSUME NEW outcome \in {"complete", "interrupted", "error"}, ExecData(outcome)
              PROVE  WriteInv'
            <4> DEFINE k == taken.client
            <4>1. /\ taken # None /\ IsData(taken) /\ UNCHANGED cut
                  /\ DataComplete(k) \/ DataInterrupted(k) \/ DataError(k)
                BY <3>5, ExecDataWays
            <4>2. partial[k] = None
                BY <4>1, TakenFacts DEF ReadyInv
            <4>3. written \subseteq written'
                BY <4>1 DEF DataComplete, DataInterrupted, DataError
            <4>4. partial' = partial \/ partial' = [partial EXCEPT ![k] = PacketOf(taken)]
                BY <4>1 DEF DataComplete, DataInterrupted, DataError
            <4>5. DOMAIN partial = Clients
                BY DEF Types, SockTypes
            <4>6. \A c \in Clients : partial'[c] = partial[c] \/ partial[c] = None
                BY <4>2, <4>4, <4>5
            <4> QED BY <1>f, <4>1, <4>3, <4>6, WriteKept
        <3>6. CASE ExecDisconnect
            <4>1. /\ taken # None /\ UNCHANGED written
                  /\ \/ CloseForDisconnect(taken.client, taken, ToldBusy(taken.client))
                     \/ UNCHANGED <<sockVars, cut>>
                BY <3>6, ExecDisconnectWays
            <4>2. taken.client \in Clients
                BY <4>1, TakenFacts
            <4> QED BY <1>f, <2>u, <4>1, <4>2, WriteClosed DEF CloseForDisconnect, sockVars
        <3>7. ASSUME NEW c \in Clients, DisconnectTimeout(c) PROVE WriteInv'
            BY <1>f, <3>7, WriteClosed DEF DisconnectTimeout, CloseForDisconnect
        <3>8. ASSUME NEW c \in Clients, Closes(c) PROVE WriteInv'
            <4>1. \E was, ended : NextOrClose(c, was, ended)
                BY <3>8, ClosesWays
            <4> QED BY <1>f, <4>1, WriteClosed DEF NextOrClose
        <3>9. ASSUME NEW c \in Clients, RetryTimer(c) \/ TransportDone(c) PROVE WriteInv'
            BY <3>9, <2>u DEF RetryTimer, TransportDone, histVars, sockVars
        <3>10. ASSUME NEW c \in Clients,
                     \/ \E present \in BOOLEAN : ConnackAccepts(c, present)
                     \/ \E p \in owed[c], outcome \in {"ok", "fail"} : Ack(c, p, outcome)
              PROVE  WriteInv'
            BY <3>10, <2>u DEF ConnackAccepts, Ack
        <3>11. ASSUME NEW c \in Clients, WriteDone(c) \/ WriteFails(c) PROVE WriteInv'
            <4>1. /\ partial' = [partial EXCEPT ![c] = None] /\ DOMAIN partial = Clients
                  /\ \/ written' = written \cup {partial[c].req} /\ UNCHANGED cut
                     \/ cut' = cut \cup ({partial[c].req} \cap Pubs0) /\ UNCHANGED written
                BY <3>11 DEF WriteDone, WriteFails, Types, SockTypes
            <4> QED BY <1>f, <4>1, WriteKept
        <3>12. ASSUME NEW c \in Clients, Reconnect(c) \/ Break(c) PROVE WriteInv'
            BY <3>12, <2>u DEF Reconnect, Break, sockVars, histVars
        <3>13. ASSUME NEW c \in Clients, Recreate(c) PROVE WriteInv'
            BY <1>f, <3>13, RecreateWays, WriteClosed
        <3>14. CASE AnyKill
            <4>1. responses' = Each(<<>>)
                BY <3>14, AnyKillWays, RestartWays
            <4> QED BY <4>1, EmptyToSet DEF WriteInv, Each
        <3>15. ASSUME NEW c \in Clients, ResendFails(c) PROVE WriteInv'
            BY <1>f, <3>15, ResendFailsWays, WriteClosed
        <3> QED BY <2>2, <3>0, <3>1, <3>2, <3>3, <3>4, <3>5, <3>6, <3>7, <3>8, <3>9, <3>10, <3>11,
                   <3>12, <3>13, <3>14, <3>15, Steps DEF AnyKill
    <2> QED BY <2>1, <2>2
<1> QED BY <1>f, WriteExecuted, SessionSteps

(* What the server owes an answer for, or is still to be written, has its    *)
(* message or its response; a packet is not both.                            *)
Backed(c, p) ==
    /\ p.type = "PUBLISH" => \E m \in ToSet(outboundMsgs[c]) : Pair(m) = Pair(p)
    /\ p.type = "SUBSCRIBE" => \E x \in ToSet(responses[c]) : Pair(x) = Pair(p)
OwedBy(c) ==
    /\ \A p \in owed[c] : Backed(c, p)
    /\ partial[c] # None /\ partial[c].tok # 0 => Backed(c, partial[c]) /\ partial[c] \notin owed[c]
OwedInv == OneThread /\ misread = {} => \A c \in Clients : OwedBy(c)

(* A client of which nothing is done, or whose connection is new or closed.  *)
Unchanged(c) ==
    /\ responses'[c] = responses[c] /\ outboundMsgs'[c] = outboundMsgs[c]
    /\ owed'[c] = owed[c] /\ partial'[c] = partial[c]
Quiet(c) == Unchanged(c) \/ (owed'[c] \subseteq {ConnectPacket} /\ partial'[c] = None)

LEMMA QuietOwed ==
    ASSUME NEW c \in Clients, OwedBy(c), Quiet(c)
    PROVE  OwedBy(c)'
<1>1. CASE Unchanged(c)
    BY <1>1 DEF Unchanged, OwedBy, Backed
<1>2. CASE owed'[c] \subseteq {ConnectPacket} /\ partial'[c] = None
    BY <1>2 DEF OwedBy, Backed, ConnectPacket
<1> QED BY <1>1, <1>2 DEF Quiet

LEMMA OwedTypes ==
    ASSUME Types, NEW c \in Clients
    PROVE  /\ \A p \in owed[c] : p = ConnectPacket \/ (p \in DataPackets /\ p.tok # 0)
           /\ partial[c] # None => partial[c] \in DataPackets
           /\ owed[c] \subseteq {p \in DataPackets : p.tok # 0} \cup {ConnectPacket}
BY DEF Types, SockTypes

LEMMA PacketKind ==
    ASSUME NEW x \in DataPackets
    PROVE  /\ \/ x.type = "PUBLISH" /\ x.req \in Pubs
              \/ x.type = "SUBSCRIBE" /\ x.req \in Subs
           /\ IF x.req \in Pubs0 THEN x.tok = 0 ELSE x.tok \in Ids
           /\ x = [type |-> x.type, tok |-> x.tok, req |-> x.req]
<1>1. x \in Packets
    BY DEF DataPackets
<1>2. x = [type |-> x.type, tok |-> x.tok, req |-> x.req]
    BY <1>1 DEF Packets
<1>3. \/ x.type = "PUBLISH" /\ x.req \in Pubs
      \/ x.type = "SUBSCRIBE" /\ x.req \in Subs
    BY DEF DataPackets
<1>4. IF x.req \in Pubs0 THEN x.tok = 0 ELSE x.tok \in Ids
    BY DEF DataPackets
<1> QED BY <1>2, <1>3, <1>4

LEMMA PacketRequest ==
    ASSUME NEW x \in DataPackets
    PROVE  /\ \/ x.type = "PUBLISH" /\ x.req \in Pubs
              \/ x.type = "SUBSCRIBE" /\ x.req \in Subs
           /\ x.tok # 0 => x.req \notin Pubs0
           /\ x.req \notin Pubs0 => x.tok # 0
           /\ \A y \in DataPackets : Pair(x) = Pair(y) => x = y
<1>1. ASSUME NEW y \in DataPackets, Pair(x) = Pair(y) PROVE x = y
    <2>1. x.req = y.req /\ x.tok = y.tok
        BY <1>1 DEF Pair
    <2>2. x.type = y.type
        BY <2>1, PacketKind, DisjointRequests
    <2>3. /\ x = [type |-> x.type, tok |-> x.tok, req |-> x.req]
          /\ y = [type |-> y.type, tok |-> y.tok, req |-> y.req]
        BY PacketKind
    <2> QED BY <2>1, <2>2, <2>3
<1>2. x.tok \in Ids => x.tok # 0
    BY MaxMsgIdAssumption DEF Ids
<1> QED BY <1>1, <1>2, PacketKind

LEMMA CleanOthers ==
    ASSUME Types, NEW c \in Clients, NEW cleans, NEW t, CleanSession(c, cleans, t),
           NEW d \in Clients, d # c
    PROVE  responses'[d] = responses[d] /\ outboundMsgs'[d] = outboundMsgs[d]
<1>1. \/ UNCHANGED <<outboundMsgs, responses>>
      \/ /\ outboundMsgs' = [outboundMsgs EXCEPT ![c] = <<>>]
         /\ responses' = [responses EXCEPT ![c] = <<>>]
    BY DEF CleanSession
<1>2. DOMAIN outboundMsgs = Clients /\ DOMAIN responses = Clients
    BY DEF Types, SessTypes
<1> QED BY <1>1, <1>2

LEMMA QuietClosed ==
    ASSUME Types, NEW c \in Clients, CloseOnly(c),
           \A d \in Clients : d # c =>
              responses'[d] = responses[d] /\ outboundMsgs'[d] = outboundMsgs[d]
    PROVE  \A d \in Clients : Quiet(d)
<1>1. /\ owed' = [owed EXCEPT ![c] = {}] /\ partial' = [partial EXCEPT ![c] = None]
      /\ DOMAIN owed = Clients /\ DOMAIN partial = Clients
    BY DEF CloseOnly, Types, SockTypes
<1> QED BY <1>1 DEF Quiet, Unchanged

(* A packet of a client is written, to the end or in part.                   *)
LEMMA ExecutedOwed ==
    ASSUME Types, Types', PlaceInv, FlightInv, ReadyInv, MoreWaiting, \A c \in Clients : OwedBy(c)
    PROVE  \A c \in Clients : OwedBy(c)'
<1>1. PICK outcome \in {"complete", "interrupted", "error"} : ExecData(outcome)
    BY DEF MoreWaiting
<1>k. PICK k \in Clients : k = taken.client
    BY TakenFacts DEF MoreWaiting
<1>p. PICK p : p = PacketOf(taken)
    OBVIOUS
<1>2. /\ taken # None /\ IsData(taken)
      /\ outboundMsgs' = IF taken.req \in Pubs1
                         THEN [outboundMsgs EXCEPT ![k] = Append(@, Pair(taken))]
                         ELSE outboundMsgs
      /\ DataComplete(k) \/ DataInterrupted(k) \/ DataError(k)
    BY <1>1, <1>k, ExecDataWays
<1>3. partial[k] = None /\ taken \in DataCommands
    BY <1>2, <1>k, TakenFacts DEF ReadyInv
<1>4. /\ DOMAIN partial = Clients /\ DOMAIN responses = Clients /\ DOMAIN owed = Clients
      /\ DOMAIN outboundMsgs = Clients
      /\ responses[k] \in Seq(DataCommands)
      /\ outboundMsgs[k] \in Seq([tok : Ids, req : Pubs1])
    BY DEF Types, SockTypes, SessTypes
<1>5. /\ p \in DataPackets /\ Pair(p) = Pair(taken)
      /\ p.req = taken.req /\ p.tok = taken.tok /\ p.type = taken.type
    BY <1>3, <1>p, PacketFacts DEF PacketOf, Pair
<1>6. \A d \in Clients : d # k => Unchanged(d)
    <2>1. /\ outboundMsgs' \in {outboundMsgs, [outboundMsgs EXCEPT ![k] = Append(@, Pair(taken))]}
          /\ responses' \in {responses, [responses EXCEPT ![k] = Append(@, taken)]}
          /\ owed' \in {owed, [owed EXCEPT ![k] = @ \cup {p}]}
          /\ partial' \in {partial, [partial EXCEPT ![k] = p]}
        BY <1>2, <1>p DEF DataComplete, DataInterrupted, DataError
    <2> QED BY <1>4, <2>1 DEF Unchanged
<1>7. /\ ToSet(outboundMsgs[k]) \subseteq ToSet(outboundMsgs'[k])
      /\ taken.req \in Pubs1 => Pair(taken) \in ToSet(outboundMsgs'[k])
    <2>1. CASE taken.req \notin Pubs1
        BY <1>2, <2>1
    <2>2. CASE taken.req \in Pubs1
        <3> DEFINE M == [tok : Ids, req : Pubs1]
        <3>1. Pair(taken) \in M
            BY <1>3, <2>2, PacketFacts
        <3>2. outboundMsgs[k] \in Seq(M) /\ outboundMsgs'[k] = Append(outboundMsgs[k], Pair(taken))
            BY <1>2, <1>4, <2>2
        <3> HIDE DEF M
        <3> QED BY <3>1, <3>2, AppendToSet
    <2> QED BY <2>1, <2>2
<1>8. ToSet(Append(responses[k], taken)) = ToSet(responses[k]) \cup {taken}
    BY <1>3, <1>4, AppendToSet
<1>9. ToSet(responses[k]) \subseteq ToSet(responses'[k])
    <2>1. responses'[k] \in {responses[k], Append(responses[k], taken)}
        BY <1>2, <1>4 DEF DataComplete, DataInterrupted, DataError
    <2> QED BY <1>8, <2>1
<1>10. \A q : Backed(k, q) => Backed(k, q)'
    BY <1>7, <1>9 DEF Backed
<1>11. responses'[k] = Append(responses[k], taken) /\ taken.req \notin Pubs0 => Backed(k, p)'
    <2> SUFFICES ASSUME responses'[k] = Append(responses[k], taken), taken.req \notin Pubs0
                 PROVE  Backed(k, p)'
        OBVIOUS
    <2>1. p.type = "PUBLISH" => taken.req \in Pubs1
        BY <1>5, PacketRequest, DisjointRequests
    <2>2. Pair(Pair(taken)) = Pair(taken)
        BY DEF Pair
    <2>3. p.type = "PUBLISH" => \E m \in ToSet(outboundMsgs'[k]) : Pair(m) = Pair(p)
        BY <1>5, <1>7, <2>1, <2>2
    <2>4. \E x \in ToSet(responses'[k]) : Pair(x) = Pair(p)
        BY <1>5, <1>8
    <2> QED BY <2>3, <2>4 DEF Backed
<1>12. p \notin owed[k]
    <2> SUFFICES ASSUME p \in owed[k] PROVE FALSE
        OBVIOUS
    <2>1. Backed(k, p)
        BY DEF OwedBy
    <2>2. CASE p.type = "PUBLISH"
        <3>1. PICK m \in ToSet(outboundMsgs[k]) : Pair(m) = Pair(p)
            BY <2>1, <2>2 DEF Backed
        <3>2. m.req = taken.req /\ taken \in Queued
            BY <1>2, <1>5, <3>1 DEF Pair, Queued
        <3> QED BY <3>1, <3>2 DEF FlightInv
    <2>3. CASE p.type = "SUBSCRIBE"
        <3>1. PICK x \in ToSet(responses[k]) : Pair(x) = Pair(p)
            BY <2>1, <2>3 DEF Backed
        <3>2. x.req = taken.req
            BY <1>5, <3>1 DEF Pair
        <3>3. At("resp", k, x) /\ At("taken", None, taken)
            BY <1>2, <3>1 DEF At
        <3>4. x.req \in Single
            BY <1>3, <3>2, SingleFacts
        <3>5. "resp" = "taken"
            BY <3>2, <3>3, <3>4 DEF PlaceInv
        <3> QED BY <3>5
    <2> QED BY <1>5, <2>2, <2>3, PacketRequest
<1>13. OwedBy(k)'
    <2>1. CASE DataComplete(k)
        <3>1. partial'[k] = None
            BY <1>3, <2>1 DEF DataComplete
        <3>2. CASE taken.req \in Pubs0
            <4>1. owed'[k] = owed[k]
                BY <2>1, <3>2 DEF DataComplete
            <4> QED BY <1>10, <3>1, <4>1 DEF OwedBy
        <3>3. CASE taken.req \notin Pubs0
            <4>1. owed'[k] = owed[k] \cup {p} /\ responses'[k] = Append(responses[k], taken)
                BY <1>4, <1>p, <2>1, <3>3 DEF DataComplete
            <4> QED BY <1>10, <1>11, <3>1, <3>3, <4>1 DEF OwedBy
        <3> QED BY <3>2, <3>3
    <2>2. CASE DataInterrupted(k)
        <3>1. /\ owed'[k] = owed[k] /\ partial'[k] = p
              /\ responses'[k] = Append(responses[k], taken)
            BY <1>4, <1>p, <2>2 DEF DataInterrupted
        <3>2. p.tok # 0 => Backed(k, p)'
            BY <1>5, <1>11, <3>1, PacketRequest
        <3>3. \A q \in owed'[k] : Backed(k, q)'
            BY <1>10, <3>1 DEF OwedBy
        <3>4. partial'[k].tok # 0 => Backed(k, partial[k])' /\ partial'[k] \notin owed'[k]
            <4>1. Backed(k, p)' => Backed(k, partial[k])'
                BY <3>1 DEF Backed
            <4> QED BY <1>12, <3>1, <3>2, <4>1
        <3> QED BY <3>3, <3>4 DEF OwedBy
    <2>3. CASE DataError(k)
        <3>1. owed'[k] = owed[k] /\ partial'[k] = None
            BY <1>3, <2>3 DEF DataError
        <3> QED BY <1>10, <3>1 DEF OwedBy
    <2> QED BY <1>2, <2>1, <2>2, <2>3
<1>14. \A d \in Clients : d # k => OwedBy(d)'
    BY <1>6, QuietOwed DEF Quiet
<1> QED BY <1>13, <1>14

(* An answer takes away what it answers, and nothing else.                   *)
LEMMA KeptWithout ==
    ASSUME NEW T, NEW q \in Seq(T), NEW tok, NEW x \in ToSet(q), x.tok # tok
    PROVE  x \in ToSet(Without(q, Answered(q, tok)))
<1>1. PICK j \in DOMAIN q : x = q[j]
    BY ToSetFacts
<1>2. j \notin Answered(q, tok)
    BY <1>1, AnsweredFacts
<1>3. ToSet(Without(q, Answered(q, tok))) = {q[i] : i \in DOMAIN q \ Answered(q, tok)}
    BY AnsweredFacts, WithoutWays
<1> QED BY <1>1, <1>2, <1>3

LEMMA BackedHeld ==
    ASSUME NEW c \in Clients, NEW p \in DataPackets, Backed(c, p)
    PROVE  Pair(p) \in Holds(c)
<1>1. \/ \E m \in ToSet(outboundMsgs[c]) : Pair(m) = Pair(p)
      \/ \E x \in ToSet(responses[c]) : Pair(x) = Pair(p)
    BY PacketRequest DEF Backed
<1>2. HeldBy(c, Pair(p))
    BY <1>1 DEF HeldBy
<1> QED BY <1>2, HoldsMembers

LEMMA AckOwed ==
    ASSUME Types, OneThread, TokensDistinct, \A c \in Clients : OwedBy(c),
           NEW c \in Clients, NEW p \in owed[c], NEW outcome, Ack(c, p, outcome)
    PROVE  \A d \in Clients : OwedBy(d)'
<1>1. /\ p \in DataPackets /\ p.tok # 0
      /\ owed' = [owed EXCEPT ![c] = @ \ {p}]
      /\ outboundMsgs' =
           IF p.type = "PUBLISH"
           THEN [outboundMsgs EXCEPT ![c] = Without(@, Answered(@, p.tok))]
           ELSE outboundMsgs
      /\ responses' = [responses EXCEPT ![c] = Without(@, Answered(@, p.tok))]
      /\ UNCHANGED partial
    BY AckWays
<1>2. /\ DOMAIN responses = Clients /\ DOMAIN owed = Clients /\ DOMAIN outboundMsgs = Clients
      /\ responses[c] \in Seq(DataCommands)
      /\ outboundMsgs[c] \in Seq([tok : Ids, req : Pubs1])
    BY DEF Types, SockTypes, SessTypes
<1>3. \A d \in Clients : d # c => OwedBy(d)'
    <2>1. \A d \in Clients : d # c => Unchanged(d)
        BY <1>1, <1>2 DEF Unchanged
    <2> QED BY <2>1, QuietOwed DEF Quiet
<1>4. ASSUME NEW q \in DataPackets, q # p, Backed(c, q) PROVE Backed(c, q)'
    <2>1. Pair(p) \in Holds(c)
        BY <1>1, BackedHeld DEF OwedBy
    <2>2. ASSUME NEW x, Pair(x) \in Holds(c), Pair(x) = Pair(q) PROVE x.tok # p.tok
        <3>1. Pair(x) # Pair(p)
            BY <1>1, <1>4, <2>2, PacketRequest
        <3>2. Pair(x).tok = x.tok /\ Pair(p).tok = p.tok
            BY DEF Pair
        <3> QED BY <1>1, <2>1, <2>2, <3>1, <3>2 DEF TokensDistinct
    <2>3. ASSUME q.type = "PUBLISH"
          PROVE  \E m \in ToSet(outboundMsgs'[c]) : Pair(m) = Pair(q)
        <3>1. PICK m \in ToSet(outboundMsgs[c]) : Pair(m) = Pair(q)
            BY <1>4, <2>3 DEF Backed
        <3>2. Pair(m) \in Holds(c)
            BY <3>1, HoldsMembers DEF HeldBy
        <3>3. m \in ToSet(Without(outboundMsgs[c], Answered(outboundMsgs[c], p.tok)))
            BY <1>2, <2>2, <3>1, <3>2, KeptWithout
        <3>4. \/ outboundMsgs'[c] = outboundMsgs[c]
              \/ outboundMsgs'[c] = Without(outboundMsgs[c], Answered(outboundMsgs[c], p.tok))
            BY <1>1, <1>2
        <3> QED BY <3>1, <3>3, <3>4
    <2>4. ASSUME q.type = "SUBSCRIBE"
          PROVE  \E x \in ToSet(responses'[c]) : Pair(x) = Pair(q)
        <3>1. PICK x \in ToSet(responses[c]) : Pair(x) = Pair(q)
            BY <1>4, <2>4 DEF Backed
        <3>2. Pair(x) \in Holds(c)
            BY <3>1, HoldsMembers DEF HeldBy
        <3>3. x \in ToSet(Without(responses[c], Answered(responses[c], p.tok)))
            BY <1>2, <2>2, <3>1, <3>2, KeptWithout
        <3> QED BY <1>1, <1>2, <3>1, <3>3
    <2> QED BY <2>3, <2>4 DEF Backed
<1>5. OwedBy(c)'
    <2>1. ASSUME NEW q \in owed'[c] PROVE Backed(c, q)'
        <3>1. q \in owed[c] /\ q # p
            BY <1>1, <1>2, <2>1
        <3>2. CASE q = ConnectPacket
            BY <3>2 DEF Backed, ConnectPacket
        <3>3. CASE q \in DataPackets
            BY <1>4, <3>1, <3>3 DEF OwedBy
        <3> QED BY <3>1, <3>2, <3>3, OwedTypes
    <2>2. ASSUME partial'[c] # None, partial'[c].tok # 0
          PROVE  Backed(c, partial[c])' /\ partial'[c] \notin owed'[c]
        <3>1. PICK q : q = partial[c]
            OBVIOUS
        <3>2. q \in DataPackets /\ q \notin owed[c] /\ Backed(c, q)
            BY <1>1, <2>2, <3>1, OwedTypes DEF OwedBy
        <3>3. Backed(c, q)' /\ q \notin owed'[c]
            BY <1>1, <1>2, <1>4, <3>2
        <3>4. partial'[c] = q
            BY <1>1, <3>1
        <3> QED BY <3>3, <3>4 DEF Backed
    <2> QED BY <2>1, <2>2 DEF OwedBy
<1> QED BY <1>3, <1>5

(* The end of a write frees a response of a publication.                     *)
LEMMA FreedBacked ==
    ASSUME Types, NEW c \in Clients, UNCHANGED outboundMsgs, misread' = {},
           \/ UNCHANGED responses
           \/ \E i \in DOMAIN responses[c], o \in {"ok", "fail"} : FreesResponse(c, i, o),
           NEW q \in DataPackets, NEW d \in Clients, Backed(d, q)
    PROVE  Backed(d, q)'
<1>1. CASE UNCHANGED responses
    BY <1>1 DEF Backed
<1>2. ASSUME NEW i \in DOMAIN responses[c], NEW o \in {"ok", "fail"}, FreesResponse(c, i, o)
      PROVE  Backed(d, q)'
    <2>1. \/ UNCHANGED responses
          \/ /\ responses' = [responses EXCEPT ![c] = RemoveAt(@, i)]
             /\ responses[c][i].type = "PUBLISH"
        BY <1>2 DEF FreesResponse
    <2>2. CASE /\ responses' = [responses EXCEPT ![c] = RemoveAt(@, i)]
               /\ responses[c][i].type = "PUBLISH"
        <3>1. responses[c] \in Seq(DataCommands) /\ DOMAIN responses = Clients
            BY DEF Types, SessTypes
        <3>2. ToSet(RemoveAt(responses[c], i)) = {responses[c][j] : j \in DOMAIN responses[c] \ {i}}
            BY <3>1, RemoveAtSet
        <3>3. ASSUME NEW x \in ToSet(responses[d]), Pair(x) = Pair(q), q.type = "SUBSCRIBE"
              PROVE  x \in ToSet(responses'[d])
            <4>1. CASE d # c
                BY <2>2, <3>1, <3>3, <4>1
            <4>2. CASE d = c
                <5>1. PICK j \in DOMAIN responses[c] : x = responses[c][j]
                    BY <3>1, <3>3, <4>2, ToSetFacts
                <5>2. x.req \in Subs
                    BY <3>3, PacketRequest DEF Pair
                <5>3. responses[c][i].req \in Pubs
                    <6>1. responses[c][i] \in DataCommands
                        BY <3>1
                    <6> QED BY <2>2, <6>1 DEF DataCommands, DataKind
                <5>4. j # i
                    BY <5>1, <5>2, <5>3, DisjointRequests
                <5> QED BY <2>2, <3>1, <3>2, <4>2, <5>1, <5>4
            <4> QED BY <4>1, <4>2
        <3> QED BY <3>3 DEF Backed
    <2> QED BY <1>1, <2>1, <2>2
<1> QED BY <1>1, <1>2

LEMMA WrittenOwed ==
    ASSUME Types, \A d \in Clients : OwedBy(d), misread' = {},
           NEW c \in Clients, WriteDone(c) \/ WriteFails(c)
    PROVE  \A d \in Clients : OwedBy(d)'
<1>1. /\ partial[c] # None
      /\ partial' = [partial EXCEPT ![c] = None]
      /\ \/ owed' = IF partial[c].tok # 0 THEN [owed EXCEPT ![c] = @ \cup {partial[c]}] ELSE owed
         \/ UNCHANGED owed
      /\ UNCHANGED outboundMsgs
      /\ \/ UNCHANGED responses
         \/ \E i \in DOMAIN responses[c], o \in {"ok", "fail"} : FreesResponse(c, i, o)
    BY WriteDoneWays, WriteFailsWays
<1>2. DOMAIN partial = Clients /\ DOMAIN owed = Clients
    BY DEF Types, SockTypes
<1>3. \A d \in Clients, q \in DataPackets : Backed(d, q) => Backed(d, q)'
    BY <1>1, FreedBacked
<1> SUFFICES ASSUME NEW d \in Clients PROVE OwedBy(d)'
    OBVIOUS
<1>4. ASSUME NEW q \in owed'[d] PROVE Backed(d, q)'
    <2>1. q \in owed[d] \/ (d = c /\ q = partial[c] /\ partial[c].tok # 0)
        BY <1>1, <1>2, <1>4
    <2>2. Backed(d, q)
        BY <1>1, <2>1 DEF OwedBy
    <2>3. q \in DataPackets \/ q = ConnectPacket
        BY <1>1, <2>1, OwedTypes
    <2>4. q = ConnectPacket => Backed(d, q)'
        BY DEF Backed, ConnectPacket
    <2> QED BY <1>3, <2>2, <2>3, <2>4
<1>5. ASSUME partial'[d] # None, partial'[d].tok # 0
      PROVE  Backed(d, partial[d])' /\ partial'[d] \notin owed'[d]
    <2>1. d # c /\ partial'[d] = partial[d] /\ owed'[d] = owed[d]
        BY <1>1, <1>2, <1>5
    <2>2. PICK q : q = partial[d]
        OBVIOUS
    <2>3. q \in DataPackets /\ Backed(d, q) /\ q \notin owed[d]
        BY <1>5, <2>1, <2>2, OwedTypes DEF OwedBy
    <2>4. Backed(d, q)'
        BY <1>3, <2>3
    <2> QED BY <2>1, <2>2, <2>3, <2>4 DEF Backed
<1> QED BY <1>4, <1>5 DEF OwedBy

LEMMA QuietSession ==
    ASSUME Types, NEW c \in Clients, CloseOnly(c),
           UNCHANGED sessVars \/ \E cleans, t : CleanSession(c, cleans, t)
    PROVE  \A d \in Clients : Quiet(d)
<1>1. \A d \in Clients : d # c =>
         responses'[d] = responses[d] /\ outboundMsgs'[d] = outboundMsgs[d]
    BY CleanOthers DEF sessVars
<1> QED BY <1>1, QuietClosed

(* A new connection: the messages in flight are sent again.                  *)
LEMMA ConnackOwed ==
    ASSUME Types, Types', EndInv, ReadyInv, \A d \in Clients : OwedBy(d),
           NEW c \in Clients, NEW present \in BOOLEAN, ConnackAccepts(c, present)
    PROVE  \A d \in Clients : OwedBy(d)'
<1>1. /\ connect_state[c] = "WAIT_FOR_CONNACK"
      /\ CleanSession(c, Cleans(present), Tell(told, Callbacks(connect[c]), "ok"))
      /\ owed' = [owed EXCEPT ![c] = Resent(outboundMsgs'[c])]
      /\ UNCHANGED partial
    BY DEF ConnackAccepts
<1>2. partial'[c] = None
    BY <1>1 DEF EndInv, Attempting, ReadyInv
<1>3. DOMAIN owed = Clients
    BY DEF Types, SockTypes
<1>4. \A d \in Clients : d # c => OwedBy(d)'
    <2>1. \A d \in Clients : d # c =>
             responses'[d] = responses[d] /\ outboundMsgs'[d] = outboundMsgs[d]
        BY <1>1, CleanOthers
    <2>2. \A d \in Clients : d # c => Unchanged(d)
        BY <1>1, <1>3, <2>1 DEF Unchanged
    <2> QED BY <2>2, QuietOwed DEF Quiet
<1>5. ASSUME NEW q \in owed'[c] PROVE Backed(c, q)'
    <2>1. outboundMsgs'[c] \in Seq([tok : Ids, req : Pubs1])
        BY DEF Types, SessTypes
    <2>2. q.type = "PUBLISH" /\ Pair(q) \in ToSet(outboundMsgs'[c])
        BY <1>1, <1>3, <1>5, <2>1, ResentFacts
    <2>3. Pair(Pair(q)) = Pair(q)
        BY DEF Pair
    <2> QED BY <2>2, <2>3 DEF Backed
<1>6. OwedBy(c)'
    BY <1>2, <1>5 DEF OwedBy
<1> QED BY <1>4, <1>6

LEMMA OwedNext ==
    ASSUME Types, Types', EndInv, PlaceInv, FlightInv, ReadyInv, OneThread, TokensDistinct,
           \A c \in Clients : OwedBy(c), misread' = {}, [Next]_vars
    PROVE  \A c \in Clients : OwedBy(c)'
<1> DEFINE Goal == \A d \in Clients : OwedBy(d)'
<1>q. (\A d \in Clients : Quiet(d)) => Goal
    BY QuietOwed
<1>u. UNCHANGED <<responses, outboundMsgs, owed, partial>> => Goal
    BY <1>q DEF Quiet, Unchanged
<1>v. UNCHANGED <<sessVars, sockVars>> => Goal
    BY <1>u DEF sessVars, sockVars
<1>d. DOMAIN owed = Clients /\ DOMAIN partial = Clients
    BY DEF Types, SockTypes
<1> HIDE DEF Goal
<1> SUFFICES Goal
    BY DEF Goal
<1>w. ASSUME NEW c \in Clients, connected[c] = FALSE,
             owed' = [owed EXCEPT ![c] = {ConnectPacket}] \/ UNCHANGED owed,
             UNCHANGED <<sessVars, partial>>
      PROVE  Goal
    <2>1. partial'[c] = None
        BY <1>w DEF ReadyInv
    <2>2. \A d \in Clients : Quiet(d)
        BY <1>d, <1>w, <2>1 DEF Quiet, Unchanged, sessVars
    <2> QED BY <1>q, <2>2
<1>1. CASE UNCHANGED vars
    BY <1>1, <1>v DEF vars
<1>2. CASE Next
    <2>0. \A c \in scenario.clients : c \in Clients
        BY ScenarioFacts DEF Types
    <2>1. ASSUME NEW t \in Threads, AddCommand(t) PROVE Goal
        BY <2>1, <1>v DEF AddCommand
    <2>2. ASSUME NEW t \in Threads, NEW c \in scenario.clients,
                 \/ \E r \in Pubs : Send(t, c, r) \/ SendRefused(t, c, r)
                 \/ \E r \in Subs : Subscribe(t, c, r)
                 \/ \E r \in Conns : Connect(t, c, r)
                 \/ \E r \in Discs : Disconnect(t, c, r)
          PROVE  Goal
        BY <2>2, <1>u DEF Send, SendRefused, Subscribe, Connect, Disconnect, sessVars, sockVars
    <2>3. CASE Take
        BY <2>3, <1>v, TakeWays DEF sessVars, sockVars
    <2>4. CASE ExecConnectBusy \/ ExecConnectFails
        BY <2>4, <1>v DEF ExecConnectBusy, ExecConnectFails
    <2>5. CASE ExecConnect
        <3>1. PICK c \in Clients : c = taken.client
            BY <2>5, TakenFacts DEF ExecConnect
        <3>2. connected[c] = FALSE
            BY <2>5, <3>1 DEF ExecConnect, Types, ConnTypes
        <3>3. /\ owed' = [owed EXCEPT ![c] = {ConnectPacket}] \/ UNCHANGED owed
              /\ UNCHANGED <<sessVars, partial>>
            BY <2>5, <3>1 DEF ExecConnect
        <3> QED BY <1>w, <3>2, <3>3
    <2>6. ASSUME NEW outcome \in {"complete", "interrupted", "error"}, ExecData(outcome)
          PROVE  Goal
        <3>1. taken # None /\ IsData(taken)
            BY <2>6 DEF ExecData
        <3>2. FewerWaiting \/ MoreWaiting
            BY SessionSteps
        <3>3. CASE MoreWaiting
            BY <3>3, ExecutedOwed DEF Goal
        <3>4. CASE FewerWaiting /\ ~MoreWaiting
            BY <2>6, <3>1, <3>4 DEF FewerWaiting, MoreWaiting
        <3> QED BY <3>2, <3>3, <3>4
    <2>7. CASE ExecDisconnect
        <3>1. PICK c \in Clients : c = taken.client
            BY <2>7, TakenFacts DEF ExecDisconnect
        <3>2. CloseForDisconnect(c, taken, ToldBusy(c)) \/ UNCHANGED <<sessVars, sockVars>>
            BY <2>7, <3>1, ExecDisconnectWays
        <3>3. CASE CloseForDisconnect(c, taken, ToldBusy(c))
            BY <1>q, <3>3, QuietSession DEF CloseForDisconnect
        <3> QED BY <1>v, <3>2, <3>3
    <2>8. ASSUME NEW c \in Clients, DisconnectTimeout(c) PROVE Goal
        BY <1>q, <2>8, QuietSession DEF DisconnectTimeout, CloseForDisconnect
    <2>9. ASSUME NEW c \in Clients, Closes(c) PROVE Goal
        <3>1. PICK was, ended : NextOrClose(c, was, ended)
            BY <2>9, ClosesWays
        <3>2. CloseOnly(c) /\ (UNCHANGED sessVars \/ \E cleans, t : CleanSession(c, cleans, t))
            BY <3>1 DEF NextOrClose
        <3> QED BY <1>q, <3>2, QuietSession
    <2>10. ASSUME NEW c \in Clients, RetryTimer(c) PROVE Goal
        BY <2>10, <1>v DEF RetryTimer
    <2>11. ASSUME NEW c \in Clients, TransportDone(c) PROVE Goal
        <3>1. connected[c] = FALSE
            BY <2>11 DEF TransportDone, EndInv, Attempting, Types, ConnTypes
        <3> QED BY <1>w, <2>11, <3>1 DEF TransportDone
    <2>12. ASSUME NEW c \in Clients, NEW present \in BOOLEAN, ConnackAccepts(c, present) PROVE Goal
        BY <2>12, ConnackOwed DEF Goal
    <2>13. ASSUME NEW c \in Clients, NEW p \in owed[c], NEW outcome \in {"ok", "fail"},
                  Ack(c, p, outcome)
           PROVE  Goal
        BY <2>13, AckOwed DEF Goal
    <2>14. ASSUME NEW c \in Clients, WriteDone(c) \/ WriteFails(c) PROVE Goal
        BY <2>14, WrittenOwed DEF Goal
    <2>15. ASSUME NEW c \in Clients, Reconnect(c) \/ Break(c) PROVE Goal
        BY <2>15, <1>u DEF Reconnect, Break, sessVars, sockVars
    <2>16. ASSUME NEW c \in Clients, Recreate(c) PROVE Goal
        <3>1. /\ CloseOnly(c)
              /\ responses' = [responses EXCEPT ![c] = <<>>]
              /\ outboundMsgs' = [outboundMsgs EXCEPT ![c] = InflightOf(c)]
            BY <2>16, RecreateWays
        <3>2. DOMAIN responses = Clients /\ DOMAIN outboundMsgs = Clients
            BY DEF Types, SessTypes
        <3>3. \A d \in Clients : Quiet(d)
            BY <3>1, <3>2, QuietClosed
        <3> QED BY <1>q, <3>3
    <2>17. CASE AnyKill
        <3>1. owed' = Each({}) /\ partial' = Each(None)
            BY <2>17, AnyKillWays, RestartWays
        <3>2. \A d \in Clients : Quiet(d)
            BY <3>1 DEF Quiet, Each
        <3> QED BY <1>q, <3>2
    <2>18. ASSUME NEW c \in Clients, ResendFails(c) PROVE Goal
        BY <1>q, <2>18, ResendFailsWays, QuietSession
    <2> QED BY <1>2, <2>0, <2>1, <2>2, <2>3, <2>4, <2>5, <2>6, <2>7, <2>8, <2>9, <2>10, <2>11,
               <2>12, <2>13, <2>14, <2>15, <2>16, <2>17, <2>18, Steps DEF AnyKill
<1> QED BY <1>1, <1>2

LEMMA OwedStep ==
    ASSUME Types, Types', EndInv, PlaceInv, FlightInv, ReadyInv, TokensDistinct, OwedInv, [Next]_vars
    PROVE  OwedInv'
<1> SUFFICES ASSUME OneThread', misread' = {}
             PROVE  \A c \in Clients : OwedBy(c)'
    BY DEF OwedInv
<1>1. OneThread
    BY ScenarioStays DEF OneThread
<1>2. misread = {}
    BY HistorySteps DEF HistoryGrows
<1> QED BY <1>1, <1>2, OwedNext DEF OwedInv

-----------------------------------------------------------------------------
(* onSuccess                                                                *)

Succeeds(t, r) == "ok" \in ToSet(t[r])
TrueFor(r) == IF r \in Pubs0 THEN r \in written \cup cut ELSE r \in acked
(* A step calls onSuccess of a data request only if that is true.            *)
OnlyTrue(t) == \A r \in Data : Succeeds(t, r) => Succeeds(told, r) \/ TrueFor(r)'

LEMMA TellSucceeds ==
    ASSUME NEW t \in [Reqs -> Seq({"ok", "fail"})], NEW S, NEW o \in {"ok", "fail"}, NEW r \in Data
    PROVE  Succeeds(Tell(t, S, o), r) => Succeeds(t, r) \/ (o = "ok" /\ r \in S)
<1>1. r \in Reqs /\ t[r] \in Seq({"ok", "fail"})
    BY DisjointRequests
<1>2. CASE r \notin S
    BY <1>1, <1>2 DEF Tell, Succeeds
<1>3. CASE r \in S
    <2>1. Tell(t, S, o)[r] = Append(t[r], o)
        BY <1>1, <1>3 DEF Tell
    <2>2. ToSet(Append(t[r], o)) = ToSet(t[r]) \cup {o}
        BY <1>1, AppendToSet
    <2> QED BY <1>3, <2>1, <2>2 DEF Succeeds
<1> QED BY <1>2, <1>3

LEMMA FailuresOnly ==
    ASSUME Types, NEW S
    PROVE  OnlyTrue(Tell(told, S, "fail")) /\ OnlyTrue(told)
<1>1. told \in [Reqs -> Seq({"ok", "fail"})]
    BY ToldTypes
<1>2. \A r \in Data : Succeeds(Tell(told, S, "fail"), r) => Succeeds(told, r)
    BY <1>1, TellSucceeds
<1> QED BY <1>2 DEF OnlyTrue

LEMMA TellTrue ==
    ASSUME Types, NEW t \in [Reqs -> Seq({"ok", "fail"})], OnlyTrue(t), NEW S,
           \A r \in S \cap Data : TrueFor(r)'
    PROVE  OnlyTrue(Tell(t, S, "ok"))
BY TellSucceeds DEF OnlyTrue

LEMMA CleanSucceeds ==
    ASSUME Types, NEW t \in [Reqs -> Seq({"ok", "fail"})], OnlyTrue(t),
           NEW c, NEW cleans, CleanSession(c, cleans, t)
    PROVE  OnlyTrue(told')
<1>1. told' = t \/ told' = Tell(t, ReqsOf(ToSet(responses[c])), "fail")
    BY DEF CleanSession
<1>2. \A S : \A r \in Data : Succeeds(Tell(t, S, "fail"), r) => Succeeds(t, r)
    BY TellSucceeds
<1> QED BY <1>1, <1>2 DEF OnlyTrue

(* Neither a CONNECT nor a DISCONNECT calls back for data.                   *)
LEMMA HeadsTrue ==
    ASSUME Types, NEW t \in [Reqs -> Seq({"ok", "fail"})], OnlyTrue(t), NEW x \in HeadCommands
    PROVE  /\ Tell(t, Callbacks(x), "ok") \in [Reqs -> Seq({"ok", "fail"})]
           /\ OnlyTrue(Tell(t, Callbacks(x), "ok"))
<1>1. x.req \notin Data \/ ~x.cb
    BY DisjointRequests DEF HeadCommands, HeadKind
<1>2. Callbacks(x) \cap Data = {}
    BY <1>1, CallbackFacts
<1> QED BY <1>2, TellTrue, TellType

LEMMA DisconnectsTrue ==
    ASSUME Types, NEW c \in Clients, NEW x \in HeadCommands,
           NEW t \in [Reqs -> Seq({"ok", "fail"})], OnlyTrue(t), CloseForDisconnect(c, x, t)
    PROVE  OnlyTrue(told')
<1> DEFINE u == IF x.internal THEN t ELSE Tell(t, Callbacks(x), "ok")
<1>1. CleanSession(c, scenario.clean, u)
    BY DEF CloseForDisconnect
<1>2. u \in [Reqs -> Seq({"ok", "fail"})] /\ OnlyTrue(u)
    BY HeadsTrue
<1> HIDE DEF u
<1> QED BY <1>1, <1>2, CleanSucceeds

LEMMA ToldBusyTrue ==
    ASSUME Types, NEW c \in Clients
    PROVE  ToldBusy(c) \in [Reqs -> Seq({"ok", "fail"})] /\ OnlyTrue(ToldBusy(c))
BY FailuresOnly, TellType, ToldTypes DEF ToldBusy

LEMMA ClosesTrue ==
    ASSUME Types, NEW c \in Clients, NEW was, NEW ended, NextOrClose(c, was, ended)
    PROVE  OnlyTrue(told')
<1> DEFINE t == Tell(told, Callbacks(connect[c]), "fail")
<1>1. t \in [Reqs -> Seq({"ok", "fail"})] /\ OnlyTrue(t)
    BY FailuresOnly, TellType, ToldTypes
<1>2. UNCHANGED told \/ CleanSession(c, scenario.clean, t)
    BY DEF NextOrClose
<1> HIDE DEF t
<1> QED BY <1>1, <1>2, CleanSucceeds, FailuresOnly

LEMMA ConnackTrue ==
    ASSUME Types, NEW c \in Clients, NEW present \in BOOLEAN, ConnackAccepts(c, present)
    PROVE  OnlyTrue(told')
<1> DEFINE t == Tell(told, Callbacks(connect[c]), "ok")
<1>1. t \in [Reqs -> Seq({"ok", "fail"})] /\ OnlyTrue(t)
    BY ConnectRequest, FailuresOnly, HeadsTrue, ToldTypes
<1>2. CleanSession(c, Cleans(present), t)
    BY DEF ConnackAccepts
<1> HIDE DEF t
<1> QED BY <1>1, <1>2, CleanSucceeds

(* An acknowledgement answers the request whose packet it is for.            *)
LEMMA AckTrue ==
    ASSUME Types, OneThread, TokensDistinct, \A d \in Clients : OwedBy(d),
           NEW c \in Clients, NEW p \in owed[c], NEW outcome \in {"ok", "fail"}, Ack(c, p, outcome)
    PROVE  OnlyTrue(told')
<1>1. /\ p \in DataPackets /\ p.tok # 0
      /\ \/ Answered(responses[c], p.tok) = {}
         \/ \E i \in DOMAIN responses[c] :
              Answered(responses[c], p.tok) = {i} /\ responses[c][i].tok = p.tok
      /\ told' = Tell(told, ReqsOf(Found(c, p)), outcome)
      /\ acked' = acked \cup {p.req}
    BY AckWays
<1>2. ASSUME NEW r \in ReqsOf(Found(c, p)) PROVE TrueFor(r)'
    <2>1. PICK x \in Found(c, p) : x.req = r
        BY <1>2 DEF ReqsOf
    <2>2. PICK i \in DOMAIN responses[c] : x = responses[c][i] /\ x.tok = p.tok
        BY <1>1, <2>1 DEF Found
    <2>3. x \in ToSet(responses[c])
        BY <2>2 DEF ToSet
    <2>4. Pair(x) \in Holds(c)
        BY <2>3, HoldsMembers DEF HeldBy
    <2>5. Pair(p) \in Holds(c)
        BY <1>1, BackedHeld DEF OwedBy
    <2>6. Pair(x) = Pair(p)
        <3>1. Pair(x).tok = x.tok /\ Pair(p).tok = p.tok
            BY DEF Pair
        <3> QED BY <1>1, <2>2, <2>4, <2>5, <3>1 DEF TokensDistinct
    <2>7. r = p.req
        BY <2>1, <2>6 DEF Pair
    <2>8. p.req \notin Pubs0
        BY <1>1, PacketRequest
    <2> QED BY <1>1, <2>7, <2>8 DEF TrueFor
<1>3. CASE outcome = "ok"
    BY <1>1, <1>2, <1>3, TellTrue, FailuresOnly, ToldTypes
<1>4. CASE outcome = "fail"
    BY <1>1, <1>4, FailuresOnly
<1> QED BY <1>3, <1>4

(* The end of a write is that of the publication it is reported for.         *)
LEMMA WriteTrue ==
    ASSUME Types, WriteInv, NEW c \in Clients, WriteDone(c) \/ WriteFails(c)
    PROVE  OnlyTrue(told')
<1>1. CASE WriteFails(c)
    <2>1. \/ UNCHANGED told
          \/ \E i \in DOMAIN responses[c] : told' = Tell(told, Callbacks(responses[c][i]), "fail")
        BY <1>1, WriteFailsWays DEF FreesResponse
    <2> QED BY <2>1, FailuresOnly
<1>2. CASE WriteDone(c)
    <2>1. /\ written' = written \cup {partial[c].req} /\ UNCHANGED cut
          /\ \/ UNCHANGED told
             \/ \E i \in DOMAIN responses[c] : FreesResponse(c, i, "ok")
        BY <1>2, WriteDoneWays
    <2>2. CASE UNCHANGED told
        BY <2>2, FailuresOnly
    <2>3. ASSUME NEW i \in DOMAIN responses[c], FreesResponse(c, i, "ok"), told' # told
          PROVE  OnlyTrue(told')
        <3> DEFINE x == responses[c][i]
        <3>1. told' = Tell(told, Callbacks(x), "ok") /\ x.req \in Pubs0
            BY <2>3 DEF FreesResponse
        <3>2. x \in ToSet(responses[c])
            BY <2>3 DEF ToSet
        <3> HIDE DEF x
        <3>3. x.req \in written' \cup cut'
            BY <2>1, <3>1, <3>2 DEF WriteInv
        <3>4. \A r \in Callbacks(x) : r = x.req
            BY CallbackFacts
        <3>5. \A r \in Callbacks(x) \cap Data : TrueFor(r)'
            BY <3>1, <3>3, <3>4 DEF TrueFor
        <3> QED BY <3>1, <3>5, TellTrue, FailuresOnly, ToldTypes
    <2> QED BY <2>1, <2>2, <2>3
<1> QED BY <1>1, <1>2

LEMMA ExecDataTrue ==
    ASSUME Types, NEW outcome \in {"complete", "interrupted", "error"}, ExecData(outcome)
    PROVE  OnlyTrue(told')
<1>1. PICK k : k = taken.client
    OBVIOUS
<1>2. DataComplete(k) \/ DataInterrupted(k) \/ DataError(k)
    BY <1>1, ExecDataWays
<1>3. CASE DataComplete(k)
    <2>1. CASE taken.req \in Pubs0
        <3>1. /\ told' = Tell(told, Callbacks(taken), "ok")
              /\ taken.req \in written'
            BY <1>3, <2>1 DEF DataComplete
        <3>2. \A r \in Callbacks(taken) : r = taken.req
            BY CallbackFacts
        <3>3. \A r \in Callbacks(taken) \cap Data : TrueFor(r)'
            BY <2>1, <3>1, <3>2 DEF TrueFor
        <3> QED BY <3>1, <3>3, TellTrue, FailuresOnly, ToldTypes
    <2>2. CASE taken.req \notin Pubs0
        BY <1>3, <2>2, FailuresOnly DEF DataComplete
    <2> QED BY <2>1, <2>2
<1>4. CASE DataInterrupted(k) \/ DataError(k)
    BY <1>4, FailuresOnly DEF DataInterrupted, DataError
<1> QED BY <1>2, <1>3, <1>4

LEMMA SuccessSteps ==
    ASSUME Types, OneThread, TokensDistinct, WriteInv, \A c \in Clients : OwedBy(c), [Next]_vars
    PROVE  OnlyTrue(told')
<1>u. UNCHANGED told => OnlyTrue(told')
    BY FailuresOnly
<1>1. CASE UNCHANGED vars
    BY <1>1, <1>u DEF vars, appVars
<1>2. CASE Next
    <2>1. ASSUME NEW t \in Threads, AddCommand(t) PROVE UNCHANGED told
        BY <2>1 DEF AddCommand
    <2>2. ASSUME NEW t \in Threads, NEW c \in scenario.clients,
                 \/ \E r \in Pubs : Send(t, c, r) \/ SendRefused(t, c, r)
                 \/ \E r \in Subs : Subscribe(t, c, r)
                 \/ \E r \in Conns : Connect(t, c, r)
                 \/ \E r \in Discs : Disconnect(t, c, r)
          PROVE  UNCHANGED told
        BY <2>2 DEF Send, SendRefused, Subscribe, Connect, Disconnect
    <2>3. CASE Take
        BY <2>3, <1>u, TakeWays DEF appVars
    <2>4. CASE ExecConnectBusy \/ ExecConnect \/ ExecConnectFails
        <3>1. UNCHANGED told \/ \E S : told' = Tell(told, S, "fail")
            BY <2>4 DEF ExecConnectBusy, ExecConnect, ExecConnectFails, appVars
        <3> QED BY <3>1, FailuresOnly
    <2>5. CASE ExecDisconnect
        <3>1. PICK c \in Clients : c = taken.client
            BY <2>5, TakenFacts DEF ExecDisconnect
        <3>2. /\ taken \in HeadCommands
              /\ \/ CloseForDisconnect(c, taken, ToldBusy(c))
                 \/ told' = ToldBusy(c) \/ UNCHANGED told
            BY <2>5, <3>1, ExecDisconnectWays, TakenFacts
        <3>3. ToldBusy(c) \in [Reqs -> Seq({"ok", "fail"})] /\ OnlyTrue(ToldBusy(c))
            BY ToldBusyTrue
        <3>4. CASE CloseForDisconnect(c, taken, ToldBusy(c))
            <4>1. PICK t : t = ToldBusy(c)
                OBVIOUS
            <4> QED BY <3>2, <3>3, <3>4, DisconnectsTrue
        <3> QED BY <1>u, <3>2, <3>3, <3>4
    <2>6. ASSUME NEW c \in Clients, DisconnectTimeout(c) PROVE OnlyTrue(told')
        <3>1. disconnect[c] \in HeadCommands
            BY DEF Types, ConnTypes, DisconnectOK
        <3> QED BY <2>6, <3>1, DisconnectsTrue, FailuresOnly, ToldTypes DEF DisconnectTimeout
    <2>7. ASSUME NEW c \in Clients, Closes(c) PROVE OnlyTrue(told')
        BY <2>7, ClosesWays, ClosesTrue
    <2>8. ASSUME NEW c \in Clients, RetryTimer(c) \/ TransportDone(c) PROVE UNCHANGED told
        BY <2>8 DEF RetryTimer, TransportDone, appVars
    <2>9. ASSUME NEW c \in Clients, Reconnect(c) \/ Break(c) PROVE UNCHANGED told
        BY <2>9 DEF Reconnect, Break, appVars
    <2>10. ASSUME NEW c, Recreate(c) PROVE OnlyTrue(told')
        BY <2>10, RecreateWays, FailuresOnly
    <2>11. CASE AnyKill
        BY <2>11, <1>u, AnyKillWays, RestartWays
    <2>12. \A c \in scenario.clients : c \in Clients
        BY ScenarioFacts DEF Types
    <2>13. ASSUME NEW c \in Clients, ResendFails(c) PROVE OnlyTrue(told')
        BY <2>13, ResendFailsWays, FailuresOnly
    <2> QED BY <1>2, <1>u, <2>1, <2>2, <2>3, <2>4, <2>5, <2>6, <2>7, <2>8, <2>9, <2>10, <2>11, <2>12, <2>13,
               ExecDataTrue, ConnackTrue, AckTrue, WriteTrue, Steps DEF AnyKill
<1> QED BY <1>1, <1>2

LEMMA SuccessStep ==
    ASSUME Types, TokensDistinct, WriteInv, OwedInv, SuccessIsTrue, [Next]_vars
    PROVE  SuccessIsTrue'
<1> SUFFICES ASSUME OneThread', misread' = {}, NEW r \in Data, Succeeds(told', r)
             PROVE  TrueFor(r)'
    BY DEF SuccessIsTrue, Succeeds, TrueFor
<1>1. OneThread
    BY ScenarioStays DEF OneThread
<1>2. misread = {} /\ written \subseteq written' /\ cut \subseteq cut' /\ acked \subseteq acked'
    BY HistorySteps DEF HistoryGrows
<1>3. OnlyTrue(told')
    BY <1>1, <1>2, SuccessSteps DEF OwedInv
<1>4. CASE Succeeds(told, r)
    <2>1. TrueFor(r)
        BY <1>1, <1>2, <1>4 DEF SuccessIsTrue, Succeeds, TrueFor
    <2> QED BY <1>2, <2>1 DEF TrueFor
<1> QED BY <1>3, <1>4 DEF OnlyTrue

AnswerInv == ReadyInv /\ FlightInv /\ WriteInv /\ OwedInv /\ SuccessIsTrue

LEMMA InitAnswers == Init => AnswerInv
<1> SUFFICES ASSUME Init PROVE AnswerInv
    OBVIOUS
<1>1. /\ connected = Each(FALSE) /\ partial = Each(None) /\ owed = Each({}) /\ taken = None
      /\ responses = Each(<<>>) /\ outboundMsgs = Each(<<>>)
      /\ told = [r \in Reqs |-> <<>>]
    BY DEF Init
<1>2. ReadyInv
    BY <1>1 DEF ReadyInv, Each
<1>3. FlightInv /\ WriteInv
    BY <1>1, EmptyToSet DEF FlightInv, WriteInv, Each
<1>4. OwedInv
    BY <1>1 DEF OwedInv, OwedBy, Each
<1>5. SuccessIsTrue
    BY <1>1, EmptyToSet, DisjointRequests DEF SuccessIsTrue
<1> QED BY <1>2, <1>3, <1>4, <1>5 DEF AnswerInv

LEMMA AnswerStep ==
    Types /\ Types' /\ StoreInv /\ EndInv /\ PlaceInv /\ TokensDistinct /\ AnswerInv /\ [Next]_vars
        => AnswerInv'
<1> SUFFICES ASSUME Types, Types', StoreInv, EndInv, PlaceInv, TokensDistinct, AnswerInv, [Next]_vars
             PROVE  AnswerInv'
    OBVIOUS
<1>0. ReadyInv /\ FlightInv /\ WriteInv /\ OwedInv /\ SuccessIsTrue
    BY DEF AnswerInv
<1>1. ReadyInv'
    BY <1>0, ReadyStep
<1>2. FlightInv'
    BY <1>0, FlightStep
<1>3. WriteInv'
    BY <1>0, WriteStep
<1>4. OwedInv'
    BY <1>0, OwedStep
<1>5. SuccessIsTrue'
    BY <1>0, SuccessStep
<1> QED BY <1>1, <1>2, <1>3, <1>4, <1>5 DEF AnswerInv

(* onSuccess of a request means that the server has acknowledged this very   *)
(* request (MQTTAsync_receiveThread looks for its response by message id), or *)
(* that its packet has been written to the end (MQTTAsync_writeComplete),     *)
(* apart from the exceptions the property names.  Property SuccessIsTrue.    *)
THEOREM SuccessMeansDone == Spec => []SuccessIsTrue
<1>1. Types /\ QueueInv => StoreInv
    BY DEF QueueInv
<1>2. (Types /\ QueueInv) /\ Types' /\ EndInv /\ PlaceInv /\ (IdleThreads /\ TokensDistinct)
         /\ AnswerInv /\ [Next]_vars => AnswerInv'
    BY <1>1, AnswerStep
<1>3. AnswerInv => SuccessIsTrue
    BY DEF AnswerInv
<1> QED BY <1>2, <1>3, InitAnswers, AlwaysTypes, AlwaysQueue, AlwaysEnd, AlwaysPlaces, AlwaysTokens,
           PTL DEF Spec
=============================================================================
