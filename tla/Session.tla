------------------------------- MODULE Session -------------------------------
(***************************************************************************)
(* The QoS 1 and QoS 2 message exchanges of one client with its server:    *)
(* the in-flight lists of MQTTProtocolClient.c, the records the client     *)
(* persists (MQTTPersistence.c, MQTTPacket.c), the acknowledgements that   *)
(* wait for a partial socket write to end, and the recovery of all of this *)
(* when the connection is lost or the program is killed.                   *)
(*                                                                         *)
(* The library runs a handler with its mutex held, so one action is one    *)
(* handler.  A write that fails is followed by the closing of the session: *)
(* that is the write followed by ConnectionLost.  The server is external;  *)
(* it does what the MQTT standard asks of a server that keeps its session. *)
(***************************************************************************)
EXTENDS MsgIds, Sequences, FiniteSets, SequencesExt

CONSTANTS
    Msgs1, Msgs2,       \* QoS 1 and QoS 2 messages the application may publish
    SrvMsgs1, SrvMsgs2, \* QoS 1 and QoS 2 messages the server may send
    SrvMaxMsgId,        \* ids the server uses for them: 1 .. SrvMaxMsgId
    MaxInflight,        \* client->maxInflightMessages
    None,               \* no message, no packet
    Scenarios           \* the clients and environments to consider, see Scenario

Msgs    == Msgs1 \cup Msgs2
SrvMsgs == SrvMsgs1 \cup SrvMsgs2
SrvIds  == 1 .. SrvMaxMsgId

(* How often the environment may lose the connection, kill the program,      *)
(* write partly, do so to a queued acknowledgement that others wait behind,  *)
(* retry on a timer, and lose the server's session.                          *)
Budgets == [loss : Nat, crash : Nat, partial : Nat, drop : Nat, retry : Nat, forget : Nat]

(* What stays the same during a behaviour: the version of MQTT (v5:          *)
(* MQTTVERSION_5), cleansession (for MQTT 5 cleanstart with session expiry   *)
(* 0), MQTTAsync or MQTTClient, whether retryInterval is positive, whether a *)
(* kill may hit the middle of a handler, the msgID of a client that may have *)
(* run for a while, the messages in play and the budget of the environment.  *)
Scenario ==
    [v5 : BOOLEAN, clean : BOOLEAN, async : BOOLEAN, retryOn : BOOLEAN, inside : BOOLEAN,
     start : 0 .. MaxMsgId, msgs : SUBSET (Msgs \cup SrvMsgs), budget : Budgets]

ASSUME SessionAssumption ==
    /\ SrvMaxMsgId \in Nat \ {0}
    /\ MaxInflight \in Nat \ {0} /\ MaxInflight < MaxMsgId
    /\ Scenarios \subseteq Scenario
    /\ Msgs1 \cap Msgs2 = {} /\ SrvMsgs1 \cap SrvMsgs2 = {}
    /\ None \notin Msgs \cup SrvMsgs

(* Packets.  An acknowledgement carries no message; ok is FALSE in a PUBREC *)
(* with an MQTT 5 error reason code.                                        *)
Packet(type, id, m) == [type |-> type, id |-> id, m |-> m, ok |-> TRUE]
PubrecError(id) == [type |-> "PUBREC", id |-> id, m |-> None, ok |-> FALSE]

VARIABLES
    \* Clients structure
    connected, msgID,
    outboundMsgs,    \* sequence of [id, m, next]
    inboundMsgs,     \* QoS 2 messages waiting for PUBREL, by id
    outboundQueue,   \* acknowledgements waiting for the socket: [type, id]
    connect_count, connect_sent,
    \* persistent store: keys s-<id>, sc-<id> and r-<id>
    sentKeys, pubrelKeys, rcvdKeys,
    \* socket: the packet partly written, and what is in transit
    pendingWrite, c2s, s2c,
    \* external: the session the server keeps
    srvIds,          \* ids of QoS 2 messages between PUBLISH and PUBREL
    srvOut,          \* messages on their way to the client: [id, m, next]
    \* what the two applications have seen
    accepted,                    \* messages of the client, in order
    acked, refused,              \* those whose exchange is over
    srvGot,                      \* how often the server took each (up to 2)
    srvSent, srvDone,            \* messages of the server
    delivered,                   \* how often the client got each (up to 2)
    sentNow,                     \* messages written on the current connection
    \* how often the environment may still interfere, and the scenario
    budget, scenario

clientVars == <<connected, msgID, outboundMsgs, inboundMsgs, outboundQueue,
                connect_count, connect_sent>>
storeVars  == <<sentKeys, pubrelKeys, rcvdKeys>>
netVars    == <<pendingWrite, c2s, s2c>>
serverVars == <<srvIds, srvOut>>
appVars    == <<accepted, acked, refused, srvGot, srvSent, srvDone, delivered>>
vars == <<clientVars, storeVars, netVars, serverVars, appVars, sentNow, budget, scenario>>

V5           == scenario.v5
CleanSession == scenario.clean
AsyncAPI     == scenario.async
RetryOn      == scenario.retryOn

(* The state that belongs to the session: cleared when a session is clean. *)
sessionVars == <<msgID, outboundMsgs, inboundMsgs, sentKeys, pubrelKeys, rcvdKeys>>

OutEntry == [id : Ids, m : Msgs, next : {"PUBACK", "PUBREC", "PUBCOMP"}]
SrvEntry == [id : SrvIds, m : SrvMsgs, next : {"PUBACK", "PUBREC", "PUBCOMP"}]
Acks == [type : {"PUBACK", "PUBREC", "PUBCOMP"}, id : SrvIds]
            \cup [type : {"PUBREL"}, id : Ids]
ToServer ==
    [type : {"PUBLISH"}, id : Ids, m : Msgs, ok : {TRUE}]
        \cup [type : {"PUBREL"}, id : Ids, m : {None}, ok : {TRUE}]
        \cup [type : {"PUBACK", "PUBREC", "PUBCOMP"}, id : SrvIds, m : {None}, ok : {TRUE}]
ToClient ==
    [type : {"PUBLISH"}, id : SrvIds, m : SrvMsgs, ok : {TRUE}]
        \cup [type : {"PUBREL"}, id : SrvIds, m : {None}, ok : {TRUE}]
        \cup [type : {"PUBACK", "PUBREC", "PUBCOMP"}, id : Ids, m : {None}, ok : BOOLEAN]

ASSUME NoPacketAssumption == None \notin ToServer

(* The variables that change. *)
StateOK ==
    /\ connected \in BOOLEAN
    /\ msgID \in 0 .. MaxMsgId
    /\ outboundMsgs \in Seq(OutEntry)
    /\ inboundMsgs \in [SrvIds -> SrvMsgs2 \cup {None}]
    /\ outboundQueue \in Seq(Acks)
    /\ connect_count \in Nat /\ connect_sent \in Nat
    /\ sentKeys \in [Ids -> Msgs \cup {None}]
    /\ pubrelKeys \subseteq Ids
    /\ rcvdKeys \in [SrvIds -> SrvMsgs2 \cup {None}]
    /\ pendingWrite \in ToServer \cup {None}
    /\ c2s \in Seq(ToServer)
    /\ s2c \in Seq(ToClient)
    /\ srvIds \subseteq Ids
    /\ srvOut \in Seq(SrvEntry)
    /\ accepted \in Seq(Msgs) /\ acked \subseteq Msgs /\ refused \subseteq Msgs
    /\ srvGot \in [Msgs -> 0 .. 2]
    /\ srvSent \subseteq SrvMsgs /\ srvDone \subseteq SrvMsgs
    /\ delivered \in [SrvMsgs -> 0 .. 2]
    /\ sentNow \subseteq Msgs
    /\ budget \in Budgets

TypeOK == StateOK /\ scenario \in Scenarios

Init ==
    /\ scenario \in Scenarios
    /\ connected = TRUE
    /\ msgID = scenario.start
    /\ outboundMsgs = <<>>
    /\ inboundMsgs = [i \in SrvIds |-> None]
    /\ outboundQueue = <<>>
    /\ connect_count = 0 /\ connect_sent = 0
    /\ sentKeys = [i \in Ids |-> None]
    /\ pubrelKeys = {}
    /\ rcvdKeys = [i \in SrvIds |-> None]
    /\ pendingWrite = None
    /\ c2s = <<>> /\ s2c = <<>>
    /\ srvIds = {} /\ srvOut = <<>>
    /\ accepted = <<>> /\ acked = {} /\ refused = {}
    /\ srvGot = [m \in Msgs |-> 0]
    /\ srvSent = {} /\ srvDone = {}
    /\ delivered = [m \in SrvMsgs |-> 0]
    /\ sentNow = {}
    /\ budget = scenario.budget

-----------------------------------------------------------------------------
(***************************************************************************)
(* Writing packets to the socket                                           *)
(***************************************************************************)
Allowed(kind) == budget[kind] > 0
Spend(b, kind) == [b EXCEPT ![kind] = @ - 1]

(* After what is already on the wire the packets ps are written; the last   *)
(* one completely, or partly so that the rest of it stays with the socket   *)
(* (TCPSOCKET_INTERRUPTED).                                                 *)
Transmit(wire, ps, outcome) ==
    \/ /\ outcome = "complete"
       /\ c2s' = wire \o ps
       /\ pendingWrite' = None
    \/ /\ outcome = "partial"
       /\ c2s' = wire \o Front(ps)
       /\ pendingWrite' = Last(ps)

Outcomes == {"complete"} \cup (IF Allowed("partial") THEN {"partial"} ELSE {})
SpendOn(b, outcome) == IF outcome = "partial" THEN Spend(b, "partial") ELSE b

(* A PUBLISH or a PUBREL is put in the store before it is written. *)
PutSent(keys, ps) ==
    [i \in Ids |->
        LET put == {k \in DOMAIN ps : ps[k].type = "PUBLISH" /\ ps[k].id = i}
        IN  IF put = {} THEN keys[i] ELSE ps[CHOOSE k \in put : TRUE].m]
PutPubrel(keys, ps) ==
    keys \cup {ps[k].id : k \in {j \in DOMAIN ps : ps[j].type = "PUBREL"}}

(* A slip: an acknowledgement that cannot be written now is forgotten. *)
SendAckNow(type, id) ==
    /\ IF pendingWrite = None
       THEN \E outcome \in Outcomes :
               /\ Transmit(c2s, <<Packet(type, id, None)>>, outcome)
               /\ budget' = SpendOn(budget, outcome)
               /\ pubrelKeys' = PutPubrel(pubrelKeys, <<Packet(type, id, None)>>)
       ELSE UNCHANGED <<c2s, pendingWrite, pubrelKeys, budget>>
    /\ UNCHANGED outboundQueue

(* Acknowledge: written now, or queued while the socket has a partial write. *)
SendAck(type, id) ==
    \/ /\ pendingWrite = None
       /\ \E outcome \in Outcomes :
              /\ Transmit(c2s, <<Packet(type, id, None)>>, outcome)
              /\ budget' = SpendOn(budget, outcome)
       /\ pubrelKeys' = PutPubrel(pubrelKeys, <<Packet(type, id, None)>>)
       /\ UNCHANGED outboundQueue
    \/ /\ pendingWrite # None
       /\ outboundQueue' = Append(outboundQueue, [type |-> type, id |-> id])
       /\ UNCHANGED <<c2s, pendingWrite, pubrelKeys, budget>>
-----------------------------------------------------------------------------
(***************************************************************************)
(* The client: publishing and the handlers of received packets             *)
(***************************************************************************)
OutIds == {outboundMsgs[k].id : k \in DOMAIN outboundMsgs}

(* Positions of the messages with this id that wait for this packet. *)
Waiting(id, next) ==
    {k \in DOMAIN outboundMsgs : outboundMsgs[k].id = id /\ outboundMsgs[k].next = next}

FirstAck(m) == IF m \in Msgs2 THEN "PUBREC" ELSE "PUBACK"

AtMost2(n) == IF n < 2 THEN n + 1 ELSE 2
Deliver(m) == delivered' = [delivered EXCEPT ![m] = AtMost2(@)]

(* The application publishes m.  The call waits while the in-flight window  *)
(* is full or the socket is busy, so the model does not start it then.      *)
Publish(m) ==
    LET id == AssignMsgId(msgID, OutIds)
        p  == <<Packet("PUBLISH", id, m)>>
    IN
    /\ connected
    /\ m \in scenario.msgs \ ToSet(accepted)
    /\ Len(outboundMsgs) < MaxInflight
    /\ pendingWrite = None
    /\ id # 0
    /\ msgID' = id
    /\ outboundMsgs' = Append(outboundMsgs, [id |-> id, m |-> m, next |-> FirstAck(m)])
    /\ sentKeys' = PutSent(sentKeys, p)
    /\ \E outcome \in Outcomes : Transmit(c2s, p, outcome) /\ budget' = SpendOn(budget, outcome)
    /\ accepted' = Append(accepted, m)
    /\ sentNow' = sentNow \cup {m}
    /\ UNCHANGED <<connected, inboundMsgs, outboundQueue, connect_count, connect_sent,
                   pubrelKeys, rcvdKeys, s2c, serverVars, acked, refused, srvGot,
                   srvSent, srvDone, delivered>>

(* The next packet from the server is p. *)
Receive(p, type) ==
    /\ connected
    /\ s2c # <<>>
    /\ p = Head(s2c)
    /\ p.type = type
    /\ s2c' = Tail(s2c)

HandlePublishQoS1(p) ==
    /\ p.m \in SrvMsgs1
    /\ Deliver(p.m)
    /\ SendAck("PUBACK", p.id)
    /\ UNCHANGED <<inboundMsgs, rcvdKeys>>

(* A slip: an MQTT 5 client delivers the message each time it arrives. *)
HandlePublishQoS2Again(p) ==
    /\ p.m \in SrvMsgs2
    /\ rcvdKeys' = [rcvdKeys EXCEPT ![p.id] = p.m]
    /\ inboundMsgs' = [inboundMsgs EXCEPT ![p.id] = p.m]
    /\ IF V5 THEN Deliver(p.m) ELSE UNCHANGED delivered
    /\ SendAck("PUBREC", p.id)

(* A QoS 2 message is persisted when its packet is read, takes the place of *)
(* one with the same id, and an MQTT 5 client delivers it at once unless it *)
(* has it already.                                                          *)
HandlePublishQoS2(p) ==
    /\ p.m \in SrvMsgs2
    /\ rcvdKeys' = [rcvdKeys EXCEPT ![p.id] = p.m]
    /\ inboundMsgs' = [inboundMsgs EXCEPT ![p.id] = p.m]
    /\ IF V5 /\ inboundMsgs[p.id] = None THEN Deliver(p.m) ELSE UNCHANGED delivered
    /\ SendAck("PUBREC", p.id)

HandlePublish(p) ==
    /\ Receive(p, "PUBLISH")
    /\ HandlePublishQoS1(p) \/ HandlePublishQoS2(p)
    /\ UNCHANGED <<connected, msgID, outboundMsgs, connect_count, connect_sent, sentKeys,
                   serverVars, accepted, acked, refused, srvGot, srvSent, srvDone, sentNow>>

(* A slip: the reason code is not looked at. *)
EndExchangeAnyReason(k, ok) ==
    /\ sentKeys' = [sentKeys EXCEPT ![outboundMsgs[k].id] = None]
    /\ pubrelKeys' = pubrelKeys \ {outboundMsgs[k].id}
    /\ outboundMsgs' = RemoveAt(outboundMsgs, k)
    /\ acked' = acked \cup {outboundMsgs[k].m} /\ UNCHANGED refused

(* The exchange of outboundMsgs[k] is over: its records and its entry go. *)
EndExchange(k, ok) ==
    LET e == outboundMsgs[k] IN
    /\ sentKeys' = [sentKeys EXCEPT ![e.id] = None]
    /\ pubrelKeys' = pubrelKeys \ {e.id}
    /\ outboundMsgs' = RemoveAt(outboundMsgs, k)
    /\ IF ok THEN acked' = acked \cup {e.m} /\ UNCHANGED refused
             ELSE refused' = refused \cup {e.m} /\ UNCHANGED acked

(* PUBACK and PUBCOMP: the last packet of an exchange. *)
HandleFinalAck(p, type) ==
    /\ Receive(p, type)
    /\ \/ \E k \in Waiting(p.id, type) : EndExchange(k, p.ok)
       \/ /\ Waiting(p.id, type) = {}
          /\ UNCHANGED <<sentKeys, pubrelKeys, outboundMsgs, acked, refused>>
    /\ UNCHANGED <<connected, msgID, inboundMsgs, outboundQueue, connect_count, connect_sent,
                   rcvdKeys, pendingWrite, c2s, serverVars, accepted, srvGot, srvSent,
                   srvDone, delivered, sentNow, budget>>

HandlePuback(p)  == HandleFinalAck(p, "PUBACK")
HandlePubcomp(p) == HandleFinalAck(p, "PUBCOMP")

(* An error ends the exchange of an MQTT 5 client. *)
PubrecRefuses(p) ==
    /\ ~p.ok
    /\ \E k \in Waiting(p.id, "PUBREC") : EndExchange(k, FALSE)
    /\ UNCHANGED <<outboundQueue, c2s, pendingWrite, budget>>

(* Otherwise PUBREL is sent, "under all circumstances because MQTT state    *)
(* can get out of step": also when no message waits for this PUBREC.        *)
PubrecReleases(p) ==
    /\ p.ok \/ Waiting(p.id, "PUBREC") = {}
    /\ outboundMsgs' = [k \in DOMAIN outboundMsgs |->
                           IF k \in Waiting(p.id, "PUBREC")
                           THEN [outboundMsgs[k] EXCEPT !.next = "PUBCOMP"]
                           ELSE outboundMsgs[k]]
    /\ SendAck("PUBREL", p.id)
    /\ UNCHANGED <<sentKeys, acked, refused>>

HandlePubrec(p) ==
    /\ Receive(p, "PUBREC")
    /\ PubrecRefuses(p) \/ PubrecReleases(p)
    /\ UNCHANGED <<connected, msgID, inboundMsgs, connect_count, connect_sent, rcvdKeys,
                   serverVars, accepted, srvGot, srvSent, srvDone, delivered, sentNow>>

(* The message of a PUBREL leaves the list and the store; an MQTT 3 client   *)
(* delivers it now.                                                          *)
ReleaseInbound(id) ==
    /\ inboundMsgs[id] # None
    /\ IF V5 THEN UNCHANGED delivered ELSE Deliver(inboundMsgs[id])
    /\ rcvdKeys' = [rcvdKeys EXCEPT ![id] = None]
    /\ inboundMsgs' = [inboundMsgs EXCEPT ![id] = None]

(* A slip: no PUBCOMP for a message that is not there. *)
HandlePubrelKnown(p) ==
    /\ Receive(p, "PUBREL")
    /\ IF inboundMsgs[p.id] # None
       THEN ReleaseInbound(p.id) /\ SendAck("PUBCOMP", p.id)
       ELSE UNCHANGED <<delivered, rcvdKeys, inboundMsgs, c2s, pendingWrite, pubrelKeys,
                        outboundQueue, budget>>
    /\ UNCHANGED <<connected, msgID, outboundMsgs, connect_count, connect_sent, sentKeys,
                   serverVars, accepted, acked, refused, srvGot, srvSent, srvDone, sentNow>>

(* PUBREL: PUBCOMP is sent whether or not there is a message. *)
HandlePubrel(p) ==
    /\ Receive(p, "PUBREL")
    /\ \/ ReleaseInbound(p.id)
       \/ inboundMsgs[p.id] = None /\ UNCHANGED <<delivered, rcvdKeys, inboundMsgs>>
    /\ SendAck("PUBCOMP", p.id)
    /\ UNCHANGED <<connected, msgID, outboundMsgs, connect_count, connect_sent, sentKeys,
                   serverVars, accepted, acked, refused, srvGot, srvSent, srvDone, sentNow>>

(* The rest of a partly written packet goes out, then the queued            *)
(* acknowledgements do, up to the first that does not go out completely;    *)
(* the queue is emptied whether or not they all went.                       *)
WriteAvailable ==
    /\ connected
    /\ pendingWrite # None
    /\ \E n \in 0 .. Len(outboundQueue), outcome \in Outcomes :
          LET acks == [k \in 1 .. n |-> Packet(outboundQueue[k].type, outboundQueue[k].id, None)]
              spent == SpendOn(budget, outcome)
          IN
          /\ outcome = "partial" => n > 0
          /\ Transmit(c2s, <<pendingWrite>> \o acks, outcome)
          /\ pubrelKeys' = PutPubrel(pubrelKeys, acks)
          /\ \/ n = Len(outboundQueue) /\ budget' = spent
             \/ /\ n < Len(outboundQueue) /\ outcome = "partial"
                /\ Allowed("drop") /\ budget' = Spend(spent, "drop")
    /\ outboundQueue' = <<>>
    /\ UNCHANGED <<connected, msgID, outboundMsgs, inboundMsgs, connect_count, connect_sent,
                   sentKeys, rcvdKeys, s2c, serverVars, appVars, sentNow>>
-----------------------------------------------------------------------------
(***************************************************************************)
(* The client: losing the connection, retrying and reconnecting            *)
(***************************************************************************)
(* The socket is closed.  What has been written may still reach the server; *)
(* what the server answers is not read any more.                            *)
CloseSocket ==
    /\ connected' = FALSE
    /\ pendingWrite' = None
    /\ s2c' = <<>>

(* Slips: the records of sent messages stay; the received messages do. *)
EmptySessionKeepsSent ==
    /\ msgID' = 0
    /\ outboundMsgs' = <<>>
    /\ inboundMsgs' = [i \in SrvIds |-> None]
    /\ rcvdKeys' = [i \in SrvIds |-> None]
    /\ UNCHANGED <<sentKeys, pubrelKeys>>
EmptySessionKeepsInbound ==
    /\ msgID' = 0
    /\ outboundMsgs' = <<>>
    /\ sentKeys' = [i \in Ids |-> None]
    /\ pubrelKeys' = {}
    /\ UNCHANGED <<inboundMsgs, rcvdKeys>>

(* cleanSession: the in-flight lists, their records and msgID are cleared;   *)
(* the queue of acknowledgements is not.                                     *)
EmptySession ==
    /\ msgID' = 0
    /\ outboundMsgs' = <<>>
    /\ inboundMsgs' = [i \in SrvIds |-> None]
    /\ sentKeys' = [i \in Ids |-> None]
    /\ pubrelKeys' = {}
    /\ rcvdKeys' = [i \in SrvIds |-> None]

(* closeSession of MQTTClient leaves the cleaning to the next CONNACK when   *)
(* it speaks MQTT 5; MQTTAsync cleans at once.                               *)
CleansOnClose == CleanSession /\ (AsyncAPI \/ ~V5)

(* closeSession after a network error, or at the application's request. *)
ConnectionLost ==
    /\ connected
    /\ Allowed("loss")
    /\ CloseSocket
    /\ IF CleansOnClose THEN EmptySession ELSE UNCHANGED sessionVars
    /\ budget' = Spend(budget, "loss")
    /\ UNCHANGED <<outboundQueue, connect_count, connect_sent, c2s, serverVars, appVars,
                   sentNow>>

(* A slip: the PUBLISH is sent again although it has been released. *)
RetryPacketPublish(e) == Packet("PUBLISH", e.id, e.m)

(* What a retry sends for an in-flight message. *)
RetryPacket(e) ==
    IF e.next = "PUBCOMP" THEN Packet("PUBREL", e.id, None) ELSE Packet("PUBLISH", e.id, e.m)

(* A slip: only the first message is sent again. *)
AttemptsOnlyFirst(regardless, outcome) ==
    IF outboundMsgs = <<>> THEN {} ELSE {<<1>>}

(* The positions of the messages a retry tries to send: when they are sent  *)
(* regardless of their age, the first ones, and all of them unless one does *)
(* not go out; else those old enough, in list order.                        *)
Attempts(regardless, outcome) ==
    IF regardless
    THEN {f \in {[k \in 1 .. n |-> k] : n \in DOMAIN outboundMsgs} :
             outcome = "complete" => Len(f) = Len(outboundMsgs)}
    ELSE UNION {{f \in [1 .. n -> DOMAIN outboundMsgs] : \A k \in 2 .. n : f[k - 1] < f[k]} :
                   n \in DOMAIN outboundMsgs}

(* The loop of MQTTProtocol_retries over the messages f: all but the last   *)
(* are written; the last is written, or is a PUBLISH that is partly         *)
(* written, or fails (a PUBREL also by being partly written), and then the  *)
(* session is closed.  wire and incoming are what is in transit before it,  *)
(* now the messages already written on this connection.                     *)
RetryLoop(f, regardless, outcome, wire, incoming, now) ==
    LET ps == [k \in DOMAIN f |-> RetryPacket(outboundMsgs[f[k]])] IN
    /\ connect_sent' = connect_sent + (IF regardless THEN Len(f) ELSE 0)
    /\ \/ /\ outcome = "failed"
          /\ CloseSocket
          /\ c2s' = wire \o Front(ps)
          /\ sentNow' = {}
       \/ /\ outcome = "partial" => Last(ps).type = "PUBLISH"
          /\ Transmit(wire, ps, outcome)
          /\ connected' = TRUE
          /\ s2c' = incoming
          /\ sentNow' = now \cup {outboundMsgs[f[k]].m : k \in DOMAIN f}
    /\ IF outcome = "failed" /\ CleansOnClose THEN EmptySession
       ELSE /\ sentKeys' = PutSent(sentKeys, ps)
            /\ pubrelKeys' = PutPubrel(pubrelKeys, ps)
            /\ UNCHANGED <<msgID, outboundMsgs, inboundMsgs, rcvdKeys>>

RetryOutcomes == Outcomes \cup (IF Allowed("loss") THEN {"failed"} ELSE {})
SpendOnRetry(b, outcome) ==
    IF outcome = "failed" THEN Spend(b, "loss") ELSE SpendOn(b, outcome)

(* A periodic retry while connected.  With no retry interval it only does    *)
(* something while the counts say that the retry on connect is not over.     *)
Retry ==
    LET regardless == connect_sent < connect_count IN
    /\ connected
    /\ pendingWrite = None
    /\ RetryOn \/ connect_sent # connect_count
    /\ Allowed("retry")
    /\ \E outcome \in RetryOutcomes : \E f \in Attempts(regardless, outcome) :
          /\ RetryLoop(f, regardless, outcome, c2s, s2c, sentNow)
          /\ budget' = SpendOnRetry(Spend(budget, "retry"), outcome)
    /\ UNCHANGED <<outboundQueue, connect_count, serverVars, appVars>>

(* What the server sends again on a new connection to an old session. *)
SrvResend ==
    [k \in DOMAIN srvOut |->
        IF srvOut[k].next = "PUBCOMP" THEN Packet("PUBREL", srvOut[k].id, None)
        ELSE Packet("PUBLISH", srvOut[k].id, srvOut[k].m)]

(* A successful CONNACK is handled.  fresh: the server has no session for    *)
(* this client (sessionPresent is 0), because the client asked for a clean   *)
(* one or because the server lost it; only MQTTAsync then cleans its own.    *)
(* Otherwise everything in flight is sent again.                             *)
Reconnect(fresh) ==
    LET cleans   == CleanSession \/ (fresh /\ AsyncAPI)
        incoming == IF fresh THEN <<>> ELSE SrvResend
        spent    == IF fresh /\ ~CleanSession THEN Spend(budget, "forget") ELSE budget
    IN
    /\ ~connected
    /\ IF fresh THEN CleanSession \/ Allowed("forget") ELSE ~CleanSession
    /\ IF fresh THEN srvIds' = {} /\ srvOut' = <<>> ELSE UNCHANGED serverVars
    /\ \/ /\ cleans \/ outboundMsgs = <<>>
          /\ IF cleans THEN EmptySession ELSE UNCHANGED sessionVars
          /\ connected' = TRUE
          /\ c2s' = <<>>
          /\ s2c' = incoming
          /\ sentNow' = {}
          /\ budget' = spent
          /\ UNCHANGED <<pendingWrite, connect_count, connect_sent>>
       \/ /\ ~cleans
          /\ connect_count' = Len(outboundMsgs)
          /\ \E outcome \in RetryOutcomes : \E f \in Attempts(TRUE, outcome) :
                /\ RetryLoop(f, TRUE, outcome, <<>>, incoming, {})
                /\ budget' = SpendOnRetry(spent, outcome)
    /\ UNCHANGED <<outboundQueue, appVars>>

-----------------------------------------------------------------------------
(***************************************************************************)
(* The client: killed and started again                                    *)
(***************************************************************************)
(* A slip: a message whose PUBREL has been sent is not restored. *)
RestoredUnreleased(sent, pubrel) ==
    {[id |-> i, m |-> sent[i], next |-> FirstAck(sent[i])] :
        i \in {j \in Ids \ pubrel : sent[j] # None}}

(* The messages the records stand for: released when there is a PUBREL. *)
Restored(sent, pubrel) ==
    {[id |-> i, m |-> sent[i],
      next |-> IF sent[i] \in Msgs2 /\ i \in pubrel THEN "PUBCOMP" ELSE FirstAck(sent[i])] :
        i \in {j \in Ids : sent[j] # None}}

(* The list MQTTPersistence_insertInOrder builds of them. *)
InIdOrder(S) ==
    {s \in [1 .. Cardinality(S) -> S] :
        \A k, l \in DOMAIN s : k < l => s[k].id < s[l].id}

(* Where the ids wrapped: the first of the largest gaps, if it is larger     *)
(* than the gap between the last id and the first.                           *)
Gap(s, k) == s[k].id - s[k - 1].id
WrapPoints(s) ==
    {k \in 2 .. Len(s) :
        /\ Gap(s, k) > MaxMsgId - s[Len(s)].id + s[1].id
        /\ \A l \in 2 .. Len(s) : Gap(s, l) <= Gap(s, k)
        /\ \A l \in 2 .. k - 1 : Gap(s, l) < Gap(s, k)}

(* The list turned so that it begins with element k. *)
Rotate(s, k) ==
    [j \in DOMAIN s |-> IF j + k - 1 <= Len(s) THEN s[j + k - 1] ELSE s[j + k - 1 - Len(s)]]

(* A slip: the list is left in the order of the ids. *)
WrapMsgIDNever(s) == s

WrapMsgID(s) ==
    IF WrapPoints(s) = {} THEN s ELSE Rotate(s, CHOOSE k \in WrapPoints(s) : TRUE)

(* Slip and code: the QoS 2 messages that were received are lost, or kept. *)
RestoredInboundNone(rcvd) == [i \in SrvIds |-> None]
RestoredInbound(rcvd) == rcvd

(* The program is started again on the records sent, pubrel and rcvd. *)
Restore(sent, pubrel, rcvd) ==
    /\ CloseSocket
    /\ msgID' = 0
    /\ \E s \in InIdOrder(Restored(sent, pubrel)) : outboundMsgs' = WrapMsgID(s)
    /\ inboundMsgs' = RestoredInbound(rcvd)
    /\ outboundQueue' = <<>>
    /\ connect_count' = 0 /\ connect_sent' = 0
    /\ sentKeys' = sent
    /\ pubrelKeys' = {i \in pubrel : sent[i] # None}   \* orphaned PUBRELs are removed
    /\ rcvdKeys' = rcvd

(* Killed between two handlers. *)
Crash ==
    /\ Allowed("crash")
    /\ Restore(sentKeys, pubrelKeys, rcvdKeys)
    /\ budget' = Spend(budget, "crash")
    /\ UNCHANGED <<c2s, serverVars, appVars, sentNow>>

(* Killed while the packet p is handled, after the handler's first lasting   *)
(* effect: a QoS 2 message is in the store but not in the list, a message is *)
(* delivered but its record is still there, or the record of an acknowledged *)
(* message is gone but not yet the record of its PUBREL.                     *)
CrashInHandler(p) ==
    /\ scenario.inside /\ Allowed("crash")
    /\ connected /\ s2c # <<>> /\ p = Head(s2c)
    /\ \/ /\ p.type = "PUBLISH" /\ p.m \in SrvMsgs2
          /\ Restore(sentKeys, pubrelKeys, [rcvdKeys EXCEPT ![p.id] = p.m])
          /\ UNCHANGED <<delivered, acked, refused>>
       \/ /\ p.type = "PUBREL" /\ ~V5 /\ inboundMsgs[p.id] # None
          /\ Deliver(inboundMsgs[p.id])
          /\ Restore(sentKeys, pubrelKeys, rcvdKeys)
          /\ UNCHANGED <<acked, refused>>
       \/ /\ p.type \in {"PUBACK", "PUBCOMP"}
          /\ \E k \in Waiting(p.id, p.type) :
                IF p.ok THEN acked' = acked \cup {outboundMsgs[k].m} /\ UNCHANGED refused
                ELSE refused' = refused \cup {outboundMsgs[k].m} /\ UNCHANGED acked
          /\ Restore([sentKeys EXCEPT ![p.id] = None], pubrelKeys, rcvdKeys)
          /\ UNCHANGED delivered
    /\ budget' = Spend(budget, "crash")
    /\ UNCHANGED <<c2s, serverVars, accepted, srvGot, srvSent, srvDone, sentNow>>
-----------------------------------------------------------------------------
(***************************************************************************)
(* External: the server                                                    *)
(***************************************************************************)
SrvReceive(p, types) ==
    /\ c2s # <<>>
    /\ p = Head(c2s)
    /\ p.type \in types
    /\ c2s' = Tail(c2s)

SrvReply(p) == s2c' = IF connected THEN Append(s2c, p) ELSE s2c

SrvTake(m) == srvGot' = [srvGot EXCEPT ![m] = AtMost2(@)]

(* A PUBLISH from the client: taken, or refused (MQTT 5). *)
SrvPublishQoS1(p) ==
    /\ p.m \in Msgs1
    /\ UNCHANGED srvIds
    /\ \/ SrvTake(p.m) /\ SrvReply(Packet("PUBACK", p.id, None))
       \/ /\ V5 /\ UNCHANGED srvGot
          /\ SrvReply([Packet("PUBACK", p.id, None) EXCEPT !.ok = FALSE])

SrvPublishQoS2(p) ==
    /\ p.m \in Msgs2
    /\ \/ /\ IF p.id \in srvIds THEN UNCHANGED srvGot ELSE SrvTake(p.m)
          /\ srvIds' = srvIds \cup {p.id}
          /\ SrvReply(Packet("PUBREC", p.id, None))
       \/ /\ V5 /\ p.id \notin srvIds
          /\ SrvReply(PubrecError(p.id))
          /\ UNCHANGED <<srvGot, srvIds>>

SrvPublish(p) ==
    /\ SrvReceive(p, {"PUBLISH"})
    /\ SrvPublishQoS1(p) \/ SrvPublishQoS2(p)
    /\ UNCHANGED <<clientVars, storeVars, pendingWrite, srvOut, accepted, acked, refused,
                   srvSent, srvDone, delivered, sentNow, budget>>

SrvPubrel(p) ==
    /\ SrvReceive(p, {"PUBREL"})
    /\ srvIds' = srvIds \ {p.id}
    /\ SrvReply(Packet("PUBCOMP", p.id, None))
    /\ UNCHANGED <<clientVars, storeVars, pendingWrite, srvOut, appVars, sentNow, budget>>

(* The server sends m under an id that none of its exchanges uses. *)
SrvSend(m) ==
    /\ connected
    /\ m \in scenario.msgs \ srvSent
    /\ \E i \in SrvIds \ {srvOut[k].id : k \in DOMAIN srvOut} :
          /\ srvOut' = Append(srvOut,
                [id |-> i, m |-> m, next |-> IF m \in SrvMsgs2 THEN "PUBREC" ELSE "PUBACK"])
          /\ SrvReply(Packet("PUBLISH", i, m))
    /\ srvSent' = srvSent \cup {m}
    /\ UNCHANGED <<clientVars, storeVars, pendingWrite, c2s, srvIds, accepted, acked,
                   refused, srvGot, srvDone, delivered, sentNow, budget>>

SrvWaiting(id, next) ==
    {k \in DOMAIN srvOut : srvOut[k].id = id /\ srvOut[k].next = next}

(* PUBACK or PUBCOMP from the client. *)
SrvFinalAck(p) ==
    /\ SrvReceive(p, {"PUBACK", "PUBCOMP"})
    /\ \/ \E k \in SrvWaiting(p.id, p.type) :
             /\ srvOut' = RemoveAt(srvOut, k)
             /\ srvDone' = srvDone \cup {srvOut[k].m}
       \/ SrvWaiting(p.id, p.type) = {} /\ UNCHANGED <<srvOut, srvDone>>
    /\ UNCHANGED <<clientVars, storeVars, pendingWrite, s2c, srvIds, accepted, acked,
                   refused, srvGot, srvSent, delivered, sentNow, budget>>

SrvPubrec(p) ==
    /\ SrvReceive(p, {"PUBREC"})
    /\ srvOut' = [k \in DOMAIN srvOut |->
                     IF k \in SrvWaiting(p.id, "PUBREC")
                     THEN [srvOut[k] EXCEPT !.next = "PUBCOMP"] ELSE srvOut[k]]
    /\ SrvReply(Packet("PUBREL", p.id, None))
    /\ UNCHANGED <<clientVars, storeVars, pendingWrite, srvIds, appVars, sentNow, budget>>

-----------------------------------------------------------------------------
InNet == IF s2c = <<>> THEN {} ELSE {Head(s2c)}
OutNet == IF c2s = <<>> THEN {} ELSE {Head(c2s)}

ClientStep ==
    /\ \/ \E p \in InNet : \/ HandlePublish(p) \/ HandlePuback(p) \/ HandlePubrec(p)
                           \/ HandlePubrel(p) \/ HandlePubcomp(p)
       \/ WriteAvailable
    /\ UNCHANGED scenario

ServerStep ==
    /\ \E p \in OutNet : SrvPublish(p) \/ SrvPubrel(p) \/ SrvFinalAck(p) \/ SrvPubrec(p)
    /\ UNCHANGED scenario

Connect ==
    /\ \E fresh \in BOOLEAN : Reconnect(fresh)
    /\ UNCHANGED scenario

(* What the applications and the network may or may not do. *)
Event ==
    /\ \/ \E m \in Msgs : Publish(m)
       \/ \E m \in SrvMsgs : SrvSend(m)
       \/ ConnectionLost
       \/ Retry
       \/ Crash
       \/ \E p \in InNet : CrashInHandler(p)
    /\ UNCHANGED scenario

Next == ClientStep \/ ServerStep \/ Connect \/ Event

(* The receive thread handles what arrives and finishes partial writes, the  *)
(* client is connected again after a loss (by MQTTAsync's automatic          *)
(* reconnect, or by the application), and the server does its part.          *)
Fairness == WF_vars(ClientStep) /\ WF_vars(ServerStep) /\ WF_vars(Connect)

Spec == Init /\ [][Next]_vars /\ Fairness
-----------------------------------------------------------------------------
(***************************************************************************)
(* Properties                                                              *)
(***************************************************************************)
(* No two in-flight messages share an id, through id wrap-around, losses and *)
(* restarts: a PUBACK, PUBREC or PUBCOMP finds its own message               *)
(* (MQTTProtocol_assignMsgId, MQTTPersistence_restorePackets).               *)
UniqueIds ==
    \A k, l \in DOMAIN outboundMsgs : outboundMsgs[k].id = outboundMsgs[l].id => k = l

(* MQTTClient_publish5 on a message id of 0: "this should never happen as    *)
(* we've waited for spaces in the queue".  The window leaves a free id also  *)
(* when a restart has set msgID back to 0 in the midst of restored messages. *)
NeverOutOfIds ==
    Len(outboundMsgs) < MaxInflight => AssignMsgId(msgID, OutIds) # 0

(* What the library does not withstand: acknowledgements queued behind a     *)
(* partial write outlive the connection, or are stored after their exchange  *)
(* has ended; MQTTClient goes on with a session the server has lost; a       *)
(* message repeated on the same connection may be refused and then taken.    *)
Undisturbed ==
    /\ scenario.budget.partial = 0
          \/ (scenario.budget.loss = 0 /\ (scenario.budget.crash = 0 \/ scenario.budget.retry = 0))
    /\ scenario.budget.forget = 0 \/ AsyncAPI \/ CleanSession
    /\ ~V5 \/ scenario.budget.retry = 0

(* "QoS2, Exactly once: The message is always delivered exactly once."       *)
(* (MQTTClient.h): a QoS 2 message published by the client reaches the       *)
(* server's application at most once, and once when its exchange has         *)
(* completed, whatever was lost, sent again or restored.                     *)
AlwaysOnce ==
    \A m \in Msgs2 : /\ srvGot[m] <= 1
                     /\ m \in acked => srvGot[m] = 1

(* That is so apart from the combinations of faults that Undisturbed names:  *)
(* the ids of MQTTProtocol_assignMsgId, the retries of MQTTProtocol_retries  *)
(* and the records of MQTTPersistence.c never confuse two exchanges.         *)
ExactlyOnceOut == Undisturbed => AlwaysOnce

(* A published message stays in the in-flight list and in the store until    *)
(* the server has answered it: nothing that happens in between loses it.     *)
(* The exceptions are a clean session, and MQTTAsync when the server says    *)
(* that it has no session.                                                   *)
KeptUntilAnswered == ~CleanSession /\ ~AsyncAPI =>
    \A m \in ToSet(accepted) \ (acked \cup refused) :
        \E k \in DOMAIN outboundMsgs :
            outboundMsgs[k].m = m /\ sentKeys[outboundMsgs[k].id] = m

(* The store has no record of an outbound message that is not in the list:   *)
(* a restart would send an acknowledged message again.                       *)
StoreHasNoStaleSent ==
    \A i \in Ids : sentKeys[i] # None =>
        \E k \in DOMAIN outboundMsgs : outboundMsgs[k].id = i /\ outboundMsgs[k].m = sentKeys[i]

(* The in-flight list is in the order of publication.  A restart rebuilds it *)
(* from ids that may have wrapped, and only their gaps tell where            *)
(* (MQTTPersistence_wrapMsgID): that needs the messages to span at most half *)
(* of the ids, and no earlier restart, for after one the ids begin at 1      *)
(* again whatever was restored.                                              *)
InPublicationOrder ==
    scenario.budget.crash <= 1 /\ 2 * Len(accepted) <= MaxMsgId =>
    \A k, l \in DOMAIN outboundMsgs : k < l =>
        \E a, b \in DOMAIN accepted : /\ a < b
                                      /\ accepted[a] = outboundMsgs[k].m
                                      /\ accepted[b] = outboundMsgs[l].m

(* A QoS 2 message from the server is passed to the application at most      *)
(* once, however often its PUBLISH and PUBREL are repeated.  The exception   *)
(* is an MQTT 3 client killed between delivery and removal of the record.    *)
AtMostOnceIn ==
    V5 \/ ~scenario.inside => \A m \in SrvMsgs2 : delivered[m] <= 1

(* A message the server considers delivered, QoS 1 or 2, was passed to the   *)
(* application.  The exceptions: an MQTT 5 client killed before it delivers  *)
(* what it has stored, acknowledgements queued for a connection that is      *)
(* lost, and MQTTClient when the server has lost the session.                *)
DoneWasDelivered ==
    /\ ~V5 \/ ~scenario.inside
    /\ scenario.budget.partial = 0 \/ scenario.budget.loss = 0
    /\ scenario.budget.forget = 0 \/ AsyncAPI \/ CleanSession
    => \A m \in srvDone : delivered[m] >= 1

(* What the client promises for messages from the server: no QoS 2 message   *)
(* twice, and none that the server will not send again is missing.           *)
ExactlyOnceIn == AtMostOnceIn /\ DoneWasDelivered

(* Every in-flight message has been written on the connection there is, also *)
(* those of earlier connections and of before a restart: "the number of      *)
(* outbound messages on reconnect - to ensure we send them all"              *)
(* (connect_count, Clients.h).  The counts do not ensure it after a partial  *)
(* write, as connect_sent is never set back.                                 *)
AllSentOnConnect ==
    scenario.budget.partial = 0 /\ connected =>
        \A k \in DOMAIN outboundMsgs : outboundMsgs[k].m \in sentNow

(* Acknowledgements have been thrown away behind a partial write of another. *)
AcksDropped == budget.drop # scenario.budget.drop

(* Every exchange ends once the environment interferes no more: a published  *)
(* message is answered, and a message of the server is acknowledged.  The    *)
(* exception is MQTTProtocol_writeAvailable: when a queued acknowledgement   *)
(* is partly written, it empties the queue with those behind it unsent.      *)
ExchangesEnd ==
    /\ \A m \in Msgs : m \in ToSet(accepted) ~> m \in acked \cup refused \/ AcksDropped
    /\ \A m \in SrvMsgs : m \in srvSent ~> m \in srvDone \/ AcksDropped

(* Both directions do what the QoS levels promise, step by step: see         *)
(* Delivery.                                                                 *)
Out == INSTANCE Delivery WITH AtLeastOnce <- Msgs1, ExactlyOnce <- Msgs2,
           accepted <- ToSet(accepted), got <- srvGot, finished <- acked, refused <- refused
In  == INSTANCE Delivery WITH AtLeastOnce <- SrvMsgs1, ExactlyOnce <- SrvMsgs2,
           accepted <- srvSent, got <- delivered, finished <- srvDone, refused <- {}
OutDelivery == Out!Spec
InDelivery == In!Spec
=============================================================================
