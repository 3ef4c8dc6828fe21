------------------------------ MODULE Keepalive ------------------------------
(***************************************************************************)
(* Keepalive of one client: MQTTProtocol_keepalive (MQTTProtocolClient.c), *)
(* called from the retry function at the end of each cycle of the receive  *)
(* thread, the PINGRESP handler, and the places that set the times it      *)
(* looks at.                                                               *)
(*                                                                         *)
(* Time passes in ticks.  A time such as lastSent is kept as its age, the  *)
(* number of ticks since it was set, up to MaxAge.  The receive thread     *)
(* waits at most CycleTime for data before it goes round again.            *)
(***************************************************************************)
EXTENDS Integers, FiniteSetsExt

CONSTANTS
    TickTime,     \* milliseconds in a tick
    CycleTime,    \* the longest a cycle of the receive thread takes: 1000 ms
    MaxAge,       \* ages are not told apart from here on
    Scenarios     \* the clients and servers to consider, see Scenario

Ages == 0 .. MaxAge

(* keepalive: keepAliveInterval in seconds; others: the intervals with which *)
(* other clients of the process may connect; shared: the socket of another   *)
(* client is writable all the time; partial: how many writes may be partial; *)
(* response, stall: how many ticks a server that is alive takes at most to   *)
(* answer PINGREQ, and to let a partial write go on.                         *)
Scenario == [keepalive : Nat, others : SUBSET Nat, shared : BOOLEAN, partial : Nat,
             response : Nat, stall : Nat]

ASSUME KeepaliveAssumption ==
    /\ TickTime \in Nat \ {0} /\ CycleTime \in Nat \ {0} /\ MaxAge \in Nat
    /\ CycleTime % TickTime = 0            \* a cycle takes a whole number of ticks
    /\ Scenarios \subseteq Scenario

VARIABLES
    \* Clients structure; the times as ages
    connected, ping_outstanding, ping_due,
    lastSent, lastReceived, lastPing, ping_due_time,
    \* the process: retryLoopIntervalms, and the last run of keepalive and of a cycle
    retryLoopInterval, lastCheck, lastCycle,
    \* socket: whether a partial write is pending, and for how long it has stood still
    pending, blocked, partials,
    \* external: the server runs; it has a PINGREQ to answer
    alive, unanswered,
    alarm,        \* the session has been closed by keepalive
    scenario

ages == <<lastSent, lastReceived, lastPing, ping_due_time, lastCheck, lastCycle, blocked>>
vars == <<connected, ping_outstanding, ping_due, ages, retryLoopInterval, pending, partials,
          alive, unanswered, alarm, scenario>>

(* setRetryLoopInterval: a tenth of the keepalive interval, within limits. *)
RetryLoopInterval(keepalive) ==
    LET ms == (keepalive * 1000) \div 10
    IN  IF ms < 100 THEN 100 ELSE IF ms > 5000 THEN 5000 ELSE ms
LoopIntervals == {ms \in Nat : 100 <= ms /\ ms <= 5000}

TypeOK ==
    /\ connected \in BOOLEAN /\ ping_outstanding \in BOOLEAN /\ ping_due \in BOOLEAN
    /\ pending \in BOOLEAN /\ alive \in BOOLEAN /\ unanswered \in BOOLEAN /\ alarm \in BOOLEAN
    /\ lastSent \in Ages /\ lastReceived \in Ages /\ lastPing \in Ages
    /\ ping_due_time \in Ages /\ lastCheck \in Ages /\ lastCycle \in Ages /\ blocked \in Ages
    /\ retryLoopInterval \in LoopIntervals
    /\ partials \in Nat
    /\ scenario \in Scenarios
    /\ ~(ping_outstanding /\ ping_due)

(* The CONNACK has just been read. *)
Init ==
    /\ scenario \in Scenarios
    /\ connected = TRUE /\ ping_outstanding = FALSE /\ ping_due = FALSE
    /\ lastSent = 0 /\ lastReceived = 0 /\ lastPing = 0 /\ ping_due_time = 0
    /\ retryLoopInterval = RetryLoopInterval(scenario.keepalive)
    /\ lastCheck = 0 /\ lastCycle = 0
    /\ pending = FALSE /\ blocked = 0 /\ partials = 0
    /\ alive = TRUE /\ unanswered = FALSE
    /\ alarm = FALSE

(* At least this many milliseconds ago. *)
Past(age, ms) == age * TickTime >= ms
K == scenario.keepalive * 1000

Older(age) == IF age < MaxAge THEN age + 1 ELSE age

(* Time passes.  The receive thread has not been away for longer than a      *)
(* cycle, and a server that is alive does its part in time.  The age of      *)
(* ping_due_time is compared with another age, so it must not be cut off.    *)
Tick ==
    /\ connected
    /\ ~Past(lastCycle, CycleTime)
    /\ ping_due => ping_due_time < MaxAge
    /\ alive /\ unanswered => lastPing < scenario.response
    /\ alive /\ pending => blocked < scenario.stall
    /\ lastSent' = Older(lastSent) /\ lastReceived' = Older(lastReceived)
    /\ lastPing' = Older(lastPing) /\ ping_due_time' = Older(ping_due_time)
    /\ lastCheck' = Older(lastCheck) /\ lastCycle' = Older(lastCycle)
    /\ blocked' = IF pending THEN Older(blocked) ELSE 0
    /\ UNCHANGED <<connected, ping_outstanding, ping_due, retryLoopInterval, pending,
                   partials, alive, unanswered, alarm, scenario>>
-----------------------------------------------------------------------------
(***************************************************************************)
(* The check                                                               *)
(***************************************************************************)
(* A slip: the ping flags outlive the connection. *)
CloseSessionKeepsPing(byKeepalive) ==
    /\ connected' = FALSE
    /\ pending' = FALSE /\ blocked' = 0
    /\ unanswered' = FALSE
    /\ alarm' = byKeepalive
    /\ UNCHANGED <<ping_outstanding, ping_due>>

CloseSession(byKeepalive) ==
    /\ connected' = FALSE
    /\ ping_outstanding' = FALSE /\ ping_due' = FALSE
    /\ pending' = FALSE /\ blocked' = 0
    /\ unanswered' = FALSE
    /\ alarm' = byKeepalive

(* A slip: ping_due stays set. *)
SendPingreqStaysDue ==
    /\ lastPing' = 0 /\ lastSent' = 0
    /\ ping_outstanding' = TRUE
    /\ unanswered' = TRUE
    /\ UNCHANGED <<connected, pending, blocked, alarm, ping_due>>

(* PINGREQ is written, or is not written completely and the session closed. *)
SendPingreq ==
    \/ /\ ping_due' = FALSE
       /\ lastPing' = 0 /\ lastSent' = 0
       /\ ping_outstanding' = TRUE
       /\ unanswered' = TRUE
       /\ UNCHANGED <<connected, pending, blocked, alarm>>
    \/ /\ CloseSession(FALSE)
       /\ UNCHANGED <<lastPing, lastSent>>

(* A PINGREQ is not answered.  As long as data arrives it may be the rest of *)
(* a large packet before the PINGRESP.                                       *)
PingOutstanding ==
    /\ ping_outstanding
    /\ IF Past(lastPing, (K * 3) \div 2) /\ Past(lastReceived, (K * 3) \div 2)
       THEN CloseSession(TRUE)
       ELSE UNCHANGED <<connected, ping_outstanding, ping_due, pending, blocked, unanswered, alarm>>
    /\ UNCHANGED <<lastPing, lastSent, ping_due_time>>

PingDue == ping_due /\ Past(ping_due_time, (K * 3) \div 2)

(* A PINGREQ could not be sent for too long. *)
PingOverdue ==
    /\ ~ping_outstanding /\ PingDue
    /\ IF ping_due_time <= lastReceived
       THEN CloseSession(TRUE)
       ELSE UNCHANGED <<connected, ping_outstanding, ping_due, pending, blocked, unanswered, alarm>>
    /\ UNCHANGED <<lastPing, lastSent, ping_due_time>>

(* A slip: ping_due_time is set each time the PINGREQ cannot be sent. *)
PingNeededRenews ==
    /\ ~ping_outstanding /\ ~PingDue
    /\ Past(lastSent, K)
    /\ IF ~pending THEN SendPingreq /\ UNCHANGED ping_due_time
       ELSE /\ ping_due' = TRUE /\ ping_due_time' = 0
            /\ UNCHANGED <<connected, ping_outstanding, pending, blocked, unanswered, alarm,
                           lastPing, lastSent>>

(* Nothing was sent for a keepalive interval: a PINGREQ is needed. *)
PingNeeded ==
    /\ ~ping_outstanding /\ ~PingDue
    /\ Past(lastSent, K)
    /\ \/ ~pending /\ SendPingreq /\ UNCHANGED ping_due_time
       \/ /\ pending
          /\ ping_due' = TRUE
          /\ ping_due_time' = IF ping_due THEN ping_due_time ELSE 0
          /\ UNCHANGED <<connected, ping_outstanding, pending, blocked, unanswered, alarm,
                         lastPing, lastSent>>

(* A slip: no PINGREQ when only the other direction is silent. *)
PingUsefulNever ==
    /\ ~ping_outstanding /\ ~PingDue
    /\ ~Past(lastSent, K)
    /\ UNCHANGED <<connected, ping_outstanding, ping_due, pending, blocked, unanswered,
                   alarm, lastPing, lastSent, ping_due_time>>

(* Nothing was received for that time: a PINGREQ is sent if possible. *)
PingUseful ==
    /\ ~ping_outstanding /\ ~PingDue
    /\ ~Past(lastSent, K)
    /\ IF Past(lastReceived, K) /\ ~pending
       THEN SendPingreq
       ELSE UNCHANGED <<connected, ping_outstanding, ping_due, pending, blocked, unanswered,
                        alarm, lastPing, lastSent>>
    /\ UNCHANGED ping_due_time

(* MQTTProtocol_keepalive for this client. *)
CheckKeepalive ==
    IF connected /\ scenario.keepalive # 0
    THEN PingOutstanding \/ PingOverdue \/ PingNeeded \/ PingUseful
    ELSE UNCHANGED <<connected, ping_outstanding, ping_due, pending, blocked, unanswered,
                     alarm, lastPing, lastSent, ping_due_time>>

(* The retry function at the end of a cycle. *)
Retry ==
    /\ lastCycle' = 0
    /\ IF Past(lastCheck, retryLoopInterval)
       THEN CheckKeepalive /\ lastCheck' = 0
       ELSE UNCHANGED <<connected, ping_outstanding, ping_due, pending, blocked, unanswered,
                        alarm, lastPing, lastSent, ping_due_time, lastCheck>>
    /\ UNCHANGED <<lastReceived, retryLoopInterval, partials, alive, scenario>>
-----------------------------------------------------------------------------
(***************************************************************************)
(* What sets the times                                                     *)
(***************************************************************************)
(* Some other packet is written.  A partial write does not set lastSent. *)
SendPacket ==
    /\ connected /\ ~pending
    /\ \/ lastSent' = 0 /\ UNCHANGED <<pending, partials>>
       \/ /\ partials < scenario.partial
          /\ partials' = partials + 1
          /\ pending' = TRUE
          /\ UNCHANGED lastSent
    /\ UNCHANGED <<connected, ping_outstanding, ping_due, lastReceived, lastPing,
                   ping_due_time, lastCheck, lastCycle, blocked, retryLoopInterval, alive,
                   unanswered, alarm, scenario>>

(* A pass over the pending writes.  The socket takes some or all of the rest *)
(* when the server is alive; when it takes nothing, the pass happens because *)
(* the socket of another client is writable.  lastSent is set in all cases.  *)
ContinueWrites ==
    /\ connected /\ pending
    /\ \/ alive /\ pending' \in BOOLEAN /\ blocked' = 0
       \/ scenario.shared /\ UNCHANGED <<pending, blocked>>
    /\ lastSent' = 0
    /\ UNCHANGED <<connected, ping_outstanding, ping_due, lastReceived, lastPing,
                   ping_due_time, lastCheck, lastCycle, retryLoopInterval, partials, alive,
                   unanswered, alarm, scenario>>

(* A packet arrives, or part of one. *)
ReceiveData ==
    /\ connected /\ alive
    /\ lastReceived' = 0
    /\ UNCHANGED <<connected, ping_outstanding, ping_due, lastSent, lastPing, ping_due_time,
                   lastCheck, lastCycle, blocked, retryLoopInterval, pending, partials, alive,
                   unanswered, alarm, scenario>>

(* A slip: the PINGRESP is taken for any other packet. *)
HandlePingrespsIgnores == ping_outstanding' = ping_outstanding
HandlePingresps == ping_outstanding' = FALSE

(* The server answers the PINGREQ and the client reads the answer. *)
ReceivePingresp ==
    /\ connected /\ alive /\ unanswered
    /\ unanswered' = FALSE
    /\ lastReceived' = 0
    /\ HandlePingresps
    /\ UNCHANGED <<connected, ping_due, lastSent, lastPing, ping_due_time, lastCheck,
                   lastCycle, blocked, retryLoopInterval, pending, partials, alive, alarm,
                   scenario>>

(* The connection is closed for another reason; it is opened again, which    *)
(* sets the interval of the check anew unless it is an automatic reconnect;  *)
(* another client connects.                                                  *)
Disconnect ==
    /\ connected
    /\ CloseSession(FALSE)
    /\ UNCHANGED <<lastSent, lastReceived, lastPing, ping_due_time, lastCheck, lastCycle,
                   retryLoopInterval, partials, alive, scenario>>

Connect ==
    /\ ~connected
    /\ connected' = TRUE
    /\ alive' = TRUE
    /\ alarm' = FALSE
    /\ lastSent' = 0 /\ lastReceived' = 0
    /\ retryLoopInterval' \in {retryLoopInterval, RetryLoopInterval(scenario.keepalive)}
    /\ UNCHANGED <<ping_outstanding, ping_due, lastPing, ping_due_time, lastCheck, lastCycle,
                   blocked, pending, partials, unanswered, scenario>>

OtherConnects(k) ==
    /\ retryLoopInterval' = RetryLoopInterval(k)
    /\ UNCHANGED <<connected, ping_outstanding, ping_due, ages, pending, partials, alive,
                   unanswered, alarm, scenario>>

(* External: the server, or the network, is gone without a word. *)
ServerDies ==
    /\ alive /\ connected
    /\ alive' = FALSE
    /\ UNCHANGED <<connected, ping_outstanding, ping_due, ages, retryLoopInterval, pending,
                   partials, unanswered, alarm, scenario>>

Next ==
    \/ Tick \/ Retry
    \/ SendPacket \/ ContinueWrites
    \/ ReceiveData \/ ReceivePingresp
    \/ Disconnect \/ Connect \/ ServerDies
    \/ \E k \in scenario.others : OtherConnects(k)

Spec == Init /\ [][Next]_vars
-----------------------------------------------------------------------------
(***************************************************************************)
(* Properties                                                              *)
(***************************************************************************)
(* The check is late by less than the longest interval between checks, which *)
(* another client may have set, and a cycle.                                 *)
Delay == Max({RetryLoopInterval(k) : k \in scenario.others \cup {scenario.keepalive}}) + CycleTime

(* The longest silence towards a server that is alive, in milliseconds. *)
TalkTime == Max({K, scenario.response * TickTime}) + Delay

(* While the server is alive and no partial write stands in the way, the     *)
(* client sends something at least every keepalive interval, plus the delay  *)
(* of the check: the server does not take it for dead                        *)
(* (MQTTProtocol_keepalive).                                                 *)
TalksInTime ==
    connected /\ alive /\ ~pending /\ ~ping_due /\ scenario.keepalive # 0
        => lastSent * TickTime < TalkTime

(* A server from which nothing has come for a keepalive interval, plus one   *)
(* and a half for the answer to PINGREQ, plus delays, has been noticed: the  *)
(* session is closed.  Only a partial write may prevent it.                  *)
NoticesSilence ==
    connected /\ scenario.partial = 0 /\ scenario.keepalive # 0
        => lastReceived * TickTime < (K * 5) \div 2 + 2 * Delay

(* The same when PINGREQ cannot be sent because a partial write stands       *)
(* still and nothing arrives (ping_due).  The exceptions: something arrived  *)
(* after ping_due was set, which is never undone; another client's socket is *)
(* writable, and lastSent is set although nothing is sent.                   *)
NoticesBlockedWrite ==
    /\ connected /\ pending /\ scenario.keepalive # 0
    /\ lastReceived >= blocked /\ (ping_due => lastReceived >= ping_due_time)
    /\ ~scenario.shared
    => blocked * TickTime < (K * 5) \div 2 + 2 * Delay

(* A dead server is noticed, in either case.                                 *)
NoticesDeadServer == NoticesSilence /\ NoticesBlockedWrite

(* Keepalive closes no session with a server that answers within one and a   *)
(* half keepalive intervals.  A partial write is the exception: once         *)
(* ping_due is set, its progress is not taken for a sign of life.            *)
NoFalseAlarm ==
    alarm /\ scenario.partial = 0 /\ scenario.response * TickTime < (K * 3) \div 2 => ~alive

(* "The client will ensure that at least one message travels across the      *)
(* network within each keep alive period" (MQTTClient.h), with the delay of  *)
(* the check, also when a partial write has come and gone.                   *)
AlwaysTalksInTime ==
    connected /\ alive /\ ~pending /\ scenario.keepalive # 0
        => lastSent * TickTime < TalkTime
=============================================================================
