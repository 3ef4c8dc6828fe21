--------------------------- MODULE KeepaliveProofs ---------------------------
(***************************************************************************)
(* Proofs about the keepalive check, for any keepalive interval, any       *)
(* length of a tick and of a cycle, any number of partial writes and any   *)
(* other clients of the process.                                           *)
(***************************************************************************)
EXTENDS Keepalive, WellFoundedInduction, TLAPS

-----------------------------------------------------------------------------
(* Natural numbers                                                          *)

LEMMA LeastNatural ==
    ASSUME NEW S \in SUBSET Nat, S # {}
    PROVE  \E k \in S : \A l \in S : k <= l
<1> DEFINE R == OpToRel(<, Nat)
<1>1. PICK k \in S : \A l \in S : ~ (<<l, k>> \in R)
    <2>1. IsWellFoundedOn(R, Nat)
        BY NatLessThanWellFounded
    <2> HIDE DEF R
    <2> QED BY <2>1, WFMin
<1>2. \A l \in S : ~ (l < k)
    BY <1>1 DEF OpToRel
<1> QED BY <1>2

LEMMA GreatestNatural ==
    ASSUME NEW S \in SUBSET Nat, S # {}, NEW n \in Nat, \A k \in S : k <= n
    PROVE  \E k \in S : \A l \in S : l <= k
<1> DEFINE T == {n - k : k \in S}
<1>1. T \in SUBSET Nat /\ T # {}
    OBVIOUS
<1> HIDE DEF T
<1>2. PICK d \in T : \A e \in T : d <= e
    BY <1>1, LeastNatural
<1>3. PICK k \in S : d = n - k
    BY <1>2 DEF T
<1>4. \A l \in S : n - l \in T
    BY DEF T
<1>5. \A l \in S : l <= k
    BY <1>2, <1>3, <1>4
<1> QED BY <1>5

-----------------------------------------------------------------------------
(* Times                                                                    *)

(* An age in milliseconds. *)
Ms(age) == age * TickTime

LEMMA MsFacts ==
    /\ \A a \in Nat : Ms(a) \in Nat
    /\ \A a \in Nat : Ms(a + 1) = Ms(a) + TickTime
    /\ \A a, b \in Nat : a <= b => Ms(a) <= Ms(b)
    /\ Ms(0) = 0
<1>0. TickTime \in Nat
    BY KeepaliveAssumption
<1>1. \A a \in Nat : Ms(a) \in Nat
    BY <1>0 DEF Ms
<1>2. \A a \in Nat : Ms(a + 1) = Ms(a) + TickTime
    BY <1>0 DEF Ms
<1>3. \A a, b \in Nat : a <= b => Ms(a) <= Ms(b)
    <2> TAKE a, b \in Nat
    <2> HAVE a <= b
    <2>1. PICK d \in Nat : b = a + d
        <3>1. b - a \in Nat /\ b = a + (b - a)
            OBVIOUS
        <3> QED BY <3>1
    <2>2. d * TickTime \in Nat
        BY <1>0
    <2>3. (a + d) * TickTime = a * TickTime + d * TickTime
        BY <1>0
    <2>4. a * TickTime \in Nat
        BY <1>0
    <2> QED BY <2>1, <2>2, <2>3, <2>4 DEF Ms
<1>4. Ms(0) = 0
    BY <1>0 DEF Ms
<1> QED BY <1>1, <1>2, <1>3, <1>4

(* Older adds a tick, up to MaxAge. *)
LEMMA OlderFacts ==
    ASSUME NEW a \in Ages
    PROVE  /\ Older(a) \in Ages
           /\ a <= Older(a)
           /\ Ms(Older(a)) = IF a < MaxAge THEN Ms(a) + TickTime ELSE Ms(a)
<1>1. MaxAge \in Nat /\ a \in Nat /\ a <= MaxAge
    BY KeepaliveAssumption DEF Ages
<1> QED BY <1>1, MsFacts DEF Older, Ages

LEMMA PastMs == \A a, ms : Past(a, ms) <=> Ms(a) >= ms
BY DEF Past, Ms

(* If a cycle is not over, it is not after another tick. *)
LEMMA CycleEnds ==
    ASSUME NEW a \in Nat, Ms(a) < CycleTime
    PROVE  Ms(a + 1) <= CycleTime
<1> DEFINE q == CycleTime \div TickTime
<1>1. TickTime \in Nat \ {0} /\ CycleTime \in Nat /\ CycleTime % TickTime = 0
    BY KeepaliveAssumption
<1>2. q \in Nat /\ CycleTime = q * TickTime
    BY <1>1
<1> HIDE DEF q
<1>3. Ms(q) = CycleTime
    BY <1>2 DEF Ms
<1>4. ~ (q <= a)
    <2> SUFFICES ASSUME q <= a PROVE FALSE
        OBVIOUS
    <2>1. Ms(q) <= Ms(a)
        BY <1>2, MsFacts
    <2> QED BY <2>1, <1>1, <1>3, MsFacts
<1>5. a + 1 <= q
    BY <1>2, <1>4
<1> QED BY <1>2, <1>3, <1>5, MsFacts

-----------------------------------------------------------------------------
(* The inductive invariant                                                  *)

(* The intervals between checks that a client of the process may have set. *)
Intervals == {RetryLoopInterval(k) : k \in scenario.others \cup {scenario.keepalive}}
LongestInterval == Max(Intervals)

(* A PINGREQ is outstanding as long as the server has not answered it, which *)
(* a server that is alive does in time; nothing is left of a connection that *)
(* was closed; ping_due and a blocked write come of a partial write only.    *)
Flags ==
    /\ ping_outstanding <=> unanswered
    /\ ~connected => ~unanswered /\ ~ping_due /\ ~pending
    /\ ~pending => blocked = 0
    /\ partials <= scenario.partial
    /\ partials = 0 => ~pending /\ ~ping_due
    /\ alive /\ unanswered => lastPing <= scenario.response
    /\ ping_outstanding => lastSent <= lastPing

(* The check is not late: the last cycle that left it out came before the    *)
(* interval was over.                                                        *)
CheckInTime ==
    /\ retryLoopInterval \in Intervals
    /\ lastCycle <= lastCheck
    /\ Ms(lastCheck) < Ms(lastCycle) + LongestInterval
    /\ Ms(lastCycle) <= CycleTime

(* What the last check has seen, and the time since then. *)
Talks ==
    connected /\ alive /\ ~pending /\ ~ping_due /\ scenario.keepalive # 0
        => \/ Ms(lastSent) <= K + Ms(lastCheck)
           \/ Ms(lastSent) <= Ms(scenario.response) + Ms(lastCheck)

Silence ==
    connected /\ scenario.keepalive # 0 =>
        /\ ~ping_outstanding /\ ~ping_due /\ ~pending /\ partials = 0
              => Ms(lastReceived) <= K + Ms(lastCheck)
        /\ ping_outstanding /\ partials = 0
              => Ms(lastReceived) < Ms(lastPing) + (K + Delay)
        /\ ping_outstanding
              => \/ Ms(lastPing) <= (K * 3) \div 2 + Ms(lastCheck)
                 \/ Ms(lastReceived) <= (K * 3) \div 2 + Ms(lastCheck)

(* A partial write that stands still, and the ping_due it leads to. *)
BlockedWrite ==
    connected /\ pending /\ scenario.keepalive # 0 /\ ~scenario.shared =>
        /\ blocked <= lastSent
        /\ ping_outstanding => blocked <= lastPing
        /\ ~ping_outstanding /\ ~ping_due
              => Ms(blocked) <= K + Ms(lastCheck) \/ lastReceived <= lastCheck
        /\ ping_due
              => \/ Ms(blocked) < Ms(ping_due_time) + (K + Delay)
                 \/ Ms(lastReceived) < Ms(ping_due_time) + Delay

Overdue ==
    connected /\ ping_due /\ scenario.keepalive # 0
        => \/ Ms(ping_due_time) <= (K * 3) \div 2 + Ms(lastCheck)
           \/ lastReceived < ping_due_time

(* Only a server that is late makes keepalive close the session. *)
Alarm ==
    alarm /\ scenario.partial = 0 =>
        /\ ~connected
        /\ alive => (K * 3) \div 2 <= Ms(scenario.response)

IInv ==
    /\ TypeOK /\ Flags /\ CheckInTime /\ Talks /\ Silence /\ BlockedWrite /\ Overdue /\ Alarm

-----------------------------------------------------------------------------
LEMMA IntervalFacts ==
    \A k \in Nat : RetryLoopInterval(k) \in LoopIntervals
BY DEF RetryLoopInterval, LoopIntervals

LEMMA MaxFacts ==
    ASSUME NEW S, S # {}, NEW n \in Nat, \A i \in S : i \in Nat /\ i <= n
    PROVE  Max(S) \in S /\ \A i \in S : Max(S) >= i
<1>1. S \in SUBSET Nat /\ \A i \in S : i <= n
    OBVIOUS
<1>2. PICK i \in S : \A j \in S : j <= i
    BY <1>1, GreatestNatural
<1>3. ASSUME NEW j \in S PROVE i >= j
    <2>1. i \in Nat /\ j \in Nat /\ j <= i
        BY <1>2
    <2> QED BY <2>1
<1>4. \E x \in S : \A y \in S : x >= y
    BY <1>3
<1> QED BY <1>4, Zenon DEF Max

(* A scenario, its times and the longest interval between checks. *)
LEMMA ScenarioFacts ==
    ASSUME scenario \in Scenarios
    PROVE  /\ scenario.keepalive \in Nat /\ scenario.response \in Nat /\ scenario.partial \in Nat
           /\ scenario.stall \in Nat /\ scenario.others \subseteq Nat
           /\ K \in Nat /\ (K * 3) \div 2 \in Nat /\ (K * 5) \div 2 = (K * 3) \div 2 + K
           /\ \A i \in Intervals : i \in LoopIntervals /\ i <= LongestInterval
           /\ LongestInterval \in Nat /\ 100 <= LongestInterval
           /\ Delay = LongestInterval + CycleTime
           /\ CycleTime \in Nat /\ TickTime \in Nat /\ MaxAge \in Nat
           /\ Delay \in Nat
<1>1. /\ scenario.keepalive \in Nat /\ scenario.response \in Nat /\ scenario.partial \in Nat
      /\ scenario.stall \in Nat /\ scenario.others \subseteq Nat
    BY KeepaliveAssumption DEF Scenario
<1>2. K \in Nat /\ (K * 3) \div 2 \in Nat /\ (K * 5) \div 2 = (K * 3) \div 2 + K
    BY <1>1 DEF K
<1> DEFINE S == scenario.others \cup {scenario.keepalive}
<1>3. S \subseteq Nat /\ S # {} /\ Intervals = {RetryLoopInterval(k) : k \in S}
    BY <1>1 DEF Intervals
<1> HIDE DEF S
<1>4. ASSUME NEW i \in Intervals
      PROVE  i \in LoopIntervals
    <2>1. PICK k \in S : i = RetryLoopInterval(k)
        BY <1>3
    <2>2. k \in Nat
        BY <1>3
    <2> QED BY <2>1, <2>2, IntervalFacts
<1>5. Intervals # {}
    <2>1. PICK k \in S : TRUE
        BY <1>3
    <2> QED BY <1>3, <2>1
<1>6. LongestInterval \in Intervals /\ \A j \in Intervals : LongestInterval >= j
    <2>1. PICK n \in Nat : n = 5000
        OBVIOUS
    <2>2. \A i \in Intervals : i \in Nat /\ i <= n
        BY <1>4, <2>1 DEF LoopIntervals
    <2> QED BY <1>5, <2>2, MaxFacts DEF LongestInterval
<1>7. Delay = LongestInterval + CycleTime
    BY DEF Delay, LongestInterval, Intervals
<1>8. CycleTime \in Nat /\ TickTime \in Nat /\ MaxAge \in Nat
    BY KeepaliveAssumption
<1>9. LongestInterval \in Nat /\ 100 <= LongestInterval
    BY <1>4, <1>6 DEF LoopIntervals
<1>10. Delay \in Nat
    BY <1>7, <1>8, <1>9
<1>11. ASSUME NEW i \in Intervals PROVE i <= LongestInterval
    BY <1>4, <1>6, <1>9 DEF LoopIntervals
<1> QED BY <1>1, <1>2, <1>4, <1>7, <1>8, <1>9, <1>10, <1>11

LEMMA TimeFacts ==
    ASSUME scenario \in Scenarios
    PROVE  /\ K \in Nat /\ (K * 3) \div 2 \in Nat /\ K + Delay \in Nat /\ K + Delay # 0
           /\ Delay \in Nat /\ Delay # 0 /\ Ms(scenario.response) \in Nat
<1>1. scenario.response \in Nat /\ K \in Nat /\ (K * 3) \div 2 \in Nat /\ Delay \in Nat
    BY ScenarioFacts
<1>2. Delay # 0
    <2>1. /\ LongestInterval \in Nat /\ 100 <= LongestInterval
          /\ CycleTime \in Nat /\ Delay = LongestInterval + CycleTime
        BY ScenarioFacts
    <2> QED BY <2>1
<1>3. Ms(scenario.response) \in Nat
    BY <1>1, MsFacts
<1>4. K + Delay \in Nat /\ K + Delay # 0
    BY <1>1, <1>2
<1> QED BY <1>1, <1>2, <1>3, <1>4

LEMMA AgesAreNat == Ages \subseteq Nat /\ \A a \in Ages : a <= MaxAge
BY KeepaliveAssumption DEF Ages

(* The check has not been left out for longer than Delay. *)
LEMMA CheckedInTime == TypeOK /\ CheckInTime => Ms(lastCheck) < Delay
<1> SUFFICES ASSUME TypeOK, CheckInTime PROVE Ms(lastCheck) < Delay
    OBVIOUS
<1>1. lastCheck \in Nat /\ lastCycle \in Nat
    BY AgesAreNat DEF TypeOK
<1>2. Ms(lastCheck) \in Nat /\ Ms(lastCycle) \in Nat
    BY <1>1, MsFacts
<1>3. scenario \in Scenarios
    BY DEF TypeOK
<1> QED BY <1>2, <1>3, ScenarioFacts DEF CheckInTime

(* The interval in force is one of them. *)
LEMMA IntervalInForce ==
    ASSUME scenario \in Scenarios, retryLoopInterval \in Intervals
    PROVE  /\ retryLoopInterval \in LoopIntervals
           /\ retryLoopInterval <= LongestInterval
BY ScenarioFacts

LEMMA InitIInv == Init => IInv
<1> SUFFICES ASSUME Init PROVE IInv
    OBVIOUS
<1>1. scenario \in Scenarios
    BY DEF Init
<1>2. 0 \in Ages
    BY KeepaliveAssumption DEF Ages
<1>3. retryLoopInterval \in Intervals
    BY DEF Init, Intervals
<1>4. TypeOK
    BY <1>1, <1>2, <1>3, IntervalInForce DEF Init, TypeOK
<1>5. Flags
    <2>1. scenario.partial \in Nat
        BY <1>1, ScenarioFacts
    <2> QED BY <2>1 DEF Init, Flags
<1>6. CheckInTime
    BY <1>1, <1>3, ScenarioFacts, MsFacts DEF Init, CheckInTime
<1>7. Talks /\ Silence /\ BlockedWrite /\ Overdue /\ Alarm
    BY <1>1, ScenarioFacts, MsFacts DEF Init, Talks, Silence, BlockedWrite, Overdue, Alarm
<1> QED BY <1>4, <1>5, <1>6, <1>7 DEF IInv

-----------------------------------------------------------------------------
(* Time passes                                                              *)

(* What is bounded by another age stays so after a tick. *)
LEMMA OlderOrder ==
    ASSUME NEW a \in Ages, NEW b \in Ages
    PROVE  /\ a <= b => Older(a) <= Older(b)
           /\ a < b /\ b < MaxAge => Older(a) < Older(b)
BY KeepaliveAssumption DEF Ages, Older

LEMMA OlderBound ==
    ASSUME NEW a \in Ages, NEW b \in Ages, NEW x \in Nat
    PROVE  /\ Ms(a) <= x + Ms(b) => Ms(Older(a)) <= x + Ms(Older(b))
           /\ Ms(a) < Ms(b) + x /\ x # 0 => Ms(Older(a)) < Ms(Older(b)) + x
<1>1. a \in Nat /\ b \in Nat /\ MaxAge \in Nat /\ a <= MaxAge /\ b <= MaxAge /\ TickTime \in Nat
    BY KeepaliveAssumption DEF Ages
<1>2. Ms(a) \in Nat /\ Ms(b) \in Nat /\ Ms(MaxAge) \in Nat /\ Ms(a) <= Ms(MaxAge)
    BY <1>1, MsFacts
<1>3. CASE b < MaxAge
    <2>1. Ms(Older(b)) = Ms(b) + TickTime
        BY <1>1, <1>3, MsFacts DEF Older
    <2>2. Ms(Older(a)) <= Ms(a) + TickTime /\ Ms(Older(a)) \in Nat
        BY <1>1, <1>2, OlderFacts
    <2> QED BY <1>1, <1>2, <2>1, <2>2
<1>4. CASE b = MaxAge
    <2>1. Older(b) = MaxAge
        BY <1>1, <1>4 DEF Older
    <2>2. Older(a) \in Nat /\ Older(a) <= MaxAge
        BY <1>1, OlderFacts DEF Ages
    <2>3. Ms(Older(a)) \in Nat /\ Ms(Older(a)) <= Ms(MaxAge)
        BY <1>1, <2>2, MsFacts
    <2> QED BY <1>1, <1>2, <2>1, <2>3
<1> QED BY <1>1, <1>3, <1>4

LEMMA TickIInv == ASSUME IInv, Tick PROVE IInv'
<1> USE DEF IInv
<1>0. scenario \in Scenarios /\ UNCHANGED scenario
    BY DEF TypeOK, Tick
<1>1. /\ lastSent \in Ages /\ lastReceived \in Ages /\ lastPing \in Ages
      /\ ping_due_time \in Ages /\ lastCheck \in Ages /\ lastCycle \in Ages /\ blocked \in Ages
    BY DEF TypeOK
<1>2. /\ lastSent' = Older(lastSent) /\ lastReceived' = Older(lastReceived)
      /\ lastPing' = Older(lastPing) /\ ping_due_time' = Older(ping_due_time)
      /\ lastCheck' = Older(lastCheck) /\ lastCycle' = Older(lastCycle)
      /\ blocked' = IF pending THEN Older(blocked) ELSE 0
    BY DEF Tick
<1>3. TypeOK'
    BY <1>0, <1>1, <1>2, OlderFacts, AgesAreNat, KeepaliveAssumption DEF Tick, TypeOK, Ages
<1>4. Flags'
    <2>1. scenario.response \in Nat /\ lastPing \in Nat /\ MaxAge \in Nat
        BY <1>0, <1>1, AgesAreNat, ScenarioFacts
    <2>2. alive /\ unanswered => lastPing' <= scenario.response
        BY <1>2, <2>1 DEF Tick, Older
    <2>3. ping_outstanding => lastSent' <= lastPing'
        BY <1>1, <1>2, OlderOrder DEF Flags
    <2> QED BY <1>0, <1>2, <2>2, <2>3 DEF Tick, Flags
<1>5. CheckInTime'
    <2>1. retryLoopInterval' \in Intervals' /\ LongestInterval' = LongestInterval
        BY <1>0 DEF Tick, CheckInTime, Intervals, LongestInterval
    <2>2. lastCycle' <= lastCheck'
        BY <1>1, <1>2, OlderOrder DEF CheckInTime
    <2>3. LongestInterval \in Nat /\ LongestInterval # 0
        BY <1>0, ScenarioFacts
    <2>4. Ms(lastCheck)' < Ms(lastCycle)' + LongestInterval
        BY <1>1, <1>2, <2>3, OlderBound DEF CheckInTime
    <2>5. Ms(lastCycle)' <= CycleTime
        <3>1. lastCycle \in Nat /\ Ms(lastCycle) \in Nat /\ CycleTime \in Nat
            BY <1>1, AgesAreNat, MsFacts, KeepaliveAssumption
        <3>2. Ms(lastCycle) < CycleTime
            BY <3>1, PastMs DEF Tick
        <3>3. lastCycle' = lastCycle + 1 \/ lastCycle' = lastCycle
            BY <1>2 DEF Older
        <3> QED BY <3>1, <3>2, <3>3, CycleEnds
    <2> QED BY <2>1, <2>2, <2>4, <2>5 DEF CheckInTime
<1>6. K' = K /\ Delay' = Delay
    BY <1>0 DEF K, Delay
<1>7. /\ K \in Nat /\ (K * 3) \div 2 \in Nat /\ K + Delay \in Nat /\ K + Delay # 0
      /\ Delay \in Nat /\ Delay # 0 /\ Ms(scenario.response) \in Nat
    BY <1>0, TimeFacts
<1>8. UNCHANGED <<connected, ping_outstanding, ping_due, pending, partials, alive, alarm>>
    BY DEF Tick
<1>9. Talks'
    BY <1>0, <1>1, <1>2, <1>6, <1>7, <1>8, OlderBound DEF Talks
<1>10. Silence'
    <2>0. SUFFICES ASSUME connected, scenario.keepalive # 0
                   PROVE  Silence'
        BY <1>0, <1>8 DEF Silence
    <2>1. Ms(lastReceived) <= K + Ms(lastCheck) => Ms(lastReceived)' <= K + Ms(lastCheck)'
        BY <1>1, <1>2, <1>7, OlderBound
    <2>2. Ms(lastReceived) < Ms(lastPing) + (K + Delay)
              => Ms(lastReceived)' < Ms(lastPing)' + (K + Delay)
        BY <1>1, <1>2, <1>7, OlderBound
    <2>3. Ms(lastPing) <= (K * 3) \div 2 + Ms(lastCheck)
              => Ms(lastPing)' <= (K * 3) \div 2 + Ms(lastCheck)'
        BY <1>1, <1>2, <1>7, OlderBound
    <2>4. Ms(lastReceived) <= (K * 3) \div 2 + Ms(lastCheck)
              => Ms(lastReceived)' <= (K * 3) \div 2 + Ms(lastCheck)'
        BY <1>1, <1>2, <1>7, OlderBound
    <2> QED BY <1>0, <1>6, <1>8, <2>0, <2>1, <2>2, <2>3, <2>4 DEF Silence
<1>11. BlockedWrite'
    <2>0. SUFFICES ASSUME connected, pending, scenario.keepalive # 0, ~scenario.shared
                   PROVE  BlockedWrite'
        BY <1>0, <1>8 DEF BlockedWrite
    <2>1. blocked' = Older(blocked)
        BY <1>2, <2>0
    <2>2. /\ blocked <= lastSent => blocked' <= lastSent'
          /\ blocked <= lastPing => blocked' <= lastPing'
          /\ lastReceived <= lastCheck => lastReceived' <= lastCheck'
        BY <1>1, <1>2, <2>1, OlderOrder
    <2>3. Ms(blocked) <= K + Ms(lastCheck) => Ms(blocked)' <= K + Ms(lastCheck)'
        BY <1>1, <1>2, <1>7, <2>1, OlderBound
    <2>4. Ms(blocked) < Ms(ping_due_time) + (K + Delay)
              => Ms(blocked)' < Ms(ping_due_time)' + (K + Delay)
        BY <1>1, <1>2, <1>7, <2>1, OlderBound
    <2>5. Ms(lastReceived) < Ms(ping_due_time) + Delay
              => Ms(lastReceived)' < Ms(ping_due_time)' + Delay
        BY <1>1, <1>2, <1>7, OlderBound
    <2> QED BY <1>0, <1>6, <1>8, <2>0, <2>2, <2>3, <2>4, <2>5 DEF BlockedWrite
<1>12. Overdue'
    BY <1>0, <1>1, <1>2, <1>6, <1>7, <1>8, OlderBound, OlderOrder DEF Overdue, Tick
<1>13. Alarm'
    BY <1>0, <1>6, <1>8 DEF Alarm
<1> QED BY <1>3, <1>4, <1>5, <1>9, <1>10, <1>11, <1>12, <1>13 DEF IInv

-----------------------------------------------------------------------------
(* What sets the times                                                      *)

LEMMA ZeroAge == 0 \in Ages
BY KeepaliveAssumption DEF Ages

LEMMA Times ==
    ASSUME TypeOK
    PROVE  /\ lastSent \in Nat /\ lastReceived \in Nat /\ lastPing \in Nat
           /\ ping_due_time \in Nat /\ lastCheck \in Nat /\ lastCycle \in Nat /\ blocked \in Nat
           /\ Ms(lastSent) \in Nat /\ Ms(lastReceived) \in Nat /\ Ms(lastPing) \in Nat
           /\ Ms(ping_due_time) \in Nat /\ Ms(lastCheck) \in Nat /\ Ms(blocked) \in Nat
           /\ Ms(0) = 0 /\ 0 \in Ages
           /\ K \in Nat /\ (K * 3) \div 2 \in Nat /\ Delay \in Nat /\ Delay # 0
           /\ Ms(scenario.response) \in Nat /\ scenario.response \in Nat
<1>1. /\ lastSent \in Nat /\ lastReceived \in Nat /\ lastPing \in Nat
      /\ ping_due_time \in Nat /\ lastCheck \in Nat /\ lastCycle \in Nat /\ blocked \in Nat
    BY AgesAreNat DEF TypeOK
<1>2. scenario \in Scenarios
    BY DEF TypeOK
<1>3. 0 \in Ages
    BY KeepaliveAssumption DEF Ages
<1>4. scenario.response \in Nat
    BY <1>2, ScenarioFacts
<1> QED BY <1>1, <1>2, <1>3, <1>4, TimeFacts, MsFacts

LEMMA SameScenario ==
    ASSUME scenario' = scenario
    PROVE  /\ K' = K /\ Delay' = Delay
           /\ Intervals' = Intervals /\ LongestInterval' = LongestInterval
BY DEF K, Delay, Intervals, LongestInterval

LEMMA SendPacketIInv == ASSUME IInv, SendPacket PROVE IInv'
<1> USE DEF IInv, SendPacket
<1>0. scenario' = scenario /\ connected /\ ~pending
    OBVIOUS
<1>1. K' = K /\ Delay' = Delay /\ Intervals' = Intervals /\ LongestInterval' = LongestInterval
    BY <1>0, SameScenario
<1>2. TypeOK'
    <2>1. /\ partials' \in Nat
          /\ lastSent' \in Ages
          /\ pending' \in BOOLEAN
        <3>1. partials \in Nat /\ lastSent \in Ages /\ pending \in BOOLEAN
            BY DEF TypeOK
        <3>2. partials' = partials \/ partials' = partials + 1
            OBVIOUS
        <3>3. lastSent' = lastSent \/ lastSent' = 0
            OBVIOUS
        <3>4. pending' = pending \/ pending' = TRUE
            OBVIOUS
        <3>5. partials' \in Nat
            BY <3>1, <3>2
        <3>6. lastSent' \in Ages
            BY <3>1, <3>3, ZeroAge
        <3>7. pending' \in BOOLEAN
            BY <3>1, <3>4
        <3> QED BY <3>5, <3>6, <3>7
    <2> HIDE DEF SendPacket
    <2>2. UNCHANGED <<connected, ping_outstanding, ping_due, lastReceived, lastPing,
                      ping_due_time, lastCheck, lastCycle, blocked, retryLoopInterval, alive,
                      unanswered, alarm, scenario>>
        BY DEF SendPacket
    <2> QED BY <2>1, <2>2 DEF TypeOK
<1>3. Flags'
    <2>1. scenario.partial \in Nat /\ partials \in Nat
        BY ScenarioFacts DEF TypeOK
    <2> QED BY <2>1, Times DEF Flags
<1>4. CheckInTime'
    BY <1>1 DEF CheckInTime
<1>5. Talks'
    BY <1>1, Times DEF Talks
<1>6. Silence'
    <2>1. partials \in Nat
        BY DEF TypeOK
    <2> QED BY <1>1, <2>1 DEF Silence
<1>7. BlockedWrite'
    <2>1. blocked = 0
        BY DEF Flags
    <2>2. /\ Ms(blocked)' = 0 /\ blocked' = 0
          /\ lastSent' \in Nat /\ lastPing' \in Nat
          /\ Ms(lastCheck)' \in Nat /\ Ms(ping_due_time)' \in Nat
          /\ K \in Nat /\ Delay \in Nat /\ Delay # 0
        BY <2>1, Times
    <2> QED BY <1>1, <2>2 DEF BlockedWrite
<1>8. Overdue'
    BY <1>1 DEF Overdue
<1>9. Alarm'
    BY <1>1 DEF Alarm
<1> QED BY <1>2, <1>3, <1>4, <1>5, <1>6, <1>7, <1>8, <1>9

LEMMA ContinueWritesIInv == ASSUME IInv, ContinueWrites PROVE IInv'
<1> USE DEF IInv, ContinueWrites
<1>0. scenario' = scenario /\ connected /\ pending
    OBVIOUS
<1>1. K' = K /\ Delay' = Delay /\ Intervals' = Intervals /\ LongestInterval' = LongestInterval
    BY <1>0, SameScenario
<1>2. TypeOK'
    BY ZeroAge DEF TypeOK
<1>3. Flags'
    <2>1. lastSent' <= lastPing'
        BY Times
    <2>2. ~pending' => blocked' = 0
        BY <1>0
    <2>3. partials # 0
        BY <1>0 DEF Flags
    <2> QED BY <2>1, <2>2, <2>3 DEF Flags
<1>4. CheckInTime'
    BY <1>1 DEF CheckInTime
<1>5. Talks'
    BY <1>1, Times DEF Talks
<1>6. Silence'
    BY <1>0, <1>1 DEF Silence, Flags
<1>7. BlockedWrite'
    <2>1. CASE blocked' = 0
        BY <1>1, <2>1, Times DEF BlockedWrite
    <2>2. CASE scenario.shared
        BY <1>0, <2>2 DEF BlockedWrite
    <2> QED BY <2>1, <2>2
<1>8. Overdue'
    BY <1>1 DEF Overdue
<1>9. Alarm'
    BY <1>1 DEF Alarm
<1> QED BY <1>2, <1>3, <1>4, <1>5, <1>6, <1>7, <1>8, <1>9

LEMMA ReceiveDataIInv == ASSUME IInv, ReceiveData PROVE IInv'
<1> USE DEF IInv, ReceiveData
<1>0. scenario' = scenario /\ connected /\ alive
    OBVIOUS
<1>1. K' = K /\ Delay' = Delay /\ Intervals' = Intervals /\ LongestInterval' = LongestInterval
    BY <1>0, SameScenario
<1>2. TypeOK'
    BY ZeroAge DEF TypeOK
<1>3. Flags' /\ CheckInTime' /\ Talks' /\ Alarm'
    BY <1>1 DEF Flags, CheckInTime, Talks, Alarm
<1>4. Silence'
    BY <1>1, Times DEF Silence
<1>5. BlockedWrite'
    BY <1>1, Times DEF BlockedWrite
<1>6. Overdue'
    BY <1>1, Times DEF Overdue
<1> QED BY <1>2, <1>3, <1>4, <1>5, <1>6

LEMMA ReceivePingrespIInv == ASSUME IInv, ReceivePingresp PROVE IInv'
<1> USE DEF IInv, ReceivePingresp, HandlePingresps
<1>0. scenario' = scenario /\ connected /\ alive /\ ping_outstanding
    BY DEF Flags
<1>1. K' = K /\ Delay' = Delay /\ Intervals' = Intervals /\ LongestInterval' = LongestInterval
    BY <1>0, SameScenario
<1>2. TypeOK'
    BY ZeroAge DEF TypeOK
<1>3. Flags' /\ CheckInTime' /\ Talks' /\ Alarm'
    BY <1>1 DEF Flags, CheckInTime, Talks, Alarm
<1>4. Silence'
    BY <1>1, Times DEF Silence
<1>5. BlockedWrite'
    BY <1>1, Times DEF BlockedWrite
<1>6. Overdue'
    BY <1>1, Times DEF Overdue
<1> QED BY <1>2, <1>3, <1>4, <1>5, <1>6

(* A closed session meets the conditions on an open one. *)
LEMMA Closed ==
    ASSUME IInv, scenario' = scenario, CloseSession(FALSE), CheckInTime',
           lastSent' \in Ages, lastReceived' \in Ages, lastPing' \in Ages,
           ping_due_time' \in Ages, lastCheck' \in Ages, lastCycle' \in Ages,
           retryLoopInterval' = retryLoopInterval, partials' = partials, alive' = alive
    PROVE  IInv'
<1> USE DEF IInv, CloseSession
<1>1. TypeOK'
    BY ZeroAge DEF TypeOK
<1>2. Flags'
    BY DEF Flags
<1>3. Talks' /\ Silence' /\ BlockedWrite' /\ Overdue' /\ Alarm'
    BY DEF Talks, Silence, BlockedWrite, Overdue, Alarm
<1> QED BY <1>1, <1>2, <1>3

LEMMA DisconnectIInv == ASSUME IInv, Disconnect PROVE IInv'
<1> USE DEF Disconnect
<1>1. CheckInTime'
    BY SameScenario DEF IInv, CheckInTime
<1>2. /\ lastSent' \in Ages /\ lastReceived' \in Ages /\ lastPing' \in Ages
      /\ ping_due_time' \in Ages /\ lastCheck' \in Ages /\ lastCycle' \in Ages
    BY DEF IInv, TypeOK
<1> QED BY <1>1, <1>2, Closed

LEMMA ConnectIInv == ASSUME IInv, Connect PROVE IInv'
<1> USE DEF IInv, Connect
<1>0. scenario' = scenario /\ ~unanswered /\ ~ping_due /\ ~pending /\ ~ping_outstanding
    BY DEF Flags
<1>1. K' = K /\ Delay' = Delay /\ Intervals' = Intervals /\ LongestInterval' = LongestInterval
    BY <1>0, SameScenario
<1>2. retryLoopInterval' \in Intervals
    BY DEF CheckInTime, Intervals
<1>3. retryLoopInterval' \in LoopIntervals
    BY <1>2, ScenarioFacts DEF TypeOK
<1>4. TypeOK'
    BY <1>3, ZeroAge DEF TypeOK
<1>5. Flags'
    BY <1>0 DEF Flags
<1>6. CheckInTime'
    BY <1>1, <1>2 DEF CheckInTime
<1>7. Talks' /\ Silence' /\ BlockedWrite' /\ Overdue' /\ Alarm'
    BY <1>0, <1>1, Times DEF Talks, Silence, BlockedWrite, Overdue, Alarm
<1> QED BY <1>4, <1>5, <1>6, <1>7

LEMMA OtherConnectsIInv ==
    ASSUME IInv, NEW k \in scenario.others, OtherConnects(k)
    PROVE  IInv'
<1> USE DEF IInv, OtherConnects, ages
<1>0. scenario' = scenario
    OBVIOUS
<1>1. K' = K /\ Delay' = Delay /\ Intervals' = Intervals /\ LongestInterval' = LongestInterval
    BY <1>0, SameScenario
<1>2. retryLoopInterval' \in Intervals
    BY DEF Intervals
<1>3. retryLoopInterval' \in LoopIntervals
    BY <1>2, ScenarioFacts DEF TypeOK
<1>4. TypeOK'
    BY <1>3 DEF TypeOK
<1>5. CheckInTime'
    BY <1>1, <1>2 DEF CheckInTime
<1>6. Flags' /\ Talks' /\ Silence' /\ BlockedWrite' /\ Overdue' /\ Alarm'
    BY <1>1 DEF Flags, Talks, Silence, BlockedWrite, Overdue, Alarm
<1> QED BY <1>4, <1>5, <1>6

LEMMA ServerDiesIInv == ASSUME IInv, ServerDies PROVE IInv'
<1> USE DEF IInv, ServerDies, ages
<1>1. K' = K /\ Delay' = Delay /\ Intervals' = Intervals /\ LongestInterval' = LongestInterval
    BY SameScenario
<1>2. TypeOK'
    BY DEF TypeOK
<1>0. Flags'
    BY DEF Flags
<1>3. CheckInTime' /\ Talks' /\ Silence' /\ BlockedWrite' /\ Overdue' /\ Alarm'
    BY <1>1 DEF CheckInTime, Talks, Silence, BlockedWrite, Overdue, Alarm
<1> QED BY <1>0, <1>2, <1>3

-----------------------------------------------------------------------------
(* The check                                                                *)

(* A cycle that leaves out the check: its interval is not over. *)
LEMMA NoCheckIInv ==
    ASSUME IInv, Retry, ~Past(lastCheck, retryLoopInterval)
    PROVE  IInv'
<1> USE DEF IInv
<1>0. /\ UNCHANGED <<connected, ping_outstanding, ping_due, pending, blocked, unanswered,
                     alarm, lastPing, lastSent, ping_due_time, lastCheck>>
      /\ UNCHANGED <<lastReceived, retryLoopInterval, partials, alive, scenario>>
      /\ lastCycle' = 0
    BY DEF Retry
<1>1. K' = K /\ Delay' = Delay /\ Intervals' = Intervals /\ LongestInterval' = LongestInterval
    BY <1>0, SameScenario
<1>2. TypeOK'
    BY <1>0, ZeroAge DEF TypeOK
<1>3. CheckInTime'
    <2>1. scenario \in Scenarios /\ retryLoopInterval \in Intervals
        BY DEF TypeOK, CheckInTime
    <2>2. /\ retryLoopInterval \in Nat /\ LongestInterval \in Nat /\ CycleTime \in Nat
          /\ retryLoopInterval <= LongestInterval
        BY <2>1, IntervalInForce, ScenarioFacts DEF LoopIntervals
    <2>3. Ms(lastCheck) \in Nat /\ Ms(0) = 0 /\ lastCheck \in Nat
        BY Times
    <2>4. Ms(lastCheck) < retryLoopInterval
        BY <2>2, <2>3, PastMs
    <2> QED BY <1>0, <1>1, <2>1, <2>2, <2>3, <2>4 DEF CheckInTime
<1>4. Flags'
    BY <1>0 DEF Flags
<1>5. Talks' /\ Silence' /\ BlockedWrite' /\ Overdue' /\ Alarm'
    BY <1>0, <1>1 DEF Talks, Silence, BlockedWrite, Overdue, Alarm
<1> QED BY <1>2, <1>3, <1>4, <1>5

(* What a cycle with the check leaves alone. *)
Checked ==
    /\ lastCycle' = 0 /\ lastCheck' = 0
    /\ UNCHANGED <<lastReceived, retryLoopInterval, partials, alive, scenario>>

LEMMA CheckedFacts ==
    ASSUME IInv, Checked
    PROVE  /\ K' = K /\ Delay' = Delay
           /\ CheckInTime'
           /\ Ms(lastCheck)' = 0
           /\ Ms(lastCheck) < Delay
<1> USE DEF IInv
<1>1. K' = K /\ Delay' = Delay /\ Intervals' = Intervals /\ LongestInterval' = LongestInterval
    BY SameScenario DEF Checked
<1>2. Ms(lastCheck)' = 0 /\ Ms(lastCycle)' = 0
    BY MsFacts DEF Checked
<1>3. /\ LongestInterval \in Nat /\ 100 <= LongestInterval /\ CycleTime \in Nat
    BY ScenarioFacts DEF TypeOK
<1>4. CheckInTime'
    BY <1>1, <1>2, <1>3 DEF CheckInTime, Checked
<1> QED BY <1>1, <1>2, <1>4, CheckedInTime

(* No connection, or no keepalive: nothing to check. *)
LEMMA NothingToCheckIInv ==
    ASSUME IInv, Checked, ~connected \/ scenario.keepalive = 0,
           UNCHANGED <<connected, ping_outstanding, ping_due, pending, blocked, unanswered,
                       alarm, lastPing, lastSent, ping_due_time>>
    PROVE  IInv'
<1> USE DEF IInv
<1>1. TypeOK'
    BY ZeroAge DEF TypeOK, Checked
<1>2. Flags'
    BY DEF Flags, Checked
<1>3. Talks' /\ Silence' /\ BlockedWrite' /\ Overdue'
    BY DEF Talks, Silence, BlockedWrite, Overdue, Checked
<1>4. Alarm'
    BY CheckedFacts DEF Alarm, Checked
<1> QED BY <1>1, <1>2, <1>3, <1>4, CheckedFacts

(* The session is closed by keepalive. *)
LEMMA CloseIInv ==
    ASSUME IInv, Checked, NEW b \in BOOLEAN, CloseSession(b),
           UNCHANGED <<lastPing, lastSent, ping_due_time>>,
           b /\ scenario.partial = 0 /\ alive => (K * 3) \div 2 <= Ms(scenario.response)
    PROVE  IInv'
<1> USE DEF IInv, CloseSession
<1>1. TypeOK'
    BY ZeroAge DEF TypeOK, Checked
<1>2. Flags'
    BY DEF Flags, Checked
<1>3. Talks' /\ Silence' /\ BlockedWrite' /\ Overdue'
    BY DEF Talks, Silence, BlockedWrite, Overdue, Checked
<1>4. Alarm'
    BY CheckedFacts DEF Alarm, Checked
<1> QED BY <1>1, <1>2, <1>3, <1>4, CheckedFacts

LEMMA PingOutstandingIInv ==
    ASSUME IInv, Checked, connected, scenario.keepalive # 0, PingOutstanding
    PROVE  IInv'
<1> USE DEF IInv
<1>0. ping_outstanding /\ unanswered /\ ~ping_due
    BY DEF PingOutstanding, Flags, TypeOK
<1>1. UNCHANGED <<lastPing, lastSent, ping_due_time>>
    BY DEF PingOutstanding
<1>2. alive => Ms(lastPing) <= Ms(scenario.response) /\ Ms(lastSent) <= Ms(scenario.response)
    <2>1. alive => lastPing <= scenario.response /\ lastSent <= scenario.response
        BY <1>0, Times DEF Flags
    <2> QED BY <2>1, Times, MsFacts
<1>3. CASE Past(lastPing, (K * 3) \div 2) /\ Past(lastReceived, (K * 3) \div 2)
    <2>1. CloseSession(TRUE)
        BY <1>3 DEF PingOutstanding
    <2>2. alive => (K * 3) \div 2 <= Ms(scenario.response)
        BY <1>2, <1>3, PastMs, Times
    <2> QED BY <1>1, <2>1, <2>2, CloseIInv
<1>4. CASE ~(Past(lastPing, (K * 3) \div 2) /\ Past(lastReceived, (K * 3) \div 2))
    <2>0. UNCHANGED <<connected, ping_outstanding, ping_due, pending, blocked, unanswered, alarm>>
        BY <1>4 DEF PingOutstanding
    <2>1. TypeOK'
        BY <1>1, <2>0, ZeroAge DEF TypeOK, Checked
    <2>2. Flags'
        BY <1>1, <2>0 DEF Flags, Checked
    <2>3. Talks'
        <3>1. Ms(lastCheck)' = 0 /\ Ms(scenario.response) \in Nat
            BY CheckedFacts, Times
        <3> QED BY <1>1, <1>2, <2>0, <3>1 DEF Talks, Checked
    <2>4. Silence'
        <3>1. Ms(lastPing) <= (K * 3) \div 2 \/ Ms(lastReceived) <= (K * 3) \div 2
            BY <1>4, PastMs, Times
        <3>2. (K * 3) \div 2 \in Nat /\ Ms(lastCheck)' = 0 /\ K' = K /\ Delay' = Delay
            BY CheckedFacts, Times
        <3> QED BY <1>0, <1>1, <2>0, <3>1, <3>2 DEF Silence, Checked
    <2>5. BlockedWrite'
        BY <1>0, <1>1, <2>0 DEF BlockedWrite, Checked
    <2>6. Overdue'
        BY <1>0, <2>0 DEF Overdue
    <2>7. Alarm'
        BY <2>0, CheckedFacts DEF Alarm, Checked
    <2> QED BY <2>1, <2>2, <2>3, <2>4, <2>5, <2>6, <2>7, CheckedFacts
<1> QED BY <1>3, <1>4

LEMMA PingOverdueIInv ==
    ASSUME IInv, Checked, connected, scenario.keepalive # 0, PingOverdue
    PROVE  IInv'
<1> USE DEF IInv
<1>0. ~ping_outstanding /\ ping_due /\ partials # 0
    BY DEF PingOverdue, PingDue, Flags
<1>1. UNCHANGED <<lastPing, lastSent, ping_due_time>>
    BY DEF PingOverdue
<1>2. CASE ping_due_time <= lastReceived
    <2>1. CloseSession(TRUE)
        BY <1>2 DEF PingOverdue
    <2>2. scenario.partial # 0
        <3>1. partials \in Nat /\ scenario.partial \in Nat /\ partials <= scenario.partial
            BY ScenarioFacts DEF TypeOK, Flags
        <3> QED BY <1>0, <3>1
    <2> QED BY <1>1, <2>1, <2>2, CloseIInv
<1>3. CASE ~(ping_due_time <= lastReceived)
    <2>0. UNCHANGED <<connected, ping_outstanding, ping_due, pending, blocked, unanswered, alarm>>
        BY <1>3 DEF PingOverdue
    <2>1. TypeOK'
        BY <1>1, <2>0, ZeroAge DEF TypeOK, Checked
    <2>2. Flags'
        BY <1>1, <2>0 DEF Flags, Checked
    <2>3. Talks' /\ Silence'
        BY <1>0, <2>0 DEF Talks, Silence, Checked
    <2>4. BlockedWrite'
        BY <1>0, <1>1, <2>0, CheckedFacts DEF BlockedWrite, Checked
    <2>5. Overdue'
        <3>1. lastReceived < ping_due_time
            BY <1>3, Times
        <3> QED BY <1>1, <3>1 DEF Overdue, Checked
    <2>6. Alarm'
        BY <2>0, CheckedFacts DEF Alarm, Checked
    <2> QED BY <2>1, <2>2, <2>3, <2>4, <2>5, <2>6, CheckedFacts
<1> QED BY <1>2, <1>3

(* A PINGREQ is sent when no partial write is in the way. *)
LEMMA SendPingreqIInv ==
    ASSUME IInv, Checked, connected, scenario.keepalive # 0, ~ping_outstanding, ~pending,
           SendPingreq, UNCHANGED ping_due_time
    PROVE  IInv'
<1> USE DEF IInv
<1>1. CASE CloseSession(FALSE) /\ UNCHANGED <<lastPing, lastSent>>
    BY <1>1, CloseIInv
<1>2. CASE /\ ping_due' = FALSE
           /\ lastPing' = 0 /\ lastSent' = 0
           /\ ping_outstanding' = TRUE
           /\ unanswered' = TRUE
           /\ UNCHANGED <<connected, pending, blocked, alarm>>
    <2>1. TypeOK'
        BY <1>2, ZeroAge DEF TypeOK, Checked
    <2>2. Flags'
        <3>1. lastPing' <= scenario.response /\ lastSent' <= lastPing'
            BY <1>2, Times
        <3> QED BY <1>2, <3>1 DEF Flags, Checked
    <2>3. Talks'
        <3>1. Ms(lastCheck)' = 0 /\ Ms(lastSent)' = 0 /\ K' = K /\ K \in Nat
            BY <1>2, CheckedFacts, Times
        <3> QED BY <1>2, <3>1 DEF Talks, Checked
    <2>4. Silence'
        <3>1. partials = 0 => Ms(lastReceived) <= K + Ms(lastCheck)
            BY DEF Silence, Flags
        <3>2. /\ Ms(lastReceived) \in Nat /\ K \in Nat /\ Ms(lastCheck) \in Nat /\ Delay \in Nat
              /\ (K * 3) \div 2 \in Nat
            BY Times
        <3>3. Ms(lastCheck) < Delay /\ Ms(lastCheck)' = 0 /\ K' = K /\ Delay' = Delay
            BY CheckedFacts
        <3>4. partials = 0 => Ms(lastReceived) < 0 + (K + Delay)
            BY <3>1, <3>2, <3>3
        <3>5. Ms(lastPing)' = 0
            BY <1>2, MsFacts
        <3> QED BY <1>2, <3>2, <3>3, <3>4, <3>5 DEF Silence, Checked
    <2>5. BlockedWrite' /\ Overdue'
        BY <1>2 DEF BlockedWrite, Overdue
    <2>6. Alarm'
        BY <1>2, CheckedFacts DEF Alarm, Checked
    <2> QED BY <2>1, <2>2, <2>3, <2>4, <2>5, <2>6, CheckedFacts
<1> QED BY <1>1, <1>2 DEF SendPingreq

LEMMA PingNeededIInv ==
    ASSUME IInv, Checked, connected, scenario.keepalive # 0, PingNeeded
    PROVE  IInv'
<1> USE DEF IInv
<1>0. ~ping_outstanding /\ ~PingDue
    BY DEF PingNeeded
<1>1. CASE ~pending
    BY <1>0, <1>1, SendPingreqIInv DEF PingNeeded
<1>2. CASE pending
    <2>0. /\ ping_due' = TRUE
          /\ ping_due_time' = IF ping_due THEN ping_due_time ELSE 0
          /\ UNCHANGED <<connected, ping_outstanding, pending, blocked, unanswered, alarm,
                         lastPing, lastSent>>
          /\ partials # 0
        BY <1>2 DEF PingNeeded, Flags
    <2>1. TypeOK'
        BY <1>0, <2>0, ZeroAge DEF TypeOK, Checked
    <2>2. Flags'
        BY <2>0 DEF Flags, Checked
    <2>3. Talks'
        BY <2>0 DEF Talks
    <2>4. Silence'
        BY <1>0, <2>0 DEF Silence, Checked
    <2>5. /\ Ms(blocked) \in Nat /\ Ms(lastReceived) \in Nat /\ Ms(lastCheck) \in Nat
          /\ K \in Nat /\ Delay \in Nat /\ (K * 3) \div 2 \in Nat /\ Ms(0) = 0
          /\ Ms(lastCheck) < Delay /\ Ms(lastCheck)' = 0 /\ K' = K /\ Delay' = Delay
        BY CheckedFacts, Times
    <2>6. BlockedWrite'
        <3>1. SUFFICES ASSUME ~scenario.shared, ~ping_due
                       PROVE  \/ Ms(blocked) < 0 + (K + Delay)
                              \/ Ms(lastReceived) < 0 + Delay
            BY <1>0, <1>2, <2>0, <2>5 DEF BlockedWrite, Checked
        <3>2. Ms(blocked) <= K + Ms(lastCheck) \/ lastReceived <= lastCheck
            BY <1>0, <1>2, <3>1 DEF BlockedWrite
        <3>3. lastReceived <= lastCheck => Ms(lastReceived) <= Ms(lastCheck)
            BY Times, MsFacts
        <3> QED BY <2>5, <3>2, <3>3
    <2>7. Overdue'
        <3>1. CASE ping_due
            <4>1. ~(Ms(ping_due_time) >= (K * 3) \div 2)
                BY <1>0, <3>1, PastMs DEF PingDue
            <4>2. Ms(ping_due_time) <= (K * 3) \div 2 /\ ping_due_time' = ping_due_time
                BY <2>0, <2>5, <3>1, <4>1, Times
            <4> QED BY <2>5, <4>2 DEF Overdue, Checked
        <3>2. CASE ~ping_due
            <4>1. Ms(ping_due_time)' = 0
                BY <2>0, <2>5, <3>2
            <4> QED BY <2>5, <4>1 DEF Overdue, Checked
        <3> QED BY <3>1, <3>2
    <2>8. Alarm'
        BY <2>0, CheckedFacts DEF Alarm, Checked
    <2> QED BY <2>1, <2>2, <2>3, <2>4, <2>6, <2>7, <2>8, CheckedFacts
<1> QED BY <1>1, <1>2 DEF TypeOK

LEMMA PingUsefulIInv ==
    ASSUME IInv, Checked, connected, scenario.keepalive # 0, PingUseful
    PROVE  IInv'
<1> USE DEF IInv
<1>0. ~ping_outstanding /\ ~PingDue /\ UNCHANGED ping_due_time /\ ~Past(lastSent, K)
    BY DEF PingUseful
<1>1. CASE Past(lastReceived, K) /\ ~pending
    BY <1>0, <1>1, SendPingreqIInv DEF PingUseful
<1>2. CASE ~(Past(lastReceived, K) /\ ~pending)
    <2>0. UNCHANGED <<connected, ping_outstanding, ping_due, pending, blocked, unanswered,
                      alarm, lastPing, lastSent>>
        BY <1>2 DEF PingUseful
    <2>1. TypeOK'
        BY <1>0, <2>0, ZeroAge DEF TypeOK, Checked
    <2>2. Flags'
        BY <1>0, <2>0 DEF Flags, Checked
    <2>3. /\ Ms(blocked) \in Nat /\ Ms(lastReceived) \in Nat /\ Ms(lastSent) \in Nat
          /\ Ms(ping_due_time) \in Nat
          /\ K \in Nat /\ (K * 3) \div 2 \in Nat
          /\ Ms(lastCheck)' = 0 /\ K' = K /\ Delay' = Delay
        BY CheckedFacts, Times
    <2>4. Ms(lastSent) < K
        BY <1>0, <2>3, PastMs
    <2>5. Talks'
        BY <2>0, <2>3, <2>4 DEF Talks, Checked
    <2>6. Silence'
        <3>1. ~pending => Ms(lastReceived) < K
            BY <1>2, <2>3, PastMs
        <3> QED BY <1>0, <2>0, <2>3, <3>1 DEF Silence, Checked
    <2>7. BlockedWrite'
        <3>1. blocked <= lastSent => Ms(blocked) <= Ms(lastSent)
            BY Times, MsFacts
        <3>2. blocked <= lastSent => Ms(blocked) <= K + 0
            BY <2>3, <2>4, <3>1
        <3> QED BY <1>0, <2>0, <2>3, <3>2 DEF BlockedWrite, Checked
    <2>8. Overdue'
        <3>1. ping_due => Ms(ping_due_time) <= (K * 3) \div 2 + 0
            BY <1>0, <2>3, PastMs DEF PingDue
        <3> QED BY <1>0, <2>0, <2>3, <3>1 DEF Overdue, Checked
    <2>9. Alarm'
        BY <2>0, CheckedFacts DEF Alarm, Checked
    <2> QED BY <2>1, <2>2, <2>5, <2>6, <2>7, <2>8, <2>9, CheckedFacts
<1> QED BY <1>1, <1>2

LEMMA RetryIInv == ASSUME IInv, Retry PROVE IInv'
<1>1. CASE ~Past(lastCheck, retryLoopInterval)
    BY <1>1, NoCheckIInv
<1>2. CASE Past(lastCheck, retryLoopInterval)
    <2>1. Checked /\ CheckKeepalive
        BY <1>2 DEF Retry, Checked
    <2>2. CASE ~(connected /\ scenario.keepalive # 0)
        <3>1. UNCHANGED <<connected, ping_outstanding, ping_due, pending, blocked, unanswered,
                          alarm, lastPing, lastSent, ping_due_time>>
            BY <2>1, <2>2 DEF CheckKeepalive
        <3> QED BY <2>1, <2>2, <3>1, NothingToCheckIInv
    <2>3. CASE connected /\ scenario.keepalive # 0
        <3>1. PingOutstanding \/ PingOverdue \/ PingNeeded \/ PingUseful
            BY <2>1, <2>3 DEF CheckKeepalive
        <3> QED BY <2>1, <2>3, <3>1, PingOutstandingIInv, PingOverdueIInv, PingNeededIInv,
                   PingUsefulIInv
    <2> QED BY <2>2, <2>3
<1> QED BY <1>1, <1>2

LEMMA StutterIInv == ASSUME IInv, UNCHANGED vars PROVE IInv'
<1> USE DEF IInv, vars, ages
<1>1. K' = K /\ Delay' = Delay /\ Intervals' = Intervals /\ LongestInterval' = LongestInterval
    BY SameScenario
<1>2. TypeOK'
    BY DEF TypeOK
<1>0. Flags'
    BY DEF Flags
<1>3. CheckInTime' /\ Talks' /\ Silence' /\ BlockedWrite' /\ Overdue' /\ Alarm'
    BY <1>1 DEF CheckInTime, Talks, Silence, BlockedWrite, Overdue, Alarm
<1> QED BY <1>0, <1>2, <1>3

LEMMA NextIInv == ASSUME IInv, [Next]_vars PROVE IInv'
BY TickIInv, RetryIInv, SendPacketIInv, ContinueWritesIInv, ReceiveDataIInv,
   ReceivePingrespIInv, DisconnectIInv, ConnectIInv, ServerDiesIInv, OtherConnectsIInv,
   StutterIInv DEF Next

LEMMA SpecIInv == Spec => []IInv
BY InitIInv, NextIInv, PTL DEF Spec

-----------------------------------------------------------------------------
(* What follows                                                             *)

(* The ages, flags and the interval of the check stay in their ranges, and a *)
(* PINGREQ is never both outstanding and due (ping_outstanding, ping_due of  *)
(* Clients).                                                                 *)
THEOREM KeepaliveTypeCorrect == Spec => []TypeOK
<1>1. IInv => TypeOK
    BY DEF IInv
<1> QED BY <1>1, SpecIInv, PTL

LEMMA TalksFollows == IInv => TalksInTime
<1> SUFFICES ASSUME IInv, connected, alive, ~pending, ~ping_due, scenario.keepalive # 0
             PROVE  Ms(lastSent) < TalkTime
    BY DEF TalksInTime, Ms
<1> USE DEF IInv
<1>1. /\ Ms(lastSent) \in Nat /\ Ms(lastCheck) \in Nat /\ K \in Nat /\ Delay \in Nat
      /\ Ms(scenario.response) \in Nat
    BY Times
<1>2. Ms(lastCheck) < Delay
    BY CheckedInTime
<1> DEFINE S == {K, Ms(scenario.response)}
<1>3. Max(S) \in Nat /\ K <= Max(S) /\ Ms(scenario.response) <= Max(S)
    <2>1. PICK n \in Nat : n = K + Ms(scenario.response)
        BY <1>1
    <2>2. S # {} /\ \A i \in S : i \in Nat /\ i <= n
        BY <1>1, <2>1
    <2>3. K \in S /\ Ms(scenario.response) \in S
        OBVIOUS
    <2> HIDE DEF S
    <2>4. Max(S) \in S /\ \A i \in S : Max(S) >= i
        BY <2>1, <2>2, MaxFacts
    <2>5. Max(S) \in Nat /\ Max(S) >= K /\ Max(S) >= Ms(scenario.response)
        BY <2>2, <2>3, <2>4
    <2> QED BY <1>1, <2>5
<1>4. TalkTime = Max(S) + Delay
    BY DEF TalkTime, Ms
<1> HIDE DEF S
<1>5. Ms(lastSent) <= K + Ms(lastCheck) \/ Ms(lastSent) <= Ms(scenario.response) + Ms(lastCheck)
    BY DEF Talks
<1> QED BY <1>1, <1>2, <1>3, <1>4, <1>5

(* While the server is alive, a client with no partial write sends something *)
(* within the keepalive interval plus the delay of the check, whatever the   *)
(* intervals of the other clients are (MQTTProtocol_keepalive).              *)
THEOREM AlwaysTalks == Spec => []TalksInTime
BY SpecIInv, TalksFollows, PTL

LEMMA NoticesFollows == IInv => NoticesDeadServer
<1> SUFFICES ASSUME IInv PROVE NoticesDeadServer
    OBVIOUS
<1> USE DEF IInv
<1>1. /\ Ms(lastReceived) \in Nat /\ Ms(lastPing) \in Nat /\ Ms(lastCheck) \in Nat
      /\ Ms(blocked) \in Nat /\ Ms(ping_due_time) \in Nat /\ Ms(lastSent) \in Nat
      /\ K \in Nat /\ Delay \in Nat /\ (K * 3) \div 2 \in Nat
      /\ lastReceived \in Nat /\ blocked \in Nat /\ ping_due_time \in Nat /\ lastPing \in Nat
      /\ lastCheck \in Nat
    BY Times
<1>2. Ms(lastCheck) < Delay
    BY CheckedInTime
<1>3. (K * 5) \div 2 = (K * 3) \div 2 + K
    BY ScenarioFacts DEF TypeOK
<1>4. NoticesSilence
    <2> SUFFICES ASSUME connected, scenario.partial = 0, scenario.keepalive # 0
                 PROVE  Ms(lastReceived) < ((K * 3) \div 2 + K) + 2 * Delay
        BY <1>3 DEF NoticesSilence, Ms
    <2>1. partials = 0 /\ ~pending /\ ~ping_due
        BY DEF Flags, TypeOK
    <2>2. CASE ~ping_outstanding
        <3>1. Ms(lastReceived) <= K + Ms(lastCheck)
            BY <2>1, <2>2 DEF Silence
        <3> QED BY <1>1, <1>2, <3>1
    <2>3. CASE ping_outstanding
        <3>1. /\ Ms(lastReceived) < Ms(lastPing) + (K + Delay)
              /\ \/ Ms(lastPing) <= (K * 3) \div 2 + Ms(lastCheck)
                 \/ Ms(lastReceived) <= (K * 3) \div 2 + Ms(lastCheck)
            BY <2>1, <2>3 DEF Silence
        <3> QED BY <1>1, <1>2, <3>1
    <2> QED BY <2>2, <2>3
<1>5. NoticesBlockedWrite
    <2> SUFFICES ASSUME connected, pending, scenario.keepalive # 0,
                        lastReceived >= blocked, ping_due => lastReceived >= ping_due_time,
                        ~scenario.shared
                 PROVE  Ms(blocked) < ((K * 3) \div 2 + K) + 2 * Delay
        BY <1>3 DEF NoticesBlockedWrite, Ms
    <2>1. Ms(blocked) <= Ms(lastReceived)
        BY <1>1, MsFacts
    <2>2. CASE ping_outstanding
        <3>1. Ms(blocked) <= Ms(lastPing)
            BY <1>1, <2>2, MsFacts DEF BlockedWrite
        <3>2. \/ Ms(lastPing) <= (K * 3) \div 2 + Ms(lastCheck)
              \/ Ms(lastReceived) <= (K * 3) \div 2 + Ms(lastCheck)
            BY <2>2 DEF Silence
        <3> QED BY <1>1, <1>2, <2>1, <3>1, <3>2
    <2>3. CASE ping_due
        <3>1. \/ Ms(blocked) < Ms(ping_due_time) + (K + Delay)
              \/ Ms(lastReceived) < Ms(ping_due_time) + Delay
            BY <2>3 DEF BlockedWrite
        <3>2. Ms(ping_due_time) <= (K * 3) \div 2 + Ms(lastCheck)
            BY <1>1, <2>3 DEF Overdue
        <3> QED BY <1>1, <1>2, <2>1, <3>1, <3>2
    <2>4. CASE ~ping_outstanding /\ ~ping_due
        <3>1. Ms(blocked) <= K + Ms(lastCheck) \/ lastReceived <= lastCheck
            BY <2>4 DEF BlockedWrite
        <3>2. lastReceived <= lastCheck => Ms(lastReceived) <= Ms(lastCheck)
            BY <1>1, MsFacts
        <3> QED BY <1>1, <1>2, <2>1, <3>1, <3>2
    <2> QED BY <2>2, <2>3, <2>4
<1> QED BY <1>4, <1>5 DEF NoticesDeadServer

(* A server that is gone is noticed within two and a half keepalive          *)
(* intervals and twice the delay of the check, also when a partial write     *)
(* keeps PINGREQ from being sent (ping_due).                                 *)
THEOREM DeadServerNoticed == Spec => []NoticesDeadServer
BY SpecIInv, NoticesFollows, PTL

LEMMA AlarmFollows == IInv => NoFalseAlarm
<1> SUFFICES ASSUME IInv, alarm, scenario.partial = 0,
                    scenario.response * TickTime < (K * 3) \div 2, alive
             PROVE  FALSE
    BY DEF NoFalseAlarm
<1>1. (K * 3) \div 2 <= Ms(scenario.response)
    BY DEF IInv, Alarm
<1>2. Ms(scenario.response) < (K * 3) \div 2
    BY DEF Ms
<1>3. Ms(scenario.response) \in Nat /\ (K * 3) \div 2 \in Nat
    BY Times DEF IInv
<1> QED BY <1>1, <1>2, <1>3

(* Keepalive closes no session with a server that answers each PINGREQ in    *)
(* less than one and a half keepalive intervals.                             *)
THEOREM AlarmIsTrue == Spec => []NoFalseAlarm
BY SpecIInv, AlarmFollows, PTL
=============================================================================
