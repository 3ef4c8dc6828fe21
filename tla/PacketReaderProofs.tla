------------------------- MODULE PacketReaderProofs -------------------------
(***************************************************************************)
(* Proofs about the polling of sockets, for any number of sockets,         *)
(* connections and packets.                                                *)
(***************************************************************************)
EXTENDS PacketReader, FiniteSetTheorems, SequencesExt, SequenceTheorems, WellFoundedInduction, TLAPS

-----------------------------------------------------------------------------
(* Sequences and natural numbers                                            *)

LEMMA SeqOfFunction ==
    ASSUME NEW T, NEW n \in Nat, NEW f \in [1 .. n -> T]
    PROVE  f \in Seq(T) /\ Len(f) = n /\ DOMAIN f = 1 .. n
<1>1. f \in Seq(T)
    BY SeqDef
<1> QED BY <1>1, LenProperties

LEMMA LeastNatural ==
    ASSUME NEW S \in SUBSET Nat, S # {}
    PROVE  \E k \in S : \A l \in S : k <= l
<1> DEFINE R == OpToRel(<, Nat)
<1>1. PICK k \in S : \A l \in S : ~ (<<l, k>> \in R)
    <2>1. IsWellFoundedOn(R, Nat)
        BY NatLessThanWellFounded
    <2> HIDE DEF R
    <2> QED BY <2>1, WFMin
<1>2. \A l \in S : ~ (l < k)
    BY <1>1 DEF OpToRel
<1> QED BY <1>2

-----------------------------------------------------------------------------
(* The inductive invariant                                                  *)

OfSockets(polled) == \A i \in DOMAIN polled : polled[i].sock \in Sockets

Places ==
    /\ fds \subseteq Sockets
    /\ Len(saved) \in Nat /\ DOMAIN saved = 1 .. Len(saved)
    /\ OfSockets(saved)
    /\ Sorted(saved)
    /\ cur_fd \in 0 .. Len(saved)
    /\ waited \in [Sockets -> Nat]

(* The sockets of the last poll that Socket_getReadySocket has gone past. *)
Gone(polled, from) == {i \in DOMAIN polled : from = 0 \/ i < from}
Passed(polled, from) == {polled[i].sock : i \in Gone(polled, from)}

(* The last poll has seen the socket ready, and its turn is to come. *)
Pending(s, polled, from) == \E i \in LeftOf(polled, from) : polled[i].sock = s

Others == Cardinality(Sockets) - 1

(* A socket has waited for those passed since the poll, and if the poll has  *)
(* seen it ready also for others of the poll before.                         *)
Turn(s, w, polled, from) ==
    w <= (IF Pending(s, polled, from) THEN Others ELSE 0) + Cardinality(Passed(polled, from) \ {s})

InTurn == \A s \in Sockets : Turn(s, waited[s], saved, cur_fd)

IInv == Places /\ InTurn

-----------------------------------------------------------------------------
LEMMA PassedFacts ==
    ASSUME NEW polled, NEW from, OfSockets(polled), NEW s \in Sockets
    PROVE  /\ IsFiniteSet(Passed(polled, from) \ {s})
           /\ Cardinality(Passed(polled, from) \ {s}) \in Nat
           /\ Cardinality(Passed(polled, from) \ {s}) <= Others
           /\ Others \in Nat
<1> DEFINE P == Passed(polled, from) \ {s}
           Q == Sockets \ {s}
<1>1. IsFiniteSet(Q) /\ Cardinality(Q) = Others /\ Cardinality(Sockets) \in Nat
    BY SocketsAssumption, FS_RemoveElement, FS_CardinalityType DEF Others
<1>2. P \subseteq Q
    BY DEF Passed, Gone, OfSockets
<1>3. IsFiniteSet(P) /\ Cardinality(P) <= Cardinality(Q)
    BY <1>1, <1>2, FS_Subset
<1>4. Cardinality(P) \in Nat /\ Cardinality(Q) \in Nat
    BY <1>1, <1>3, FS_CardinalityType
<1> QED BY <1>1, <1>3, <1>4

LEMMA InitIInv == Init => IInv
<1> SUFFICES ASSUME Init PROVE IInv
    OBVIOUS
<1>1. saved = <<>> /\ cur_fd = 0 /\ fds = {} /\ waited = [s \in Sockets |-> 0]
    BY DEF Init
<1>2. Len(saved) = 0 /\ DOMAIN saved = {}
    BY <1>1
<1>3. Places
    BY <1>1, <1>2 DEF Places, Sorted, OfSockets
<1>4. InTurn
    <2> SUFFICES ASSUME NEW s \in Sockets PROVE Turn(s, 0, saved, cur_fd)
        BY <1>1 DEF InTurn
    <2>1. Cardinality(Passed(saved, cur_fd) \ {s}) \in Nat /\ Others \in Nat
        BY <1>3, PassedFacts DEF Places
    <2> QED BY <2>1 DEF Turn
<1> QED BY <1>3, <1>4 DEF IInv

(* The first of the candidates is returned, and the next call begins behind  *)
(* it.                                                                       *)
LEMMA ReturnFacts ==
    ASSUME NEW n \in Nat, NEW polled, DOMAIN polled = 1 .. n, Len(polled) = n,
           NEW candidates \in SUBSET (1 .. n), candidates # {}, Return(polled, candidates)
    PROVE  \E i \in candidates :
              /\ \A k \in candidates : i <= k
              /\ saved' = polled
              /\ cur_fd' \in 0 .. n
              /\ Gone(polled, cur_fd') = 1 .. i
              /\ LeftOf(polled, cur_fd') = {j \in 1 .. n : j > i /\ polled[j].ready}
              /\ waited' = [t \in Sockets |-> IF t = polled[i].sock \/ ~Ready(t) THEN 0 ELSE waited[t] + 1]
<1> DEFINE i == CHOOSE j \in candidates : \A k \in candidates : j <= k
<1>1. \E j \in candidates : \A k \in candidates : j <= k
    BY LeastNatural
<1>2. i \in candidates /\ \A k \in candidates : i <= k
    BY <1>1
<1>3. /\ saved' = polled /\ cur_fd' = After(polled, i)
      /\ waited' = [t \in Sockets |-> IF t = polled[i].sock \/ ~Ready(t) THEN 0 ELSE waited[t] + 1]
    BY DEF Return
<1> HIDE DEF i
<1>4. i \in 1 .. n /\ cur_fd' = IF i = n THEN 0 ELSE i + 1
    BY <1>2, <1>3 DEF After
<1>5. Gone(polled, cur_fd') = 1 .. i
    BY <1>4 DEF Gone
<1>6. LeftOf(polled, cur_fd') = {j \in 1 .. n : j > i /\ polled[j].ready}
    BY <1>4 DEF LeftOf
<1>7. cur_fd' \in 0 .. n
    BY <1>4
<1> QED BY <1>2, <1>3, <1>5, <1>6, <1>7

(* One socket more has been passed. *)
LEMMA OneMore ==
    ASSUME NEW polled, NEW from, NEW to, OfSockets(polled),
           NEW i \in Gone(polled, to), NEW s \in Sockets, s # polled[i].sock,
           Gone(polled, from) \subseteq Gone(polled, to),
           polled[i].sock \notin Passed(polled, from)
    PROVE  Cardinality(Passed(polled, to) \ {s}) >= Cardinality(Passed(polled, from) \ {s}) + 1
<1> DEFINE x == polled[i].sock
           P == Passed(polled, from) \ {s}
           Q == Passed(polled, to) \ {s}
<1>1. IsFiniteSet(P) /\ IsFiniteSet(Q) /\ Cardinality(P) \in Nat /\ Cardinality(Q) \in Nat
    BY PassedFacts
<1>2. P \cup {x} \subseteq Q /\ x \notin P
    BY DEF Passed
<1> HIDE DEF P, Q, x
<1>3. Cardinality(P \cup {x}) = Cardinality(P) + 1
    BY <1>1, <1>2, FS_AddElement
<1>4. Cardinality(P \cup {x}) <= Cardinality(Q)
    BY <1>1, <1>2, FS_Subset
<1> QED BY <1>1, <1>3, <1>4 DEF P, Q

LEMMA NextReadyIInv == ASSUME IInv, NextReady PROVE IInv'
<1> USE DEF IInv, Places
<1> DEFINE n == Len(saved)
<1>1. PICK i \in LeftOf(saved, cur_fd) :
         /\ \A k \in LeftOf(saved, cur_fd) : i <= k
         /\ saved' = saved
         /\ cur_fd' \in 0 .. n
         /\ Gone(saved, cur_fd') = 1 .. i
         /\ LeftOf(saved, cur_fd') = {j \in 1 .. n : j > i /\ saved[j].ready}
         /\ waited' = [t \in Sockets |-> IF t = saved[i].sock \/ ~Ready(t) THEN 0 ELSE waited[t] + 1]
    <2>1. LeftOf(saved, cur_fd) \in SUBSET (1 .. n) /\ LeftOf(saved, cur_fd) # {}
        BY DEF NextReady, LeftOf
    <2>2. Return(saved, LeftOf(saved, cur_fd)) /\ n \in Nat /\ DOMAIN saved = 1 .. n
        BY DEF NextReady
    <2> HIDE DEF n
    <2>3. Len(saved) = n
        BY DEF n
    <2> QED BY <2>1, <2>2, <2>3, ReturnFacts
<1>2. i \in 1 .. n /\ cur_fd # 0 /\ i >= cur_fd /\ saved[i].ready
    BY <1>1 DEF LeftOf
<1>3. Places'
    BY <1>1 DEF NextReady
<1>4. Gone(saved, cur_fd) = 1 .. (cur_fd - 1)
    BY <1>2 DEF Gone
<1>5. ASSUME NEW j \in 1 .. n, j # i PROVE saved[j].sock # saved[i].sock
    <2>1. saved[i].sock \in Nat /\ saved[j].sock \in Nat
        BY <1>2, SocketsAssumption DEF OfSockets
    <2>2. i < j \/ j < i
        BY <1>2, <1>5
    <2> QED BY <1>2, <2>1, <2>2 DEF Sorted
<1>6. saved[i].sock \notin Passed(saved, cur_fd)
    BY <1>2, <1>4, <1>5 DEF Passed
<1>7. InTurn'
    <2> SUFFICES ASSUME NEW s \in Sockets PROVE Turn(s, waited'[s], saved, cur_fd')
        BY <1>1 DEF InTurn
    <2>1. CASE waited'[s] = 0
        <3>1. Cardinality(Passed(saved, cur_fd') \ {s}) \in Nat /\ Others \in Nat
            BY PassedFacts
        <3> QED BY <2>1, <3>1 DEF Turn
    <2>2. CASE s # saved[i].sock /\ waited'[s] = waited[s] + 1
        <3>1. Cardinality(Passed(saved, cur_fd') \ {s}) >= Cardinality(Passed(saved, cur_fd) \ {s}) + 1
            <4>1. i \in Gone(saved, cur_fd') /\ Gone(saved, cur_fd) \subseteq Gone(saved, cur_fd')
                BY <1>1, <1>2, <1>4
            <4> QED BY <1>6, <2>2, <4>1, OneMore
        <3>2. Pending(s, saved, cur_fd) => Pending(s, saved, cur_fd')
            <4>1. ASSUME NEW j \in LeftOf(saved, cur_fd), saved[j].sock = s PROVE j \in LeftOf(saved, cur_fd')
                BY <1>1, <2>2, <4>1 DEF LeftOf
            <4> QED BY <4>1 DEF Pending
        <3>3. Turn(s, waited[s], saved, cur_fd)
            BY DEF InTurn
        <3>4. /\ Cardinality(Passed(saved, cur_fd) \ {s}) \in Nat /\ Others \in Nat
              /\ Cardinality(Passed(saved, cur_fd') \ {s}) \in Nat
            BY PassedFacts
        <3> QED BY <2>2, <3>1, <3>2, <3>3, <3>4 DEF Turn
    <2> QED BY <1>1, <2>1, <2>2
<1> QED BY <1>3, <1>7

(* A poll has a place for every open socket. *)
LEMMA AllPolled ==
    ASSUME IsFiniteSet(fds), fds \subseteq Nat, NEW polled, DOMAIN polled = 1 .. Cardinality(fds), Sorted(polled),
           \A j \in 1 .. Cardinality(fds) : polled[j].sock \in fds,
           NEW s \in fds
    PROVE  \E j \in 1 .. Cardinality(fds) : polled[j].sock = s
<1> DEFINE n == Cardinality(fds)
           f == [j \in 1 .. n |-> polled[j].sock]
<1>1. n \in Nat
    BY FS_CardinalityType
<1>2. Cardinality(1 .. n) = n
    BY <1>1, FS_Interval
<1>3. f \in Injection(1 .. n, fds)
    <2>1. f \in [1 .. n -> fds]
        OBVIOUS
    <2>2. \A j, k \in 1 .. n : j < k => polled[j].sock < polled[k].sock
        BY DEF Sorted
    <2>3. \A j, k \in 1 .. n : polled[j].sock = polled[k].sock => j = k
        <3> HIDE DEF n
        <3>1. \A j \in 1 .. n : polled[j].sock \in Nat
            BY DEF n
        <3> QED BY <1>1, <2>2, <3>1
    <2> QED BY <2>1, <2>3 DEF Injection, IsInjective
<1>4. f \in Surjection(1 .. n, fds)
    <2> HIDE DEF f
    <2> QED BY <1>2, <1>3, FS_Injection
<1> QED BY <1>4 DEF Surjection

LEMMA PollIInv == ASSUME IInv, Poll PROVE IInv'
<1> USE DEF IInv, Places
<1> DEFINE n == Cardinality(fds)
           T == {[sock |-> s, ready |-> Ready(s)] : s \in fds}
<1>1. IsFiniteSet(fds) /\ n \in Nat
    BY SocketsAssumption, FS_Subset, FS_CardinalityType
<1>2. PICK polled \in [1 .. n -> T] :
         /\ Sorted(polled) /\ LeftOf(saved, cur_fd) = {} /\ LeftOf(polled, 1) # {}
         /\ Return(polled, LeftOf(polled, 1)) /\ UNCHANGED fds
    BY DEF Poll
<1>3. Len(polled) = n /\ DOMAIN polled = 1 .. n
    <2> HIDE DEF T, n
    <2> QED BY <1>1, SeqOfFunction
<1>4. \A j \in 1 .. n : polled[j].sock \in Sockets /\ polled[j].sock \in fds /\ polled[j].ready = Ready(polled[j].sock)
    OBVIOUS
<1> HIDE DEF n, T
<1>9. OfSockets(polled)
    BY <1>3, <1>4 DEF OfSockets
<1>5. PICK i \in LeftOf(polled, 1) :
         /\ \A k \in LeftOf(polled, 1) : i <= k
         /\ saved' = polled
         /\ cur_fd' \in 0 .. n
         /\ Gone(polled, cur_fd') = 1 .. i
         /\ LeftOf(polled, cur_fd') = {j \in 1 .. n : j > i /\ polled[j].ready}
         /\ waited' = [t \in Sockets |-> IF t = polled[i].sock \/ ~Ready(t) THEN 0 ELSE waited[t] + 1]
    <2>1. LeftOf(polled, 1) \in SUBSET (1 .. n)
        BY <1>3 DEF LeftOf
    <2>2. Return(polled, LeftOf(polled, 1)) /\ LeftOf(polled, 1) # {}
        BY <1>2
    <2>3. n \in Nat /\ DOMAIN polled = 1 .. n /\ Len(polled) = n
        BY <1>1, <1>3
    <2> QED BY <2>1, <2>2, <2>3, ReturnFacts
<1>6. i \in 1 .. n /\ polled[i].sock \in Sockets
    BY <1>3, <1>4, <1>5 DEF LeftOf
<1>7. Places'
    BY <1>1, <1>2, <1>3, <1>9, <1>5
<1>8. InTurn'
    <2> SUFFICES ASSUME NEW s \in Sockets PROVE Turn(s, waited'[s], polled, cur_fd')
        BY <1>5 DEF InTurn
    <2>1. Cardinality(Passed(polled, cur_fd') \ {s}) \in Nat /\ Others \in Nat
        BY <1>9, PassedFacts
    <2>2. CASE waited'[s] = 0
        BY <2>1, <2>2 DEF Turn
    <2>3. CASE s # polled[i].sock /\ Ready(s) /\ waited'[s] = waited[s] + 1
        <3>1. waited[s] <= Others
            <4>1. ~Pending(s, saved, cur_fd)
                BY <1>2 DEF Pending
            <4>2. /\ Cardinality(Passed(saved, cur_fd) \ {s}) \in Nat /\ Others \in Nat
                  /\ Cardinality(Passed(saved, cur_fd) \ {s}) <= Others
                BY PassedFacts
            <4>3. Turn(s, waited[s], saved, cur_fd) /\ waited[s] \in Nat
                BY DEF InTurn
            <4> QED BY <4>1, <4>2, <4>3 DEF Turn
        <3>2. Pending(s, polled, cur_fd')
            <4>1. PICK j \in 1 .. n : polled[j].sock = s
                <5>1. s \in fds /\ fds \subseteq Nat
                    BY <2>3, SocketsAssumption DEF Ready
                <5>2. \E j \in 1 .. Cardinality(fds) : polled[j].sock = s
                    BY <1>1, <1>2, <1>3, <1>4, <5>1, AllPolled DEF n
                <5> QED BY <5>2 DEF n
            <4>2. polled[j].ready /\ j \in LeftOf(polled, 1)
                BY <1>3, <1>4, <2>3, <4>1 DEF LeftOf
            <4>3. j > i
                BY <1>5, <1>6, <2>3, <4>1, <4>2
            <4> QED BY <1>5, <4>1, <4>2, <4>3 DEF Pending
        <3>3. Cardinality(Passed(polled, cur_fd') \ {s}) >= 1
            <4>1. polled[i].sock \in Passed(polled, cur_fd') \ {s}
                BY <1>3, <1>5, <1>6, <2>3 DEF Passed
            <4>2. IsFiniteSet(Passed(polled, cur_fd') \ {s})
                BY <1>9, PassedFacts
            <4>3. Cardinality(Passed(polled, cur_fd') \ {s}) # 0
                BY <4>1, <4>2, FS_EmptySet
            <4> QED BY <2>1, <4>3
        <3> QED BY <2>1, <2>3, <3>1, <3>2, <3>3 DEF Turn
    <2> QED BY <1>5, <2>2, <2>3
<1> QED BY <1>7, <1>8

(* The other steps leave the last poll as it is. *)
LEMMA QuietIInv ==
    ASSUME IInv, UNCHANGED <<saved, cur_fd>>, fds' \subseteq Sockets,
           waited' \in [Sockets -> Nat], \A s \in Sockets : waited'[s] <= waited[s]
    PROVE  IInv'
<1>1. Places'
    BY DEF IInv, Places
<1>2. ASSUME NEW s \in Sockets PROVE Turn(s, waited'[s], saved, cur_fd)
    <2>1. Turn(s, waited[s], saved, cur_fd)
        BY DEF IInv, InTurn
    <2>2. Cardinality(Passed(saved, cur_fd) \ {s}) \in Nat /\ Others \in Nat
        BY PassedFacts DEF IInv, Places
    <2>3. waited[s] \in Nat /\ waited'[s] \in Nat /\ waited'[s] <= waited[s]
        BY DEF IInv, Places
    <2> QED BY <2>1, <2>2, <2>3 DEF Turn
<1> QED BY <1>1, <1>2 DEF IInv, InTurn

LEMMA NextIInv == ASSUME IInv, [Next]_vars PROVE IInv'
<1>0. fds \subseteq Sockets /\ waited \in [Sockets -> Nat]
    BY DEF IInv, Places
<1>1. CASE UNCHANGED <<saved, cur_fd, waited>> /\ fds' \subseteq fds
    BY <1>0, <1>1, QuietIInv
<1>2. ASSUME NEW s \in Sockets, Open(s) PROVE IInv'
    <2>1. /\ UNCHANGED <<saved, cur_fd>> /\ fds' = fds \cup {s}
          /\ waited' = [waited EXCEPT ![s] = 0]
        BY <1>2 DEF Open
    <2> QED BY <1>0, <2>1, QuietIInv
<1>3. ReadHeader \/ ReadLength \/ BadLength \/ ReadData \/ IgnoreFailed =>
         UNCHANGED <<saved, cur_fd, waited, fds>>
    BY DEF ReadHeader, ReadLength, BadLength, ReadData, IgnoreFailed, GetNext
<1>4. CloseFailed => UNCHANGED <<saved, cur_fd, waited>> /\ fds' \subseteq fds
    BY DEF CloseFailed, Close
<1>5. \A s \in Sockets : Arrive(s) \/ PeerEnds(s) \/ Disconnect(s) =>
         UNCHANGED <<saved, cur_fd, waited>> /\ fds' \subseteq fds
    BY DEF Arrive, PeerEnds, Disconnect, Close
<1>6. UNCHANGED vars => UNCHANGED <<saved, cur_fd, waited, fds>>
    BY DEF vars
<1> QED BY <1>1, <1>2, <1>3, <1>4, <1>5, <1>6, NextReadyIInv, PollIInv DEF Next, Reader

(* However many sockets there are, whenever they are opened, closed or become*)
(* ready: Socket_getReadySocket chooses others at most twice each before a   *)
(* socket that is ready, though it polls again only when it has gone through *)
(* the result of the last poll, which may name sockets closed since.         *)
THEOREM SocketsTakeTurns == Spec => []ServedInTurn
<1>1. Init => IInv
    BY InitIInv
<1>2. IInv /\ [Next]_vars => IInv'
    BY NextIInv
<1>3. IInv => ServedInTurn
    <2> SUFFICES ASSUME IInv, NEW s \in Sockets PROVE waited[s] <= 2 * (Cardinality(Sockets) - 1)
        BY DEF ServedInTurn
    <2>1. Turn(s, waited[s], saved, cur_fd)
        BY DEF IInv, InTurn
    <2>2. /\ Cardinality(Passed(saved, cur_fd) \ {s}) \in Nat /\ Others \in Nat
          /\ Cardinality(Passed(saved, cur_fd) \ {s}) <= Others
        BY PassedFacts DEF IInv, Places
    <2>3. waited[s] \in Nat /\ waited[s] <= Others + Others
        BY <2>1, <2>2 DEF Turn, IInv, Places
    <2> QED BY <2>2, <2>3 DEF Others
<1> QED BY <1>1, <1>2, <1>3, PTL DEF Spec
=============================================================================
