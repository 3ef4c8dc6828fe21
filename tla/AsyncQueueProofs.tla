---------------------------- MODULE AsyncQueueProofs -------------------------
(***************************************************************************)
(* Proofs about the list of commands of Async, its count and its copy in   *)
(* the store, for any clients, threads, requests, ids, sequence numbers    *)
(* and any number of losses, time-outs, kills and recreated clients.       *)
(***************************************************************************)
EXTENDS Async, FiniteSetTheorems, SequencesExt, SequenceTheorems, WellFoundedInduction, TLAPS

-----------------------------------------------------------------------------
(* Sequences and natural numbers                                            *)

LEMMA SeqOfFunction ==
    ASSUME NEW T, NEW n \in Nat, NEW f \in [1 .. n -> T]
    PROVE  f \in Seq(T) /\ Len(f) = n /\ DOMAIN f = 1 .. n
<1>1. f \in Seq(T)
    BY SeqDef
<1> QED BY <1>1, LenProperties

LEMMA SeqFacts ==
    ASSUME NEW T, NEW s \in Seq(T)
    PROVE  /\ Len(s) \in Nat
           /\ DOMAIN s = 1 .. Len(s)
           /\ \A k \in DOMAIN s : s[k] \in T
BY LenProperties

LEMMA AppendFacts ==
    ASSUME NEW T, NEW s \in Seq(T), NEW e \in T
    PROVE  /\ Append(s, e) \in Seq(T)
           /\ DOMAIN Append(s, e) = 1 .. (Len(s) + 1)
           /\ Append(s, e)[Len(s) + 1] = e
           /\ \A k \in DOMAIN s : Append(s, e)[k] = s[k]
OBVIOUS

(* Element j of s without its element k. *)
LEMMA RemoveAtFacts ==
    ASSUME NEW T, NEW s \in Seq(T), NEW k \in DOMAIN s
    PROVE  /\ RemoveAt(s, k) \in Seq(T)
           /\ DOMAIN RemoveAt(s, k) = 1 .. (Len(s) - 1)
           /\ \A j \in 1 .. (Len(s) - 1) :
                 RemoveAt(s, k)[j] = IF j < k THEN s[j] ELSE s[j + 1]
<1> DEFINE a == SubSeq(s, 1, k - 1)
           b == SubSeq(s, k + 1, Len(s))
<1>0. k \in Int /\ 1 <= k /\ k <= Len(s) /\ Len(s) \in Nat /\ DOMAIN s = 1 .. Len(s)
    BY LenProperties
<1>1. /\ a \in Seq(T)
      /\ Len(a) = k - 1
      /\ \A i \in 1 .. (k - 1) : a[i] = s[i]
    <2>1. \A i \in 1 .. (k - 1) : s[i] \in T
        BY <1>0, LenProperties
    <2>2. /\ SubSeq(s, 1, k - 1) \in Seq(T)
          /\ Len(SubSeq(s, 1, k - 1)) = IF 1 <= k - 1 THEN (k - 1) - 1 + 1 ELSE 0
          /\ \A i \in 1 .. (k - 1) - 1 + 1 : SubSeq(s, 1, k - 1)[i] = s[1 + i - 1]
        BY <1>0, <2>1, SubSeqProperties
    <2> QED BY <1>0, <2>2
<1>2. /\ b \in Seq(T)
      /\ Len(b) = Len(s) - k
      /\ \A i \in 1 .. (Len(s) - k) : b[i] = s[k + i]
    <2>1. \A i \in (k + 1) .. Len(s) : s[i] \in T
        BY <1>0, LenProperties
    <2>2. /\ SubSeq(s, k + 1, Len(s)) \in Seq(T)
          /\ Len(SubSeq(s, k + 1, Len(s))) =
                IF k + 1 <= Len(s) THEN Len(s) - (k + 1) + 1 ELSE 0
          /\ \A i \in 1 .. Len(s) - (k + 1) + 1 :
                SubSeq(s, k + 1, Len(s))[i] = s[k + 1 + i - 1]
        BY <1>0, <2>1, SubSeqProperties
    <2> QED BY <1>0, <2>2
<1>3. RemoveAt(s, k) = a \o b
    BY DEF RemoveAt
<1> HIDE DEF a, b
<1>4. /\ a \o b \in Seq(T)
      /\ Len(a \o b) = Len(s) - 1
      /\ \A i \in 1 .. (Len(s) - 1) : (a \o b)[i] = IF i <= k - 1 THEN a[i] ELSE b[i - (k - 1)]
    <2>1. /\ a \o b \in Seq(T)
          /\ Len(a \o b) = Len(a) + Len(b)
          /\ \A i \in 1 .. Len(a) + Len(b) :
                (a \o b)[i] = IF i <= Len(a) THEN a[i] ELSE b[i - Len(a)]
        BY <1>1, <1>2, ConcatProperties
    <2>2. Len(a) + Len(b) = Len(s) - 1
        BY <1>0, <1>1, <1>2
    <2> QED BY <1>1, <2>1, <2>2
<1>5. DOMAIN (a \o b) = 1 .. (Len(s) - 1)
    BY <1>4, LenProperties
<1>6. \A j \in 1 .. (Len(s) - 1) : (a \o b)[j] = IF j < k THEN s[j] ELSE s[j + 1]
    <2> TAKE j \in 1 .. (Len(s) - 1)
    <2>1. CASE j < k
        BY <1>0, <1>1, <1>4, <2>1
    <2>2. CASE ~(j < k)
        <3>1. j - (k - 1) \in 1 .. (Len(s) - k) /\ k + (j - (k - 1)) = j + 1 /\ ~(j <= k - 1)
            BY <1>0, <2>2
        <3> QED BY <1>2, <1>4, <2>2, <3>1
    <2> QED BY <2>1, <2>2
<1> QED BY <1>3, <1>4, <1>5, <1>6

LEMMA LeastNatural ==
    ASSUME NEW S \in SUBSET Nat, S # {}
    PROVE  \E k \in S : \A l \in S : k <= l
<1> DEFINE R == OpToRel(<, Nat)
<1>1. PICK k \in S : \A l \in S : ~ (<<l, k>> \in R)
    <2>1. IsWellFoundedOn(R, Nat)
        BY NatLessThanWellFounded
    <2> HIDE DEF R
    <2> QED BY <2>1, WFMin
<1>2. \A l \in S : ~ (l < k)
    BY <1>1 DEF OpToRel
<1> QED BY <1>2

LEMMA GreatestNatural ==
    ASSUME NEW S \in SUBSET Nat, S # {}, NEW n \in Nat, \A k \in S : k <= n
    PROVE  \E k \in S : \A l \in S : l <= k
<1> DEFINE T == {n - k : k \in S}
<1>1. T \in SUBSET Nat /\ T # {}
    OBVIOUS
<1> HIDE DEF T
<1>2. PICK d \in T : \A e \in T : d <= e
    BY <1>1, LeastNatural
<1>3. PICK k \in S : d = n - k
    BY <1>2 DEF T
<1>4. \A l \in S : n - l \in T
    BY DEF T
<1>5. \A l \in S : l <= k
    BY <1>2, <1>3, <1>4
<1> QED BY <1>5

-----------------------------------------------------------------------------
(* The inductive invariants.                                                *)

(* A command has a request of its kind and, unless it is QoS 0, a message id. *)
(* The library has requests of its own with None.                             *)
DataKind(x) ==
    /\ \/ x.type = "PUBLISH" /\ x.req \in Pubs
       \/ x.type = "SUBSCRIBE" /\ x.req \in Subs
    /\ IF x.req \in Pubs0 THEN x.tok = 0 ELSE x.tok \in Ids

HeadKind(x) ==
    /\ \/ x.type = "CONNECT" /\ x.req \in Conns \cup {None} /\ ~x.internal
       \/ x.type = "DISCONNECT" /\ x.req \in Discs \cup {None}
    /\ x.cb => x.req # None
    /\ x.tok = 0 /\ x.key = 0 /\ x.n = 0

DataCommands == {x \in Commands : DataKind(x)}
HeadCommands == {x \in Commands : HeadKind(x)}
Good == DataCommands \cup HeadCommands

(* What is partly written, or owed by the server. *)
DataPackets ==
    {p \in Packets : /\ \/ p.type = "PUBLISH" /\ p.req \in Pubs
                        \/ p.type = "SUBSCRIBE" /\ p.req \in Subs
                     /\ IF p.req \in Pubs0 THEN p.tok = 0 ELSE p.tok \in Ids}

(* TypeOK without AttemptIsKnown, with commands of the right kind, in parts. *)
QueueTypes ==
    /\ commands \in Seq(Good)
    /\ taken \in Good \cup {None}
    /\ api \in [Threads -> Good \cup {None}]

ConnectOK(f) ==
    /\ f \in [Clients -> HeadCommands]
    /\ \A c \in Clients : f[c].type = "CONNECT" /\ f[c].client = c
DisconnectOK(f) ==
    /\ f \in [Clients -> HeadCommands]
    /\ \A c \in Clients : f[c].type = "DISCONNECT" /\ f[c].client = c

ConnTypes ==
    /\ connected \in [Clients -> BOOLEAN]
    /\ connect_state \in
         [Clients -> {"NOT_IN_PROGRESS", "TCP_IN_PROGRESS", "WAIT_FOR_CONNACK", "DISCONNECTING"}]
    /\ ConnectOK(connect)
    /\ DisconnectOK(disconnect)
    /\ shouldBeConnected \in [Clients -> BOOLEAN]
    /\ retrying \in [Clients -> BOOLEAN]

SessTypes ==
    /\ responses \in [Clients -> Seq(DataCommands)]
    /\ pending_write \in [Clients -> Int]
    /\ outboundMsgs \in [Clients -> Seq([tok : Ids, req : Pubs1])]
    /\ msgID \in [Clients -> 0 .. MaxMsgId]

StoreTypes ==
    /\ command_seqno \in [Clients -> 0 .. SeqnoLimit - 1]
    /\ store \in [Clients -> SUBSET DataCommands]
    /\ \A c \in Clients :
         /\ IsFiniteSet(store[c])
         /\ \A rec \in store[c] : rec.client = c /\ rec.key < SeqnoLimit

(* What a store can hold, now or when addCommand is interrupted.             *)
RecordSet(S, c) ==
    /\ S \subseteq DataCommands /\ IsFiniteSet(S)
    /\ \A rec \in S : rec.client = c /\ rec.key < SeqnoLimit
RecordsOK(R) ==
    R \in [Clients -> SUBSET DataCommands] /\ \A c \in Clients : RecordSet(R[c], c)

SockTypes ==
    /\ broken \in [Clients -> BOOLEAN]
    /\ partial \in [Clients -> DataPackets \cup {None}]
    /\ owed \in [Clients -> SUBSET ({p \in DataPackets : p.tok # 0} \cup {ConnectPacket})]

AppTypes ==
    /\ unused \subseteq Reqs /\ accepted \subseteq Data
    /\ told \in [Reqs -> Seq({"ok", "fail"})]

HistTypes ==
    /\ count \in Nat /\ started \in [Clients -> Nat]
    /\ dropped \subseteq Pubs /\ misread \subseteq Data
    /\ acked \subseteq Data /\ written \subseteq Data /\ cut \subseteq Pubs0
    /\ dialled \in [Clients -> Nat] /\ open \in [Clients -> Int]

EnvTypes == budget \in Budgets /\ scenario \in Scenarios

Types ==
    /\ QueueTypes /\ ConnTypes /\ SessTypes /\ StoreTypes
    /\ SockTypes /\ AppTypes /\ HistTypes /\ EnvTypes

(* The message id and the request of a command, packet or message.          *)
Pair(x) == [tok |-> x.tok, req |-> x.req]

(* The list. *)
Blank(x) == [x EXCEPT !.cb = FALSE]
(* Each accepted command is in the list once, its key no larger than its     *)
(* number (a key can be reused only after the numbers have wrapped).          *)
Datas(q) == {i \in DOMAIN q : IsData(q[i])}
ListOK(q, n) ==
    /\ \A i \in Datas(q) : q[i].n \in 1 .. n
    /\ \A i, j \in Datas(q) : q[i].n = q[j].n => i = j
    /\ \A i \in Datas(q) : q[i].key <= q[i].n
ListInv == ListOK(commands, count)
(* The commands that are stored.                                              *)
Stores(sc, x) ==
    sc.persistence /\ (x.req \in Pubs0 => sc.persistQoS0 \/ sc.maxBuffered = 0)
Lasting(q, sc) == {i \in Datas(q) : Stores(sc, q[i])}
(* A record of a client has a command in the list, and no two have one key.  *)
HasCommand(rec, q, sc) == Stores(sc, rec) /\ \E i \in Datas(q) : Blank(q[i]) = Blank(rec)
StoreOK(q, R, sc) ==
    \A c \in Clients :
        /\ \A rec \in R[c] : HasCommand(rec, q, sc)
        /\ \A x, y \in R[c] : x.key = y.key => x = y
StoreInv == StoreOK(commands, store, scenario)
CountInv == noBufferedMessages \in [Clients -> Nat] /\ BufferedCountIsTrue

(* The conditions of InOrder, and that numbers only grow.                     *)
Undisturbed == Unspent("kill") /\ Unspent("tear")
Steady == Unwrapped \/ ~scenario.persistence \/ Undisturbed
NumberInv ==
    /\ \A what \in DOMAIN budget : budget[what] <= scenario.budget[what]
    /\ \A c \in Clients : started[c] <= count /\ command_seqno[c] <= count
    /\ taken # None => taken.n <= count
(* InOrder for a list and what is started last; the command being executed   *)
(* comes before those in the list.                                            *)
OrderOK(q, st) ==
    /\ \A i \in Datas(q) : q[i].n > st[q[i].client]
    /\ \A i, j \in Datas(q) : i < j /\ q[i].client = q[j].client => q[i].n < q[j].n
TakenFirst ==
    taken # None /\ IsData(taken) =>
        /\ taken.n > started[taken.client]
        /\ \A i \in Datas(commands) : commands[i].client = taken.client => commands[i].n > taken.n
OrderInv == Steady => OrderOK(commands, started) /\ TakenFirst
(* Conversely a command that is stored has its record, in the order of the    *)
(* keys; the others have the key 0.                                           *)
KeysOK(q, sc) ==
    \A i, j \in Lasting(q, sc) : i < j /\ q[i].client = q[j].client => q[i].key < q[j].key
HasRecord(x, R) == \E rec \in R[x.client] : Blank(x) = Blank(rec)
KeyIs(x, sq, sc) ==
    IF Stores(sc, x) THEN 0 < x.key /\ x.key <= sq[x.client] ELSE x.key = 0
KeysIn(q, R, sq, sc) ==
    /\ \A i \in Lasting(q, sc) : HasRecord(q[i], R)
    /\ KeysOK(q, sc)
    /\ \A i \in Datas(q) : KeyIs(q[i], sq, sc)
KeyInv ==
    scenario.persistence /\ Unwrapped => KeysIn(commands, store, command_seqno, scenario)

-----------------------------------------------------------------------------
(* Lists                                                                    *)

LEMMA ToSetFacts ==
    ASSUME NEW T, NEW q \in Seq(T)
    PROVE  /\ ToSet(q) = {q[i] : i \in DOMAIN q}
           /\ ToSet(q) \subseteq T
<1>1. ToSet(q) = {q[i] : i \in DOMAIN q}
    BY DEF ToSet
<1> QED BY <1>1, SeqFacts

LEMMA AppendToSet ==
    ASSUME NEW T, NEW q \in Seq(T), NEW e \in T
    PROVE  /\ Append(q, e) \in Seq(T)
           /\ ToSet(Append(q, e)) = ToSet(q) \cup {e}
<1>1. Append(q, e) \in Seq(T) /\ DOMAIN q = 1 .. Len(q) /\ Len(q) \in Nat
    BY AppendFacts, SeqFacts
<1>2. /\ DOMAIN Append(q, e) = 1 .. (Len(q) + 1)
      /\ Append(q, e)[Len(q) + 1] = e
      /\ \A k \in DOMAIN q : Append(q, e)[k] = q[k]
    BY AppendFacts
<1>3. DOMAIN Append(q, e) = DOMAIN q \cup {Len(q) + 1}
    BY <1>1, <1>2
<1>4. \A x : x \in ToSet(Append(q, e)) <=> x \in ToSet(q) \cup {e}
    BY <1>1, <1>2, <1>3 DEF ToSet
<1> QED BY <1>1, <1>4

LEMMA ConsFacts ==
    ASSUME NEW T, NEW q \in Seq(T), NEW e \in T
    PROVE  /\ <<e>> \o q \in Seq(T)
           /\ DOMAIN (<<e>> \o q) = 1 .. (Len(q) + 1)
           /\ (<<e>> \o q)[1] = e
           /\ \A k \in DOMAIN q : k + 1 \in DOMAIN (<<e>> \o q) /\ (<<e>> \o q)[k + 1] = q[k]
           /\ \A k \in DOMAIN (<<e>> \o q) : k # 1 => k - 1 \in DOMAIN q /\ (<<e>> \o q)[k] = q[k - 1]
           /\ ToSet(<<e>> \o q) = ToSet(q) \cup {e}
<1> DEFINE s == <<e>> \o q
<1>0. <<e>> \in Seq(T) /\ Len(<<e>>) = 1 /\ <<e>>[1] = e
    OBVIOUS
<1>1. Len(q) \in Nat /\ DOMAIN q = 1 .. Len(q)
    BY SeqFacts
<1>2. /\ s \in Seq(T)
      /\ Len(s) = 1 + Len(q)
      /\ \A i \in 1 .. (1 + Len(q)) : s[i] = IF i <= 1 THEN <<e>>[i] ELSE q[i - 1]
    BY <1>0, <1>1, ConcatProperties
<1>3. DOMAIN s = 1 .. (Len(q) + 1)
    <2>1. DOMAIN s = 1 .. Len(s)
        BY <1>2, SeqFacts
    <2> QED BY <1>1, <1>2, <2>1
<1> HIDE DEF s
<1>4. s[1] = e
    BY <1>0, <1>1, <1>2
<1>5. \A k \in DOMAIN q : k + 1 \in DOMAIN s /\ s[k + 1] = q[k]
    BY <1>1, <1>2, <1>3
<1>6. \A k \in DOMAIN s : k # 1 => k - 1 \in DOMAIN q /\ s[k] = q[k - 1]
    BY <1>1, <1>2, <1>3
<1>7. \A x : x \in ToSet(s) <=> x \in ToSet(q) \cup {e}
    <2> TAKE x
    <2>1. ASSUME x \in ToSet(s) PROVE x \in ToSet(q) \cup {e}
        <3>1. PICK k \in DOMAIN s : x = s[k]
            BY <2>1 DEF ToSet
        <3> QED BY <3>1, <1>4, <1>6 DEF ToSet
    <2>2. ASSUME x \in ToSet(q) PROVE x \in ToSet(s)
        <3>1. PICK k \in DOMAIN q : x = q[k]
            BY <2>2 DEF ToSet
        <3> QED BY <3>1, <1>5 DEF ToSet
    <2>3. e \in ToSet(s)
        BY <1>1, <1>3, <1>4 DEF ToSet
    <2> QED BY <2>1, <2>2, <2>3
<1> QED BY <1>2, <1>3, <1>4, <1>5, <1>6, <1>7 DEF s

(* The elements that are left, and where they were. *)
Shift(k, j) == IF j < k THEN j ELSE j + 1

LEMMA RemoveAtShift ==
    ASSUME NEW T, NEW q \in Seq(T), NEW k \in DOMAIN q
    PROVE  /\ RemoveAt(q, k) \in Seq(T)
           /\ \A j \in DOMAIN RemoveAt(q, k) :
                /\ Shift(k, j) \in DOMAIN q \ {k}
                /\ RemoveAt(q, k)[j] = q[Shift(k, j)]
           /\ \A i, j \in DOMAIN RemoveAt(q, k) :
                /\ i < j => Shift(k, i) < Shift(k, j)
                /\ i # j => Shift(k, i) # Shift(k, j)
           /\ \A i \in DOMAIN q \ {k} : \E j \in DOMAIN RemoveAt(q, k) : i = Shift(k, j)
<1> DEFINE s == RemoveAt(q, k)
<1>1. Len(q) \in Nat /\ DOMAIN q = 1 .. Len(q) /\ k \in 1 .. Len(q)
    BY SeqFacts
<1>2. /\ s \in Seq(T)
      /\ DOMAIN s = 1 .. (Len(q) - 1)
      /\ \A j \in 1 .. (Len(q) - 1) : s[j] = IF j < k THEN q[j] ELSE q[j + 1]
    BY RemoveAtFacts
<1> HIDE DEF s
<1>3. \A j \in DOMAIN s : Shift(k, j) \in DOMAIN q \ {k} /\ s[j] = q[Shift(k, j)]
    BY <1>1, <1>2 DEF Shift
<1>4. \A i, j \in DOMAIN s : /\ i < j => Shift(k, i) < Shift(k, j)
                             /\ i # j => Shift(k, i) # Shift(k, j)
    BY <1>1, <1>2 DEF Shift
<1>5. \A i \in DOMAIN q \ {k} : \E j \in DOMAIN s : i = Shift(k, j)
    <2> TAKE i \in DOMAIN q \ {k}
    <2>1. CASE i < k
        BY <1>1, <1>2, <2>1 DEF Shift
    <2>2. CASE ~(i < k)
        <3>1. i - 1 \in DOMAIN s /\ i = Shift(k, i - 1)
            BY <1>1, <1>2, <2>2 DEF Shift
        <3> QED BY <3>1
    <2> QED BY <2>1, <2>2
<1> QED BY <1>2, <1>3, <1>4, <1>5 DEF s

LEMMA RemoveAtSet ==
    ASSUME NEW T, NEW q \in Seq(T), NEW k \in DOMAIN q
    PROVE  ToSet(RemoveAt(q, k)) = {q[i] : i \in DOMAIN q \ {k}}
<1> DEFINE s == RemoveAt(q, k)
<1>1. /\ \A j \in DOMAIN s : Shift(k, j) \in DOMAIN q \ {k} /\ s[j] = q[Shift(k, j)]
      /\ \A i \in DOMAIN q \ {k} : \E j \in DOMAIN s : i = Shift(k, j)
    BY RemoveAtShift
<1> HIDE DEF s
<1>2. \A x \in ToSet(s) : x \in {q[i] : i \in DOMAIN q \ {k}}
    BY <1>1 DEF ToSet
<1>3. \A i \in DOMAIN q \ {k} : q[i] \in ToSet(s)
    BY <1>1 DEF ToSet
<1>4. ToSet(s) = {q[i] : i \in DOMAIN q \ {k}}
    BY <1>2, <1>3
<1> QED BY <1>4 DEF s

LEMMA WithoutFacts ==
    ASSUME NEW T, NEW q \in Seq(T), NEW i \in DOMAIN q
    PROVE  Without(q, {i}) = RemoveAt(q, i) /\ Without(q, {}) = q
BY DEF Without

LEMMA InsertedFacts ==
    ASSUME NEW T, NEW q \in Seq(T), NEW e \in T
    PROVE  /\ Inserted(q, e) \in Seq(T)
           /\ Inserted(q, e) \in {q, <<e>> \o q}
           /\ ToSet(Inserted(q, e)) \subseteq ToSet(q) \cup {e}
<1>1. <<e>> \o q \in Seq(T) /\ ToSet(<<e>> \o q) = ToSet(q) \cup {e}
    BY ConsFacts
<1> QED BY <1>1 DEF Inserted

(* The records of a restart: each of them once, in the order of RestoredBefore. *)
LEMMA RestoredFacts ==
    ASSUME NEW S, IsFiniteSet(S), NEW order, NEW q \in Restored(S, order),
           \A x \in S : ~RestoredBefore(x, x, order)
    PROVE  /\ q \in Seq(S)
           /\ ToSet(q) = S
           /\ \A i, j \in DOMAIN q : i < j => RestoredBefore(q[i], q[j], order)
           /\ \A i, j \in DOMAIN q : q[i] = q[j] => i = j
           /\ DOMAIN q = 1 .. Len(q) /\ Len(q) \in Nat
<1> DEFINE n == Cardinality(S)
<1>1. n \in Nat
    BY FS_CardinalityType
<1>2. q \in [1 .. n -> S] /\ \A i, j \in DOMAIN q : i < j => RestoredBefore(q[i], q[j], order)
    BY DEF Restored
<1> HIDE DEF n
<1>3. q \in Seq(S) /\ DOMAIN q = 1 .. n /\ Len(q) = n
    BY <1>1, <1>2, SeqOfFunction
<1>4. \A i, j \in 1 .. n : q[i] = q[j] => i = j
    <2> TAKE i, j \in 1 .. n
    <2> HAVE q[i] = q[j]
    <2>1. q[i] \in S
        BY <1>2
    <2>2. ~(i < j) /\ ~(j < i)
        BY <1>2, <1>3, <2>1
    <2> QED BY <1>1, <2>2
<1>5. ToSet(q) = S
    <2>1. q \in Injection(1 .. n, S)
        BY <1>2, <1>4 DEF Injection, IsInjective
    <2>2. Cardinality(1 .. n) = n
        BY <1>1, FS_Interval
    <2>3. q \in Surjection(1 .. n, S)
        BY <2>1, <2>2, FS_Injection DEF n
    <2> QED BY <1>2, <1>3, <2>3 DEF Surjection, ToSet
<1> QED BY <1>1, <1>2, <1>3, <1>4, <1>5

(* A part of a list: f says where its elements were. *)
LEMMA RemainingFacts ==
    ASSUME NEW T, NEW q \in Seq(T), NEW I \in SUBSET DOMAIN q, NEW s \in Remaining(q, I)
    PROVE  /\ s \in Seq(T)
           /\ ToSet(s) = {q[i] : i \in I}
           /\ \E f \in [DOMAIN s -> I] :
                 /\ \A k \in DOMAIN s : s[k] = q[f[k]]
                 /\ \A k, l \in DOMAIN s : k < l => f[k] < f[l]
                 /\ \A i \in I : \E k \in DOMAIN s : f[k] = i
<1>1. Len(q) \in Nat /\ DOMAIN q = 1 .. Len(q)
    BY SeqFacts
<1>2. IsFiniteSet(I)
    <2>1. IsFiniteSet(1 .. Len(q))
        BY <1>1, FS_Interval
    <2> QED BY <1>1, <2>1, FS_Subset
<1> DEFINE n == Cardinality(I)
<1>3. n \in Nat
    BY <1>2, FS_CardinalityType
<1>4. PICK f \in [1 .. n -> I] : /\ \A k, l \in DOMAIN f : k < l => f[k] < f[l]
                                 /\ s = [k \in DOMAIN f |-> q[f[k]]]
    BY DEF Remaining
<1> HIDE DEF n
<1>5. DOMAIN f = 1 .. n /\ s \in [1 .. n -> T]
    <2>1. \A i \in DOMAIN q : q[i] \in T
        BY SeqFacts
    <2> QED BY <1>4, <2>1
<1>6. s \in Seq(T) /\ DOMAIN s = 1 .. n
    BY <1>3, <1>5, SeqOfFunction
<1>7. \A i \in I : \E k \in 1 .. n : f[k] = i
    <2>1. \A k, l \in 1 .. n : f[k] = f[l] => k = l
        <3> TAKE k, l \in 1 .. n
        <3> HAVE f[k] = f[l]
        <3>1. f[k] \in Int
            BY <1>1, <1>4
        <3>2. ~(k < l) /\ ~(l < k)
            BY <1>4, <1>5, <3>1
        <3> QED BY <1>3, <3>2
    <2>2. f \in Injection(1 .. n, I)
        BY <2>1 DEF Injection, IsInjective
    <2>3. Cardinality(1 .. n) = n
        BY <1>3, FS_Interval
    <2>4. f \in Surjection(1 .. n, I)
        BY <1>2, <2>2, <2>3, FS_Injection DEF n
    <2> QED BY <2>4 DEF Surjection
<1>8. \A k \in DOMAIN s : s[k] = q[f[k]]
    BY <1>4, <1>5, <1>6
<1>9. ToSet(s) = {q[i] : i \in I}
    BY <1>4, <1>6, <1>7, <1>8 DEF ToSet
<1>10. f \in [DOMAIN s -> I] /\ \A k, l \in DOMAIN s : k < l => f[k] < f[l]
    BY <1>4, <1>5, <1>6
<1>11. \A i \in I : \E k \in DOMAIN s : f[k] = i
    BY <1>6, <1>7
<1> HIDE DEF n
<1> QED BY <1>6, <1>8, <1>9, <1>10, <1>11

LEMMA ConcatFacts ==
    ASSUME NEW T, NEW s \in Seq(T), NEW u \in Seq(T)
    PROVE  /\ s \o u \in Seq(T)
           /\ DOMAIN (s \o u) = 1 .. (Len(s) + Len(u))
           /\ \A i \in DOMAIN (s \o u) :
                \/ i <= Len(s) /\ i \in DOMAIN s /\ (s \o u)[i] = s[i]
                \/ i > Len(s) /\ i - Len(s) \in DOMAIN u /\ (s \o u)[i] = u[i - Len(s)]
           /\ ToSet(s \o u) = ToSet(s) \cup ToSet(u)
<1> DEFINE w == s \o u
<1>1. /\ Len(s) \in Nat /\ DOMAIN s = 1 .. Len(s)
      /\ Len(u) \in Nat /\ DOMAIN u = 1 .. Len(u)
    BY SeqFacts
<1>2. /\ w \in Seq(T)
      /\ Len(w) = Len(s) + Len(u)
      /\ \A i \in 1 .. (Len(s) + Len(u)) : w[i] = IF i <= Len(s) THEN s[i] ELSE u[i - Len(s)]
    BY <1>1, ConcatProperties
<1>3. DOMAIN w = 1 .. (Len(s) + Len(u))
    BY <1>2, SeqFacts
<1> HIDE DEF w
<1>4. \A i \in DOMAIN w : \/ i <= Len(s) /\ i \in DOMAIN s /\ w[i] = s[i]
                          \/ i > Len(s) /\ i - Len(s) \in DOMAIN u /\ w[i] = u[i - Len(s)]
    BY <1>1, <1>2, <1>3
<1>5. \A i \in DOMAIN s : i \in DOMAIN w /\ w[i] = s[i]
    BY <1>1, <1>2, <1>3
<1>6. \A i \in DOMAIN u : i + Len(s) \in DOMAIN w /\ w[i + Len(s)] = u[i]
    BY <1>1, <1>2, <1>3
<1>7. ToSet(w) = ToSet(s) \cup ToSet(u)
    <2>1. \A x \in ToSet(w) : x \in ToSet(s) \cup ToSet(u)
        BY <1>4 DEF ToSet
    <2>2. \A x \in ToSet(s) \cup ToSet(u) : x \in ToSet(w)
        BY <1>5, <1>6 DEF ToSet
    <2> QED BY <2>1, <2>2
<1> QED BY <1>2, <1>3, <1>4, <1>7 DEF w

-----------------------------------------------------------------------------
(* Commands                                                                 *)

LEMMA NoneFacts ==
    /\ None \notin Good /\ None \notin DataPackets
    /\ None \notin Reqs /\ None \notin Data /\ None \notin Pubs
    /\ ConnectPacket # None
<1>1. ConnectPacket \in Packets
    BY MaxMsgIdAssumption DEF ConnectPacket, Packets
<1> QED BY <1>1, NoneAssumption, AsyncAssumption
        DEF Good, DataCommands, HeadCommands, DataPackets, Reqs, Data

LEMMA DisjointRequests ==
    /\ Pubs0 \cap Pubs1 = {} /\ Pubs0 \cap Subs = {} /\ Pubs1 \cap Subs = {}
    /\ Data \cap Conns = {} /\ Data \cap Discs = {} /\ Conns \cap Discs = {}
    /\ Pubs \cap Subs = {} /\ Pubs = Pubs0 \cup Pubs1
    /\ Data \subseteq Reqs /\ Conns \subseteq Reqs /\ Discs \subseteq Reqs
    /\ Pubs \subseteq Data /\ Subs \subseteq Data
BY AsyncAssumption DEF Pubs, Data, Reqs

(* Commands with a field changed. *)
LEMMA ChangeCb ==
    ASSUME NEW x \in Commands, NEW b \in BOOLEAN
    PROVE  LET y == [x EXCEPT !.cb = b]
           IN  /\ y \in Commands /\ y.cb = b
               /\ y.type = x.type /\ y.client = x.client /\ y.req = x.req /\ y.tok = x.tok
               /\ y.uri = x.uri /\ y.ver = x.ver /\ y.internal = x.internal
               /\ y.key = x.key /\ y.n = x.n
BY DEF Commands

LEMMA ChangeVer ==
    ASSUME NEW x \in Commands, NEW v \in Versions
    PROVE  LET y == [x EXCEPT !.ver = v]
           IN  /\ y \in Commands /\ y.ver = v
               /\ y.type = x.type /\ y.client = x.client /\ y.req = x.req /\ y.tok = x.tok
               /\ y.uri = x.uri /\ y.cb = x.cb /\ y.internal = x.internal
               /\ y.key = x.key /\ y.n = x.n
BY DEF Commands

(* Two commands that differ in their callbacks only. *)
LEMMA BlankEqual ==
    ASSUME NEW x \in Commands, NEW y \in Commands
    PROVE  /\ Blank(x) \in Commands /\ Blank(Blank(x)) = Blank(x)
           /\ Blank(x) = Blank(y) <=>
                /\ x.type = y.type /\ x.client = y.client /\ x.req = y.req /\ x.tok = y.tok
                /\ x.uri = y.uri /\ x.ver = y.ver /\ x.internal = y.internal
                /\ x.key = y.key /\ x.n = y.n
BY DEF Commands, Blank

(* What the kinds of commands have in common. *)
LEMMA GoodFacts ==
    ASSUME NEW x \in Good
    PROVE  /\ x \in Commands /\ x # None
           /\ x.client \in Clients /\ x.n \in Nat /\ x.key \in Nat /\ x.uri \in Nat
           /\ x.cb \in BOOLEAN /\ x.internal \in BOOLEAN /\ x.ver \in Versions
           /\ x.tok \in 0 .. MaxMsgId
           /\ x.cb => x.req \in Reqs
           /\ IsData(x) <=> x \in DataCommands
           /\ x \in DataCommands => x.req \in Data
           /\ ~IsData(x) <=> x \in HeadCommands
           /\ x.type \in {"PUBLISH", "SUBSCRIBE", "CONNECT", "DISCONNECT"}
           /\ GoesToHead(x) => ~IsData(x)
           /\ x.type \in {"CONNECT", "DISCONNECT"} <=> ~IsData(x)
<1>1. x \in Commands /\ x # None
    BY NoneFacts DEF Good, DataCommands, HeadCommands
<1>2. /\ x.client \in Clients /\ x.n \in Nat /\ x.key \in Nat /\ x.uri \in Nat
      /\ x.cb \in BOOLEAN /\ x.internal \in BOOLEAN /\ x.ver \in Versions
      /\ x.tok \in 0 .. MaxMsgId /\ x.req \in Reqs \cup {None}
      /\ x.type \in {"PUBLISH", "SUBSCRIBE", "CONNECT", "DISCONNECT"}
    BY <1>1 DEF Commands
<1>3. CASE x \in DataCommands
    <2>1. x.type \in {"PUBLISH", "SUBSCRIBE"} /\ x.req \in Data
        BY <1>3, DisjointRequests DEF DataCommands, DataKind
    <2>2. x \notin HeadCommands
        BY <2>1 DEF HeadCommands, HeadKind
    <2> QED BY <1>1, <1>2, <1>3, <2>1, <2>2, DisjointRequests DEF IsData, GoesToHead
<1>4. CASE x \in HeadCommands
    <2>1. x.type \in {"CONNECT", "DISCONNECT"} /\ (x.cb => x.req # None)
        BY <1>4 DEF HeadCommands, HeadKind
    <2>2. x \notin DataCommands
        BY <2>1 DEF DataCommands, DataKind
    <2> QED BY <1>1, <1>2, <1>4, <2>1, <2>2 DEF IsData, GoesToHead
<1> QED BY <1>3, <1>4 DEF Good

LEMMA NewHeads ==
    ASSUME NEW c \in Clients
    PROVE  /\ NoConnect(c) \in HeadCommands /\ NoConnect(c).type = "CONNECT"
           /\ NoConnect(c).client = c /\ NoConnect(c).req = None /\ ~NoConnect(c).cb
           /\ NoConnect(c).uri = 0 /\ NoConnect(c).ver = "default"
           /\ Command("DISCONNECT", c, None, 0) \in HeadCommands
           /\ Command("DISCONNECT", c, None, 0).type = "DISCONNECT"
           /\ Command("DISCONNECT", c, None, 0).client = c
           /\ ~Command("DISCONNECT", c, None, 0).cb
           /\ Internal(c) \in HeadCommands /\ Internal(c).type = "DISCONNECT"
           /\ Internal(c).client = c /\ ~Internal(c).cb
<1>0. 0 \in 0 .. MaxMsgId
    BY MaxMsgIdAssumption
<1>1. /\ NoConnect(c) \in HeadCommands /\ NoConnect(c).type = "CONNECT"
      /\ NoConnect(c).client = c /\ NoConnect(c).req = None /\ ~NoConnect(c).cb
      /\ NoConnect(c).uri = 0 /\ NoConnect(c).ver = "default"
    BY <1>0, MaxMsgIdAssumption DEF NoConnect, Command, HeadCommands, HeadKind, Commands, Versions
<1>2. /\ Command("DISCONNECT", c, None, 0) \in HeadCommands
      /\ Command("DISCONNECT", c, None, 0).type = "DISCONNECT"
      /\ Command("DISCONNECT", c, None, 0).client = c
      /\ ~Command("DISCONNECT", c, None, 0).cb
    BY <1>0, MaxMsgIdAssumption DEF Command, HeadCommands, HeadKind, Commands, Versions
<1>3. /\ Internal(c) \in HeadCommands /\ Internal(c).type = "DISCONNECT"
      /\ Internal(c).client = c /\ ~Internal(c).cb
    BY <1>0, MaxMsgIdAssumption
       DEF Internal, Command, HeadCommands, HeadKind, Commands, Versions
<1> QED BY <1>1, <1>2, <1>3

LEMMA NewRequests ==
    ASSUME NEW c \in Clients, NEW tok \in 0 .. MaxMsgId
    PROVE  /\ \A r \in Pubs1 : tok # 0 => Command("PUBLISH", c, r, tok) \in DataCommands
           /\ \A r \in Pubs0 : Command("PUBLISH", c, r, 0) \in DataCommands
           /\ \A r \in Subs : tok # 0 => Command("SUBSCRIBE", c, r, tok) \in DataCommands
           /\ \A r \in Conns : Command("CONNECT", c, r, 0) \in HeadCommands
           /\ \A r \in Discs : Command("DISCONNECT", c, r, 0) \in HeadCommands
<1>0. 0 \in 0 .. MaxMsgId /\ (tok # 0 => tok \in Ids)
    BY MaxMsgIdAssumption DEF Ids
<1>1. \A r \in Pubs1 : tok # 0 => Command("PUBLISH", c, r, tok) \in DataCommands
    BY <1>0, DisjointRequests, NoneFacts DEF Command, Commands, Versions, DataCommands, DataKind
<1>2. \A r \in Pubs0 : Command("PUBLISH", c, r, 0) \in DataCommands
    BY <1>0, DisjointRequests, NoneFacts DEF Command, Commands, Versions, DataCommands, DataKind
<1>3. \A r \in Subs : tok # 0 => Command("SUBSCRIBE", c, r, tok) \in DataCommands
    BY <1>0, DisjointRequests, NoneFacts DEF Command, Commands, Versions, DataCommands, DataKind
<1>4. \A r \in Conns : Command("CONNECT", c, r, 0) \in HeadCommands
    BY <1>0, DisjointRequests, NoneFacts DEF Command, Commands, Versions, HeadCommands, HeadKind
<1>5. \A r \in Discs : Command("DISCONNECT", c, r, 0) \in HeadCommands
    BY <1>0, DisjointRequests, NoneFacts DEF Command, Commands, Versions, HeadCommands, HeadKind
<1> QED BY <1>1, <1>2, <1>3, <1>4, <1>5

(* What a budget limits. *)
Kinds == {"loss", "partial", "kill", "tear", "fail", "dial", "resend", "timeout"}

LEMMA SpendType ==
    ASSUME budget \in Budgets, NEW what \in Kinds, Spend(what)
    PROVE  budget' \in Budgets
BY DEF Budgets, Spend, Kinds

LEMMA TellType ==
    ASSUME NEW t \in [Reqs -> Seq({"ok", "fail"})], NEW S, NEW outcome \in {"ok", "fail"}
    PROVE  Tell(t, S, outcome) \in [Reqs -> Seq({"ok", "fail"})]
<1>1. \A r \in Reqs : Append(t[r], outcome) \in Seq({"ok", "fail"})
    BY AppendFacts
<1> QED BY <1>1 DEF Tell

LEMMA AssignedFree ==
    ASSUME NEW start \in 0 .. MaxMsgId, NEW used
    PROVE  /\ AssignMsgId(start, used) \in 0 .. MaxMsgId
           /\ AssignMsgId(start, used) # 0 => AssignMsgId(start, used) \notin used
<1>1. CASE Stops(start, used) = {}
    BY <1>1, MaxMsgIdAssumption DEF AssignMsgId
<1>2. CASE Stops(start, used) # {}
    <2>1. Stops(start, used) \in SUBSET Nat
        BY MaxMsgIdAssumption DEF Stops, Ids
    <2>2. PICK k \in Stops(start, used) : \A l \in Stops(start, used) : k <= l
        BY <1>2, <2>1, LeastNatural
    <2> DEFINE first == CHOOSE m \in Stops(start, used) : \A l \in Stops(start, used) : m <= l
    <2>3. first \in Stops(start, used)
        BY <2>2
    <2> HIDE DEF first
    <2>4. AssignMsgId(start, used) = Tried(start, first)
        BY <1>2 DEF AssignMsgId, first
    <2>5. first \in Ids /\ Tried(start, first) \notin used
        BY <2>3 DEF Stops
    <2>6. Tried(start, first) \in 0 .. MaxMsgId
        BY <2>5, MaxMsgIdAssumption DEF Tried, Ids
    <2> QED BY <2>4, <2>5, <2>6
<1> QED BY <1>1, <1>2

-----------------------------------------------------------------------------
(* Types                                                                    *)

(* The changes that are made to m->connect.  Same: all but callbacks, URI   *)
(* and version stay as they are.                                            *)
Same(y, x) ==
    /\ y \in HeadCommands /\ y.type = "CONNECT" /\ y.client = x.client

LEMMA ForgetConnect ==
    ASSUME NEW x \in HeadCommands, x.type = "CONNECT"
    PROVE  LET y == [x EXCEPT !.cb = FALSE]
           IN  Same(y, x) /\ y.req = x.req /\ y.cb = FALSE /\ y.uri = x.uri /\ y.ver = x.ver
<1> DEFINE y == [x EXCEPT !.cb = FALSE]
<1>0. x \in Commands
    BY DEF HeadCommands
<1>1. /\ y \in Commands /\ y.cb = FALSE
      /\ y.type = x.type /\ y.client = x.client /\ y.req = x.req /\ y.tok = x.tok
      /\ y.uri = x.uri /\ y.ver = x.ver /\ y.internal = x.internal
      /\ y.key = x.key /\ y.n = x.n
    BY <1>0, ChangeCb
<1> HIDE DEF y
<1>2. Same(y, x)
    BY <1>1 DEF Same, HeadCommands, HeadKind
<1> QED BY <1>1, <1>2 DEF y

LEMMA ChangeVersion ==
    ASSUME NEW x \in HeadCommands, x.type = "CONNECT", NEW v \in Versions
    PROVE  LET y == [x EXCEPT !.ver = v]
           IN  Same(y, x) /\ y.req = x.req /\ y.cb = x.cb /\ y.uri = x.uri /\ y.ver = v
<1> DEFINE y == [x EXCEPT !.ver = v]
<1>0. x \in Commands
    BY DEF HeadCommands
<1>1. /\ y \in Commands /\ y.ver = v
      /\ y.type = x.type /\ y.client = x.client /\ y.req = x.req /\ y.tok = x.tok
      /\ y.uri = x.uri /\ y.cb = x.cb /\ y.internal = x.internal
      /\ y.key = x.key /\ y.n = x.n
    BY <1>0, ChangeVer
<1> HIDE DEF y
<1>2. Same(y, x)
    BY <1>1 DEF Same, HeadCommands, HeadKind
<1> QED BY <1>1, <1>2 DEF y

Requested(x, r) == [x EXCEPT !.req = r, !.cb = TRUE]
LEMMA RequestConnect ==
    ASSUME NEW x \in HeadCommands, x.type = "CONNECT", NEW r \in Conns
    PROVE  LET y == Requested(x, r)
           IN  Same(y, x) /\ y.req = r /\ y.cb = TRUE /\ y.uri = x.uri /\ y.ver = x.ver
<1> DEFINE y == [x EXCEPT !.req = r, !.cb = TRUE]
<1>0. x \in Commands /\ r \in Reqs /\ r # None
    BY DisjointRequests, NoneFacts DEF HeadCommands
<1>1. /\ y \in Commands /\ y.req = r /\ y.cb = TRUE
      /\ y.type = x.type /\ y.client = x.client /\ y.tok = x.tok
      /\ y.uri = x.uri /\ y.ver = x.ver /\ y.internal = x.internal
      /\ y.key = x.key /\ y.n = x.n
    BY <1>0 DEF Commands
<1> HIDE DEF y
<1>2. Same(y, x)
    BY <1>0, <1>1 DEF Same, HeadCommands, HeadKind
<1> QED BY <1>1, <1>2 DEF y, Requested

LEMMA NextURIFacts ==
    ASSUME NEW x \in HeadCommands, x.type = "CONNECT"
    PROVE  /\ Same(NextURI(x), x) /\ NextURI(x).req = x.req /\ NextURI(x).cb = x.cb
           /\ NextURI(x).uri = x.uri + 1
           /\ NextURI(x).ver = IF scenario.default THEN "default" ELSE x.ver
<1>0. x \in Commands
    BY DEF HeadCommands
<1> DEFINE v == IF scenario.default THEN "default" ELSE x.ver
           y == [x EXCEPT !.uri = @ + 1, !.ver = v]
<1>1. v \in Versions
    BY <1>0 DEF Commands, Versions
<1>2. NextURI(x) = y
    BY DEF NextURI
<1> HIDE DEF v
<1>3. /\ y \in Commands /\ y.uri = x.uri + 1 /\ y.ver = v
      /\ y.type = x.type /\ y.client = x.client /\ y.req = x.req /\ y.tok = x.tok
      /\ y.cb = x.cb /\ y.internal = x.internal /\ y.key = x.key /\ y.n = x.n
    <2>1. x.uri + 1 \in Nat
        BY <1>0 DEF Commands
    <2> DEFINE u == x.uri + 1
    <2> HIDE DEF u
    <2>2. y = [x EXCEPT !.uri = u, !.ver = v]
        BY DEF u
    <2>3. /\ [x EXCEPT !.uri = u, !.ver = v] \in Commands
          /\ [x EXCEPT !.uri = u, !.ver = v].uri = u /\ [x EXCEPT !.uri = u, !.ver = v].ver = v
        <3>1. u \in Nat
            BY <2>1 DEF u
        <3> QED BY <1>0, <1>1, <3>1 DEF Commands
    <2>4. /\ y.type = x.type /\ y.client = x.client /\ y.req = x.req /\ y.tok = x.tok
          /\ y.cb = x.cb /\ y.internal = x.internal /\ y.key = x.key /\ y.n = x.n
        BY <1>0 DEF Commands
    <2> QED BY <2>2, <2>3, <2>4 DEF u
<1> HIDE DEF y
<1>4. Same(y, x)
    BY <1>3 DEF Same, HeadCommands, HeadKind
<1> QED BY <1>2, <1>3, <1>4 DEF v

LEMMA NextConnectFacts ==
    ASSUME NEW x \in HeadCommands, x.type = "CONNECT", NEW was
    PROVE  /\ Same(NextConnect(x, was), x) /\ NextConnect(x, was).req = x.req
           /\ NextConnect(x, was).cb = x.cb
BY NextURIFacts DEF NextConnect, Same

(* Replacing m->connect of a client. *)
LEMMA ConnectSet ==
    ASSUME ConnectOK(connect), NEW c \in Clients, NEW y, Same(y, connect[c])
    PROVE  ConnectOK([connect EXCEPT ![c] = y])
BY DEF ConnectOK, Same

LEMMA ConnectForgotten ==
    ASSUME ConnectOK(connect), NEW c \in Clients
    PROVE  /\ ConnectOK([connect EXCEPT ![c].cb = FALSE])
           /\ [connect EXCEPT ![c].cb = FALSE] = [connect EXCEPT ![c] = [connect[c] EXCEPT !.cb = FALSE]]
<1>1. [connect EXCEPT ![c].cb = FALSE] = [connect EXCEPT ![c] = [connect[c] EXCEPT !.cb = FALSE]]
    BY DEF ConnectOK
<1>2. connect[c] \in HeadCommands /\ connect[c].type = "CONNECT"
    BY DEF ConnectOK
<1> DEFINE y == [connect[c] EXCEPT !.cb = FALSE]
<1>3. Same(y, connect[c])
    BY <1>2, ForgetConnect
<1> HIDE DEF y
<1>4. ConnectOK([connect EXCEPT ![c] = y])
    BY <1>3, ConnectSet
<1> QED BY <1>1, <1>4 DEF y

LEMMA ConnectVersion ==
    ASSUME ConnectOK(connect), NEW c \in Clients, NEW v \in Versions
    PROVE  /\ ConnectOK([connect EXCEPT ![c].ver = v])
           /\ [connect EXCEPT ![c].ver = v] = [connect EXCEPT ![c] = [connect[c] EXCEPT !.ver = v]]
<1>1. [connect EXCEPT ![c].ver = v] = [connect EXCEPT ![c] = [connect[c] EXCEPT !.ver = v]]
    BY DEF ConnectOK
<1>2. connect[c] \in HeadCommands /\ connect[c].type = "CONNECT"
    BY DEF ConnectOK
<1> DEFINE y == [connect[c] EXCEPT !.ver = v]
<1>3. Same(y, connect[c])
    BY <1>2, ChangeVersion
<1> HIDE DEF y
<1>4. ConnectOK([connect EXCEPT ![c] = y])
    BY <1>3, ConnectSet
<1> QED BY <1>1, <1>4 DEF y

LEMMA ConnectRequested ==
    ASSUME ConnectOK(connect), NEW c \in Clients, NEW r \in Conns
    PROVE  /\ ConnectOK([connect EXCEPT ![c].req = r, ![c].cb = TRUE])
           /\ [connect EXCEPT ![c].req = r, ![c].cb = TRUE] =
                [connect EXCEPT ![c] = Requested(connect[c], r)]
<1>1. [connect EXCEPT ![c].req = r, ![c].cb = TRUE] =
         [connect EXCEPT ![c] = Requested(connect[c], r)]
    BY DEF ConnectOK, Requested
<1>2. connect[c] \in HeadCommands /\ connect[c].type = "CONNECT"
    BY DEF ConnectOK
<1> DEFINE y == Requested(connect[c], r)
<1>3. Same(y, connect[c])
    BY <1>2, RequestConnect
<1> HIDE DEF y
<1>4. ConnectOK([connect EXCEPT ![c] = y])
    BY <1>3, ConnectSet
<1> QED BY <1>1, <1>4 DEF y

-----------------------------------------------------------------------------
(* Types: calls of the application                                          *)

LEMMA Kept ==
    /\ QueueTypes /\ UNCHANGED queueVars => QueueTypes'
    /\ ConnTypes /\ UNCHANGED connVars => ConnTypes'
    /\ SessTypes /\ UNCHANGED sessVars => SessTypes'
    /\ StoreTypes /\ UNCHANGED <<command_seqno, store>> => StoreTypes'
    /\ SockTypes /\ UNCHANGED sockVars => SockTypes'
    /\ AppTypes /\ UNCHANGED appVars => AppTypes'
    /\ HistTypes /\ UNCHANGED histVars => HistTypes'
    /\ EnvTypes /\ UNCHANGED <<budget, scenario>> => EnvTypes'
<1>1. QueueTypes /\ UNCHANGED queueVars => QueueTypes'
    BY DEF QueueTypes, queueVars
<1>2. ConnTypes /\ UNCHANGED connVars => ConnTypes'
    BY DEF ConnTypes, connVars, ConnectOK, DisconnectOK
<1>3. SessTypes /\ UNCHANGED sessVars => SessTypes'
    BY DEF SessTypes, sessVars
<1>4. StoreTypes /\ UNCHANGED <<command_seqno, store>> => StoreTypes'
    BY DEF StoreTypes
<1>5. SockTypes /\ UNCHANGED sockVars => SockTypes'
    BY DEF SockTypes, sockVars
<1>6. AppTypes /\ UNCHANGED appVars => AppTypes'
    BY DEF AppTypes, appVars
<1>7. HistTypes /\ UNCHANGED histVars => HistTypes'
    BY DEF HistTypes, histVars
<1>8. EnvTypes /\ UNCHANGED <<budget, scenario>> => EnvTypes'
    BY DEF EnvTypes
<1> QED BY <1>1, <1>2, <1>3, <1>4, <1>5, <1>6, <1>7, <1>8

LEMMA SpendKept ==
    ASSUME EnvTypes, UNCHANGED scenario,
           \/ UNCHANGED budget
           \/ \E what \in Kinds : Spend(what)
    PROVE  EnvTypes'
BY SpendType DEF EnvTypes

(* The first half of an API call. *)
LEMMA SendTypes ==
    ASSUME Types, NEW t \in Threads, NEW c \in Clients, NEW r \in Pubs, Send(t, c, r)
    PROVE  Types'
<1> DEFINE tok == IF r \in Pubs1 THEN NewToken(c) ELSE 0
<1>0. /\ UNCHANGED <<commands, taken, connVars, responses, pending_write, outboundMsgs,
                     storeVars, sockVars, accepted, told, histVars, budget, scenario>>
      /\ r \in Pubs1 => tok # 0
      /\ unused' = unused \ {r}
      /\ api' = [api EXCEPT ![t] = Command("PUBLISH", c, r, tok)]
      /\ msgID' = [msgID EXCEPT ![c] = IF r \in Pubs1 THEN tok ELSE @]
    BY DEF Send, Call
<1>1. tok \in 0 .. MaxMsgId
    BY AssignedFree, MaxMsgIdAssumption DEF Types, SessTypes, NewToken
<1> HIDE DEF tok
<1>2. Command("PUBLISH", c, r, tok) \in Good
    <2>1. CASE r \in Pubs1
        BY <1>0, <1>1, <2>1, NewRequests DEF Good
    <2>2. CASE r \notin Pubs1
        BY <2>2, NewRequests, <1>1, DisjointRequests DEF Good, tok
    <2> QED BY <2>1, <2>2
<1>3. QueueTypes'
    BY <1>0, <1>2 DEF Types, QueueTypes
<1>4. SessTypes'
    BY <1>0, <1>1 DEF Types, SessTypes
<1>5. AppTypes'
    BY <1>0 DEF Types, AppTypes
<1>6. ConnTypes' /\ StoreTypes' /\ SockTypes' /\ HistTypes' /\ EnvTypes'
    BY <1>0, Kept DEF Types, storeVars
<1> QED BY <1>3, <1>4, <1>5, <1>6 DEF Types

LEMMA SendRefusedTypes ==
    ASSUME Types, NEW t \in Threads, NEW c \in Clients, NEW r \in Pubs, SendRefused(t, c, r)
    PROVE  Types'
<1> DEFINE tok == IF r \in Pubs1 THEN NewToken(c) ELSE 0
<1>0. /\ UNCHANGED <<queueVars, connVars, responses, pending_write, outboundMsgs,
                     storeVars, sockVars, accepted, told, histVars, budget, scenario>>
      /\ unused' = unused \ {r}
      /\ msgID' = [msgID EXCEPT ![c] = IF r \in Pubs1 THEN tok ELSE @]
    BY DEF SendRefused
<1>1. tok \in 0 .. MaxMsgId
    BY AssignedFree, MaxMsgIdAssumption DEF Types, SessTypes, NewToken
<1> HIDE DEF tok
<1>2. SessTypes'
    BY <1>0, <1>1 DEF Types, SessTypes
<1>3. AppTypes'
    BY <1>0 DEF Types, AppTypes
<1>4. QueueTypes' /\ ConnTypes' /\ StoreTypes' /\ SockTypes' /\ HistTypes' /\ EnvTypes'
    BY <1>0, Kept DEF Types, storeVars
<1> QED BY <1>2, <1>3, <1>4 DEF Types

LEMMA SubscribeTypes ==
    ASSUME Types, NEW t \in Threads, NEW c \in Clients, NEW r \in Subs, Subscribe(t, c, r)
    PROVE  Types'
<1> DEFINE tok == NewToken(c)
<1>0. /\ UNCHANGED <<commands, taken, connVars, responses, pending_write, outboundMsgs,
                     storeVars, sockVars, accepted, told, histVars, budget, scenario>>
      /\ tok # 0
      /\ unused' = unused \ {r}
      /\ api' = [api EXCEPT ![t] = Command("SUBSCRIBE", c, r, tok)]
      /\ msgID' = [msgID EXCEPT ![c] = tok]
    BY DEF Subscribe, Call
<1>1. tok \in 0 .. MaxMsgId
    BY AssignedFree, MaxMsgIdAssumption DEF Types, SessTypes, NewToken
<1> HIDE DEF tok
<1>2. Command("SUBSCRIBE", c, r, tok) \in Good
    BY <1>0, <1>1, NewRequests DEF Good
<1>3. QueueTypes'
    BY <1>0, <1>2 DEF Types, QueueTypes
<1>4. SessTypes'
    BY <1>0, <1>1 DEF Types, SessTypes
<1>5. AppTypes'
    BY <1>0 DEF Types, AppTypes
<1>6. ConnTypes' /\ StoreTypes' /\ SockTypes' /\ HistTypes' /\ EnvTypes'
    BY <1>0, Kept DEF Types, storeVars
<1> QED BY <1>3, <1>4, <1>5, <1>6 DEF Types

LEMMA ConnectTypes ==
    ASSUME Types, NEW t \in Threads, NEW c \in Clients, NEW r \in Conns, Connect(t, c, r)
    PROVE  Types'
<1>0. /\ UNCHANGED <<commands, taken, connected, connect_state, disconnect, retrying,
                     sessVars, storeVars, sockVars, accepted, told, histVars, budget, scenario>>
      /\ unused' = unused \ {r}
      /\ api' = [api EXCEPT ![t] = Command("CONNECT", c, r, 0)]
      /\ connect' = [connect EXCEPT ![c].req = r, ![c].cb = TRUE]
      /\ shouldBeConnected' = [shouldBeConnected EXCEPT ![c] = TRUE]
    BY DEF Connect, Call
<1>1. Command("CONNECT", c, r, 0) \in Good
    BY NewRequests, MaxMsgIdAssumption DEF Good
<1>2. QueueTypes'
    BY <1>0, <1>1 DEF Types, QueueTypes
<1>3. ConnectOK(connect')
    BY <1>0, ConnectRequested DEF Types, ConnTypes
<1>4. ConnTypes'
    BY <1>0, <1>3 DEF Types, ConnTypes
<1>5. AppTypes'
    BY <1>0 DEF Types, AppTypes
<1>6. SessTypes' /\ StoreTypes' /\ SockTypes' /\ HistTypes' /\ EnvTypes'
    BY <1>0, Kept DEF Types, storeVars
<1> QED BY <1>2, <1>4, <1>5, <1>6 DEF Types

LEMMA DisconnectTypes ==
    ASSUME Types, NEW t \in Threads, NEW c \in Clients, NEW r \in Discs, Disconnect(t, c, r)
    PROVE  Types'
<1>0. /\ UNCHANGED <<commands, taken, connected, connect_state, connect, disconnect, retrying,
                     sessVars, storeVars, sockVars, accepted, told, histVars, budget, scenario>>
      /\ unused' = unused \ {r}
      /\ api' \in {api, [api EXCEPT ![t] = Command("DISCONNECT", c, r, 0)]}
      /\ shouldBeConnected' = [shouldBeConnected EXCEPT ![c] = FALSE]
    BY DEF Disconnect, Call
<1>1. Command("DISCONNECT", c, r, 0) \in Good
    BY NewRequests, MaxMsgIdAssumption DEF Good
<1>2. QueueTypes'
    BY <1>0, <1>1 DEF Types, QueueTypes
<1>4. ConnTypes'
    BY <1>0 DEF Types, ConnTypes, ConnectOK, DisconnectOK
<1>5. AppTypes'
    BY <1>0 DEF Types, AppTypes
<1>6. SessTypes' /\ StoreTypes' /\ SockTypes' /\ HistTypes' /\ EnvTypes'
    BY <1>0, Kept DEF Types, storeVars
<1> QED BY <1>2, <1>4, <1>5, <1>6 DEF Types

(* The second half. *)
LEMMA AddCommandWays ==
    ASSUME Types, NEW t \in Threads, AddCommand(t)
    PROVE  /\ api[t] \in Good /\ api[t].client \in Clients
           /\ api' = [api EXCEPT ![t] = None]
           /\ UNCHANGED <<taken, connVars, sessVars, sockVars, unused, told, started, misread,
                          acked, written, cut, dialled, open, budget, scenario>>
           /\ AddHead(api[t]) \/ AddDisconnect(api[t]) \/ AddData(api[t])
<1>1. api[t] # None /\ api' = [api EXCEPT ![t] = None]
    BY DEF AddCommand
<1>2. api[t] \in Good
    BY <1>1 DEF Types, QueueTypes
<1>3. api[t].client \in Clients
    BY <1>2, GoodFacts
<1>4. UNCHANGED <<taken, connVars, sessVars, sockVars, unused, told, started, misread,
                  acked, written, cut, dialled, open, budget, scenario>>
    BY DEF AddCommand
<1>5. AddHead(api[t]) \/ AddDisconnect(api[t]) \/ AddData(api[t])
    BY DEF AddCommand
<1> QED BY <1>1, <1>2, <1>3, <1>4, <1>5

LEMMA SeqnoType ==
    ASSUME Types, NEW c \in Clients
    PROVE  Seqno(c) \in 0 .. SeqnoLimit - 1 /\ Seqno(c) <= command_seqno[c] + 1
<1>1. command_seqno[c] \in 0 .. SeqnoLimit - 1 /\ SeqnoLimit \in Nat \ {0}
    BY AsyncAssumption DEF Types, StoreTypes
<1> DEFINE s == command_seqno[c] + 1
<1>2. s \in Nat /\ s <= SeqnoLimit
    BY <1>1
<1>3. s % SeqnoLimit \in 0 .. SeqnoLimit - 1 /\ s % SeqnoLimit <= s
    <2>1. CASE s = SeqnoLimit
        BY <1>1, <2>1
    <2>2. CASE s < SeqnoLimit
        BY <1>1, <1>2, <2>2
    <2> QED BY <1>1, <1>2, <2>1, <2>2
<1> HIDE DEF s
<1> QED BY <1>1, <1>2, <1>3 DEF Seqno, s

LEMMA NumberedFacts ==
    ASSUME Types, NEW x \in DataCommands
    PROVE  LET y == Numbered(x)
           IN  /\ y \in DataCommands /\ y \in Good
               /\ y.n = count + 1 /\ y.key = IF Persists(x) THEN Seqno(x.client) ELSE 0
               /\ y.type = x.type /\ y.client = x.client /\ y.req = x.req /\ y.tok = x.tok
               /\ y.cb = x.cb
<1> DEFINE k == IF Persists(x) THEN Seqno(x.client) ELSE 0
           m == count + 1
           y == [x EXCEPT !.n = m, !.key = k]
<1>1. x \in Commands /\ x.client \in Clients
    BY DEF DataCommands, Commands
<1>2. k \in Nat /\ m \in Nat
    BY <1>1, SeqnoType, AsyncAssumption DEF Types, HistTypes
<1>3. Numbered(x) = y
    BY DEF Numbered
<1> HIDE DEF k, m
<1>4. /\ y \in Commands /\ y.n = m /\ y.key = k
      /\ y.type = x.type /\ y.client = x.client /\ y.req = x.req /\ y.tok = x.tok
      /\ y.cb = x.cb
    BY <1>1, <1>2 DEF Commands
<1> HIDE DEF y
<1>5. y \in DataCommands
    BY <1>4 DEF DataCommands, DataKind
<1> QED BY <1>3, <1>4, <1>5 DEF Good, k, m

LEMMA OldestFacts ==
    ASSUME NEW T, NEW q \in Seq(T), NEW c, Publishes(q, c) # {}
    PROVE  /\ OldestPublish(q, c) \in Publishes(q, c)
           /\ OldestPublish(q, c) \in DOMAIN q
           /\ \A j \in Publishes(q, c) : OldestPublish(q, c) <= j
<1> DEFINE P == Publishes(q, c)
<1>1. P \in SUBSET Nat
    BY SeqFacts DEF Publishes
<1>2. PICK k \in P : \A l \in P : k <= l
    BY <1>1, LeastNatural
<1>3. OldestPublish(q, c) \in P /\ \A j \in P : OldestPublish(q, c) <= j
    BY <1>2 DEF OldestPublish
<1> QED BY <1>3 DEF Publishes

(* What is known of the list and the dropped command when data is added. *)
LEMMA AddDataFacts ==
    ASSUME Types, NEW x \in DataCommands, AddData(x)
    PROVE  LET q == Append(commands, Numbered(x))
               o == OldestPublish(q, x.client)
           IN  /\ q \in Seq(Good) /\ ToSet(q) = ToSet(commands) \cup {Numbered(x)}
               /\ x.type = "PUBLISH" /\ Full(x.client) =>
                     o \in DOMAIN q /\ q[o].type = "PUBLISH" /\ q[o].client = x.client
                     /\ q[o] \in DataCommands
<1> DEFINE y == Numbered(x)
           q == Append(commands, y)
           o == OldestPublish(q, x.client)
<1>1. y \in Good /\ y.type = x.type /\ y.client = x.client
    BY NumberedFacts
<1> HIDE DEF y
<1>2. commands \in Seq(Good)
    BY DEF Types, QueueTypes
<1>3. q \in Seq(Good) /\ ToSet(q) = ToSet(commands) \cup {y}
    BY <1>1, <1>2, AppendToSet
<1>4. DOMAIN q = 1 .. (Len(commands) + 1) /\ q[Len(commands) + 1] = y /\ Len(commands) \in Nat
    BY <1>1, <1>2, AppendFacts, SeqFacts
<1>5. ASSUME x.type = "PUBLISH"
      PROVE  /\ o \in DOMAIN q /\ q[o].type = "PUBLISH" /\ q[o].client = x.client
             /\ q[o] \in DataCommands
    <2>1. Len(commands) + 1 \in Publishes(q, x.client)
        BY <1>1, <1>4, <1>5 DEF Publishes
    <2>2. o \in Publishes(q, x.client) /\ o \in DOMAIN q
        BY <1>3, <2>1, OldestFacts
    <2>3. q[o] \in Good
        BY <1>3, <2>2, SeqFacts
    <2> QED BY <2>2, <2>3, GoodFacts DEF Publishes, IsData
<1> QED BY <1>3, <1>5 DEF y

LEMMA AddCommandTypes ==
    ASSUME Types, NEW t \in Threads, AddCommand(t)
    PROVE  Types'
<1> DEFINE x == api[t]
           c == x.client
<1>0. /\ x \in Good /\ c \in Clients
      /\ api' = [api EXCEPT ![t] = None]
      /\ UNCHANGED <<taken, connVars, sessVars, sockVars, unused, told, started, misread,
                     acked, written, cut, dialled, open, budget, scenario>>
      /\ AddHead(x) \/ AddDisconnect(x) \/ AddData(x)
    BY AddCommandWays
<1> HIDE DEF x
<1>1. commands \in Seq(Good) /\ count \in Nat
    BY DEF Types, QueueTypes, HistTypes
<1>2. CASE AddHead(x)
    <2>1. commands' \in Seq(Good)
        BY <1>0, <1>1, <1>2, InsertedFacts DEF AddHead
    <2>2. QueueTypes'
        BY <1>0, <2>1 DEF Types, QueueTypes
    <2>3. ConnTypes' /\ SessTypes' /\ SockTypes' /\ EnvTypes' /\ StoreTypes'
        BY <1>0, <1>2, Kept DEF Types, AddHead, storeVars
    <2>4. AppTypes' /\ HistTypes'
        BY <1>0, <1>2 DEF Types, AddHead, AppTypes, HistTypes
    <2> QED BY <2>2, <2>3, <2>4 DEF Types
<1>3. CASE AddDisconnect(x)
    <2>1. commands' \in Seq(Good)
        BY <1>0, <1>1, <1>3, AppendFacts DEF AddDisconnect
    <2>2. QueueTypes'
        BY <1>0, <2>1 DEF Types, QueueTypes
    <2>3. ConnTypes' /\ SessTypes' /\ SockTypes' /\ EnvTypes'
        BY <1>0, Kept DEF Types
    <2>4. AppTypes' /\ HistTypes'
        BY <1>0, <1>3 DEF Types, AddDisconnect, AppTypes, HistTypes
    <2>5. Seqno(c) \in 0 .. SeqnoLimit - 1
        BY <1>0, SeqnoType
    <2>6. StoreTypes'
        BY <1>0, <1>3, <2>5 DEF Types, AddDisconnect, StoreTypes
    <2> QED BY <2>2, <2>3, <2>4, <2>6 DEF Types
<1>4. CASE AddData(x)
    <2>0. x \in DataCommands
        BY <1>0, <1>4, GoodFacts DEF AddData
    <2> DEFINE y == Numbered(x)
               q == Append(commands, y)
               o == OldestPublish(q, c)
               full == x.type = "PUBLISH" /\ Full(c)
    <2>1. /\ y \in DataCommands /\ y.client = c
          /\ y.key = IF Persists(x) THEN Seqno(c) ELSE 0
        BY <2>0, NumberedFacts
    <2>2. /\ q \in Seq(Good)
          /\ full => o \in DOMAIN q /\ q[o] \in DataCommands /\ q[o].type = "PUBLISH"
        BY <1>4, <2>0, AddDataFacts
    <2>3. /\ commands' = IF full THEN RemoveAt(q, o) ELSE q
          /\ \/ command_seqno' = command_seqno
             \/ command_seqno' = [command_seqno EXCEPT ![c] = Seqno(c)]
          /\ \/ store' = store
             \/ \E gone : store' = [store EXCEPT ![c] = Stored(y, gone)]
          /\ dropped' = dropped \cup {z.req : z \in IF full THEN {q[o]} ELSE {}}
          /\ accepted' = accepted \cup {x.req}
          /\ count' = count + 1
        <3>1. /\ commands' = IF full THEN RemoveAt(q, o) ELSE q
              /\ dropped' = dropped \cup {z.req : z \in IF full THEN {q[o]} ELSE {}}
              /\ accepted' = accepted \cup {x.req}
              /\ count' = count + 1
            BY <1>4 DEF AddData
        <3>2. command_seqno' = [command_seqno EXCEPT ![c] = IF Persists(x) THEN Seqno(c) ELSE @]
            BY <1>4 DEF AddData
        <3>3. command_seqno' = command_seqno \/ command_seqno' = [command_seqno EXCEPT ![c] = Seqno(c)]
            BY <1>0, <3>2 DEF Types, StoreTypes
        <3>4. \/ store' = store
              \/ \E gone : store' = [store EXCEPT ![c] = Stored(y, gone)]
            BY <1>4 DEF AddData
        <3> QED BY <3>1, <3>3, <3>4
    <2> HIDE DEF y, o, full
    <2>4. commands' \in Seq(Good)
        BY <2>2, <2>3, RemoveAtFacts
    <2>5. QueueTypes'
        BY <1>0, <2>4 DEF Types, QueueTypes
    <2>6. ConnTypes' /\ SessTypes' /\ SockTypes' /\ EnvTypes'
        BY <1>0, Kept DEF Types
    <2>7. full => q[o].req \in Pubs
        <3> HIDE DEF q
        <3> QED BY <2>2, DisjointRequests DEF DataCommands, DataKind
    <2>8. AppTypes' /\ HistTypes'
        <3> HIDE DEF q
        <3>1. x.req \in Data
            BY <1>0, <2>0, GoodFacts
        <3>2. dropped' \subseteq Pubs
            BY <2>3, <2>7 DEF Types, HistTypes
        <3> QED BY <1>0, <1>1, <2>3, <3>1, <3>2 DEF Types, AppTypes, HistTypes
    <2>9. StoreTypes'
        <3> HIDE DEF q
        <3>1. Seqno(c) \in 0 .. SeqnoLimit - 1 /\ y.key < SeqnoLimit
            BY <1>0, <2>1, SeqnoType, AsyncAssumption
        <3>2. command_seqno' \in [Clients -> 0 .. SeqnoLimit - 1]
            BY <1>0, <2>3, <3>1 DEF Types, StoreTypes
        <3>3. ASSUME NEW gone
              PROVE  /\ Stored(y, gone) \in SUBSET DataCommands
                     /\ IsFiniteSet(Stored(y, gone))
                     /\ \A rec \in Stored(y, gone) : rec.client = c /\ rec.key < SeqnoLimit
            <4>1. Stored(y, gone) \subseteq store[c] \cup {y}
                BY <2>1 DEF Stored, WithRecord
            <4>2. IsFiniteSet(store[c] \cup {y})
                BY <1>0, FS_AddElement DEF Types, StoreTypes
            <4>3. IsFiniteSet(Stored(y, gone))
                BY <4>1, <4>2, FS_Subset
            <4> QED BY <1>0, <2>1, <3>1, <4>1, <4>3 DEF Types, StoreTypes
        <3> QED BY <1>0, <2>3, <3>2, <3>3 DEF Types, StoreTypes
    <2> QED BY <2>5, <2>6, <2>8, <2>9 DEF Types
<1> QED BY <1>0, <1>2, <1>3, <1>4

(* The CONNECT that a retry queues. *)
Again(c) == IF scenario.default THEN [connect[c] EXCEPT !.ver = "default"] ELSE connect[c]

LEMMA AgainFacts ==
    ASSUME ConnTypes, NEW c \in Clients
    PROVE  /\ Again(c) \in Good /\ Same(Again(c), connect[c])
           /\ Again(c).req = connect[c].req /\ Again(c).cb = connect[c].cb
           /\ Again(c).uri = connect[c].uri
           /\ scenario.default => Again(c).ver = "default"
           /\ Again(c).client = c
<1>1. /\ connect[c] \in HeadCommands /\ connect[c].type = "CONNECT" /\ connect[c].client = c
    BY DEF ConnTypes, ConnectOK
<1> DEFINE y == [connect[c] EXCEPT !.ver = "default"]
<1>2. /\ Same(y, connect[c]) /\ y.req = connect[c].req /\ y.cb = connect[c].cb
      /\ y.uri = connect[c].uri /\ y.ver = "default"
    BY <1>1, ChangeVersion DEF Versions
<1> HIDE DEF y
<1> QED BY <1>1, <1>2 DEF Again, Same, Good, y

LEMMA ReconnectTypes ==
    ASSUME Types, NEW c \in Clients, Reconnect(c)
    PROVE  Types'
<1>0. /\ UNCHANGED <<taken, api, connected, connect_state, connect, disconnect, shouldBeConnected,
                     sessVars, storeVars, sockVars, appVars, histVars, scenario>>
      /\ commands' \in {commands, Inserted(commands, Again(c))}
      /\ retrying' \in {retrying, [retrying EXCEPT ![c] = TRUE]}
      /\ Spend("timeout")
    BY DEF Reconnect, Again
<1>1. commands' \in Seq(Good)
    <2>1. commands \in Seq(Good) /\ Again(c) \in Good
        BY AgainFacts DEF Types, QueueTypes
    <2>2. Inserted(commands, Again(c)) \in Seq(Good)
        BY <2>1, InsertedFacts
    <2> QED BY <1>0, <2>1, <2>2
<1>2. QueueTypes'
    BY <1>0, <1>1 DEF Types, QueueTypes
<1>3. ConnTypes'
    BY <1>0 DEF Types, ConnTypes, ConnectOK, DisconnectOK
<1>4. EnvTypes'
    BY <1>0, SpendKept DEF Types, Kinds
<1>5. SessTypes' /\ StoreTypes' /\ SockTypes' /\ AppTypes' /\ HistTypes'
    BY <1>0, Kept DEF Types, storeVars
<1> QED BY <1>2, <1>3, <1>4, <1>5 DEF Types

LEMMA RetryTimerTypes ==
    ASSUME Types, NEW c \in Clients, RetryTimer(c)
    PROVE  Types'
<1>0. /\ UNCHANGED <<taken, api, connVars, sessVars, storeVars, sockVars, appVars, histVars,
                     budget, scenario>>
      /\ commands' = Inserted(commands, Again(c))
    BY DEF RetryTimer, Again, RetryingStill, connVars
<1>1. commands' \in Seq(Good)
    <2>1. commands \in Seq(Good) /\ Again(c) \in Good
        BY AgainFacts DEF Types, QueueTypes
    <2>2. Inserted(commands, Again(c)) \in Seq(Good)
        BY <2>1, InsertedFacts
    <2> QED BY <1>0, <2>1, <2>2
<1>2. QueueTypes'
    BY <1>0, <1>1 DEF Types, QueueTypes
<1>3. ConnTypes' /\ SessTypes' /\ StoreTypes' /\ SockTypes' /\ AppTypes' /\ HistTypes' /\ EnvTypes'
    BY <1>0, Kept DEF Types, storeVars
<1> QED BY <1>2, <1>3 DEF Types

LEMMA PartialFacts ==
    ASSUME SockTypes, NEW c \in Clients, partial[c] # None
    PROVE  partial[c] \in DataPackets /\ partial[c].req \in Data
<1>1. partial[c] \in DataPackets
    BY DEF SockTypes
<1> QED BY <1>1, DisjointRequests DEF DataPackets

LEMMA CloseOnlyTypes ==
    ASSUME ConnTypes, SockTypes, HistTypes, NEW c \in Clients, CloseOnly(c)
    PROVE  /\ connected' \in [Clients -> BOOLEAN]
           /\ connect_state' \in [Clients -> {"NOT_IN_PROGRESS", "TCP_IN_PROGRESS",
                                              "WAIT_FOR_CONNACK", "DISCONNECTING"}]
           /\ SockTypes'
           /\ cut' \subseteq Pubs0
BY DEF CloseOnly, ConnTypes, SockTypes, HistTypes

LEMMA CleanSessionTypes ==
    ASSUME SessTypes, HistTypes, NEW c \in Clients, NEW cleans,
           NEW t \in [Reqs -> Seq({"ok", "fail"})], CleanSession(c, cleans, t)
    PROVE  SessTypes' /\ told' \in [Reqs -> Seq({"ok", "fail"})]
<1>1. CASE ~cleans
    BY <1>1 DEF CleanSession, SessTypes
<1>2. CASE cleans
    <2>1. /\ outboundMsgs' = [outboundMsgs EXCEPT ![c] = <<>>]
          /\ msgID' = [msgID EXCEPT ![c] = 0]
          /\ responses' = [responses EXCEPT ![c] = <<>>]
          /\ told' = Tell(t, ReqsOf(ToSet(responses[c])), "fail")
          /\ pending_write' = [pending_write EXCEPT ![c] = IF @ > 0 THEN -count ELSE @]
        BY <1>2 DEF CleanSession
    <2>2. 0 \in 0 .. MaxMsgId /\ -count \in Int
        BY MaxMsgIdAssumption DEF HistTypes
    <2>3. <<>> \in Seq(DataCommands) /\ <<>> \in Seq([tok : Ids, req : Pubs1])
        OBVIOUS
    <2>4. SessTypes'
        BY <2>1, <2>2, <2>3 DEF SessTypes
    <2> QED BY <2>1, <2>4, TellType
<1> QED BY <1>1, <1>2

(* nextOrClose: it queues another CONNECT or gives up. *)
LEMMA NextOrCloseWays ==
    ASSUME Types, NEW c \in Clients, NEW was \in BOOLEAN, NEW ended \in BOOLEAN,
           NextOrClose(c, was, ended)
    PROVE  /\ CloseOnly(c)
           /\ UNCHANGED <<taken, api, disconnect, shouldBeConnected, storeVars, unused, accepted,
                          count, started, dropped, misread, acked, written, dialled, scenario>>
           /\ open' = [open EXCEPT ![c] = @ - (IF was \/ ended THEN 1 ELSE 0)]
           /\ NextConnect(connect[c], was) \in Good
           /\ \/ /\ CheckConn(connect[c], was)
                 /\ ~Duplicate(commands, NextConnect(connect[c], was))
                 /\ commands' = <<NextConnect(connect[c], was)>> \o commands
                 /\ UNCHANGED <<connect, retrying, sessVars, told>>
              \/ /\ CleanSession(c, scenario.clean, Tell(told, Callbacks(connect[c]), "fail"))
                 /\ connect' = [connect EXCEPT ![c].cb = FALSE]
                 /\ retrying' = [retrying EXCEPT ![c] = @ \/ (scenario.auto /\ shouldBeConnected[c])]
                 /\ UNCHANGED commands
<1>1. NextConnect(connect[c], was) \in Good
    BY NextConnectFacts DEF Types, ConnTypes, ConnectOK, Same, Good
<1>2. open' = [open EXCEPT ![c] = @ - (IF was \/ ended THEN 1 ELSE 0)]
    BY DEF NextOrClose, LostCalls
<1>3. /\ CloseOnly(c)
      /\ UNCHANGED <<taken, api, disconnect, shouldBeConnected, storeVars, unused, accepted,
                     count, started, dropped, misread, acked, written, dialled, scenario>>
      /\ \/ /\ CheckConn(connect[c], was)
            /\ ~Duplicate(commands, NextConnect(connect[c], was))
            /\ commands' = <<NextConnect(connect[c], was)>> \o commands
            /\ UNCHANGED <<connect, retrying, sessVars, told>>
         \/ /\ CleanSession(c, scenario.clean, Tell(told, Callbacks(connect[c]), "fail"))
            /\ connect' = [connect EXCEPT ![c].cb = FALSE]
            /\ retrying' = [retrying EXCEPT ![c] = @ \/ (scenario.auto /\ shouldBeConnected[c])]
            /\ UNCHANGED commands
    BY DEF NextOrClose, StartConnectRetry
<1> QED BY <1>1, <1>2, <1>3

LEMMA RetryType ==
    ASSUME ConnTypes, EnvTypes, NEW c \in Clients
    PROVE  [retrying EXCEPT ![c] = @ \/ (scenario.auto /\ shouldBeConnected[c])] \in [Clients -> BOOLEAN]
<1>1. scenario.auto \in BOOLEAN
    BY AsyncAssumption DEF EnvTypes, Scenario
<1> QED BY <1>1 DEF ConnTypes

LEMMA NextOrCloseTypes ==
    ASSUME Types, NEW c \in Clients, NEW was \in BOOLEAN, NEW ended \in BOOLEAN,
           NextOrClose(c, was, ended), EnvTypes'
    PROVE  Types'
<1>0. /\ CloseOnly(c)
      /\ UNCHANGED <<taken, api, disconnect, shouldBeConnected, storeVars, unused, accepted,
                     count, started, dropped, misread, acked, written, dialled, scenario>>
      /\ open' = [open EXCEPT ![c] = @ - (IF was \/ ended THEN 1 ELSE 0)]
      /\ NextConnect(connect[c], was) \in Good
      /\ \/ /\ commands' = <<NextConnect(connect[c], was)>> \o commands
            /\ UNCHANGED <<connect, retrying, sessVars, told>>
         \/ /\ CleanSession(c, scenario.clean, Tell(told, Callbacks(connect[c]), "fail"))
            /\ connect' = [connect EXCEPT ![c].cb = FALSE]
            /\ retrying' = [retrying EXCEPT ![c] = @ \/ (scenario.auto /\ shouldBeConnected[c])]
            /\ UNCHANGED commands
    BY NextOrCloseWays
<1>1. /\ connected' \in [Clients -> BOOLEAN]
      /\ connect_state' \in [Clients -> {"NOT_IN_PROGRESS", "TCP_IN_PROGRESS",
                                         "WAIT_FOR_CONNACK", "DISCONNECTING"}]
      /\ SockTypes'
      /\ cut' \subseteq Pubs0
    BY <1>0, CloseOnlyTypes DEF Types
<1>2. open' \in [Clients -> Int]
    BY <1>0 DEF Types, HistTypes
<1>3. HistTypes'
    BY <1>0, <1>1, <1>2 DEF Types, HistTypes
<1>4. StoreTypes'
    BY <1>0, Kept DEF Types, storeVars
<1>5. Tell(told, Callbacks(connect[c]), "fail") \in [Reqs -> Seq({"ok", "fail"})]
    BY TellType DEF Types, AppTypes
<1>6. SessTypes' /\ told' \in [Reqs -> Seq({"ok", "fail"})]
    <2>1. CASE UNCHANGED <<sessVars, told>>
        BY <2>1, Kept DEF Types, AppTypes
    <2>2. CASE CleanSession(c, scenario.clean, Tell(told, Callbacks(connect[c]), "fail"))
        BY <1>5, <2>2, CleanSessionTypes DEF Types
    <2> QED BY <1>0, <2>1, <2>2
<1>7. AppTypes'
    BY <1>0, <1>6 DEF Types, AppTypes
<1>8. commands' \in Seq(Good)
    <2>1. commands \in Seq(Good)
        BY DEF Types, QueueTypes
    <2>2. <<NextConnect(connect[c], was)>> \o commands \in Seq(Good)
        BY <1>0, <2>1, ConsFacts
    <2> QED BY <1>0, <2>1, <2>2
<1>9. QueueTypes'
    BY <1>0, <1>8 DEF Types, QueueTypes
<1>10. ConnectOK(connect') /\ retrying' \in [Clients -> BOOLEAN]
    <2>1. ConnectOK(connect) /\ ConnectOK([connect EXCEPT ![c].cb = FALSE])
        BY ConnectForgotten DEF Types, ConnTypes
    <2>2. retrying \in [Clients -> BOOLEAN]
        BY DEF Types, ConnTypes
    <2>3. [retrying EXCEPT ![c] = @ \/ (scenario.auto /\ shouldBeConnected[c])] \in [Clients -> BOOLEAN]
        BY RetryType DEF Types
    <2>4. connect' \in {connect, [connect EXCEPT ![c].cb = FALSE]}
        BY <1>0
    <2>5. retrying' \in {retrying, [retrying EXCEPT ![c] = @ \/ (scenario.auto /\ shouldBeConnected[c])]}
        BY <1>0
    <2>6. ConnectOK(connect')
        BY <2>1, <2>4
    <2> QED BY <2>2, <2>3, <2>5, <2>6
<1>11. ConnTypes'
    BY <1>0, <1>1, <1>10 DEF Types, ConnTypes, DisconnectOK
<1> QED BY <1>3, <1>4, <1>1, <1>6, <1>7, <1>9, <1>11 DEF Types

-----------------------------------------------------------------------------
(* Types: the send thread                                                   *)

LEMMA CloseForDisconnectTypes ==
    ASSUME Types, NEW c \in Clients, NEW x, NEW t \in [Reqs -> Seq({"ok", "fail"})],
           CloseForDisconnect(c, x, t)
    PROVE  /\ connected' \in [Clients -> BOOLEAN]
           /\ connect_state' \in [Clients -> {"NOT_IN_PROGRESS", "TCP_IN_PROGRESS",
                                              "WAIT_FOR_CONNACK", "DISCONNECTING"}]
           /\ SockTypes' /\ cut' \subseteq Pubs0
           /\ SessTypes' /\ told' \in [Reqs -> Seq({"ok", "fail"})]
           /\ open' \in [Clients -> Int]
           /\ retrying' \in [Clients -> BOOLEAN]
<1> DEFINE u == IF x.internal THEN t ELSE Tell(t, Callbacks(x), "ok")
<1>1. u \in [Reqs -> Seq({"ok", "fail"})]
    BY TellType
<1>2. /\ CloseOnly(c) /\ CleanSession(c, scenario.clean, u)
      /\ open' = [open EXCEPT ![c] = IF connected[c] THEN @ - 1 ELSE @]
      /\ retrying' \in {retrying, [retrying EXCEPT ![c] = @ \/ (scenario.auto /\ shouldBeConnected[c])]}
    BY DEF CloseForDisconnect, StartConnectRetry
<1> HIDE DEF u
<1>3. SessTypes' /\ told' \in [Reqs -> Seq({"ok", "fail"})]
    BY <1>1, <1>2, CleanSessionTypes DEF Types
<1>4. open' \in [Clients -> Int]
    BY <1>2 DEF Types, HistTypes
<1>5. retrying' \in [Clients -> BOOLEAN]
    BY <1>2, RetryType DEF Types, ConnTypes
<1>6. /\ connected' \in [Clients -> BOOLEAN]
      /\ connect_state' \in [Clients -> {"NOT_IN_PROGRESS", "TCP_IN_PROGRESS",
                                         "WAIT_FOR_CONNACK", "DISCONNECTING"}]
      /\ SockTypes' /\ cut' \subseteq Pubs0
    BY <1>2, CloseOnlyTypes DEF Types
<1> QED BY <1>3, <1>4, <1>5, <1>6

(* The command that is taken: the first one of its client. *)
FirstTakeable ==
    LET able == Takeable(commands, {i \in DOMAIN commands : Blocked(commands[i])})
    IN  CHOOSE i \in able : \A j \in able : i <= j

LEMMA TakeWays ==
    ASSUME Types, Take
    PROVE  /\ FirstTakeable \in DOMAIN commands
           /\ commands[FirstTakeable] \in Good
           /\ ~Blocked(commands[FirstTakeable])
           /\ \A j \in 1 .. FirstTakeable - 1 :
                commands[j].client # commands[FirstTakeable].client
           /\ taken = None /\ taken' = commands[FirstTakeable]
           /\ commands' = RemoveAt(commands, FirstTakeable)
           /\ noBufferedMessages' =
                [noBufferedMessages EXCEPT ![taken'.client] = IF taken'.type = "PUBLISH" THEN @ - 1 ELSE @]
           /\ store' = [store EXCEPT ![taken'.client] = Unpersisted(taken')]
           /\ UNCHANGED <<api, connVars, sessVars, command_seqno, sockVars, appVars, histVars,
                          budget, scenario>>
<1> DEFINE able == Takeable(commands, {i \in DOMAIN commands : Blocked(commands[i])})
<1>1. able # {} /\ able \in SUBSET DOMAIN commands
    BY DEF Take, Takeable
<1>2. able \in SUBSET Nat
    BY <1>1, SeqFacts DEF Types, QueueTypes
<1>3. \E k \in able : \A l \in able : k <= l
    BY <1>1, <1>2, LeastNatural
<1>4. FirstTakeable \in able
    BY <1>3 DEF FirstTakeable
<1>5. /\ FirstTakeable \in DOMAIN commands
      /\ ~Blocked(commands[FirstTakeable])
      /\ \A j \in 1 .. FirstTakeable - 1 : commands[j].client # commands[FirstTakeable].client
    BY <1>4 DEF Takeable
<1>6. commands[FirstTakeable] \in Good
    BY <1>5, SeqFacts DEF Types, QueueTypes
<1>7. /\ taken = None /\ taken' = commands[FirstTakeable]
      /\ commands' = RemoveAt(commands, FirstTakeable)
      /\ noBufferedMessages' =
           [noBufferedMessages EXCEPT ![taken'.client] = IF taken'.type = "PUBLISH" THEN @ - 1 ELSE @]
      /\ store' = [store EXCEPT ![taken'.client] = Unpersisted(taken')]
      /\ UNCHANGED <<api, connVars, sessVars, command_seqno, sockVars, appVars, histVars,
                     budget, scenario>>
    BY DEF Take, FirstTakeable, AsyncMutexFree
<1> QED BY <1>5, <1>6, <1>7

LEMMA TakeTypes ==
    ASSUME Types, Take
    PROVE  Types'
<1> DEFINE k == FirstTakeable
<1>0. /\ k \in DOMAIN commands /\ commands[k] \in Good
      /\ taken' = commands[k] /\ commands' = RemoveAt(commands, k)
      /\ store' = [store EXCEPT ![taken'.client] = Unpersisted(taken')]
      /\ UNCHANGED <<api, connVars, sessVars, command_seqno, sockVars, appVars, histVars,
                     budget, scenario>>
    BY TakeWays
<1> HIDE DEF k
<1>1. commands' \in Seq(Good)
    BY <1>0, RemoveAtFacts DEF Types, QueueTypes
<1>2. QueueTypes'
    BY <1>0, <1>1 DEF Types, QueueTypes
<1>3. taken'.client \in Clients
    BY <1>0, GoodFacts
<1>4. Unpersisted(taken') \subseteq store[taken'.client]
    BY DEF Unpersisted
<1>5. StoreTypes'
    <2>1. IsFiniteSet(Unpersisted(taken'))
        BY <1>3, <1>4, FS_Subset DEF Types, StoreTypes
    <2> QED BY <1>0, <1>3, <1>4, <2>1 DEF Types, StoreTypes
<1>6. ConnTypes' /\ SessTypes' /\ SockTypes' /\ AppTypes' /\ HistTypes' /\ EnvTypes'
    BY <1>0, Kept DEF Types
<1> QED BY <1>2, <1>5, <1>6 DEF Types

LEMMA TakenFacts ==
    ASSUME Types, taken # None
    PROVE  /\ taken \in Good /\ taken.client \in Clients
           /\ taken.type = "CONNECT" => taken \in HeadCommands
           /\ taken.type = "DISCONNECT" => taken \in HeadCommands
           /\ IsData(taken) => taken \in DataCommands
BY GoodFacts DEF Types, QueueTypes

LEMMA ExecConnectBusyTypes ==
    ASSUME Types, ExecConnectBusy
    PROVE  Types'
<1> DEFINE c == taken.client
<1>0. /\ taken # None /\ taken.type = "CONNECT"
      /\ connect' = [connect EXCEPT ![c] = taken]
      /\ taken' = None
      /\ UNCHANGED <<commands, api, connected, connect_state, disconnect, shouldBeConnected,
                     retrying, sessVars, storeVars, sockVars, appVars, histVars, budget, scenario>>
    BY DEF ExecConnectBusy
<1>1. taken \in HeadCommands /\ c \in Clients
    BY <1>0, TakenFacts
<1>2. QueueTypes'
    BY <1>0 DEF Types, QueueTypes
<1>3. ConnTypes'
    BY <1>0, <1>1 DEF Types, ConnTypes, ConnectOK, DisconnectOK
<1>4. SessTypes' /\ StoreTypes' /\ SockTypes' /\ AppTypes' /\ HistTypes' /\ EnvTypes'
    BY <1>0, Kept DEF Types, storeVars
<1> QED BY <1>2, <1>3, <1>4 DEF Types

(* The CONNECT that is tried. *)
TriedConnect == [taken EXCEPT !.ver = VersionOf(taken)]

LEMMA TriedFacts ==
    ASSUME Types, taken # None, taken.type = "CONNECT"
    PROVE  /\ taken \in HeadCommands /\ taken.client \in Clients
           /\ Same(TriedConnect, taken)
           /\ TriedConnect.req = taken.req /\ TriedConnect.cb = taken.cb
           /\ TriedConnect.uri = taken.uri /\ TriedConnect.ver = VersionOf(taken)
           /\ TriedConnect.client = taken.client /\ taken.uri \in Nat
<1>1. taken \in HeadCommands /\ taken.client \in Clients /\ taken.uri \in Nat
    BY TakenFacts, GoodFacts
<1>2. VersionOf(taken) \in Versions
    BY DEF VersionOf, Versions
<1> DEFINE y == TriedConnect
<1>3. /\ Same(y, taken) /\ y.req = taken.req /\ y.cb = taken.cb
      /\ y.uri = taken.uri /\ y.ver = VersionOf(taken)
    BY <1>1, <1>2, ChangeVersion DEF TriedConnect
<1> QED BY <1>1, <1>3 DEF Same

LEMMA ExecConnectWays ==
    ASSUME Types, ExecConnect
    PROVE  LET c == taken.client
           IN  /\ taken # None /\ taken.type = "CONNECT"
               /\ connect_state[c] = "NOT_IN_PROGRESS" /\ ~connected[c]
               /\ \E s \in {"TCP_IN_PROGRESS", "WAIT_FOR_CONNACK"} :
                    connect_state' = [connect_state EXCEPT ![c] = s]
               /\ owed' \in {owed, [owed EXCEPT ![c] = {ConnectPacket}]}
               /\ connect' = [connect EXCEPT ![c] = TriedConnect]
               /\ dialled' = [dialled EXCEPT ![c] = taken.uri]
               /\ taken' = None
               /\ UNCHANGED <<commands, api, connected, disconnect, shouldBeConnected, retrying,
                              sessVars, storeVars, broken, partial, appVars, count, started,
                              dropped, misread, acked, written, cut, open, budget, scenario>>
BY DEF ExecConnect, TriedConnect

LEMMA ExecConnectTypes ==
    ASSUME Types, ExecConnect
    PROVE  Types'
<1> DEFINE c == taken.client
<1>0. /\ taken # None /\ taken.type = "CONNECT"
      /\ \E s \in {"TCP_IN_PROGRESS", "WAIT_FOR_CONNACK"} :
           connect_state' = [connect_state EXCEPT ![c] = s]
      /\ owed' \in {owed, [owed EXCEPT ![c] = {ConnectPacket}]}
      /\ connect' = [connect EXCEPT ![c] = TriedConnect]
      /\ dialled' = [dialled EXCEPT ![c] = taken.uri]
      /\ taken' = None
      /\ UNCHANGED <<commands, api, connected, disconnect, shouldBeConnected, retrying,
                     sessVars, storeVars, broken, partial, appVars, count, started, dropped,
                     misread, acked, written, cut, open, budget, scenario>>
    BY ExecConnectWays
<1>1. /\ taken \in HeadCommands /\ c \in Clients /\ taken.uri \in Nat
      /\ Same(TriedConnect, taken)
    BY <1>0, TriedFacts
<1>2. QueueTypes'
    BY <1>0 DEF Types, QueueTypes
<1>3. ConnectOK(connect')
    BY <1>0, <1>1 DEF Types, ConnTypes, ConnectOK, Same
<1>4. connect_state' \in [Clients -> {"NOT_IN_PROGRESS", "TCP_IN_PROGRESS",
                                      "WAIT_FOR_CONNACK", "DISCONNECTING"}]
    BY <1>0, <1>1 DEF Types, ConnTypes
<1>5. ConnTypes'
    BY <1>0, <1>3, <1>4 DEF Types, ConnTypes, DisconnectOK
<1>6. SockTypes'
    BY <1>0, <1>1 DEF Types, SockTypes
<1>7. HistTypes'
    BY <1>0, <1>1 DEF Types, HistTypes
<1>8. SessTypes' /\ StoreTypes' /\ AppTypes' /\ EnvTypes'
    BY <1>0, Kept DEF Types, storeVars
<1> QED BY <1>2, <1>5, <1>6, <1>7, <1>8 DEF Types

(* The CONNECT that follows one that failed at once. *)
NextTry ==
    IF scenario.default /\ TriedConnect.ver # "3.1" THEN TriedConnect ELSE NextURI(TriedConnect)

LEMMA ExecConnectFailsWays ==
    ASSUME Types, ExecConnectFails
    PROVE  LET c == taken.client
           IN  /\ taken # None /\ taken.type = "CONNECT"
               /\ connect_state[c] = "NOT_IN_PROGRESS" /\ ~connected[c]
               /\ Spend("dial")
               /\ shouldBeConnected' = [shouldBeConnected EXCEPT ![c] = TRUE]
               /\ dialled' = [dialled EXCEPT ![c] = taken.uri]
               /\ taken' = None
               /\ \/ /\ CheckConn(TriedConnect, FALSE)
                     /\ commands' = Inserted(commands, NextTry)
                     /\ UNCHANGED <<connect, told, retrying>>
                  \/ /\ told' = Tell(told, Callbacks(TriedConnect), "fail")
                     /\ connect' = [connect EXCEPT ![c] = TriedConnect]
                     /\ retrying' = [retrying EXCEPT ![c] = @ \/ scenario.auto]
                     /\ UNCHANGED commands
               /\ UNCHANGED <<api, connected, connect_state, disconnect, sessVars, storeVars,
                              sockVars, unused, accepted, count, started, dropped, misread, acked,
                              written, cut, open, scenario>>
BY DEF ExecConnectFails, TriedConnect, NextTry, StartConnectRetry

LEMMA NextTryFacts ==
    ASSUME Types, taken # None, taken.type = "CONNECT"
    PROVE  /\ Same(NextTry, taken) /\ NextTry \in Good
           /\ NextTry.req = taken.req /\ NextTry.cb = taken.cb
<1>1. Same(TriedConnect, taken) /\ TriedConnect.req = taken.req /\ TriedConnect.cb = taken.cb
    BY TriedFacts
<1>2. /\ Same(NextURI(TriedConnect), TriedConnect)
      /\ NextURI(TriedConnect).req = TriedConnect.req /\ NextURI(TriedConnect).cb = TriedConnect.cb
    BY <1>1, NextURIFacts DEF Same
<1> QED BY <1>1, <1>2 DEF NextTry, Same, Good

LEMMA ExecConnectFailsTypes ==
    ASSUME Types, ExecConnectFails
    PROVE  Types'
<1> DEFINE c == taken.client
<1>0. /\ taken # None /\ taken.type = "CONNECT"
      /\ Spend("dial")
      /\ shouldBeConnected' = [shouldBeConnected EXCEPT ![c] = TRUE]
      /\ dialled' = [dialled EXCEPT ![c] = taken.uri]
      /\ taken' = None
      /\ commands' \in {commands, Inserted(commands, NextTry)}
      /\ told' \in {told, Tell(told, Callbacks(TriedConnect), "fail")}
      /\ connect' \in {connect, [connect EXCEPT ![c] = TriedConnect]}
      /\ retrying' \in {retrying, [retrying EXCEPT ![c] = @ \/ scenario.auto]}
      /\ UNCHANGED <<api, connected, connect_state, disconnect, sessVars, storeVars,
                     sockVars, unused, accepted, count, started, dropped, misread, acked,
                     written, cut, open, scenario>>
    BY ExecConnectFailsWays
<1>1. /\ taken \in HeadCommands /\ c \in Clients /\ taken.uri \in Nat
      /\ Same(TriedConnect, taken) /\ NextTry \in Good
    BY <1>0, TriedFacts, NextTryFacts
<1>2. commands' \in Seq(Good)
    <2>1. commands \in Seq(Good)
        BY DEF Types, QueueTypes
    <2>2. Inserted(commands, NextTry) \in Seq(Good)
        BY <1>1, <2>1, InsertedFacts
    <2> QED BY <1>0, <2>1, <2>2
<1>3. QueueTypes'
    BY <1>0, <1>2 DEF Types, QueueTypes
<1>4. ConnectOK(connect')
    BY <1>0, <1>1 DEF Types, ConnTypes, ConnectOK, Same
<1>5. ConnTypes'
    <2>1. scenario.auto \in BOOLEAN
        BY AsyncAssumption DEF Types, EnvTypes, Scenario
    <2> QED BY <1>0, <1>1, <1>4, <2>1 DEF Types, ConnTypes, DisconnectOK
<1>6. AppTypes'
    BY <1>0, TellType DEF Types, AppTypes
<1>7. HistTypes'
    BY <1>0, <1>1 DEF Types, HistTypes
<1>8. EnvTypes'
    BY <1>0, SpendKept DEF Types, Kinds
<1>9. SessTypes' /\ StoreTypes' /\ SockTypes'
    BY <1>0, Kept DEF Types, storeVars
<1> QED BY <1>3, <1>5, <1>6, <1>7, <1>8, <1>9 DEF Types

(* The packet of a command, and the three ways its write can end. *)
PacketOf(x) == [type |-> x.type, tok |-> x.tok, req |-> x.req]
DataComplete(c) ==
    /\ UNCHANGED <<broken, budget, partial, pending_write, commands>>
    /\ responses' = IF taken.req \in Pubs0 THEN responses
                    ELSE [responses EXCEPT ![c] = Append(@, taken)]
    /\ owed' = IF taken.req \in Pubs0 THEN owed ELSE [owed EXCEPT ![c] = @ \cup {PacketOf(taken)}]
    /\ written' = written \cup {taken.req}
    /\ told' = IF taken.req \in Pubs0 THEN Tell(told, Callbacks(taken), "ok") ELSE told
DataInterrupted(c) ==
    /\ UNCHANGED <<broken, owed, written, told, commands>>
    /\ Spend("partial")
    /\ responses' = [responses EXCEPT ![c] = Append(@, taken)]
    /\ partial' = [partial EXCEPT ![c] = PacketOf(taken)]
    /\ pending_write' \in {pending_write, [pending_write EXCEPT ![c] = taken.n]}
DataError(c) ==
    /\ UNCHANGED <<broken, budget, partial, owed, written, responses>>
    /\ broken[c]
    /\ pending_write' \in {pending_write, [pending_write EXCEPT ![c] = -count]}
    /\ told' = Tell(told, Callbacks(taken), "fail")
    /\ commands' = IF connected[c] THEN Inserted(commands, Internal(c)) ELSE commands

LEMMA ExecDataWays ==
    ASSUME NEW outcome \in {"complete", "interrupted", "error"}, ExecData(outcome)
    PROVE  LET c == taken.client
           IN  /\ taken # None /\ IsData(taken) /\ taken' = None
               /\ outboundMsgs' = IF taken.req \in Pubs1
                                  THEN [outboundMsgs EXCEPT ![c] = Append(@, Pair(taken))]
                                  ELSE outboundMsgs
               /\ started' = [started EXCEPT ![c] = taken.n]
               /\ DataComplete(c) \/ DataInterrupted(c) \/ DataError(c)
               /\ UNCHANGED <<api, connVars, msgID, storeVars, unused, accepted, count, dropped,
                              misread, acked, cut, dialled, open, scenario>>
<1>1. CASE outcome = "complete"
    BY <1>1 DEF ExecData, DataComplete, PacketOf, Pair
<1>2. CASE outcome = "interrupted"
    BY <1>2 DEF ExecData, DataInterrupted, PacketOf, Pair
<1>3. CASE outcome = "error"
    BY <1>3 DEF ExecData, DataError, PacketOf, Pair
<1> QED BY <1>1, <1>2, <1>3

LEMMA PacketFacts ==
    ASSUME NEW x \in DataCommands
    PROVE  /\ PacketOf(x) \in DataPackets
           /\ x.req \notin Pubs0 => PacketOf(x).tok # 0
           /\ x.req \in Pubs1 => Pair(x) \in [tok : Ids, req : Pubs1]
           /\ x.n \in Nat /\ x.req \in Data
<1>1. x \in Commands /\ DataKind(x)
    BY DEF DataCommands
<1>2. PacketOf(x) \in Packets
    BY <1>1 DEF PacketOf, Packets, Commands, DataKind
<1>3. /\ PacketOf(x).type = x.type /\ PacketOf(x).req = x.req /\ PacketOf(x).tok = x.tok
      /\ Pair(x).tok = x.tok
    BY DEF PacketOf, Pair
<1>4. PacketOf(x) \in DataPackets
    BY <1>1, <1>2, <1>3 DEF DataPackets, DataKind
<1>5. x.req \notin Pubs0 => x.tok \in Ids /\ x.tok # 0
    BY <1>1, MaxMsgIdAssumption DEF DataKind, Ids
<1>6. x.req \in Pubs1 => x.req \notin Pubs0
    BY DisjointRequests
<1> QED BY <1>1, <1>3, <1>4, <1>5, <1>6, DisjointRequests DEF Pair, Commands, DataKind

LEMMA ExecDataTypes ==
    ASSUME Types, NEW outcome \in {"complete", "interrupted", "error"}, ExecData(outcome)
    PROVE  Types'
<1> DEFINE c == taken.client
<1>0. /\ taken # None /\ IsData(taken) /\ taken' = None
      /\ outboundMsgs' = IF taken.req \in Pubs1
                         THEN [outboundMsgs EXCEPT ![c] = Append(@, Pair(taken))]
                         ELSE outboundMsgs
      /\ started' = [started EXCEPT ![c] = taken.n]
      /\ DataComplete(c) \/ DataInterrupted(c) \/ DataError(c)
      /\ UNCHANGED <<api, connVars, msgID, storeVars, unused, accepted, count, dropped,
                     misread, acked, cut, dialled, open, scenario>>
    BY ExecDataWays
<1>1. /\ taken \in DataCommands /\ c \in Clients
      /\ PacketOf(taken) \in DataPackets
      /\ taken.req \notin Pubs0 => PacketOf(taken).tok # 0
      /\ taken.req \in Pubs1 => Pair(taken) \in [tok : Ids, req : Pubs1]
      /\ taken.n \in Nat /\ taken.req \in Data
    BY <1>0, TakenFacts, PacketFacts
<1>2. outboundMsgs' \in [Clients -> Seq([tok : Ids, req : Pubs1])]
    <2>1. outboundMsgs \in [Clients -> Seq([tok : Ids, req : Pubs1])]
        BY DEF Types, SessTypes
    <2>2. taken.req \in Pubs1 => Append(outboundMsgs[c], Pair(taken)) \in Seq([tok : Ids, req : Pubs1])
        BY <1>1, <2>1, AppendFacts
    <2> QED BY <1>0, <1>1, <2>1, <2>2
<1>3. [responses EXCEPT ![c] = Append(@, taken)] \in [Clients -> Seq(DataCommands)]
    <2>1. responses \in [Clients -> Seq(DataCommands)]
        BY DEF Types, SessTypes
    <2>2. Append(responses[c], taken) \in Seq(DataCommands)
        BY <1>1, <2>1, AppendFacts
    <2> QED BY <1>1, <2>1, <2>2
<1>4. SessTypes'
    <2>1. responses' \in [Clients -> Seq(DataCommands)]
        BY <1>0, <1>3 DEF Types, SessTypes, DataComplete, DataInterrupted, DataError
    <2>2. pending_write' \in [Clients -> Int]
        <3>1. pending_write \in [Clients -> Int] /\ count \in Nat
            BY DEF Types, SessTypes, HistTypes
        <3>2. [pending_write EXCEPT ![c] = taken.n] \in [Clients -> Int]
            BY <1>1, <3>1
        <3>3. [pending_write EXCEPT ![c] = -count] \in [Clients -> Int]
            BY <1>1, <3>1
        <3> QED BY <1>0, <3>1, <3>2, <3>3 DEF DataComplete, DataInterrupted, DataError
    <2> QED BY <1>0, <1>2, <2>1, <2>2 DEF Types, SessTypes
<1>5. QueueTypes'
    <2>1. commands \in Seq(Good) /\ Internal(c) \in Good
        BY <1>1, NewHeads DEF Types, QueueTypes, Good
    <2>2. Inserted(commands, Internal(c)) \in Seq(Good)
        BY <2>1, InsertedFacts
    <2>3. commands' \in {commands, Inserted(commands, Internal(c))}
        BY <1>0 DEF DataComplete, DataInterrupted, DataError
    <2> QED BY <1>0, <2>1, <2>2, <2>3 DEF Types, QueueTypes
<1>6. SockTypes'
    <2>1. broken' = broken
        BY <1>0 DEF DataComplete, DataInterrupted, DataError
    <2>2. partial' \in {partial, [partial EXCEPT ![c] = PacketOf(taken)]}
        BY <1>0 DEF DataComplete, DataInterrupted, DataError
    <2>3. \/ owed' = owed
          \/ taken.req \notin Pubs0 /\ owed' = [owed EXCEPT ![c] = @ \cup {PacketOf(taken)}]
        BY <1>0 DEF DataComplete, DataInterrupted, DataError
    <2> QED BY <1>1, <2>1, <2>2, <2>3 DEF Types, SockTypes
<1>7. AppTypes'
    <2>1. told' \in {told, Tell(told, Callbacks(taken), "ok"), Tell(told, Callbacks(taken), "fail")}
        BY <1>0 DEF DataComplete, DataInterrupted, DataError
    <2>2. told' \in [Reqs -> Seq({"ok", "fail"})]
        BY <2>1, TellType DEF Types, AppTypes
    <2> QED BY <1>0, <2>2 DEF Types, AppTypes
<1>8. HistTypes'
    <2>1. written' \in {written, written \cup {taken.req}}
        BY <1>0 DEF DataComplete, DataInterrupted, DataError
    <2> QED BY <1>0, <1>1, <2>1 DEF Types, HistTypes
<1>9. EnvTypes'
    <2>1. UNCHANGED budget \/ Spend("partial")
        BY <1>0 DEF DataComplete, DataInterrupted, DataError
    <2> QED BY <1>0, <2>1, SpendKept DEF Types, Kinds
<1>10. ConnTypes' /\ StoreTypes'
    BY <1>0, Kept DEF Types, storeVars
<1> QED BY <1>4, <1>5, <1>6, <1>7, <1>8, <1>9, <1>10 DEF Types

(* DISCONNECT: it closes at once, it waits for messages in flight, or there *)
(* is nothing to close.                                                     *)
Busy(c) == connect_state[c] # "NOT_IN_PROGRESS"
ToldBusy(c) == IF Busy(c) THEN Tell(told, Callbacks(connect[c]), "fail") ELSE told

LEMMA ExecDisconnectWays ==
    ASSUME ExecDisconnect
    PROVE  LET c == taken.client
           IN  /\ taken # None /\ taken.type = "DISCONNECT" /\ taken' = None
               /\ disconnect' = [disconnect EXCEPT ![c] = taken]
               /\ connect' = IF Busy(c) THEN [connect EXCEPT ![c].cb = FALSE] ELSE connect
               /\ UNCHANGED budget \/ Spend("timeout")
               /\ \/ /\ Busy(c) \/ connected[c]
                     /\ CloseForDisconnect(c, taken, ToldBusy(c))
                  \/ /\ Busy(c) \/ connected[c]
                     /\ connect_state' = [connect_state EXCEPT ![c] = "DISCONNECTING"]
                     /\ told' = ToldBusy(c)
                     /\ UNCHANGED <<connected, retrying, sessVars, sockVars, cut, open>>
                  \/ /\ ~Busy(c) /\ ~connected[c]
                     /\ UNCHANGED <<connected, connect_state, retrying, sessVars, sockVars, told,
                                    cut, open>>
               /\ UNCHANGED <<commands, api, shouldBeConnected, storeVars, unused, accepted, count,
                              started, dropped, misread, acked, written, dialled, scenario>>
<1> DEFINE c == taken.client
<1>1. /\ taken # None /\ taken.type = "DISCONNECT" /\ taken' = None
      /\ disconnect' = [disconnect EXCEPT ![c] = taken]
      /\ connect' = IF Busy(c) THEN [connect EXCEPT ![c].cb = FALSE] ELSE connect
      /\ UNCHANGED <<commands, api, shouldBeConnected, storeVars, unused, accepted, count,
                     started, dropped, misread, acked, written, dialled, scenario>>
    BY DEF ExecDisconnect, Busy
<1>2. UNCHANGED budget \/ Spend("timeout")
    BY DEF ExecDisconnect
<1>3. \/ /\ Busy(c) \/ connected[c]
         /\ CloseForDisconnect(c, taken, ToldBusy(c))
      \/ /\ Busy(c) \/ connected[c]
         /\ connect_state' = [connect_state EXCEPT ![c] = "DISCONNECTING"]
         /\ told' = ToldBusy(c)
         /\ UNCHANGED <<connected, retrying, sessVars, sockVars, cut, open>>
      \/ /\ ~Busy(c) /\ ~connected[c]
         /\ UNCHANGED <<connected, connect_state, retrying, sessVars, sockVars, told,
                        cut, open>>
    BY DEF ExecDisconnect, Busy, ToldBusy
<1> QED BY <1>1, <1>2, <1>3

LEMMA ExecDisconnectTypes ==
    ASSUME Types, ExecDisconnect
    PROVE  Types'
<1> DEFINE c == taken.client
           States == {"NOT_IN_PROGRESS", "TCP_IN_PROGRESS", "WAIT_FOR_CONNACK", "DISCONNECTING"}
<1>0. /\ taken # None /\ taken.type = "DISCONNECT" /\ taken' = None
      /\ disconnect' = [disconnect EXCEPT ![c] = taken]
      /\ connect' = IF Busy(c) THEN [connect EXCEPT ![c].cb = FALSE] ELSE connect
      /\ UNCHANGED budget \/ Spend("timeout")
      /\ \/ CloseForDisconnect(c, taken, ToldBusy(c))
         \/ /\ connect_state' = [connect_state EXCEPT ![c] = "DISCONNECTING"]
            /\ told' = ToldBusy(c)
            /\ UNCHANGED <<connected, retrying, sessVars, sockVars, cut, open>>
         \/ UNCHANGED <<connected, connect_state, retrying, sessVars, sockVars, told, cut, open>>
      /\ UNCHANGED <<commands, api, shouldBeConnected, storeVars, unused, accepted, count,
                     started, dropped, misread, acked, written, dialled, scenario>>
    BY ExecDisconnectWays
<1>1. taken \in HeadCommands /\ c \in Clients
    BY <1>0, TakenFacts
<1>2. ToldBusy(c) \in [Reqs -> Seq({"ok", "fail"})]
    BY TellType DEF Types, AppTypes, ToldBusy
<1>3. /\ connected' \in [Clients -> BOOLEAN]
      /\ connect_state' \in [Clients -> States]
      /\ SockTypes' /\ cut' \subseteq Pubs0
      /\ SessTypes' /\ told' \in [Reqs -> Seq({"ok", "fail"})]
      /\ open' \in [Clients -> Int]
      /\ retrying' \in [Clients -> BOOLEAN]
    <2>1. CASE CloseForDisconnect(c, taken, ToldBusy(c))
        BY <1>1, <1>2, <2>1, CloseForDisconnectTypes
    <2>2. CASE UNCHANGED <<connected, retrying, sessVars, sockVars, cut, open>>
        <3>1. connect_state' \in [Clients -> States] /\ told' \in [Reqs -> Seq({"ok", "fail"})]
            <4>1. connect_state \in [Clients -> States] /\ told \in [Reqs -> Seq({"ok", "fail"})]
                BY DEF Types, ConnTypes, AppTypes
            <4>2. [connect_state EXCEPT ![c] = "DISCONNECTING"] \in [Clients -> States]
                BY <4>1
            <4>3. CASE UNCHANGED <<connect_state, told>>
                BY <4>1, <4>3
            <4>4. CASE connect_state' = [connect_state EXCEPT ![c] = "DISCONNECTING"]
                       /\ told' = ToldBusy(c)
                BY <1>2, <4>2, <4>4
            <4>5. CASE CloseForDisconnect(c, taken, ToldBusy(c))
                BY <1>1, <1>2, <4>5, CloseForDisconnectTypes
            <4> QED BY <1>0, <4>3, <4>4, <4>5
        <3>2. SockTypes' /\ SessTypes'
            BY <2>2, Kept DEF Types
        <3> QED BY <2>2, <3>1, <3>2 DEF Types, ConnTypes, HistTypes
    <2> QED BY <1>0, <2>1, <2>2
<1>4. ConnectOK(connect')
    <2>1. ConnectOK(connect) /\ ConnectOK([connect EXCEPT ![c].cb = FALSE])
        BY <1>1, ConnectForgotten DEF Types, ConnTypes
    <2> QED BY <1>0, <2>1
<1>5. ConnTypes'
    <2>1. DisconnectOK(disconnect')
        BY <1>0, <1>1 DEF Types, ConnTypes, DisconnectOK
    <2>2. shouldBeConnected' \in [Clients -> BOOLEAN]
        BY <1>0 DEF Types, ConnTypes
    <2> QED BY <1>3, <1>4, <2>1, <2>2 DEF ConnTypes
<1>6. QueueTypes'
    BY <1>0 DEF Types, QueueTypes
<1>7. AppTypes' /\ HistTypes'
    BY <1>0, <1>3 DEF Types, AppTypes, HistTypes
<1>8. EnvTypes'
    BY <1>0, SpendKept DEF Types, Kinds
<1>9. StoreTypes'
    BY <1>0, Kept DEF Types, storeVars
<1> QED BY <1>3, <1>5, <1>6, <1>7, <1>8, <1>9 DEF Types

LEMMA DisconnectTimeoutTypes ==
    ASSUME Types, NEW c \in Clients, DisconnectTimeout(c)
    PROVE  Types'
<1>0. /\ UNCHANGED budget \/ Spend("timeout")
      /\ CloseForDisconnect(c, disconnect[c], told)
      /\ UNCHANGED <<queueVars, connect, disconnect, shouldBeConnected, storeVars, unused,
                     accepted, count, started, dropped, misread, acked, written, dialled, scenario>>
    BY DEF DisconnectTimeout
<1>1. told \in [Reqs -> Seq({"ok", "fail"})]
    BY DEF Types, AppTypes
<1>2. /\ connected' \in [Clients -> BOOLEAN]
      /\ connect_state' \in [Clients -> {"NOT_IN_PROGRESS", "TCP_IN_PROGRESS",
                                         "WAIT_FOR_CONNACK", "DISCONNECTING"}]
      /\ SockTypes' /\ cut' \subseteq Pubs0
      /\ SessTypes' /\ told' \in [Reqs -> Seq({"ok", "fail"})]
      /\ open' \in [Clients -> Int]
      /\ retrying' \in [Clients -> BOOLEAN]
    BY <1>0, <1>1, CloseForDisconnectTypes
<1>3. ConnTypes'
    BY <1>0, <1>2 DEF Types, ConnTypes, ConnectOK, DisconnectOK
<1>4. AppTypes' /\ HistTypes'
    BY <1>0, <1>2 DEF Types, AppTypes, HistTypes
<1>5. EnvTypes'
    BY <1>0, SpendKept DEF Types, Kinds
<1>6. QueueTypes' /\ StoreTypes'
    BY <1>0, Kept DEF Types, storeVars
<1> QED BY <1>2, <1>3, <1>4, <1>5, <1>6 DEF Types

(* The steps that end in nextOrClose. *)
Closes(c) ==
    ConnectTimeout(c) \/ TransportFails(c) \/ ConnackRefuses(c) \/ SocketError(c) \/ ServerDisconnect(c)

LEMMA ClosesWays ==
    ASSUME Types, NEW c \in Clients, Closes(c)
    PROVE  /\ taken = None
           /\ UNCHANGED budget \/ \E what \in {"timeout", "fail", "loss"} : Spend(what)
           /\ \/ /\ NextOrClose(c, connected[c], FALSE)
                 /\ connect_state[c] # "NOT_IN_PROGRESS" \/ connected[c]
              \/ /\ NextOrClose(c, FALSE, FALSE)
                 /\ connect_state[c] = "TCP_IN_PROGRESS"
              \/ /\ NextOrClose(c, FALSE, TRUE)
                 /\ connected[c]
<1>1. CASE ConnectTimeout(c)
    BY <1>1 DEF ConnectTimeout, AsyncMutexFree
<1>2. CASE TransportFails(c)
    BY <1>2 DEF TransportFails, AsyncMutexFree
<1>3. CASE ConnackRefuses(c)
    BY <1>3 DEF ConnackRefuses, AsyncMutexFree
<1>4. CASE SocketError(c)
    BY <1>4 DEF SocketError, AsyncMutexFree
<1>5. CASE ServerDisconnect(c)
    BY <1>5 DEF ServerDisconnect, AsyncMutexFree
<1> QED BY <1>1, <1>2, <1>3, <1>4, <1>5 DEF Closes

LEMMA ClosesTypes ==
    ASSUME Types, NEW c \in Clients, Closes(c)
    PROVE  Types'
<1>1. \E was, ended \in BOOLEAN : NextOrClose(c, was, ended)
    <2>1. connected[c] \in BOOLEAN
        BY DEF Types, ConnTypes
    <2> QED BY <2>1, ClosesWays
<1>2. PICK was, ended \in BOOLEAN : NextOrClose(c, was, ended)
    BY <1>1
<1>3. UNCHANGED scenario
    BY <1>2, NextOrCloseWays
<1>4. EnvTypes'
    BY <1>3, ClosesWays, SpendKept DEF Types, Kinds
<1> QED BY <1>2, <1>4, NextOrCloseTypes

-----------------------------------------------------------------------------
(* Types: the receive thread and the environment                            *)

LEMMA TransportDoneTypes ==
    ASSUME Types, NEW c \in Clients, TransportDone(c)
    PROVE  Types'
<1> DEFINE v == IF connect[c].ver = "default" THEN "3.1.1" ELSE connect[c].ver
<1>0. /\ connect' = [connect EXCEPT ![c].ver = v]
      /\ connect_state' = [connect_state EXCEPT ![c] = "WAIT_FOR_CONNACK"]
      /\ owed' = [owed EXCEPT ![c] = {ConnectPacket}]
      /\ UNCHANGED <<queueVars, connected, disconnect, shouldBeConnected, retrying, sessVars,
                     storeVars, broken, partial, appVars, histVars, budget, scenario>>
    BY DEF TransportDone
<1>1. v \in Versions
    BY DEF Types, ConnTypes, ConnectOK, HeadCommands, Commands, Versions
<1> HIDE DEF v
<1>2. ConnectOK(connect')
    BY <1>0, <1>1, ConnectVersion DEF Types, ConnTypes
<1>3. ConnTypes'
    BY <1>0, <1>2 DEF Types, ConnTypes, DisconnectOK
<1>4. SockTypes'
    BY <1>0 DEF Types, SockTypes
<1>5. QueueTypes' /\ SessTypes' /\ StoreTypes' /\ AppTypes' /\ HistTypes' /\ EnvTypes'
    BY <1>0, Kept DEF Types, storeVars
<1> QED BY <1>3, <1>4, <1>5 DEF Types

LEMMA ResentFacts ==
    ASSUME NEW out \in Seq([tok : Ids, req : Pubs1])
    PROVE  /\ Resent(out) \subseteq {p \in DataPackets : p.tok # 0}
           /\ \A p \in Resent(out) : p.type = "PUBLISH" /\ Pair(p) \in ToSet(out)
<1>1. \A m \in ToSet(out) : m \in [tok : Ids, req : Pubs1]
    BY ToSetFacts
<1>2. ASSUME NEW m \in ToSet(out)
      PROVE  LET p == [type |-> "PUBLISH", tok |-> m.tok, req |-> m.req]
             IN  p \in DataPackets /\ p.tok # 0 /\ Pair(p) = m
    <2>1. m.tok \in Ids /\ m.req \in Pubs1 /\ m = [tok |-> m.tok, req |-> m.req]
        BY <1>1
    <2>2. m.tok \in 0 .. MaxMsgId /\ m.tok # 0 /\ m.req \in Pubs /\ m.req \notin Pubs0 /\ m.req \in Reqs
        BY <2>1, MaxMsgIdAssumption, DisjointRequests DEF Ids
    <2> QED BY <2>1, <2>2 DEF DataPackets, Packets, Pair
<1> QED BY <1>2 DEF Resent

LEMMA ConnackAcceptsTypes ==
    ASSUME Types, NEW c \in Clients, NEW present \in BOOLEAN, ConnackAccepts(c, present)
    PROVE  Types'
<1> DEFINE t == Tell(told, Callbacks(connect[c]), "ok")
<1>0. /\ retrying' = [retrying EXCEPT ![c] = FALSE]
      /\ connected' = [connected EXCEPT ![c] = TRUE]
      /\ connect_state' = [connect_state EXCEPT ![c] = "NOT_IN_PROGRESS"]
      /\ CleanSession(c, Cleans(present), t)
      /\ owed' = [owed EXCEPT ![c] = Resent(outboundMsgs'[c])]
      /\ connect' = [connect EXCEPT ![c].cb = FALSE]
      /\ open' = [open EXCEPT ![c] = @ + 1]
      /\ UNCHANGED <<queueVars, disconnect, shouldBeConnected, storeVars, broken, partial, unused,
                     accepted, count, started, dropped, misread, acked, written, cut, dialled,
                     budget, scenario>>
    BY DEF ConnackAccepts, Forgotten
<1>1. t \in [Reqs -> Seq({"ok", "fail"})]
    BY TellType DEF Types, AppTypes
<1> HIDE DEF t
<1>2. SessTypes' /\ told' \in [Reqs -> Seq({"ok", "fail"})]
    BY <1>0, <1>1, CleanSessionTypes DEF Types
<1>3. Resent(outboundMsgs'[c]) \subseteq {p \in DataPackets : p.tok # 0}
    BY <1>2, ResentFacts DEF SessTypes
<1>4. SockTypes'
    BY <1>0, <1>3 DEF Types, SockTypes
<1>5. ConnectOK(connect')
    BY <1>0, ConnectForgotten DEF Types, ConnTypes
<1>6. ConnTypes'
    BY <1>0, <1>5 DEF Types, ConnTypes, DisconnectOK
<1>7. AppTypes' /\ HistTypes'
    BY <1>0, <1>2 DEF Types, AppTypes, HistTypes
<1>8. QueueTypes' /\ StoreTypes' /\ EnvTypes'
    BY <1>0, Kept DEF Types, storeVars
<1> QED BY <1>2, <1>4, <1>6, <1>7, <1>8 DEF Types

LEMMA ResendFailsWays ==
    ASSUME Types, NEW c \in Clients, ResendFails(c)
    PROVE  /\ CloseOnly(c) /\ Spend("resend") /\ taken = None
           /\ connect_state[c] = "WAIT_FOR_CONNACK" /\ ConnectPacket \in owed[c]
           /\ NextConnect(connect[c], TRUE) \in HeadCommands
           /\ Same(NextConnect(connect[c], TRUE), connect[c])
           /\ NextConnect(connect[c], TRUE).req = connect[c].req
           /\ NextConnect(connect[c], TRUE).cb = connect[c].cb
           /\ \/ /\ commands' = <<NextConnect(connect[c], TRUE)>> \o commands
                 /\ CheckConn(connect[c], TRUE)
                 /\ ~Duplicate(commands, NextConnect(connect[c], TRUE))
              \/ UNCHANGED commands
           /\ told' = Tell(told, Callbacks(connect[c]), "fail")
           /\ connect' = [connect EXCEPT ![c].cb = FALSE]
           /\ retrying' = [retrying EXCEPT ![c] = scenario.auto /\ shouldBeConnected[c]]
           /\ open' = [open EXCEPT ![c] = @ + 1 - 1]
           /\ UNCHANGED <<taken, api, disconnect, shouldBeConnected, sessVars, storeVars, unused,
                          accepted, count, started, dropped, misread, acked, written, dialled,
                          scenario>>
<1>1. connect[c] \in HeadCommands /\ connect[c].type = "CONNECT"
    BY DEF Types, ConnTypes, ConnectOK
<1> DEFINE was == TRUE
           x == NextConnect(connect[c], was)
<1>2. /\ Same(x, connect[c]) /\ x.req = connect[c].req /\ x.cb = connect[c].cb
    <2> HIDE DEF was
    <2> QED BY <1>1, NextConnectFacts
<1>3. x \in HeadCommands
    BY <1>2 DEF Same
<1>4. /\ CloseOnly(c) /\ Spend("resend") /\ taken = None
      /\ connect_state[c] = "WAIT_FOR_CONNACK" /\ ConnectPacket \in owed[c]
      /\ \/ commands' = <<x>> \o commands /\ CheckConn(connect[c], TRUE) /\ ~Duplicate(commands, x)
         \/ UNCHANGED commands
      /\ told' = Tell(told, Callbacks(connect[c]), "fail")
      /\ connect' = [connect EXCEPT ![c].cb = FALSE]
      /\ retrying' = [retrying EXCEPT ![c] = scenario.auto /\ shouldBeConnected[c]]
      /\ open' = [open EXCEPT ![c] = @ + 1 - 1]
      /\ UNCHANGED <<taken, api, disconnect, shouldBeConnected, sessVars, storeVars, unused,
                     accepted, count, started, dropped, misread, acked, written, dialled,
                     scenario>>
    BY DEF ResendFails, AsyncMutexFree, Forgotten, LostCalls
<1> QED BY <1>2, <1>3, <1>4

LEMMA ResendFailsTypes ==
    ASSUME Types, NEW c \in Clients, ResendFails(c)
    PROVE  Types'
<1> DEFINE x == NextConnect(connect[c], TRUE)
<1>0. /\ CloseOnly(c) /\ Spend("resend")
      /\ x \in HeadCommands
      /\ commands' = <<x>> \o commands \/ UNCHANGED commands
      /\ told' = Tell(told, Callbacks(connect[c]), "fail")
      /\ connect' = [connect EXCEPT ![c].cb = FALSE]
      /\ retrying' = [retrying EXCEPT ![c] = scenario.auto /\ shouldBeConnected[c]]
      /\ open' = [open EXCEPT ![c] = @ + 1 - 1]
      /\ UNCHANGED <<taken, api, disconnect, shouldBeConnected, sessVars, storeVars, unused,
                     accepted, count, started, dropped, misread, acked, written, dialled,
                     scenario>>
    BY ResendFailsWays
<1> HIDE DEF x
<1>1. /\ connected' \in [Clients -> BOOLEAN]
      /\ connect_state' \in [Clients -> {"NOT_IN_PROGRESS", "TCP_IN_PROGRESS",
                                         "WAIT_FOR_CONNACK", "DISCONNECTING"}]
      /\ SockTypes'
      /\ cut' \subseteq Pubs0
    BY <1>0, CloseOnlyTypes DEF Types
<1>2. QueueTypes'
    <2>1. commands \in Seq(Good) /\ x \in Good
        BY <1>0 DEF Types, QueueTypes, Good
    <2>2. <<x>> \o commands \in Seq(Good)
        BY <2>1, ConsFacts
    <2>3. commands' \in Seq(Good)
        BY <1>0, <2>1, <2>2
    <2> QED BY <1>0, <2>3 DEF Types, QueueTypes
<1>3. ConnTypes'
    <2>1. ConnectOK(connect')
        BY <1>0, ConnectForgotten DEF Types, ConnTypes
    <2>2. retrying' \in [Clients -> BOOLEAN]
        <3>1. (scenario.auto /\ shouldBeConnected[c]) \in BOOLEAN
            BY DEF Types
        <3> QED BY <1>0, <3>1 DEF Types, ConnTypes
    <2> QED BY <1>0, <1>1, <2>1, <2>2 DEF Types, ConnTypes, DisconnectOK
<1>4. SessTypes' /\ StoreTypes'
    BY <1>0, Kept DEF Types, storeVars
<1>5. AppTypes' /\ HistTypes'
    <2>1. told' \in [Reqs -> Seq({"ok", "fail"})]
        BY <1>0, TellType DEF Types, AppTypes
    <2> QED BY <1>0, <1>1, <2>1 DEF Types, AppTypes, HistTypes
<1>6. EnvTypes'
    BY <1>0, SpendKept DEF Types, Kinds
<1> QED BY <1>1, <1>2, <1>3, <1>4, <1>5, <1>6 DEF Types

(* A response or message that is found: the first with the token, or none.  *)
LEMMA AnsweredFacts ==
    ASSUME NEW T, NEW q \in Seq(T), NEW tok
    PROVE  /\ \/ Answered(q, tok) = {}
              \/ \E i \in DOMAIN q : Answered(q, tok) = {i} /\ q[i].tok = tok
           /\ (\E i \in DOMAIN q : q[i].tok = tok) => Answered(q, tok) # {}
<1>1. DOMAIN q = 1 .. Len(q) /\ Len(q) \in Nat
    BY SeqFacts
<1>2. \A i, j \in Answered(q, tok) : i = j
    BY <1>1 DEF Answered
<1>3. ASSUME \E i \in DOMAIN q : q[i].tok = tok
      PROVE  Answered(q, tok) # {}
    <2> DEFINE S == {i \in DOMAIN q : q[i].tok = tok}
    <2>1. S \in SUBSET Nat /\ S # {}
        BY <1>1, <1>3
    <2>2. PICK k \in S : \A l \in S : k <= l
        BY <2>1, LeastNatural
    <2>3. k \in Answered(q, tok)
        BY <1>1, <2>2 DEF Answered
    <2> QED BY <2>3
<1>4. ASSUME Answered(q, tok) # {}
      PROVE  \E i \in DOMAIN q : Answered(q, tok) = {i} /\ q[i].tok = tok
    <2>1. PICK i : i \in Answered(q, tok)
        BY <1>4
    <2>2. Answered(q, tok) = {i}
        BY <1>2, <2>1
    <2>3. i \in DOMAIN q /\ q[i].tok = tok
        BY <2>1 DEF Answered
    <2> QED BY <2>2, <2>3
<1> QED BY <1>3, <1>4

(* What is taken out of a list: nothing, or one element. *)
LEMMA WithoutWays ==
    ASSUME NEW T, NEW q \in Seq(T), NEW I,
           I = {} \/ \E i \in DOMAIN q : I = {i}
    PROVE  /\ Without(q, I) \in Seq(T)
           /\ ToSet(Without(q, I)) = {q[i] : i \in DOMAIN q \ I}
           /\ ToSet(Without(q, I)) \subseteq ToSet(q)
<1>1. CASE I = {}
    BY <1>1 DEF Without, ToSet
<1>2. CASE \E i \in DOMAIN q : I = {i}
    <2>1. PICK i \in DOMAIN q : I = {i}
        BY <1>2
    <2>2. Without(q, I) = RemoveAt(q, i)
        BY <2>1, WithoutFacts
    <2>3. RemoveAt(q, i) \in Seq(T) /\ ToSet(RemoveAt(q, i)) = {q[j] : j \in DOMAIN q \ {i}}
        BY RemoveAtShift, RemoveAtSet
    <2>4. {q[j] : j \in DOMAIN q \ {i}} \subseteq ToSet(q)
        BY DEF ToSet
    <2> QED BY <2>1, <2>2, <2>3, <2>4
<1> QED BY <1>1, <1>2

(* The response an acknowledgement is for. *)
Found(c, p) == {responses[c][i] : i \in Answered(responses[c], p.tok)}

LEMMA AckWays ==
    ASSUME Types, NEW c \in Clients, NEW p, NEW outcome,
           Ack(c, p, outcome)
    PROVE  /\ p \in DataPackets /\ p.tok # 0 /\ p.req \in Data
           /\ \/ Answered(responses[c], p.tok) = {}
              \/ \E i \in DOMAIN responses[c] :
                   Answered(responses[c], p.tok) = {i} /\ responses[c][i].tok = p.tok
           /\ taken = None /\ connected[c]
           /\ UNCHANGED budget \/ Spend("fail")
           /\ owed' = [owed EXCEPT ![c] = @ \ {p}]
           /\ outboundMsgs' =
                IF p.type = "PUBLISH"
                THEN [outboundMsgs EXCEPT ![c] = Without(@, Answered(@, p.tok))]
                ELSE outboundMsgs
           /\ responses' = [responses EXCEPT ![c] = Without(@, Answered(@, p.tok))]
           /\ told' = Tell(told, ReqsOf(Found(c, p)), outcome)
           /\ acked' = acked \cup {p.req}
           /\ UNCHANGED <<queueVars, connVars, msgID, pending_write, storeVars, broken, partial,
                          unused, accepted, count, started, dropped, misread, written, cut,
                          dialled, open, scenario>>
<1>1. IsData(p) /\ p \in {x \in DataPackets : x.tok # 0} \cup {ConnectPacket}
    BY DEF Ack, Types, SockTypes
<1>2. p \in DataPackets /\ p.tok # 0
    BY <1>1 DEF ConnectPacket, IsData
<1>3. p.req \in Data
    BY <1>2, DisjointRequests DEF DataPackets
<1>4. \/ Answered(responses[c], p.tok) = {}
      \/ \E i \in DOMAIN responses[c] :
           Answered(responses[c], p.tok) = {i} /\ responses[c][i].tok = p.tok
    <2>1. responses[c] \in Seq(DataCommands)
        BY DEF Types, SessTypes
    <2> QED BY <2>1, AnsweredFacts
<1>5. /\ taken = None /\ connected[c]
      /\ UNCHANGED budget \/ Spend("fail")
      /\ owed' = [owed EXCEPT ![c] = @ \ {p}]
      /\ outboundMsgs' =
           IF p.type = "PUBLISH"
           THEN [outboundMsgs EXCEPT ![c] = Without(@, Answered(@, p.tok))]
           ELSE outboundMsgs
      /\ responses' = [responses EXCEPT ![c] = Without(@, Answered(@, p.tok))]
      /\ told' = Tell(told, ReqsOf(Found(c, p)), outcome)
      /\ acked' = acked \cup {p.req}
      /\ UNCHANGED <<queueVars, connVars, msgID, pending_write, storeVars, broken, partial,
                     unused, accepted, count, started, dropped, misread, written, cut,
                     dialled, open, scenario>>
    BY DEF Ack, AsyncMutexFree, Found
<1> QED BY <1>2, <1>3, <1>4, <1>5

LEMMA AckTypes ==
    ASSUME Types, NEW c \in Clients, NEW p \in owed[c], NEW outcome \in {"ok", "fail"},
           Ack(c, p, outcome)
    PROVE  Types'
<1> DEFINE I == Answered(responses[c], p.tok)
<1>10. I = {} \/ \E i \in DOMAIN responses[c] : I = {i}
    <2>1. I = {} \/ \E i \in DOMAIN responses[c] : I = {i} /\ responses[c][i].tok = p.tok
        BY AckWays
    <2> HIDE DEF I
    <2> QED BY <2>1
<1>0. /\ p.req \in Data
      /\ UNCHANGED budget \/ Spend("fail")
      /\ owed' = [owed EXCEPT ![c] = @ \ {p}]
      /\ outboundMsgs' =
           IF p.type = "PUBLISH"
           THEN [outboundMsgs EXCEPT ![c] = Without(@, Answered(@, p.tok))]
           ELSE outboundMsgs
      /\ responses' = [responses EXCEPT ![c] = Without(@, I)]
      /\ told' = Tell(told, ReqsOf(Found(c, p)), outcome)
      /\ acked' = acked \cup {p.req}
      /\ UNCHANGED <<queueVars, connVars, msgID, pending_write, storeVars, broken, partial,
                     unused, accepted, count, started, dropped, misread, written, cut,
                     dialled, open, scenario>>
    BY AckWays
<1>1. /\ responses \in [Clients -> Seq(DataCommands)]
      /\ outboundMsgs \in [Clients -> Seq([tok : Ids, req : Pubs1])]
    BY DEF Types, SessTypes
<1>2. Without(responses[c], I) \in Seq(DataCommands)
    <2> HIDE DEF I
    <2> QED BY <1>10, <1>1, WithoutWays
<1>3. Without(outboundMsgs[c], Answered(outboundMsgs[c], p.tok)) \in Seq([tok : Ids, req : Pubs1])
    <2> DEFINE J == Answered(outboundMsgs[c], p.tok)
    <2>1. J = {} \/ \E i \in DOMAIN outboundMsgs[c] : J = {i}
        BY <1>1, AnsweredFacts
    <2> HIDE DEF J
    <2>2. Without(outboundMsgs[c], J) \in Seq([tok : Ids, req : Pubs1])
        BY <1>1, <2>1, WithoutWays
    <2> QED BY <2>2 DEF J
<1> HIDE DEF I
<1>4. SessTypes'
    BY <1>0, <1>1, <1>2, <1>3 DEF Types, SessTypes
<1>5. SockTypes'
    BY <1>0 DEF Types, SockTypes
<1>6. AppTypes' /\ HistTypes'
    BY <1>0, TellType DEF Types, AppTypes, HistTypes
<1>7. EnvTypes'
    BY <1>0, SpendKept DEF Types, Kinds
<1>8. QueueTypes' /\ ConnTypes' /\ StoreTypes'
    BY <1>0, Kept DEF Types, storeVars
<1> QED BY <1>4, <1>5, <1>6, <1>7, <1>8 DEF Types

LEMMA MatchesFacts ==
    ASSUME NEW c \in Clients, NEW I \in Matches(c)
    PROVE  I = {} \/ \E i \in DOMAIN responses[c] : I = {i}
BY DEF Matches

(* writeComplete: which response, if any, is freed or reported. *)
FreesResponse(c, i, outcome) ==
    LET x == responses[c][i]
    IN  \/ /\ UNCHANGED <<responses, told, misread>>
           /\ outcome = "ok" /\ x.req \notin Pubs0
        \/ /\ responses' = [responses EXCEPT ![c] = RemoveAt(@, i)]
           /\ told' = Tell(told, Callbacks(x), outcome) /\ UNCHANGED misread
           /\ x.type = "PUBLISH" /\ (outcome = "ok" => x.req \in Pubs0)
        \/ /\ responses' = [responses EXCEPT ![c] = RemoveAt(@, i)]
           /\ UNCHANGED told /\ misread' = misread \cup {x.req}
           /\ x.type = "SUBSCRIBE"

LEMMA TellNobody ==
    ASSUME Types, NEW outcome
    PROVE  Tell(told, {}, outcome) = told /\ ReqsOf({}) = {}
BY DEF Types, AppTypes, Tell, ReqsOf

LEMMA WriteDoneWays ==
    ASSUME Types, NEW c \in Clients, WriteDone(c)
    PROVE  /\ taken = None /\ partial[c] # None
           /\ partial' = [partial EXCEPT ![c] = None]
           /\ pending_write' = [pending_write EXCEPT ![c] = 0]
           /\ written' = written \cup {partial[c].req}
           /\ owed' = IF partial[c].tok # 0 THEN [owed EXCEPT ![c] = @ \cup {partial[c]}] ELSE owed
           /\ \/ UNCHANGED <<responses, told, misread>>
              \/ \E i \in DOMAIN responses[c] : FreesResponse(c, i, "ok")
           /\ UNCHANGED <<queueVars, connVars, outboundMsgs, msgID, storeVars, broken, unused,
                          accepted, count, started, dropped, acked, cut, dialled, open, budget,
                          scenario>>
<1>1. /\ taken = None /\ partial[c] # None
      /\ partial' = [partial EXCEPT ![c] = None]
      /\ pending_write' = [pending_write EXCEPT ![c] = 0]
      /\ written' = written \cup {partial[c].req}
      /\ owed' = IF partial[c].tok # 0 THEN [owed EXCEPT ![c] = @ \cup {partial[c]}] ELSE owed
      /\ UNCHANGED <<queueVars, connVars, outboundMsgs, msgID, storeVars, broken, unused,
                     accepted, count, started, dropped, acked, cut, dialled, open, budget,
                     scenario>>
    BY DEF WriteDone, AsyncMutexFree
<1>2. PICK I \in Matches(c) :
        LET cmds == {responses[c][i] : i \in I}
            done == {x \in cmds : x.type = "PUBLISH" /\ WrittenTells(x)}
            kept == {x \in cmds : x.type = "PUBLISH" /\ ~WrittenTells(x)}
        IN  /\ told' = Tell(told, ReqsOf(done), "ok")
            /\ responses' = IF kept # {} THEN responses
                            ELSE [responses EXCEPT ![c] = Without(@, I)]
            /\ misread' = misread \cup {x.req : x \in cmds \ (done \cup kept)}
    BY DEF WriteDone
<1> DEFINE cmds == {responses[c][i] : i \in I}
           done == {x \in cmds : x.type = "PUBLISH" /\ WrittenTells(x)}
           kept == {x \in cmds : x.type = "PUBLISH" /\ ~WrittenTells(x)}
<1>3. /\ told' = Tell(told, ReqsOf(done), "ok")
      /\ responses' = IF kept # {} THEN responses ELSE [responses EXCEPT ![c] = Without(@, I)]
      /\ misread' = misread \cup {x.req : x \in cmds \ (done \cup kept)}
    BY <1>2
<1>4. responses \in [Clients -> Seq(DataCommands)]
    BY DEF Types, SessTypes
<1>5. CASE I = {}
    <2>1. done = {} /\ kept = {} /\ cmds = {}
        BY <1>5
    <2>2. [responses EXCEPT ![c] = Without(@, I)] = responses
        BY <1>4, <1>5 DEF Without
    <2>3. told' = told
        BY <1>3, <2>1, TellNobody
    <2>4. misread' = misread
        BY <1>3, <2>1
    <2> QED BY <1>1, <1>3, <2>1, <2>2, <2>3, <2>4
<1>6. ASSUME NEW i \in DOMAIN responses[c], I = {i}
      PROVE  FreesResponse(c, i, "ok")
    <2> DEFINE x == responses[c][i]
    <2>1. cmds = {x} /\ x \in DataCommands
        BY <1>4, <1>6, SeqFacts
    <2>2. x.type \in {"PUBLISH", "SUBSCRIBE"}
        BY <2>1 DEF DataCommands, DataKind
    <2>3. Without(responses[c], I) = RemoveAt(responses[c], i)
        BY <1>4, <1>6, WithoutFacts
    <2>4. CASE x.type = "PUBLISH" /\ x.req \in Pubs0
        <3>1. done = {x} /\ kept = {}
            BY <2>1, <2>4 DEF WrittenTells
        <3>2. misread' = misread
            BY <1>3, <2>1, <3>1
        <3> HIDE DEF done, kept
        <3> QED BY <1>3, <2>3, <2>4, <3>1, <3>2 DEF FreesResponse, Callbacks
    <2>5. CASE x.type = "PUBLISH" /\ x.req \notin Pubs0
        <3>1. done = {} /\ kept = {x}
            BY <2>1, <2>5 DEF WrittenTells
        <3>2. misread' = misread
            BY <1>3, <2>1, <3>1
        <3>3. told' = told
            BY <1>3, <3>1, TellNobody
        <3> HIDE DEF done, kept
        <3> QED BY <1>3, <2>5, <3>1, <3>2, <3>3 DEF FreesResponse
    <2>6. CASE x.type = "SUBSCRIBE"
        <3>1. done = {} /\ kept = {}
            BY <2>1, <2>6
        <3>2. misread' = misread \cup {x.req}
            BY <1>3, <2>1, <3>1
        <3>3. told' = told
            BY <1>3, <3>1, TellNobody
        <3> HIDE DEF done, kept
        <3> QED BY <1>3, <2>3, <2>6, <3>1, <3>2, <3>3 DEF FreesResponse
    <2> QED BY <2>2, <2>4, <2>5, <2>6
<1>7. I = {} \/ \E i \in DOMAIN responses[c] : I = {i}
    BY <1>2, MatchesFacts
<1> QED BY <1>1, <1>5, <1>6, <1>7

LEMMA WriteFailsWays ==
    ASSUME Types, NEW c \in Clients, WriteFails(c)
    PROVE  /\ taken = None /\ partial[c] # None
           /\ partial' = [partial EXCEPT ![c] = None]
           /\ pending_write' = [pending_write EXCEPT ![c] = 0]
           /\ cut' = cut \cup ({partial[c].req} \cap Pubs0)
           /\ \/ UNCHANGED <<responses, told, misread>>
              \/ \E i \in DOMAIN responses[c] : FreesResponse(c, i, "fail")
           /\ UNCHANGED <<queueVars, connVars, outboundMsgs, msgID, storeVars, broken, owed, unused,
                          accepted, count, started, dropped, acked, written, dialled, open, budget,
                          scenario>>
<1>1. /\ taken = None /\ partial[c] # None
      /\ partial' = [partial EXCEPT ![c] = None]
      /\ pending_write' = [pending_write EXCEPT ![c] = 0]
      /\ cut' = cut \cup ({partial[c].req} \cap Pubs0)
      /\ UNCHANGED <<queueVars, connVars, outboundMsgs, msgID, storeVars, broken, owed, unused,
                     accepted, count, started, dropped, acked, written, dialled, open, budget,
                     scenario>>
    BY DEF WriteFails, AsyncMutexFree
<1>2. PICK I \in Matches(c) :
        LET cmds == {responses[c][i] : i \in I}
            failed == {x \in cmds : x.type = "PUBLISH"}
        IN  /\ told' = Tell(told, ReqsOf(failed), "fail")
            /\ responses' = [responses EXCEPT ![c] = Without(@, I)]
            /\ misread' = misread \cup {x.req : x \in cmds \ failed}
    BY DEF WriteFails
<1> DEFINE cmds == {responses[c][i] : i \in I}
           failed == {x \in cmds : x.type = "PUBLISH"}
<1>3. /\ told' = Tell(told, ReqsOf(failed), "fail")
      /\ responses' = [responses EXCEPT ![c] = Without(@, I)]
      /\ misread' = misread \cup {x.req : x \in cmds \ failed}
    BY <1>2
<1>4. responses \in [Clients -> Seq(DataCommands)]
    BY DEF Types, SessTypes
<1>5. CASE I = {}
    <2>1. failed = {} /\ cmds = {}
        BY <1>5
    <2>2. [responses EXCEPT ![c] = Without(@, I)] = responses
        BY <1>4, <1>5 DEF Without
    <2>3. told' = told
        BY <1>3, <2>1, TellNobody
    <2>4. misread' = misread
        BY <1>3, <2>1
    <2> QED BY <1>1, <1>3, <2>1, <2>2, <2>3, <2>4
<1>6. ASSUME NEW i \in DOMAIN responses[c], I = {i}
      PROVE  FreesResponse(c, i, "fail")
    <2> DEFINE x == responses[c][i]
    <2>1. cmds = {x} /\ x \in DataCommands
        BY <1>4, <1>6, SeqFacts
    <2>2. x.type \in {"PUBLISH", "SUBSCRIBE"}
        BY <2>1 DEF DataCommands, DataKind
    <2>3. Without(responses[c], I) = RemoveAt(responses[c], i)
        BY <1>4, <1>6, WithoutFacts
    <2>4. CASE x.type = "PUBLISH"
        <3>1. failed = {x}
            BY <2>1, <2>4
        <3>2. misread' = misread
            BY <1>3, <2>1, <3>1
        <3> HIDE DEF failed
        <3> QED BY <1>3, <2>3, <2>4, <3>1, <3>2 DEF FreesResponse, Callbacks
    <2>6. CASE x.type = "SUBSCRIBE"
        <3>1. failed = {}
            BY <2>1, <2>6
        <3>2. misread' = misread \cup {x.req}
            BY <1>3, <2>1, <3>1
        <3>3. told' = told
            BY <1>3, <3>1, TellNobody
        <3> HIDE DEF failed
        <3> QED BY <1>3, <2>3, <2>6, <3>1, <3>2, <3>3 DEF FreesResponse
    <2> QED BY <2>2, <2>4, <2>6
<1>7. I = {} \/ \E i \in DOMAIN responses[c] : I = {i}
    BY <1>2, MatchesFacts
<1> QED BY <1>1, <1>5, <1>6, <1>7

LEMMA FreesResponseTypes ==
    ASSUME Types, NEW c \in Clients, NEW outcome \in {"ok", "fail"},
           \/ UNCHANGED <<responses, told, misread>>
           \/ \E i \in DOMAIN responses[c] : FreesResponse(c, i, outcome)
    PROVE  /\ responses' \in [Clients -> Seq(DataCommands)]
           /\ told' \in [Reqs -> Seq({"ok", "fail"})]
           /\ misread' \subseteq Data
<1>1. /\ responses \in [Clients -> Seq(DataCommands)]
      /\ told \in [Reqs -> Seq({"ok", "fail"})]
      /\ misread \subseteq Data
    BY DEF Types, SessTypes, AppTypes, HistTypes
<1>2. ASSUME NEW i \in DOMAIN responses[c], FreesResponse(c, i, outcome)
      PROVE  /\ responses' \in [Clients -> Seq(DataCommands)]
             /\ told' \in [Reqs -> Seq({"ok", "fail"})]
             /\ misread' \subseteq Data
    <2>1. responses[c][i] \in DataCommands
        BY <1>1, SeqFacts
    <2>2. responses[c][i].req \in Data
        BY <2>1, GoodFacts DEF Good
    <2>3. RemoveAt(responses[c], i) \in Seq(DataCommands)
        BY <1>1, RemoveAtFacts
    <2>4. Tell(told, Callbacks(responses[c][i]), outcome) \in [Reqs -> Seq({"ok", "fail"})]
        BY <1>1, TellType
    <2> QED BY <1>1, <1>2, <2>2, <2>3, <2>4 DEF FreesResponse
<1> QED BY <1>1, <1>2

LEMMA WriteDoneTypes ==
    ASSUME Types, NEW c \in Clients, WriteDone(c)
    PROVE  Types'
<1>0. /\ partial[c] # None
      /\ partial' = [partial EXCEPT ![c] = None]
      /\ pending_write' = [pending_write EXCEPT ![c] = 0]
      /\ written' = written \cup {partial[c].req}
      /\ owed' = IF partial[c].tok # 0 THEN [owed EXCEPT ![c] = @ \cup {partial[c]}] ELSE owed
      /\ UNCHANGED <<queueVars, connVars, outboundMsgs, msgID, storeVars, broken, unused,
                     accepted, count, started, dropped, acked, cut, dialled, open, budget,
                     scenario>>
    BY WriteDoneWays
<1>1. /\ responses' \in [Clients -> Seq(DataCommands)]
      /\ told' \in [Reqs -> Seq({"ok", "fail"})]
      /\ misread' \subseteq Data
    BY WriteDoneWays, FreesResponseTypes
<1>2. partial[c] \in DataPackets /\ partial[c].req \in Data
    BY <1>0, PartialFacts DEF Types
<1>3. SessTypes'
    <2>1. pending_write' \in [Clients -> Int]
        BY <1>0 DEF Types, SessTypes
    <2>2. UNCHANGED <<outboundMsgs, msgID>>
        BY <1>0
    <2> QED BY <1>1, <2>1, <2>2 DEF Types, SessTypes
<1>4. SockTypes'
    BY <1>0, <1>2 DEF Types, SockTypes
<1>5. AppTypes' /\ HistTypes'
    BY <1>0, <1>1, <1>2 DEF Types, AppTypes, HistTypes
<1>6. QueueTypes' /\ ConnTypes' /\ StoreTypes' /\ EnvTypes'
    BY <1>0, Kept DEF Types, storeVars
<1> QED BY <1>3, <1>4, <1>5, <1>6 DEF Types

LEMMA WriteFailsTypes ==
    ASSUME Types, NEW c \in Clients, WriteFails(c)
    PROVE  Types'
<1>0. /\ partial[c] # None
      /\ partial' = [partial EXCEPT ![c] = None]
      /\ pending_write' = [pending_write EXCEPT ![c] = 0]
      /\ cut' = cut \cup ({partial[c].req} \cap Pubs0)
      /\ UNCHANGED <<queueVars, connVars, outboundMsgs, msgID, storeVars, broken, owed, unused,
                     accepted, count, started, dropped, acked, written, dialled, open, budget,
                     scenario>>
    BY WriteFailsWays
<1>1. /\ responses' \in [Clients -> Seq(DataCommands)]
      /\ told' \in [Reqs -> Seq({"ok", "fail"})]
      /\ misread' \subseteq Data
    BY WriteFailsWays, FreesResponseTypes
<1>3. SessTypes'
    <2>1. pending_write' \in [Clients -> Int]
        BY <1>0 DEF Types, SessTypes
    <2>2. UNCHANGED <<outboundMsgs, msgID>>
        BY <1>0
    <2> QED BY <1>1, <2>1, <2>2 DEF Types, SessTypes
<1>4. SockTypes'
    BY <1>0 DEF Types, SockTypes
<1>5. AppTypes' /\ HistTypes'
    BY <1>0, <1>1 DEF Types, AppTypes, HistTypes
<1>6. QueueTypes' /\ ConnTypes' /\ StoreTypes' /\ EnvTypes'
    BY <1>0, Kept DEF Types, storeVars
<1> QED BY <1>3, <1>4, <1>5, <1>6 DEF Types

LEMMA BreakTypes ==
    ASSUME Types, NEW c \in Clients, Break(c)
    PROVE  Types'
<1>0. /\ Spend("loss")
      /\ broken' = [broken EXCEPT ![c] = TRUE]
      /\ UNCHANGED <<queueVars, connVars, sessVars, storeVars, partial, owed, appVars, histVars,
                     scenario>>
    BY DEF Break
<1>1. SockTypes'
    BY <1>0 DEF Types, SockTypes
<1>2. EnvTypes'
    BY <1>0, SpendKept DEF Types, Kinds
<1>3. QueueTypes' /\ ConnTypes' /\ SessTypes' /\ StoreTypes' /\ AppTypes' /\ HistTypes'
    BY <1>0, Kept DEF Types, storeVars
<1> QED BY <1>1, <1>2, <1>3 DEF Types

(* The largest sequence number in a store. *)
LEMMA LargestType ==
    ASSUME NEW S \in SUBSET (0 .. SeqnoLimit - 1)
    PROVE  /\ Largest(S) \in 0 .. SeqnoLimit - 1
           /\ \A y \in S : y <= Largest(S)
           /\ S # {} => Largest(S) \in S
<1>0. SeqnoLimit \in Nat \ {0}
    BY AsyncAssumption
<1>1. CASE S = {}
    BY <1>0, <1>1 DEF Largest
<1>2. CASE S # {}
    <2>1. S \in SUBSET Nat /\ SeqnoLimit \in Nat /\ \A k \in S : k <= SeqnoLimit
        BY <1>0
    <2>2. \E k \in S : \A l \in S : l <= k
        BY <1>2, <2>1, GreatestNatural
    <2>3. Largest(S) \in S /\ \A y \in S : y <= Largest(S)
        BY <1>2, <2>2 DEF Largest
    <2> QED BY <2>3
<1> QED BY <1>1, <1>2

(* The records when addCommand has written the new one. *)
Recorded(x) == [store EXCEPT ![x.client] = WithRecord(Numbered(x))]

LEMMA StoreRecords == Types => RecordsOK(store)
BY DEF Types, StoreTypes, RecordsOK, RecordSet

LEMMA RecordedFacts ==
    ASSUME Types, NEW x \in DataCommands
    PROVE  RecordsOK(Recorded(x))
<1> DEFINE y == Numbered(x)
           c == x.client
<1>0. c \in Clients
    BY DEF DataCommands, Commands
<1>1. /\ y \in DataCommands /\ y.client = c
      /\ y.key = IF Persists(x) THEN Seqno(c) ELSE 0
    BY NumberedFacts
<1>2. Recorded(x) = [store EXCEPT ![c] = WithRecord(y)]
    BY DEF Recorded
<1> HIDE DEF y
<1>3. y.key < SeqnoLimit
    BY <1>0, <1>1, SeqnoType, AsyncAssumption
<1>4. WithRecord(y) \subseteq store[c] \cup {y}
    BY <1>1 DEF WithRecord
<1>5. IsFiniteSet(WithRecord(y))
    <2>1. IsFiniteSet(store[c] \cup {y})
        BY <1>0, FS_AddElement DEF Types, StoreTypes
    <2> QED BY <1>4, <2>1, FS_Subset
<1> DEFINE W == WithRecord(y)
<1>6. /\ W \subseteq DataCommands /\ IsFiniteSet(W)
      /\ \A rec \in W : rec.client = c /\ rec.key < SeqnoLimit
    BY <1>0, <1>1, <1>3, <1>4, <1>5 DEF Types, StoreTypes
<1> HIDE DEF W
<1>7. RecordsOK([store EXCEPT ![c] = W])
    BY <1>0, <1>6, StoreRecords DEF RecordsOK, RecordSet
<1> QED BY <1>2, <1>7 DEF W

(* What restoreCommands reads. *)
ReadFrom(S, x) == \E rec \in S : x = Blank(rec)

LEMMA RecordFacts ==
    ASSUME NEW c \in Clients, NEW S, RecordSet(S, c)
    PROVE  /\ IsFiniteSet(RestoreCommands(S))
           /\ \A x \in RestoreCommands(S) :
                /\ x \in DataCommands /\ x.client = c /\ x.cb = FALSE /\ x.key \in Nat
                /\ ReadFrom(S, x)
           /\ \A rec \in S : Blank(rec) \in RestoreCommands(S)
<1>1. /\ S \subseteq DataCommands /\ IsFiniteSet(S)
      /\ \A rec \in S : rec.client = c /\ rec.key < SeqnoLimit
    BY DEF RecordSet
<1>2. RestoreCommands(S) = {Blank(rec) : rec \in S}
    BY DEF RestoreCommands, Blank
<1>3. IsFiniteSet(RestoreCommands(S))
    <2> DEFINE f == [rec \in S |-> Blank(rec)]
    <2>1. f \in Surjection(S, RestoreCommands(S))
        BY <1>2 DEF Surjection
    <2> QED BY <1>1, <2>1, FS_Surjection
<1>4. \A rec \in S :
        /\ Blank(rec) \in DataCommands /\ Blank(rec).client = c /\ Blank(rec).cb = FALSE
        /\ Blank(rec).key \in Nat
    <2> TAKE rec \in S
    <2>1. rec \in DataCommands /\ rec \in Commands /\ rec.client = c /\ rec.key \in Nat
        BY <1>1 DEF DataCommands, Commands
    <2> DEFINE y == [rec EXCEPT !.cb = FALSE]
    <2>2. /\ y \in Commands /\ y.cb = FALSE
          /\ y.type = rec.type /\ y.client = rec.client /\ y.req = rec.req /\ y.tok = rec.tok
          /\ y.key = rec.key
        BY <2>1, ChangeCb
    <2> HIDE DEF y
    <2>3. y \in DataCommands
        BY <2>1, <2>2 DEF DataCommands, DataKind
    <2> QED BY <2>1, <2>2, <2>3 DEF y, Blank
<1> QED BY <1>2, <1>3, <1>4 DEF ReadFrom

KeysOf(S) == {rec.key : rec \in S}

LEMMA KeyFacts ==
    ASSUME NEW c \in Clients, NEW S, RecordSet(S, c)
    PROVE  /\ Largest(KeysOf(S)) \in 0 .. SeqnoLimit - 1
           /\ \A rec \in S : rec.key <= Largest(KeysOf(S))
           /\ S # {} => \E rec \in S : rec.key = Largest(KeysOf(S))
           /\ S = {} => Largest(KeysOf(S)) = 0
<1>1. \A rec \in S : rec.key \in 0 .. SeqnoLimit - 1
    BY AsyncAssumption DEF RecordSet, DataCommands, Commands
<1>2. KeysOf(S) \in SUBSET (0 .. SeqnoLimit - 1)
    BY <1>1 DEF KeysOf
<1>3. /\ Largest(KeysOf(S)) \in 0 .. SeqnoLimit - 1
      /\ \A y \in KeysOf(S) : y <= Largest(KeysOf(S))
      /\ KeysOf(S) # {} => Largest(KeysOf(S)) \in KeysOf(S)
    BY <1>2, LargestType
<1>4. /\ \A rec \in S : rec.key \in KeysOf(S)
      /\ \A k \in KeysOf(S) : \E rec \in S : rec.key = k
      /\ S # {} => KeysOf(S) # {}
      /\ S = {} => KeysOf(S) = {}
    BY DEF KeysOf
<1>5. KeysOf(S) = {} => Largest(KeysOf(S)) = 0
    BY DEF Largest
<1> QED BY <1>3, <1>4, <1>5

(* What all clients together read after a kill. *)
AllRecords(R) == UNION {RestoreCommands(R[c]) : c \in Clients}

LEMMA AllRecordFacts ==
    ASSUME NEW R, RecordsOK(R), NEW order \in Injection(Clients, 1 .. Cardinality(Clients)),
           NEW q \in Restored(AllRecords(R), order)
    PROVE  /\ q \in Seq(DataCommands) /\ q \in Seq(Good)
           /\ ToSet(q) = AllRecords(R)
           /\ \A i, j \in DOMAIN q : i < j => RestoredBefore(q[i], q[j], order)
           /\ \A i, j \in DOMAIN q : q[i] = q[j] => i = j
           /\ \A i, j \in DOMAIN q : i < j /\ q[i].client = q[j].client => q[i].key < q[j].key
<1>1. \A x \in AllRecords(R) : x \in DataCommands /\ x.client \in Clients /\ x.key \in Nat
    <2>1. \A x \in AllRecords(R) : \E c \in Clients : x \in RestoreCommands(R[c])
        BY DEF AllRecords
    <2>2. ASSUME NEW c \in Clients, NEW x \in RestoreCommands(R[c])
          PROVE  x \in DataCommands /\ x.client = c /\ x.key \in Nat
        BY RecordFacts DEF RecordsOK
    <2> QED BY <2>1, <2>2
<1>2. IsFiniteSet(AllRecords(R))
    <2> DEFINE S == {RestoreCommands(R[c]) : c \in Clients}
    <2>1. IsFiniteSet(S)
        <3> DEFINE f == [c \in Clients |-> RestoreCommands(R[c])]
        <3>1. f \in Surjection(Clients, S)
            BY DEF Surjection
        <3> QED BY <3>1, AsyncAssumption, FS_Surjection
    <2>2. \A s \in S : IsFiniteSet(s)
        <3>1. \A c \in Clients : IsFiniteSet(RestoreCommands(R[c]))
            BY RecordFacts DEF RecordsOK
        <3> QED BY <3>1
    <2> HIDE DEF S
    <2>3. IsFiniteSet(UNION S)
        BY <2>1, <2>2, FS_UNION
    <2> QED BY <2>3 DEF AllRecords, S
<1>3. \A c \in Clients : order[c] \in Nat
    <2>1. Cardinality(Clients) \in Nat
        BY AsyncAssumption, FS_CardinalityType
    <2> QED BY <2>1 DEF Injection
<1>4. \A x \in AllRecords(R) : ~RestoredBefore(x, x, order)
    BY <1>1, <1>3 DEF RestoredBefore
<1>5. /\ q \in Seq(AllRecords(R))
      /\ ToSet(q) = AllRecords(R)
      /\ \A i, j \in DOMAIN q : i < j => RestoredBefore(q[i], q[j], order)
      /\ \A i, j \in DOMAIN q : q[i] = q[j] => i = j
      /\ DOMAIN q = 1 .. Len(q) /\ Len(q) \in Nat
    BY <1>2, <1>4, RestoredFacts
<1>6. \A i \in DOMAIN q : q[i] \in AllRecords(R)
    BY <1>5, SeqFacts
<1>7. q \in Seq(DataCommands) /\ q \in Seq(Good)
    <2>1. q \in [1 .. Len(q) -> AllRecords(R)]
        BY <1>5
    <2>2. q \in [1 .. Len(q) -> DataCommands] /\ q \in [1 .. Len(q) -> Good]
        BY <1>1, <2>1 DEF Good
    <2> QED BY <1>5, <2>2, SeqOfFunction
<1>8. \A i, j \in DOMAIN q : i < j /\ q[i].client = q[j].client => q[i].key < q[j].key
    BY <1>1, <1>3, <1>5, <1>6 DEF RestoredBefore
<1> QED BY <1>5, <1>7, <1>8

(* A restart with the records R. *)
LEMMA RestartWays ==
    ASSUME NEW R, Restart(R)
    PROVE  /\ store' = R
           /\ taken' = None /\ api' = [t \in Threads |-> None]
           /\ connected' = Each(FALSE) /\ connect_state' = Each("NOT_IN_PROGRESS")
           /\ connect' = [c \in Clients |-> NoConnect(c)]
           /\ disconnect' = [c \in Clients |-> Command("DISCONNECT", c, None, 0)]
           /\ shouldBeConnected' = Each(FALSE) /\ retrying' = Each(FALSE)
           /\ responses' = Each(<<>>) /\ pending_write' = Each(0) /\ msgID' = Each(0)
           /\ broken' = Each(FALSE) /\ partial' = Each(None) /\ owed' = Each({})
           /\ open' = Each(0) /\ dialled' = Each(0)
           /\ \E order \in Injection(Clients, 1 .. Cardinality(Clients)) :
                commands' \in Restored(AllRecords(R), order)
           /\ outboundMsgs' = [c \in Clients |-> Inflight(c)]
           /\ noBufferedMessages' = [c \in Clients |-> CountRestored(R[c])]
           /\ command_seqno' = [c \in Clients |-> Largest(KeysOf(R[c]))]
           /\ accepted' = {}
           /\ UNCHANGED <<unused, told, started, dropped, misread, acked, written, cut, scenario>>
BY DEF Restart, AllRecords, KeysOf

LEMMA RestartTypes ==
    ASSUME Types, NEW R, RecordsOK(R), Restart(R), count' \in Nat,
           NEW what \in Kinds, Spend(what)
    PROVE  Types'
<1>1. QueueTypes'
    <2>1. commands' \in Seq(Good)
        BY RestartWays, AllRecordFacts
    <2>2. taken' = None /\ api' = [t \in Threads |-> None]
        BY RestartWays
    <2> QED BY <2>1, <2>2 DEF QueueTypes
<1>2. ConnTypes'
    <2>1. /\ connect' = [c \in Clients |-> NoConnect(c)]
          /\ disconnect' = [c \in Clients |-> Command("DISCONNECT", c, None, 0)]
          /\ connected' = Each(FALSE) /\ connect_state' = Each("NOT_IN_PROGRESS")
          /\ shouldBeConnected' = Each(FALSE) /\ retrying' = Each(FALSE)
        BY RestartWays
    <2>2. ConnectOK(connect') /\ DisconnectOK(disconnect')
        BY <2>1, NewHeads DEF ConnectOK, DisconnectOK
    <2> QED BY <2>1, <2>2 DEF ConnTypes, Each
<1>3. SessTypes'
    <2>1. /\ responses' = Each(<<>>) /\ pending_write' = Each(0) /\ msgID' = Each(0)
          /\ outboundMsgs' = [c \in Clients |-> Inflight(c)]
        BY RestartWays
    <2>2. 0 \in 0 .. MaxMsgId
        BY MaxMsgIdAssumption
    <2>3. outboundMsgs' \in [Clients -> Seq([tok : Ids, req : Pubs1])]
        <3>1. \A c \in Clients : Inflight(c) \in Seq([tok : Ids, req : Pubs1])
            <4>1. <<>> \in Seq([tok : Ids, req : Pubs1])
                OBVIOUS
            <4> QED BY <4>1 DEF Types, SessTypes, Inflight
        <3> QED BY <2>1, <3>1
    <2>4. <<>> \in Seq(DataCommands)
        OBVIOUS
    <2>5. /\ responses' \in [Clients -> Seq(DataCommands)]
          /\ pending_write' \in [Clients -> Int] /\ msgID' \in [Clients -> 0 .. MaxMsgId]
        BY <2>1, <2>2, <2>4 DEF Each
    <2> QED BY <2>3, <2>5 DEF SessTypes
<1>4. StoreTypes'
    <2>1. /\ command_seqno' = [c \in Clients |-> Largest(KeysOf(R[c]))]
          /\ store' = R
        BY RestartWays
    <2>2. command_seqno' \in [Clients -> 0 .. SeqnoLimit - 1]
        BY <2>1, KeyFacts DEF RecordsOK
    <2> QED BY <2>1, <2>2 DEF StoreTypes, RecordsOK, RecordSet
<1>5. SockTypes'
    <2>1. broken' = Each(FALSE) /\ partial' = Each(None) /\ owed' = Each({})
        BY RestartWays
    <2> QED BY <2>1 DEF SockTypes, Each
<1>6. AppTypes' /\ HistTypes'
    <2>1. /\ open' = Each(0) /\ dialled' = Each(0) /\ accepted' = {}
          /\ UNCHANGED <<unused, told, started, dropped, misread, acked, written, cut>>
        BY RestartWays
    <2> QED BY <2>1 DEF Types, AppTypes, HistTypes, Each
<1>7. EnvTypes'
    <2>1. UNCHANGED scenario
        BY RestartWays
    <2> QED BY <2>1, SpendKept DEF Types, Kinds
<1> QED BY <1>1, <1>2, <1>3, <1>4, <1>5, <1>6, <1>7 DEF Types

LEMMA KillTypes ==
    ASSUME Types, Kill
    PROVE  Types'
<1>1. Restart(store) /\ count' = count /\ Spend("kill") /\ "kill" \in Kinds
    BY DEF Kill, Kinds
<1>2. RecordsOK(store) /\ count' \in Nat
    BY <1>1, StoreRecords DEF Types, HistTypes
<1> QED BY <1>1, <1>2, RestartTypes

LEMMA KillInAddCommandWays ==
    ASSUME Types, NEW t \in Threads, KillInAddCommand(t)
    PROVE  /\ api[t] \in DataCommands /\ api[t].type = "PUBLISH"
           /\ Full(api[t].client) /\ Persists(api[t]) /\ Spend("tear")
           /\ Restart(Recorded(api[t])) /\ count' = count + 1
<1>1. /\ api[t] # None /\ api[t].type = "PUBLISH"
      /\ Full(api[t].client) /\ Persists(api[t]) /\ Spend("tear")
      /\ Restart(Recorded(api[t])) /\ count' = count + 1
    BY DEF KillInAddCommand, Recorded
<1>2. api[t] \in Good
    BY <1>1 DEF Types, QueueTypes
<1>3. api[t] \in DataCommands
    BY <1>1, <1>2, GoodFacts DEF IsData
<1> QED BY <1>1, <1>3

LEMMA KillInAddCommandTypes ==
    ASSUME Types, NEW t \in Threads, KillInAddCommand(t)
    PROVE  Types'
<1>1. /\ api[t] \in DataCommands /\ Spend("tear") /\ "tear" \in Kinds
      /\ Restart(Recorded(api[t])) /\ count' = count + 1
    BY KillInAddCommandWays DEF Kinds
<1> DEFINE R == Recorded(api[t])
<1>2. RecordsOK(R) /\ count' \in Nat /\ Restart(R)
    BY <1>1, RecordedFacts DEF Types, HistTypes
<1> HIDE DEF R
<1> QED BY <1>1, <1>2, RestartTypes

(* The commands of the other clients, which a destroy leaves in the list. *)
OthersOf(c) == {i \in DOMAIN commands : commands[i].client # c}
InflightOf(c) == IF scenario.clean THEN <<>> ELSE Inflight(c)

LEMMA RecreateWays ==
    ASSUME NEW c, Recreate(c)
    PROVE  /\ taken = None /\ Spend("kill") /\ ~InUse(c) /\ CloseOnly(c)
           /\ told' = Tell(told, ReqsOf(Freed(c)), "fail")
           /\ responses' = [responses EXCEPT ![c] = <<>>]
           /\ \E others \in Remaining(commands, OthersOf(c)),
                 own \in Restored(RestoreCommands(store[c]), Each(0)) : commands' = others \o own
           /\ outboundMsgs' = [outboundMsgs EXCEPT ![c] = InflightOf(c)]
           /\ msgID' = [msgID EXCEPT ![c] = 0]
           /\ pending_write' = [pending_write EXCEPT ![c] = 0]
           /\ connect' = [connect EXCEPT ![c] = NoConnect(c)]
           /\ disconnect' = [disconnect EXCEPT ![c] = Command("DISCONNECT", c, None, 0)]
           /\ shouldBeConnected' = [shouldBeConnected EXCEPT ![c] = FALSE]
           /\ retrying' = [retrying EXCEPT ![c] = FALSE]
           /\ noBufferedMessages' = [noBufferedMessages EXCEPT ![c] = CountRestored(store[c])]
           /\ command_seqno' = [command_seqno EXCEPT ![c] = Largest(KeysOf(store[c]))]
           /\ open' = [open EXCEPT ![c] = 0]
           /\ UNCHANGED <<taken, api, store, unused, accepted, count, started, dropped, misread,
                          acked, written, dialled, scenario>>
BY DEF Recreate, AsyncMutexFree, OthersOf, InflightOf, KeysOf

(* The list after a client was created again: what is left, then its records. *)
LEMMA RecreateList ==
    ASSUME Types, NEW c \in Clients, NEW others \in Remaining(commands, OthersOf(c)),
           NEW own \in Restored(RestoreCommands(store[c]), Each(0))
    PROVE  /\ others \in Seq(Good) /\ ToSet(others) = {commands[i] : i \in OthersOf(c)}
           /\ \E f \in [DOMAIN others -> OthersOf(c)] :
                 /\ \A k \in DOMAIN others : others[k] = commands[f[k]]
                 /\ \A k, l \in DOMAIN others : k < l => f[k] < f[l]
                 /\ \A i \in OthersOf(c) : \E k \in DOMAIN others : f[k] = i
           /\ own \in Seq(Good) /\ own \in Seq(DataCommands) /\ ToSet(own) = RestoreCommands(store[c])
           /\ \A i, j \in DOMAIN own : i < j => own[i].key < own[j].key
           /\ \A i, j \in DOMAIN own : own[i] = own[j] => i = j
<1>1. commands \in Seq(Good) /\ OthersOf(c) \in SUBSET DOMAIN commands
    BY DEF Types, QueueTypes, OthersOf
<1>2. /\ others \in Seq(Good) /\ ToSet(others) = {commands[i] : i \in OthersOf(c)}
      /\ \E f \in [DOMAIN others -> OthersOf(c)] :
            /\ \A k \in DOMAIN others : others[k] = commands[f[k]]
            /\ \A k, l \in DOMAIN others : k < l => f[k] < f[l]
            /\ \A i \in OthersOf(c) : \E k \in DOMAIN others : f[k] = i
    <2>1. others \in Seq(Good) /\ ToSet(others) = {commands[i] : i \in OthersOf(c)}
        BY <1>1, RemainingFacts
    <2>2. \E f \in [DOMAIN others -> OthersOf(c)] :
            /\ \A k \in DOMAIN others : others[k] = commands[f[k]]
            /\ \A k, l \in DOMAIN others : k < l => f[k] < f[l]
            /\ \A i \in OthersOf(c) : \E k \in DOMAIN others : f[k] = i
        BY <1>1, RemainingFacts, SMTT(60)
    <2> QED BY <2>1, <2>2
<1> DEFINE S == RestoreCommands(store[c])
<1>3. /\ IsFiniteSet(S)
      /\ \A x \in S : x \in DataCommands /\ x.client = c /\ x.key \in Nat
    <2>1. RecordSet(store[c], c)
        BY StoreRecords DEF RecordsOK
    <2> QED BY <2>1, RecordFacts
<1> HIDE DEF S
<1>4. \A x, y \in S : RestoredBefore(x, y, Each(0)) <=> x.key < y.key
    BY <1>3 DEF RestoredBefore, Each
<1>5. \A x \in S : ~RestoredBefore(x, x, Each(0))
    BY <1>3, <1>4
<1>6. /\ own \in Seq(S) /\ ToSet(own) = S
      /\ \A i, j \in DOMAIN own : i < j => RestoredBefore(own[i], own[j], Each(0))
      /\ \A i, j \in DOMAIN own : own[i] = own[j] => i = j
      /\ DOMAIN own = 1 .. Len(own) /\ Len(own) \in Nat
    BY <1>3, <1>5, RestoredFacts DEF S
<1>7. \A i \in DOMAIN own : own[i] \in S
    BY <1>6, SeqFacts
<1>8. own \in [1 .. Len(own) -> DataCommands] /\ own \in [1 .. Len(own) -> Good]
    <2>1. own \in [1 .. Len(own) -> S]
        BY <1>6
    <2> QED BY <1>3, <2>1 DEF Good
<1>9. own \in Seq(Good) /\ own \in Seq(DataCommands)
    BY <1>6, <1>8, SeqOfFunction
<1>10. \A i, j \in DOMAIN own : i < j => own[i].key < own[j].key
    BY <1>4, <1>6, <1>7
<1> QED BY <1>2, <1>6, <1>9, <1>10 DEF S

LEMMA RecreateTypes ==
    ASSUME Types, NEW c \in Clients, Recreate(c)
    PROVE  Types'
<1>1. QueueTypes'
    <2>1. PICK others \in Remaining(commands, OthersOf(c)),
               own \in Restored(RestoreCommands(store[c]), Each(0)) : commands' = others \o own
        BY RecreateWays
    <2>2. others \in Seq(Good) /\ own \in Seq(Good)
        BY RecreateList
    <2>3. commands' \in Seq(Good)
        BY <2>1, <2>2, ConcatFacts
    <2>4. UNCHANGED <<taken, api>>
        BY RecreateWays
    <2> QED BY <2>3, <2>4 DEF Types, QueueTypes
<1>0. /\ CloseOnly(c) /\ Spend("kill")
      /\ told' = Tell(told, ReqsOf(Freed(c)), "fail")
      /\ responses' = [responses EXCEPT ![c] = <<>>]
      /\ outboundMsgs' = [outboundMsgs EXCEPT ![c] = InflightOf(c)]
      /\ msgID' = [msgID EXCEPT ![c] = 0]
      /\ pending_write' = [pending_write EXCEPT ![c] = 0]
      /\ connect' = [connect EXCEPT ![c] = NoConnect(c)]
      /\ disconnect' = [disconnect EXCEPT ![c] = Command("DISCONNECT", c, None, 0)]
      /\ shouldBeConnected' = [shouldBeConnected EXCEPT ![c] = FALSE]
      /\ retrying' = [retrying EXCEPT ![c] = FALSE]
      /\ command_seqno' = [command_seqno EXCEPT ![c] = Largest(KeysOf(store[c]))]
      /\ open' = [open EXCEPT ![c] = 0]
      /\ UNCHANGED <<taken, api, store, unused, accepted, count, started, dropped, misread,
                     acked, written, dialled, scenario>>
    BY RecreateWays
<1>2. /\ connected' \in [Clients -> BOOLEAN]
      /\ connect_state' \in [Clients -> {"NOT_IN_PROGRESS", "TCP_IN_PROGRESS",
                                         "WAIT_FOR_CONNACK", "DISCONNECTING"}]
      /\ SockTypes'
      /\ cut' \subseteq Pubs0
    BY <1>0, CloseOnlyTypes DEF Types
<1>3. ConnTypes'
    <2>1. ConnectOK(connect') /\ DisconnectOK(disconnect')
        BY <1>0, NewHeads DEF Types, ConnTypes, ConnectOK, DisconnectOK
    <2>2. shouldBeConnected' \in [Clients -> BOOLEAN] /\ retrying' \in [Clients -> BOOLEAN]
        BY <1>0 DEF Types, ConnTypes
    <2> QED BY <1>2, <2>1, <2>2 DEF ConnTypes
<1>4. SessTypes'
    <2>1. 0 \in 0 .. MaxMsgId /\ 0 \in Int
        BY MaxMsgIdAssumption
    <2>2. <<>> \in Seq(DataCommands) /\ <<>> \in Seq([tok : Ids, req : Pubs1])
        OBVIOUS
    <2>3. InflightOf(c) \in Seq([tok : Ids, req : Pubs1])
        BY <2>2 DEF Types, SessTypes, Inflight, InflightOf
    <2> QED BY <1>0, <2>1, <2>2, <2>3 DEF Types, SessTypes
<1>5. StoreTypes'
    <2>1. command_seqno' \in [Clients -> 0 .. SeqnoLimit - 1]
        BY <1>0, StoreRecords, KeyFacts DEF Types, StoreTypes, RecordsOK
    <2> QED BY <1>0, <2>1 DEF Types, StoreTypes
<1>6. AppTypes' /\ HistTypes'
    <2>1. told' \in [Reqs -> Seq({"ok", "fail"})]
        BY <1>0, TellType DEF Types, AppTypes
    <2> QED BY <1>0, <1>2, <2>1 DEF Types, AppTypes, HistTypes
<1>7. EnvTypes'
    BY <1>0, SpendKept DEF Types, Kinds
<1> QED BY <1>1, <1>2, <1>3, <1>4, <1>5, <1>6, <1>7 DEF Types

LEMMA InitTypes == Init => Types
<1> SUFFICES ASSUME Init PROVE Types
    OBVIOUS
<1>1. QueueTypes
    <2>1. <<>> \in Seq(Good)
        OBVIOUS
    <2> QED BY <2>1 DEF Init, QueueTypes
<1>2. ConnTypes
    <2>1. ConnectOK(connect) /\ DisconnectOK(disconnect)
        BY NewHeads DEF Init, ConnectOK, DisconnectOK
    <2> QED BY <2>1 DEF Init, ConnTypes, Each
<1>3. SessTypes
    <2>1. 0 \in 0 .. MaxMsgId
        BY MaxMsgIdAssumption
    <2>2. <<>> \in Seq(DataCommands) /\ <<>> \in Seq([tok : Ids, req : Pubs1])
        OBVIOUS
    <2>3. /\ responses = Each(<<>>) /\ pending_write = Each(0)
          /\ outboundMsgs = Each(<<>>) /\ msgID = Each(0)
        BY DEF Init
    <2> QED BY <2>1, <2>2, <2>3 DEF SessTypes, Each
<1>4. StoreTypes
    <2>1. IsFiniteSet({})
        BY FS_EmptySet
    <2>2. command_seqno = Each(0) /\ store = Each({})
        BY DEF Init
    <2> QED BY <2>1, <2>2, AsyncAssumption DEF StoreTypes, Each
<1>5. SockTypes
    BY DEF Init, SockTypes, Each
<1>6. EnvTypes /\ scenario \in Scenario
    BY AsyncAssumption DEF Init, EnvTypes, Scenario
<1>7. AppTypes
    <2>1. <<>> \in Seq({"ok", "fail"})
        OBVIOUS
    <2>2. scenario.reqs \subseteq Reqs
        BY <1>6 DEF Scenario
    <2> QED BY <2>1, <2>2 DEF Init, AppTypes
<1>8. HistTypes
    BY DEF Init, HistTypes, Each
<1> QED BY <1>1, <1>2, <1>3, <1>4, <1>5, <1>6, <1>7, <1>8 DEF Types

(* The steps of Next, the ones that end in nextOrClose together. *)
LEMMA Steps ==
    ASSUME Types, Next
    PROVE  \/ \E t \in Threads : AddCommand(t)
           \/ \E t \in Threads, c \in scenario.clients :
                \/ \E r \in Pubs : Send(t, c, r) \/ SendRefused(t, c, r)
                \/ \E r \in Subs : Subscribe(t, c, r)
                \/ \E r \in Conns : Connect(t, c, r)
                \/ \E r \in Discs : Disconnect(t, c, r)
           \/ Take \/ ExecConnectBusy \/ ExecConnect \/ ExecConnectFails
           \/ \E outcome \in {"complete", "interrupted", "error"} : ExecData(outcome)
           \/ ExecDisconnect
           \/ \E c \in Clients :
                \/ DisconnectTimeout(c) \/ RetryTimer(c) \/ Closes(c) \/ TransportDone(c)
                \/ \E present \in BOOLEAN : ConnackAccepts(c, present)
                \/ ResendFails(c)
                \/ \E p \in owed[c], outcome \in {"ok", "fail"} : Ack(c, p, outcome)
                \/ WriteDone(c) \/ WriteFails(c)
           \/ \E c \in scenario.clients : Reconnect(c) \/ Break(c) \/ Recreate(c)
           \/ Kill
           \/ \E t \in Threads : KillInAddCommand(t)
BY DEF Next, Application, SendThread, ReceiveThread, Closes

LEMMA ScenarioFacts ==
    ASSUME EnvTypes
    PROVE  /\ scenario \in Scenario
           /\ \A c \in scenario.clients : c \in Clients
           /\ scenario.persistence \in BOOLEAN /\ scenario.default \in BOOLEAN
           /\ scenario.auto \in BOOLEAN /\ scenario.clean \in BOOLEAN
           /\ scenario.deleteOldest \in BOOLEAN /\ scenario.uris \in Nat
           /\ scenario.persistQoS0 \in BOOLEAN
           /\ scenario.maxBuffered \in Nat /\ scenario.budget \in Budgets
           /\ scenario.threads \subseteq Threads /\ scenario.reqs \subseteq Reqs
<1>1. scenario \in Scenario
    BY AsyncAssumption DEF EnvTypes
<1> QED BY <1>1 DEF Scenario

LEMMA TypesStep == Types /\ [Next]_vars => Types'
<1> SUFFICES ASSUME Types, [Next]_vars PROVE Types'
    OBVIOUS
<1>0. CASE UNCHANGED vars
    BY <1>0, Kept DEF Types, vars, storeVars
<1>1. CASE Next
    <2>0. \A c \in scenario.clients : c \in Clients
        BY ScenarioFacts DEF Types
    <2>1. ASSUME NEW t \in Threads, AddCommand(t) PROVE Types'
        BY <2>1, AddCommandTypes
    <2>2. ASSUME NEW t \in Threads, NEW c \in Clients, NEW r \in Pubs, Send(t, c, r) PROVE Types'
        BY <2>2, SendTypes
    <2>3. ASSUME NEW t \in Threads, NEW c \in Clients, NEW r \in Pubs, SendRefused(t, c, r)
          PROVE  Types'
        BY <2>3, SendRefusedTypes
    <2>4. ASSUME NEW t \in Threads, NEW c \in Clients, NEW r \in Subs, Subscribe(t, c, r) PROVE Types'
        BY <2>4, SubscribeTypes
    <2>5. ASSUME NEW t \in Threads, NEW c \in Clients, NEW r \in Conns, Connect(t, c, r) PROVE Types'
        BY <2>5, ConnectTypes
    <2>6. ASSUME NEW t \in Threads, NEW c \in Clients, NEW r \in Discs, Disconnect(t, c, r)
          PROVE  Types'
        BY <2>6, DisconnectTypes
    <2>7. CASE Take \/ ExecConnectBusy \/ ExecConnect \/ ExecConnectFails \/ ExecDisconnect
        BY <2>7, TakeTypes, ExecConnectBusyTypes, ExecConnectTypes, ExecConnectFailsTypes,
           ExecDisconnectTypes
    <2>8. ASSUME NEW outcome \in {"complete", "interrupted", "error"}, ExecData(outcome)
          PROVE  Types'
        BY <2>8, ExecDataTypes
    <2>9. ASSUME NEW c \in Clients, DisconnectTimeout(c) \/ RetryTimer(c) \/ Closes(c) \/ TransportDone(c)
          PROVE  Types'
        BY <2>9, DisconnectTimeoutTypes, RetryTimerTypes, ClosesTypes, TransportDoneTypes
    <2>10. ASSUME NEW c \in Clients, NEW present \in BOOLEAN, ConnackAccepts(c, present) PROVE Types'
        BY <2>10, ConnackAcceptsTypes
    <2>11. ASSUME NEW c \in Clients, NEW p \in owed[c], NEW outcome \in {"ok", "fail"},
                  Ack(c, p, outcome)
           PROVE  Types'
        BY <2>11, AckTypes
    <2>12. ASSUME NEW c \in Clients, WriteDone(c) \/ WriteFails(c) PROVE Types'
        BY <2>12, WriteDoneTypes, WriteFailsTypes
    <2>13. ASSUME NEW c \in Clients, Reconnect(c) \/ Break(c) \/ Recreate(c) PROVE Types'
        BY <2>13, ReconnectTypes, BreakTypes, RecreateTypes
    <2>14. CASE Kill
        BY <2>14, KillTypes
    <2>15. ASSUME NEW t \in Threads, KillInAddCommand(t) PROVE Types'
        BY <2>15, KillInAddCommandTypes
    <2>16. ASSUME NEW c \in Clients, ResendFails(c) PROVE Types'
        BY <2>16, ResendFailsTypes
    <2> QED BY <1>1, <2>0, <2>1, <2>2, <2>3, <2>4, <2>5, <2>6, <2>7, <2>8, <2>9, <2>10, <2>11,
               <2>12, <2>13, <2>14, <2>15, <2>16, Steps
<1> QED BY <1>0, <1>1

LEMMA AlwaysTypes == Spec => []Types
BY InitTypes, TypesStep, PTL DEF Spec

-----------------------------------------------------------------------------
(* The list of commands                                                     *)

(* What the steps do to the list, the store and the numbers.                *)
EnvSpends ==
    \/ UNCHANGED budget
    \/ \E what \in {"loss", "partial", "fail", "dial", "resend", "timeout"} : Spend(what)

KeepsList ==
    /\ commands' = commands \/ \E x \in HeadCommands : commands' = <<x>> \o commands
    /\ \/ taken' = taken /\ started' = started
       \/ taken' = None /\ started' = started
       \/ /\ taken # None /\ IsData(taken) /\ taken' = None
          /\ started' = [started EXCEPT ![taken.client] = taken.n]
    /\ UNCHANGED <<storeVars, count, scenario>>
    /\ EnvSpends

AddsAtEnd(x) ==
    /\ \/ AddDisconnect(x) /\ x \in HeadCommands
       \/ AddData(x) /\ x \in DataCommands
    /\ UNCHANGED <<taken, started, budget, scenario>>

LEMMA SpendFacts ==
    ASSUME budget \in Budgets, NEW what \in Kinds, Spend(what)
    PROVE  /\ \A w \in DOMAIN budget : budget'[w] \in Nat /\ budget'[w] <= budget[w]
           /\ \A w \in DOMAIN budget : w # what => budget'[w] = budget[w]
           /\ budget'[what] # budget[what] \/ budget'[what] = Unlimited
           /\ DOMAIN budget = Kinds
           /\ DOMAIN budget' = DOMAIN budget
BY DEF Budgets, Spend, Unlimited, Kinds

LEMMA EnvSpendsFacts ==
    ASSUME EnvTypes, EnvSpends
    PROVE  /\ \A w \in DOMAIN budget : budget'[w] \in Nat /\ budget'[w] <= budget[w]
           /\ budget'["kill"] = budget["kill"] /\ budget'["tear"] = budget["tear"]
           /\ DOMAIN budget' = DOMAIN budget
<1>1. budget \in Budgets /\ DOMAIN budget = Kinds
    BY DEF EnvTypes, Budgets, Kinds
<1>2. CASE UNCHANGED budget
    BY <1>1, <1>2 DEF Budgets, Kinds
<1>3. ASSUME NEW what \in {"loss", "partial", "fail", "dial", "resend", "timeout"}, Spend(what)
      PROVE  /\ \A w \in DOMAIN budget : budget'[w] \in Nat /\ budget'[w] <= budget[w]
             /\ budget'["kill"] = budget["kill"] /\ budget'["tear"] = budget["tear"]
             /\ DOMAIN budget' = DOMAIN budget
    BY <1>1, <1>3, SpendFacts DEF Kinds
<1> QED BY <1>2, <1>3 DEF EnvSpends

LEMMA InsertedWays ==
    ASSUME NEW x \in HeadCommands
    PROVE  Inserted(commands, x) = commands \/ Inserted(commands, x) = <<x>> \o commands
BY DEF Inserted

LEMMA HeadAdded ==
    ASSUME Types, NEW x \in HeadCommands, commands' = commands \/ commands' = Inserted(commands, x)
    PROVE  commands' = commands \/ \E y \in HeadCommands : commands' = <<y>> \o commands
BY InsertedWays

LEMMA QueueSteps ==
    ASSUME Types, [Next]_vars
    PROVE  \/ KeepsList
           \/ \E t \in Threads : AddCommand(t) /\ AddsAtEnd(api[t])
           \/ Take
           \/ \E c \in Clients : Recreate(c)
           \/ Kill
           \/ \E t \in Threads : KillInAddCommand(t)
<1> DEFINE Goal == \/ KeepsList
                   \/ \E t \in Threads : AddCommand(t) /\ AddsAtEnd(api[t])
                   \/ Take
                   \/ \E c \in Clients : Recreate(c)
                   \/ Kill
                   \/ \E t \in Threads : KillInAddCommand(t)
<1> SUFFICES Goal
    OBVIOUS
<1>0. CASE UNCHANGED vars
    BY <1>0 DEF vars, queueVars, histVars, KeepsList, EnvSpends
<1>1. CASE Next
    <2>0. \A c \in scenario.clients : c \in Clients
        BY ScenarioFacts DEF Types
    <2> HIDE DEF Goal
    <2>1. ASSUME NEW t \in Threads, AddCommand(t) PROVE Goal
        <3>1. /\ api[t] \in Good
              /\ UNCHANGED <<taken, started, budget, scenario>>
              /\ AddHead(api[t]) \/ AddDisconnect(api[t]) \/ AddData(api[t])
            BY <2>1, AddCommandWays
        <3>2. CASE AddHead(api[t])
            <4>1. api[t] \in HeadCommands
                BY <3>1, <3>2, GoodFacts DEF AddHead
            <4>2. commands' = commands \/ \E y \in HeadCommands : commands' = <<y>> \o commands
                BY <3>2, <4>1, HeadAdded DEF AddHead
            <4> QED BY <3>1, <3>2, <4>2 DEF AddHead, KeepsList, EnvSpends, Goal
        <3>3. CASE AddDisconnect(api[t])
            <4>1. api[t] \in HeadCommands
                BY <3>1, <3>3, GoodFacts DEF AddDisconnect
            <4> QED BY <2>1, <3>1, <3>3, <4>1 DEF AddsAtEnd, Goal
        <3>4. CASE AddData(api[t])
            <4>1. api[t] \in DataCommands
                BY <3>1, <3>4, GoodFacts DEF AddData
            <4> QED BY <2>1, <3>1, <3>4, <4>1 DEF AddsAtEnd, Goal
        <3> QED BY <3>1, <3>2, <3>3, <3>4
    <2>2. ASSUME NEW t \in Threads, NEW c \in Clients, NEW r \in Pubs, Send(t, c, r) PROVE Goal
        <3>1. UNCHANGED <<commands, taken, storeVars, histVars, budget, scenario>>
            BY <2>2 DEF Send
        <3> QED BY <3>1 DEF histVars, KeepsList, EnvSpends, Goal
    <2>3. ASSUME NEW t \in Threads, NEW c \in Clients, NEW r \in Pubs, SendRefused(t, c, r)
          PROVE  Goal
        <3>1. UNCHANGED <<queueVars, storeVars, histVars, budget, scenario>>
            BY <2>3 DEF SendRefused
        <3> QED BY <3>1 DEF queueVars, histVars, KeepsList, EnvSpends, Goal
    <2>4. ASSUME NEW t \in Threads, NEW c \in Clients, NEW r \in Subs, Subscribe(t, c, r) PROVE Goal
        <3>1. UNCHANGED <<commands, taken, storeVars, histVars, budget, scenario>>
            BY <2>4 DEF Subscribe
        <3> QED BY <3>1 DEF histVars, KeepsList, EnvSpends, Goal
    <2>5. ASSUME NEW t \in Threads, NEW c \in Clients, NEW r \in Conns, Connect(t, c, r) PROVE Goal
        <3>1. UNCHANGED <<commands, taken, storeVars, histVars, budget, scenario>>
            BY <2>5 DEF Connect
        <3> QED BY <3>1 DEF histVars, KeepsList, EnvSpends, Goal
    <2>6. ASSUME NEW t \in Threads, NEW c \in Clients, NEW r \in Discs, Disconnect(t, c, r)
          PROVE  Goal
        <3>1. UNCHANGED <<commands, taken, storeVars, histVars, budget, scenario>>
            BY <2>6 DEF Disconnect
        <3> QED BY <3>1 DEF histVars, KeepsList, EnvSpends, Goal
    <2>7. CASE ExecConnectBusy
        <3>1. UNCHANGED <<commands, storeVars, histVars, budget, scenario>> /\ taken' = None
            BY <2>7 DEF ExecConnectBusy
        <3> QED BY <3>1 DEF histVars, KeepsList, EnvSpends, Goal
    <2>8. CASE ExecConnect
        <3>1. UNCHANGED <<commands, storeVars, count, started, budget, scenario>> /\ taken' = None
            BY <2>8, ExecConnectWays
        <3> QED BY <3>1 DEF KeepsList, EnvSpends, Goal
    <2>9. CASE ExecConnectFails
        <3>1. /\ UNCHANGED <<storeVars, count, started, scenario>> /\ taken' = None /\ Spend("dial")
              /\ taken # None /\ taken.type = "CONNECT"
              /\ commands' = commands \/ commands' = Inserted(commands, NextTry)
            BY <2>9, ExecConnectFailsWays
        <3>2. NextTry \in HeadCommands
            BY <3>1, NextTryFacts DEF Same
        <3>3. commands' = commands \/ \E y \in HeadCommands : commands' = <<y>> \o commands
            BY <3>1, <3>2, HeadAdded
        <3>4. EnvSpends
            BY <3>1 DEF EnvSpends
        <3> QED BY <3>1, <3>3, <3>4 DEF KeepsList, EnvSpends, Goal
    <2>10. ASSUME NEW outcome \in {"complete", "interrupted", "error"}, ExecData(outcome)
           PROVE  Goal
        <3>1. /\ taken # None /\ IsData(taken) /\ taken' = None
              /\ started' = [started EXCEPT ![taken.client] = taken.n]
              /\ UNCHANGED <<storeVars, count, scenario>>
              /\ \/ DataComplete(taken.client) \/ DataInterrupted(taken.client)
                 \/ DataError(taken.client)
            BY <2>10, ExecDataWays
        <3>2. /\ commands' = commands \/ commands' = Inserted(commands, Internal(taken.client))
              /\ UNCHANGED budget \/ Spend("partial")
            BY <3>1 DEF DataComplete, DataInterrupted, DataError
        <3>3. Internal(taken.client) \in HeadCommands
            BY <3>1, TakenFacts, NewHeads
        <3>4. commands' = commands \/ \E y \in HeadCommands : commands' = <<y>> \o commands
            BY <3>2, <3>3, HeadAdded
        <3>5. EnvSpends
            BY <3>2 DEF EnvSpends
        <3> QED BY <3>1, <3>4, <3>5 DEF KeepsList, EnvSpends, Goal
    <2>11. CASE ExecDisconnect
        <3>1. /\ UNCHANGED <<commands, storeVars, count, started, scenario>> /\ taken' = None
              /\ UNCHANGED budget \/ Spend("timeout")
            BY <2>11, ExecDisconnectWays
        <3>2. EnvSpends
            BY <3>1 DEF EnvSpends
        <3> QED BY <3>1, <3>2 DEF KeepsList, EnvSpends, Goal
    <2>12. ASSUME NEW c \in Clients, DisconnectTimeout(c) PROVE Goal
        <3>1. /\ UNCHANGED <<queueVars, storeVars, count, started, scenario>>
              /\ UNCHANGED budget \/ Spend("timeout")
            BY <2>12 DEF DisconnectTimeout
        <3>2. EnvSpends
            BY <3>1 DEF EnvSpends
        <3> QED BY <3>1, <3>2 DEF queueVars, KeepsList, EnvSpends, Goal
    <2>13. ASSUME NEW c \in Clients, RetryTimer(c) \/ Reconnect(c) PROVE Goal
        <3>1. /\ UNCHANGED <<taken, storeVars, histVars, scenario>>
              /\ commands' = commands \/ commands' = Inserted(commands, Again(c))
              /\ UNCHANGED budget \/ Spend("timeout")
            BY <2>13 DEF RetryTimer, Reconnect, Again
        <3>2. Again(c) \in HeadCommands
            BY AgainFacts DEF Types, Same
        <3>3. commands' = commands \/ \E y \in HeadCommands : commands' = <<y>> \o commands
            BY <3>1, <3>2, HeadAdded
        <3>4. EnvSpends
            BY <3>1 DEF EnvSpends
        <3> QED BY <3>1, <3>3, <3>4 DEF histVars, KeepsList, EnvSpends, Goal
    <2>14. ASSUME NEW c \in Clients, Closes(c) PROVE Goal
        <3>1. PICK was, ended \in BOOLEAN : NextOrClose(c, was, ended)
            <4>1. connected[c] \in BOOLEAN
                BY DEF Types, ConnTypes
            <4> QED BY <2>14, <4>1, ClosesWays
        <3> DEFINE y == NextConnect(connect[c], was)
        <3>2. /\ UNCHANGED <<taken, storeVars, count, started, scenario>>
              /\ commands' = commands \/ commands' = <<y>> \o commands
            BY <3>1, NextOrCloseWays
        <3>3. y \in HeadCommands
            BY NextConnectFacts DEF Types, ConnTypes, ConnectOK, Same
        <3>4. UNCHANGED budget \/ \E what \in {"timeout", "fail", "loss"} : Spend(what)
            BY <2>14, ClosesWays
        <3>5. EnvSpends
            BY <3>4 DEF EnvSpends
        <3> QED BY <3>2, <3>3, <3>5 DEF KeepsList, EnvSpends, Goal
    <2>15. ASSUME NEW c \in Clients, TransportDone(c) PROVE Goal
        <3>1. UNCHANGED <<queueVars, storeVars, histVars, budget, scenario>>
            BY <2>15 DEF TransportDone
        <3> QED BY <3>1 DEF queueVars, histVars, KeepsList, EnvSpends, Goal
    <2>16. ASSUME NEW c \in Clients, NEW present \in BOOLEAN, ConnackAccepts(c, present) PROVE Goal
        <3>1. UNCHANGED <<queueVars, storeVars, count, started, budget, scenario>>
            BY <2>16 DEF ConnackAccepts
        <3> QED BY <3>1 DEF queueVars, KeepsList, EnvSpends, Goal
    <2>17. ASSUME NEW c \in Clients, NEW p \in owed[c], NEW outcome \in {"ok", "fail"},
                  Ack(c, p, outcome)
           PROVE  Goal
        <3>1. /\ UNCHANGED <<queueVars, storeVars, count, started, scenario>>
              /\ UNCHANGED budget \/ Spend("fail")
            BY <2>17, AckWays
        <3>2. EnvSpends
            BY <3>1 DEF EnvSpends
        <3> QED BY <3>1, <3>2 DEF queueVars, KeepsList, EnvSpends, Goal
    <2>18. ASSUME NEW c \in Clients, WriteDone(c) \/ WriteFails(c) PROVE Goal
        <3>1. UNCHANGED <<queueVars, storeVars, count, started, budget, scenario>>
            BY <2>18, WriteDoneWays, WriteFailsWays
        <3> QED BY <3>1 DEF queueVars, KeepsList, EnvSpends, Goal
    <2>19. ASSUME NEW c \in Clients, Break(c) PROVE Goal
        <3>1. UNCHANGED <<queueVars, storeVars, histVars, scenario>> /\ Spend("loss")
            BY <2>19 DEF Break
        <3>2. EnvSpends
            BY <3>1 DEF EnvSpends
        <3> QED BY <3>1, <3>2 DEF queueVars, histVars, KeepsList, EnvSpends, Goal
    <2>20. CASE Take \/ Kill \/ \E c \in Clients : Recreate(c)
        BY <2>20 DEF Goal
    <2>21. ASSUME NEW t \in Threads, KillInAddCommand(t) PROVE Goal
        BY <2>21 DEF Goal
    <2>22. ASSUME NEW c \in Clients, ResendFails(c) PROVE Goal
        <3> DEFINE y == NextConnect(connect[c], TRUE)
        <3>1. /\ UNCHANGED <<taken, storeVars, count, started, scenario>> /\ Spend("resend")
              /\ commands' = commands \/ commands' = <<y>> \o commands
              /\ y \in HeadCommands
            BY <2>22, ResendFailsWays
        <3>2. EnvSpends
            BY <3>1 DEF EnvSpends
        <3> QED BY <3>1, <3>2 DEF KeepsList, EnvSpends, Goal
    <2> QED BY <1>1, <2>0, <2>1, <2>2, <2>3, <2>4, <2>5, <2>6, <2>7, <2>8, <2>9, <2>10, <2>11,
               <2>12, <2>13, <2>14, <2>15, <2>16, <2>17, <2>18, <2>19, <2>20, <2>21, <2>22, Steps
<1> QED BY <1>0, <1>1

(* A list whose data commands are also in another one, at the places f,     *)
(* where they may have lost their callbacks.                                *)
Alike(x, y) ==
    x.type = y.type /\ x.client = y.client /\ x.req = y.req /\ x.tok = y.tok
    /\ x.key = y.key /\ x.n = y.n

Embeds(s, q, f) ==
    /\ f \in [Datas(s) -> Datas(q)]
    /\ \A i \in Datas(s) : Alike(s[i], q[f[i]])
    /\ \A i, j \in Datas(s) : f[i] = f[j] => i = j
KeepsOrder(s, f) ==
    \A i, j \in Datas(s) : i < j /\ s[i].client = s[j].client => f[i] < f[j]

LEMMA DatasFacts ==
    ASSUME NEW q \in Seq(Good)
    PROVE  /\ Datas(q) \subseteq DOMAIN q /\ Datas(q) \subseteq Nat
           /\ \A i \in Datas(q) : /\ q[i] \in DataCommands /\ q[i] \in Good /\ IsData(q[i])
                                  /\ q[i].client \in Clients /\ q[i].n \in Nat /\ q[i].key \in Nat
           /\ \A i \in DOMAIN q : i \in Nat /\ q[i] \in Good
           /\ \A i \in DOMAIN q : i \in Datas(q) <=> q[i] \in DataCommands
<1>1. DOMAIN q = 1 .. Len(q) /\ Len(q) \in Nat /\ \A i \in DOMAIN q : q[i] \in Good
    BY SeqFacts
<1>2. \A i \in DOMAIN q : IsData(q[i]) <=> q[i] \in DataCommands
    BY <1>1, GoodFacts
<1>3. \A i \in DOMAIN q : q[i].client \in Clients /\ q[i].n \in Nat /\ q[i].key \in Nat
    BY <1>1, GoodFacts
<1> QED BY <1>1, <1>2, <1>3 DEF Datas

LEMMA EmbedListOK ==
    ASSUME NEW s \in Seq(Good), NEW q \in Seq(Good), NEW f, Embeds(s, q, f), NEW n, ListOK(q, n)
    PROVE  ListOK(s, n)
BY DEF Embeds, ListOK, Alike

LEMMA EmbedOrderOK ==
    ASSUME NEW s \in Seq(Good), NEW q \in Seq(Good), NEW f, Embeds(s, q, f), KeepsOrder(s, f),
           NEW st, OrderOK(q, st)
    PROVE  OrderOK(s, st)
<1>1. \A i \in Datas(s) : s[i].n > st[s[i].client]
    BY DEF Embeds, OrderOK, Alike
<1>2. ASSUME NEW i \in Datas(s), NEW j \in Datas(s), i < j, s[i].client = s[j].client
      PROVE  s[i].n < s[j].n
    <2>1. /\ f[i] \in Datas(q) /\ f[j] \in Datas(q) /\ f[i] < f[j]
          /\ Alike(s[i], q[f[i]]) /\ Alike(s[j], q[f[j]])
        BY <1>2 DEF Embeds, KeepsOrder
    <2>2. q[f[i]].n < q[f[j]].n
        BY <1>2, <2>1 DEF OrderOK, Alike
    <2> QED BY <2>1, <2>2 DEF Alike
<1> QED BY <1>1, <1>2 DEF OrderOK

LEMMA EmbedKeysOK ==
    ASSUME NEW s \in Seq(Good), NEW q \in Seq(Good), NEW f, Embeds(s, q, f), KeepsOrder(s, f),
           NEW sc, KeysOK(q, sc)
    PROVE  KeysOK(s, sc)
<1>1. ASSUME NEW i \in Lasting(s, sc), NEW j \in Lasting(s, sc), i < j, s[i].client = s[j].client
      PROVE  s[i].key < s[j].key
    <2>0. i \in Datas(s) /\ j \in Datas(s) /\ Stores(sc, s[i]) /\ Stores(sc, s[j])
        BY DEF Lasting
    <2>1. /\ f[i] \in Datas(q) /\ f[j] \in Datas(q) /\ f[i] < f[j]
          /\ Alike(s[i], q[f[i]]) /\ Alike(s[j], q[f[j]])
        BY <1>1, <2>0 DEF Embeds, KeepsOrder
    <2>2. Stores(sc, q[f[i]]) /\ Stores(sc, q[f[j]])
        BY <2>0, <2>1 DEF Stores, Alike
    <2>3. f[i] \in Lasting(q, sc) /\ f[j] \in Lasting(q, sc)
        BY <2>1, <2>2 DEF Lasting
    <2>4. q[f[i]].key < q[f[j]].key
        BY <1>1, <2>1, <2>3 DEF KeysOK, Alike
    <2> QED BY <2>1, <2>4 DEF Alike
<1> QED BY <1>1 DEF KeysOK

(* s is q without the data commands at the places K; heads may differ.      *)
Keeps(s, q, K, f) ==
    /\ Embeds(s, q, f) /\ KeepsOrder(s, f)
    /\ \A j \in Datas(s) : s[j] = q[f[j]] /\ f[j] \notin K
    /\ \A i \in Datas(q) \ K : \E j \in Datas(s) : f[j] = i

LEMMA KeepsSelf ==
    ASSUME NEW q \in Seq(Good)
    PROVE  \E f : Keeps(q, q, {}, f)
<1> DEFINE f == [i \in Datas(q) |-> i]
<1>1. Keeps(q, q, {}, f)
    BY DEF Keeps, Embeds, KeepsOrder, Alike
<1> QED BY <1>1

LEMMA KeepsCons ==
    ASSUME NEW q \in Seq(Good), NEW x \in HeadCommands
    PROVE  /\ <<x>> \o q \in Seq(Good)
           /\ \E f : Keeps(<<x>> \o q, q, {}, f)
<1> DEFINE s == <<x>> \o q
           f == [i \in Datas(s) |-> i - 1]
<1>0. x \in Good /\ ~IsData(x)
    BY GoodFacts DEF Good
<1>1. /\ s \in Seq(Good)
      /\ DOMAIN s = 1 .. (Len(q) + 1) /\ s[1] = x
      /\ \A k \in DOMAIN q : k + 1 \in DOMAIN s /\ s[k + 1] = q[k]
      /\ \A k \in DOMAIN s : k # 1 => k - 1 \in DOMAIN q /\ s[k] = q[k - 1]
    BY <1>0, ConsFacts
<1> HIDE DEF s
<1>2. \A i \in Datas(s) : i \in Nat /\ i - 1 \in Datas(q) /\ s[i] = q[i - 1]
    BY <1>0, <1>1, SeqFacts DEF Datas
<1>3. \A i \in Datas(q) : i \in Nat /\ i + 1 \in Datas(s) /\ s[i + 1] = q[i]
    BY <1>1, SeqFacts DEF Datas
<1>4. Embeds(s, q, f) /\ KeepsOrder(s, f)
    BY <1>2 DEF Embeds, KeepsOrder, Alike
<1>5. \A i \in Datas(q) : f[i + 1] = i
    BY <1>3
<1>6. Keeps(s, q, {}, f)
    BY <1>2, <1>3, <1>4, <1>5 DEF Keeps
<1> QED BY <1>1, <1>6 DEF s

LEMMA KeepsRemoved ==
    ASSUME NEW q \in Seq(Good), NEW k \in DOMAIN q
    PROVE  /\ RemoveAt(q, k) \in Seq(Good)
           /\ \E f : Keeps(RemoveAt(q, k), q, {k}, f)
<1> DEFINE s == RemoveAt(q, k)
           f == [i \in Datas(s) |-> Shift(k, i)]
<1>1. /\ s \in Seq(Good)
      /\ \A j \in DOMAIN s : Shift(k, j) \in DOMAIN q \ {k} /\ s[j] = q[Shift(k, j)]
      /\ \A i, j \in DOMAIN s : /\ i < j => Shift(k, i) < Shift(k, j)
                                /\ i # j => Shift(k, i) # Shift(k, j)
      /\ \A i \in DOMAIN q \ {k} : \E j \in DOMAIN s : i = Shift(k, j)
    BY RemoveAtShift
<1> HIDE DEF s
<1>2. \A j \in Datas(s) : Shift(k, j) \in Datas(q) \ {k} /\ s[j] = q[Shift(k, j)]
    BY <1>1 DEF Datas
<1>3. \A i \in Datas(q) \ {k} : \E j \in Datas(s) : f[j] = i
    BY <1>1 DEF Datas
<1>4. \A i, j \in Datas(s) : i \in DOMAIN s /\ j \in DOMAIN s
    BY DEF Datas
<1>5. Embeds(s, q, f) /\ KeepsOrder(s, f)
    BY <1>1, <1>2, <1>4 DEF Embeds, KeepsOrder, Alike
<1>6. Keeps(s, q, {k}, f)
    BY <1>2, <1>3, <1>5 DEF Keeps
<1> QED BY <1>1, <1>6 DEF s

(* A command put at the end. *)
LEMMA KeepsAppendHead ==
    ASSUME NEW q \in Seq(Good), NEW x \in HeadCommands
    PROVE  /\ Append(q, x) \in Seq(Good)
           /\ \E f : Keeps(Append(q, x), q, {}, f)
<1> DEFINE s == Append(q, x)
           f == [i \in Datas(s) |-> i]
<1>0. x \in Good /\ ~IsData(x)
    BY GoodFacts DEF Good
<1>1. /\ s \in Seq(Good)
      /\ DOMAIN s = 1 .. (Len(q) + 1)
      /\ s[Len(q) + 1] = x
      /\ \A k \in DOMAIN q : s[k] = q[k]
      /\ DOMAIN q = 1 .. Len(q) /\ Len(q) \in Nat
    BY <1>0, AppendFacts, SeqFacts
<1> HIDE DEF s
<1>2. \A i : i \in Datas(s) <=> i \in Datas(q)
    BY <1>0, <1>1 DEF Datas
<1>3. Datas(s) = Datas(q) /\ \A i \in Datas(s) : s[i] = q[i]
    BY <1>1, <1>2 DEF Datas
<1>4. Keeps(s, q, {}, f)
    BY <1>3 DEF Keeps, Embeds, KeepsOrder, Alike
<1> QED BY <1>1, <1>4 DEF s

LEMMA DatasAppend ==
    ASSUME NEW q \in Seq(Good), NEW y \in DataCommands
    PROVE  /\ Append(q, y) \in Seq(Good) /\ Len(q) \in Nat
           /\ Datas(Append(q, y)) = Datas(q) \cup {Len(q) + 1}
           /\ \A i \in Datas(q) : Append(q, y)[i] = q[i] /\ i < Len(q) + 1
           /\ Append(q, y)[Len(q) + 1] = y
           /\ DOMAIN Append(q, y) = DOMAIN q \cup {Len(q) + 1}
           /\ \A i \in DOMAIN q : Append(q, y)[i] = q[i] /\ i < Len(q) + 1
<1> DEFINE s == Append(q, y)
<1>0. y \in Good /\ IsData(y)
    BY GoodFacts DEF Good
<1>1. /\ s \in Seq(Good)
      /\ DOMAIN s = 1 .. (Len(q) + 1)
      /\ s[Len(q) + 1] = y
      /\ \A k \in DOMAIN q : s[k] = q[k]
      /\ DOMAIN q = 1 .. Len(q) /\ Len(q) \in Nat
    BY <1>0, AppendFacts, SeqFacts
<1> HIDE DEF s
<1>2. \A i : i \in Datas(s) <=> i \in Datas(q) \cup {Len(q) + 1}
    BY <1>0, <1>1 DEF Datas
<1>3. \A i \in DOMAIN q : s[i] = q[i] /\ i < Len(q) + 1
    BY <1>1
<1>4. Datas(s) = Datas(q) \cup {Len(q) + 1} /\ Datas(q) \subseteq DOMAIN q
    BY <1>2 DEF Datas
<1>5. DOMAIN s = DOMAIN q \cup {Len(q) + 1}
    BY <1>1
<1> QED BY <1>1, <1>3, <1>4, <1>5 DEF s

LEMMA AppendListOK ==
    ASSUME NEW q \in Seq(Good), NEW n \in Nat, ListOK(q, n),
           NEW y \in DataCommands, y.n = n + 1, y.key <= y.n
    PROVE  ListOK(Append(q, y), n + 1)
<1>1. \A i \in Datas(q) : q[i].n \in 1 .. n /\ q[i].key <= q[i].n
    BY DEF ListOK
<1> DEFINE s == Append(q, y)
<1>2. /\ Datas(s) = Datas(q) \cup {Len(q) + 1}
      /\ \A i \in Datas(q) : s[i] = q[i]
      /\ s[Len(q) + 1] = y
    BY DatasAppend
<1> HIDE DEF s
<1>3. /\ \A i \in Datas(q) : s[i].n \in 1 .. n /\ s[i].key <= s[i].n
      /\ s[Len(q) + 1].n = n + 1 /\ s[Len(q) + 1].key <= n + 1
    BY <1>1, <1>2
<1>4. \A i, j \in Datas(q) : s[i].n = s[j].n => i = j
    BY <1>2 DEF ListOK
<1>5. \A i, j \in Datas(s) : s[i].n = s[j].n => i = j
    BY <1>2, <1>3, <1>4
<1>6. ListOK(s, n + 1)
    BY <1>2, <1>3, <1>5 DEF ListOK
<1> QED BY <1>6 DEF s

LEMMA AppendOrderOK ==
    ASSUME NEW q \in Seq(Good), NEW n \in Nat, ListOK(q, n), NEW st \in [Clients -> Nat], OrderOK(q, st),
           NEW y \in DataCommands, y.n = n + 1, st[y.client] <= n
    PROVE  OrderOK(Append(q, y), st)
<1> DEFINE s == Append(q, y)
<1>1. \A i \in Datas(q) : q[i].n \in 1 .. n
    BY DEF ListOK
<1>2. /\ Datas(s) = Datas(q) \cup {Len(q) + 1} /\ Len(q) \in Nat
      /\ \A i \in Datas(q) : s[i] = q[i] /\ i < Len(q) + 1 /\ i \in Nat
      /\ s[Len(q) + 1] = y
    BY DatasAppend, DatasFacts
<1>3. y.client \in Clients
    BY GoodFacts DEF Good
<1> HIDE DEF s
<1>4. \A i \in Datas(s) : s[i].n > st[s[i].client]
    BY <1>2, <1>3 DEF OrderOK
<1>5. ASSUME NEW i \in Datas(s), NEW j \in Datas(s), i < j, s[i].client = s[j].client
      PROVE  s[i].n < s[j].n
    <2>1. CASE j \in Datas(q)
        <3>1. i \in Datas(q)
            BY <1>2, <1>5, <2>1
        <3> QED BY <1>2, <1>5, <2>1, <3>1 DEF OrderOK
    <2>2. CASE j = Len(q) + 1
        <3>1. i \in Datas(q)
            BY <1>2, <1>5, <2>2
        <3>2. s[i].n \in 1 .. n /\ s[j].n = n + 1
            BY <1>1, <1>2, <2>2, <3>1
        <3> QED BY <3>2
    <2> QED BY <1>2, <2>1, <2>2
<1>6. OrderOK(s, st)
    BY <1>4, <1>5 DEF OrderOK
<1> QED BY <1>6 DEF s

(* The keys of the stored commands of a client are below k. *)
KeysBelow(q, sc, c, k) == \A i \in Lasting(q, sc) : q[i].client = c => q[i].key < k

LEMMA AppendKeysOK ==
    ASSUME NEW q \in Seq(Good), NEW sc, KeysOK(q, sc), NEW y \in DataCommands,
           Stores(sc, y) => KeysBelow(q, sc, y.client, y.key)
    PROVE  KeysOK(Append(q, y), sc)
<1> DEFINE s == Append(q, y)
<1>2. /\ Datas(s) = Datas(q) \cup {Len(q) + 1} /\ Len(q) \in Nat
      /\ \A i \in Datas(q) : s[i] = q[i] /\ i < Len(q) + 1 /\ i \in Nat
      /\ s[Len(q) + 1] = y
    BY DatasAppend, DatasFacts
<1> HIDE DEF s
<1>3. \A i \in Lasting(s, sc) :
         \/ i \in Lasting(q, sc) /\ s[i] = q[i] /\ i < Len(q) + 1 /\ i \in Nat
         \/ i = Len(q) + 1 /\ s[i] = y /\ Stores(sc, y)
    BY <1>2 DEF Lasting
<1>5. ASSUME NEW i \in Lasting(s, sc), NEW j \in Lasting(s, sc), i < j, s[i].client = s[j].client
      PROVE  s[i].key < s[j].key
    <2>1. CASE j \in Lasting(q, sc) /\ s[j] = q[j] /\ j < Len(q) + 1 /\ j \in Nat
        <3>1. i \in Lasting(q, sc) /\ s[i] = q[i]
            BY <1>2, <1>3, <1>5, <2>1
        <3> QED BY <1>5, <2>1, <3>1 DEF KeysOK
    <2>2. CASE j = Len(q) + 1 /\ s[j] = y /\ Stores(sc, y)
        <3>1. i \in Lasting(q, sc) /\ s[i] = q[i]
            BY <1>2, <1>3, <1>5, <2>2
        <3> QED BY <1>5, <2>2, <3>1 DEF KeysBelow
    <2> QED BY <1>3, <2>1, <2>2
<1>6. KeysOK(s, sc)
    BY <1>5 DEF KeysOK
<1> QED BY <1>6 DEF s

(* How many publications a list has. *)
LEMMA PublishesFacts ==
    ASSUME NEW q \in Seq(Good), NEW c
    PROVE  /\ IsFiniteSet(Publishes(q, c)) /\ Publishes(q, c) \subseteq DOMAIN q
           /\ Cardinality(Publishes(q, c)) \in Nat
           /\ \A i : i \in Publishes(q, c) <=>
                i \in Datas(q) /\ q[i].client = c /\ q[i].type = "PUBLISH"
<1>1. IsFiniteSet(1 .. Len(q)) /\ DOMAIN q = 1 .. Len(q)
    BY SeqFacts, FS_Interval
<1>2. Publishes(q, c) \subseteq DOMAIN q
    BY DEF Publishes
<1>3. IsFiniteSet(Publishes(q, c)) /\ Cardinality(Publishes(q, c)) \in Nat
    BY <1>1, <1>2, FS_Subset, FS_CardinalityType
<1> QED BY <1>2, <1>3 DEF Publishes, Datas, IsData

LEMMA FewerPublishes ==
    ASSUME NEW s \in Seq(Good), NEW q \in Seq(Good), NEW f, Embeds(s, q, f), NEW c
    PROVE  Cardinality(Publishes(s, c)) <= Cardinality(Publishes(q, c))
<1> DEFINE S == Publishes(s, c)
           Q == Publishes(q, c)
           g == [i \in S |-> f[i]]
<1>1. /\ IsFiniteSet(S) /\ IsFiniteSet(Q)
      /\ \A i : i \in S <=> i \in Datas(s) /\ s[i].client = c /\ s[i].type = "PUBLISH"
      /\ \A i : i \in Q <=> i \in Datas(q) /\ q[i].client = c /\ q[i].type = "PUBLISH"
    BY PublishesFacts
<1> HIDE DEF S, Q
<1>2. g \in Injection(S, Q)
    BY <1>1 DEF Embeds, Alike, Injection, IsInjective
<1>3. Cardinality(S) <= Cardinality(Q)
    BY <1>1, <1>2, FS_Injection
<1> QED BY <1>3 DEF S, Q

(* The commands of a client in q are in s but for those at the places K. *)
KeepsOf(s, q, K, f, c) ==
    /\ \A j \in Datas(s) : s[j].client = c => f[j] \notin K
    /\ \A i \in Datas(q) \ K : q[i].client = c => \E j \in Datas(s) : f[j] = i

LEMMA SamePublishes ==
    ASSUME NEW s \in Seq(Good), NEW q \in Seq(Good), NEW f, Embeds(s, q, f), NEW c, NEW K,
           KeepsOf(s, q, K, f, c)
    PROVE  Cardinality(Publishes(s, c)) = Cardinality(Publishes(q, c) \ K)
<1> DEFINE S == Publishes(s, c)
           Q == Publishes(q, c) \ K
           g == [i \in S |-> f[i]]
<1>1. /\ IsFiniteSet(S) /\ IsFiniteSet(Publishes(q, c))
      /\ \A i : i \in S <=> i \in Datas(s) /\ s[i].client = c /\ s[i].type = "PUBLISH"
      /\ \A i : i \in Publishes(q, c) <=>
            i \in Datas(q) /\ q[i].client = c /\ q[i].type = "PUBLISH"
    BY PublishesFacts
<1>2. IsFiniteSet(Q)
    BY <1>1, FS_Subset
<1>3. \A i : i \in Q <=> i \in Datas(q) /\ i \notin K /\ q[i].client = c /\ q[i].type = "PUBLISH"
    BY <1>1
<1> HIDE DEF S, Q
<1>4. g \in [S -> Q]
    BY <1>1, <1>3 DEF Embeds, Alike, KeepsOf
<1>5. \A i, j \in S : g[i] = g[j] => i = j
    BY <1>1 DEF Embeds
<1>6. \A i \in Q : \E j \in S : g[j] = i
    <2> TAKE i \in Q
    <2>1. PICK j \in Datas(s) : f[j] = i
        BY <1>3 DEF KeepsOf
    <2>2. j \in S
        BY <1>1, <1>3, <2>1 DEF Embeds, Alike
    <2> QED BY <2>1, <2>2
<1>7. g \in Bijection(S, Q)
    BY <1>4, <1>5, <1>6 DEF Bijection, Injection, Surjection, IsInjective
<1>8. Cardinality(S) = Cardinality(Q)
    BY <1>1, <1>2, <1>7, FS_Bijection DEF ExistsBijection
<1> QED BY <1>8 DEF S, Q

LEMMA KeepsPublishes ==
    ASSUME NEW s \in Seq(Good), NEW q \in Seq(Good), NEW K, NEW f, Keeps(s, q, K, f), NEW c
    PROVE  Cardinality(Publishes(s, c)) = Cardinality(Publishes(q, c) \ K)
<1>1. Embeds(s, q, f) /\ KeepsOf(s, q, K, f, c)
    BY DEF Keeps, KeepsOf
<1> QED BY <1>1, SamePublishes

LEMMA AppendPublishes ==
    ASSUME NEW q \in Seq(Good), NEW y \in DataCommands, NEW c
    PROVE  Cardinality(Publishes(Append(q, y), c)) =
             IF y.client = c /\ y.type = "PUBLISH" THEN Cardinality(Publishes(q, c)) + 1
                                                   ELSE Cardinality(Publishes(q, c))
<1> DEFINE s == Append(q, y)
           P == Publishes(s, c)
           Q == Publishes(q, c)
           k == Len(q) + 1
<1>1. /\ s \in Seq(Good) /\ Len(q) \in Nat
      /\ Datas(s) = Datas(q) \cup {k}
      /\ \A i \in Datas(q) : s[i] = q[i] /\ i < k
      /\ s[k] = y
    BY DatasAppend
<1> HIDE DEF s
<1>2. /\ \A i : i \in P <=> i \in Datas(s) /\ s[i].client = c /\ s[i].type = "PUBLISH"
      /\ \A i : i \in Q <=> i \in Datas(q) /\ q[i].client = c /\ q[i].type = "PUBLISH"
      /\ IsFiniteSet(Q)
    BY <1>1, PublishesFacts
<1> HIDE DEF P, Q
<1>3. k \notin Datas(q)
    BY <1>1
<1> HIDE DEF k
<1>4. CASE y.client = c /\ y.type = "PUBLISH"
    <2>1. P = Q \cup {k} /\ k \notin Q
        BY <1>1, <1>2, <1>3, <1>4
    <2>2. Cardinality(P) = Cardinality(Q) + 1
        BY <1>2, <2>1, FS_AddElement
    <2> QED BY <1>4, <2>2 DEF P, Q, s
<1>5. CASE ~(y.client = c /\ y.type = "PUBLISH")
    <2>0. k \notin P
        BY <1>1, <1>2, <1>5
    <2>1. P = Q
        <3>1. \A i : i \in P <=> i \in Q
            BY <1>1, <1>2, <2>0
        <3> QED BY <3>1
    <2> QED BY <1>5, <2>1 DEF P, Q, s
<1> QED BY <1>4, <1>5

(* All that is known about the list, the store and the numbers.             *)
QueueInv == ListInv /\ StoreInv /\ CountInv /\ NumberInv /\ OrderInv /\ KeyInv

Onward ==
    /\ scenario' = scenario /\ count' \in {count, count + 1}
    /\ DOMAIN budget' = DOMAIN budget
    /\ \A w \in DOMAIN budget : budget'[w] \in Nat /\ budget'[w] <= budget[w]
    /\ budget["tear"] = Unlimited => budget'["tear"] = Unlimited

LEMMA BudgetFacts ==
    ASSUME EnvTypes
    PROVE  /\ DOMAIN budget = Kinds
           /\ \A w \in DOMAIN budget : budget[w] \in Nat /\ scenario.budget[w] \in Nat
<1>1. budget \in Budgets /\ scenario.budget \in Budgets
    BY ScenarioFacts DEF EnvTypes
<1> QED BY <1>1 DEF Budgets, Kinds

LEMMA OnwardFacts ==
    ASSUME Types, NumberInv, Onward
    PROVE  /\ count \in Nat /\ count' \in Nat /\ count <= count' /\ SeqnoLimit \in Nat
           /\ Unwrapped' => Unwrapped
           /\ \A w \in DOMAIN budget' : budget'[w] <= scenario'.budget[w]
           /\ Steady' => Steady
<1>1. count \in Nat /\ count' \in Nat /\ count <= count' /\ SeqnoLimit \in Nat
    BY AsyncAssumption DEF Types, HistTypes, Onward
<1>2. Unwrapped' => Unwrapped
    BY <1>1 DEF Unwrapped
<1>3. \A w \in DOMAIN budget : budget[w] \in Nat /\ scenario.budget[w] \in Nat
                               /\ budget[w] <= scenario.budget[w]
    BY BudgetFacts DEF Types, NumberInv
<1>4. /\ DOMAIN budget' = DOMAIN budget /\ scenario' = scenario
      /\ \A w \in DOMAIN budget : budget'[w] \in Nat /\ budget'[w] <= budget[w]
    BY DEF Onward
<1>5. \A w \in DOMAIN budget' : budget'[w] <= scenario'.budget[w]
    <2> TAKE w \in DOMAIN budget'
    <2>1. budget[w] \in Nat /\ scenario.budget[w] \in Nat /\ budget'[w] \in Nat
          /\ budget[w] <= scenario.budget[w] /\ budget'[w] <= budget[w]
        BY <1>3, <1>4
    <2> QED BY <1>4, <2>1
<1>6. ASSUME NEW what \in {"kill", "tear"}, Unspent(what)' PROVE Unspent(what)
    <2>1. what \in DOMAIN budget
        BY BudgetFacts DEF Types, Kinds
    <2>2. budget[what] \in Nat /\ scenario.budget[what] \in Nat /\ budget'[what] \in Nat
          /\ budget[what] <= scenario.budget[what] /\ budget'[what] <= budget[what]
        BY <1>3, <1>4, <2>1
    <2> QED BY <1>4, <1>6, <2>2 DEF Unspent
<1>7. Steady' => Steady
    <2>1. Undisturbed' => Undisturbed
        BY <1>6 DEF Undisturbed
    <2> QED BY <1>2, <1>4, <2>1 DEF Steady
<1> QED BY <1>1, <1>2, <1>5, <1>7

LEMMA EnvOnward ==
    ASSUME Types, EnvSpends \/ UNCHANGED budget, scenario' = scenario, count' \in {count, count + 1}
    PROVE  Onward
<1>1. CASE EnvSpends
    <2>1. /\ \A w \in DOMAIN budget : budget'[w] \in Nat /\ budget'[w] <= budget[w]
          /\ budget'["tear"] = budget["tear"] /\ DOMAIN budget' = DOMAIN budget
        BY <1>1, EnvSpendsFacts DEF Types
    <2> QED BY <2>1 DEF Onward
<1>2. CASE UNCHANGED budget
    BY <1>2, BudgetFacts DEF Types, Onward
<1> QED BY <1>1, <1>2

(* After a restart the order can only be kept by the keys.                  *)
LEMMA KillOnward ==
    ASSUME Types, NumberInv, NEW what \in {"kill", "tear"}, Spend(what), scenario' = scenario,
           count' \in {count, count + 1}
    PROVE  Onward /\ (Steady' => Unwrapped' \/ ~scenario.persistence)
<1>0. what \in Kinds
    BY DEF Kinds
<1>1. /\ DOMAIN budget' = DOMAIN budget
      /\ \A w \in DOMAIN budget : budget'[w] \in Nat /\ budget'[w] <= budget[w]
      /\ \A w \in DOMAIN budget : w # what => budget'[w] = budget[w]
      /\ budget'[what] # budget[what] \/ budget'[what] = Unlimited
    BY <1>0, SpendFacts DEF Types, EnvTypes
<1>2. DOMAIN budget = Kinds
    BY BudgetFacts DEF Types
<1>3. budget["tear"] = Unlimited => budget'["tear"] = Unlimited
    <2>1. CASE what = "tear"
        BY <1>2, <2>1 DEF Spend, Kinds
    <2>2. CASE what # "tear"
        BY <1>1, <1>2, <2>2 DEF Kinds
    <2> QED BY <2>1, <2>2
<1>4. Onward
    BY <1>1, <1>3 DEF Onward
<1>5. what \in DOMAIN budget /\ budget[what] \in Nat /\ scenario.budget[what] \in Nat
    BY <1>0, BudgetFacts DEF Types
<1>6. ~Unspent(what)'
    <2>1. budget'[what] \in Nat /\ budget'[what] <= budget[what]
          /\ budget[what] <= scenario.budget[what]
        BY <1>1, <1>5 DEF NumberInv
    <2> QED BY <1>1, <1>5, <2>1 DEF Unspent
<1>7. ~Undisturbed'
    BY <1>6 DEF Undisturbed
<1> QED BY <1>4, <1>7 DEF Steady

(* The bound of BufferedCountIsTrue.                                        *)
Bound(n, sc, b) ==
    sc.maxBuffered > 0 /\ b["tear"] # Unlimited =>
        n <= sc.maxBuffered + (sc.budget["tear"] - b["tear"])

LEMMA CountBound ==
    CountInv <=>
        /\ noBufferedMessages \in [Clients -> Nat]
        /\ \A c \in Clients : /\ noBufferedMessages[c] = Cardinality(Publishes(commands, c))
                               /\ Bound(noBufferedMessages[c], scenario, budget)
BY DEF CountInv, BufferedCountIsTrue, Bound, Spent

LEMMA CountBoundNext ==
    ASSUME noBufferedMessages' \in [Clients -> Nat],
           \A c \in Clients : /\ noBufferedMessages'[c] = Cardinality(Publishes(commands', c))
                              /\ Bound(noBufferedMessages'[c], scenario', budget')
    PROVE  CountInv'
BY DEF CountInv, BufferedCountIsTrue, Bound, Spent

LEMMA BoundKept ==
    ASSUME Types, Onward, NEW m \in Nat, NEW n \in Nat, n <= m, Bound(m, scenario, budget)
    PROVE  Bound(n, scenario', budget')
<1>1. "tear" \in DOMAIN budget /\ scenario.maxBuffered \in Nat
    BY BudgetFacts, ScenarioFacts DEF Types, Kinds
<1>2. budget["tear"] \in Nat /\ scenario.budget["tear"] \in Nat
    BY <1>1, BudgetFacts DEF Types
<1>3. budget'["tear"] \in Nat /\ budget'["tear"] <= budget["tear"] /\ scenario' = scenario
      /\ (budget["tear"] = Unlimited => budget'["tear"] = Unlimited)
    BY <1>1 DEF Onward
<1> QED BY <1>1, <1>2, <1>3 DEF Bound

LEMMA BoundBelow ==
    ASSUME Types, NumberInv, Onward, NEW n \in Nat,
           scenario.maxBuffered > 0 => n <= scenario.maxBuffered
    PROVE  Bound(n, scenario', budget')
<1>1. "tear" \in DOMAIN budget /\ scenario.maxBuffered \in Nat
    BY BudgetFacts, ScenarioFacts DEF Types, Kinds
<1>2. budget["tear"] \in Nat /\ scenario.budget["tear"] \in Nat
      /\ budget["tear"] <= scenario.budget["tear"]
    BY <1>1, BudgetFacts DEF Types, NumberInv
<1>3. budget'["tear"] \in Nat /\ budget'["tear"] <= budget["tear"] /\ scenario' = scenario
    BY <1>1 DEF Onward
<1> QED BY <1>1, <1>2, <1>3 DEF Bound

LEMMA BoundTorn ==
    ASSUME Types, Onward, Spend("tear"), NEW m \in Nat, NEW n \in Nat, n <= m + 1,
           Bound(m, scenario, budget)
    PROVE  Bound(n, scenario', budget')
<1>1. "tear" \in DOMAIN budget /\ scenario.maxBuffered \in Nat
    BY BudgetFacts, ScenarioFacts DEF Types, Kinds
<1>2. budget["tear"] \in Nat /\ scenario.budget["tear"] \in Nat
    BY <1>1, BudgetFacts DEF Types
<1>3. budget'["tear"] = (IF budget["tear"] = Unlimited THEN Unlimited ELSE budget["tear"] - 1)
    BY <1>1 DEF Spend
<1>4. scenario' = scenario
    BY DEF Onward
<1> QED BY <1>1, <1>2, <1>3, <1>4 DEF Bound

(* Steps that take nothing out of the list.                                 *)
LEMMA KeptList ==
    ASSUME Types, Types', ListInv, NumberInv, Onward, NEW f, Embeds(commands', commands, f)
    PROVE  ListInv'
<1>1. commands \in Seq(Good) /\ commands' \in Seq(Good)
    BY DEF Types, QueueTypes
<1>2. ListOK(commands', count)
    BY <1>1, EmbedListOK DEF ListInv
<1>3. \A i \in Datas(commands') : commands'[i].n \in Nat
    BY <1>1, DatasFacts
<1>4. count \in Nat /\ count' \in Nat /\ count <= count'
    BY OnwardFacts
<1>5. ListOK(commands', count')
    BY <1>2, <1>3, <1>4 DEF ListOK
<1> QED BY <1>5 DEF ListInv

LEMMA KeptStore ==
    ASSUME Types, StoreInv, NEW f, Keeps(commands', commands, {}, f), UNCHANGED <<store, scenario>>
    PROVE  StoreInv'
<1>1. \A i \in Datas(commands) : \E j \in Datas(commands') : commands'[j] = commands[i]
    BY DEF Keeps
<1>2. \A rec : HasCommand(rec, commands, scenario) => HasCommand(rec, commands', scenario)
    BY <1>1 DEF HasCommand
<1> QED BY <1>2 DEF StoreInv, StoreOK

SeqnoGrows ==
    scenario.persistence /\ Unwrapped' =>
        Unwrapped /\ \A c \in Clients : command_seqno[c] <= command_seqno'[c]

LEMMA KeptKeys ==
    ASSUME Types, Types', KeyInv, NEW f, Keeps(commands', commands, {}, f),
           UNCHANGED <<store, scenario>>, SeqnoGrows
    PROVE  KeyInv'
<1> SUFFICES ASSUME scenario.persistence, Unwrapped'
             PROVE  KeysIn(commands', store, command_seqno', scenario)
    BY DEF KeyInv
<1>1. KeysIn(commands, store, command_seqno, scenario)
    BY DEF KeyInv, SeqnoGrows
<1>2. commands \in Seq(Good) /\ commands' \in Seq(Good)
    BY DEF Types, QueueTypes
<1>3. \A j \in Datas(commands') : f[j] \in Datas(commands) /\ commands'[j] = commands[f[j]]
    BY DEF Keeps, Embeds
<1>4. KeysOK(commands', scenario)
    BY <1>1, <1>2, EmbedKeysOK DEF Keeps, KeysIn
<1>5. \A j \in Lasting(commands', scenario) : HasRecord(commands'[j], store)
    BY <1>1, <1>3 DEF KeysIn, Lasting
<1>6. ASSUME NEW j \in Datas(commands') PROVE KeyIs(commands'[j], command_seqno', scenario)
    <2>1. KeyIs(commands'[j], command_seqno, scenario)
        BY <1>1, <1>3 DEF KeysIn
    <2>2. commands'[j].client \in Clients /\ commands'[j].key \in Nat
        BY <1>2, DatasFacts
    <2>3. /\ command_seqno[commands'[j].client] \in Nat /\ command_seqno'[commands'[j].client] \in Nat
          /\ command_seqno[commands'[j].client] <= command_seqno'[commands'[j].client]
        BY <2>2, AsyncAssumption DEF Types, StoreTypes, SeqnoGrows
    <2> QED BY <2>1, <2>2, <2>3 DEF KeyIs
<1> QED BY <1>4, <1>5, <1>6 DEF KeysIn

LEMMA KeptCount ==
    ASSUME Types, Types', CountInv, NEW f, Keeps(commands', commands, {}, f),
           UNCHANGED noBufferedMessages, Onward
    PROVE  CountInv'
<1>1. commands \in Seq(Good) /\ commands' \in Seq(Good)
    BY DEF Types, QueueTypes
<1>2. \A c \in Clients : Cardinality(Publishes(commands', c)) = Cardinality(Publishes(commands, c))
    <2> TAKE c \in Clients
    <2>1. Cardinality(Publishes(commands', c)) = Cardinality(Publishes(commands, c) \ {})
        BY <1>1, KeepsPublishes
    <2>2. Publishes(commands, c) \ {} = Publishes(commands, c)
        OBVIOUS
    <2> QED BY <2>1, <2>2
<1>3. /\ noBufferedMessages \in [Clients -> Nat]
      /\ \A c \in Clients : /\ noBufferedMessages[c] = Cardinality(Publishes(commands, c))
                             /\ Bound(noBufferedMessages[c], scenario, budget)
    BY CountBound
<1>4. \A c \in Clients : Bound(noBufferedMessages[c], scenario', budget')
    <2> TAKE c \in Clients
    <2> DEFINE m == noBufferedMessages[c]
    <2>1. m \in Nat /\ m <= m /\ Bound(m, scenario, budget)
        BY <1>3
    <2> HIDE DEF m
    <2>2. Bound(m, scenario', budget')
        BY <2>1, BoundKept
    <2> QED BY <2>2 DEF m
<1> QED BY <1>2, <1>3, <1>4, CountBoundNext

LEMMA KeptOrder ==
    ASSUME Types, Types', OrderInv, Steady' => Steady, NEW f, NEW K,
           Keeps(commands', commands, K, f), UNCHANGED <<taken, started>>
    PROVE  OrderInv'
<1> SUFFICES ASSUME Steady' PROVE OrderOK(commands', started') /\ TakenFirst'
    BY DEF OrderInv
<1>1. commands \in Seq(Good) /\ commands' \in Seq(Good)
    BY DEF Types, QueueTypes
<1>2. OrderOK(commands, started) /\ TakenFirst
    BY DEF OrderInv
<1>3. OrderOK(commands', started)
    BY <1>1, <1>2, EmbedOrderOK DEF Keeps
<1>4. TakenFirst'
    <2>1. \A j \in Datas(commands') : f[j] \in Datas(commands) /\ commands'[j] = commands[f[j]]
        BY DEF Keeps, Embeds
    <2> QED BY <1>2, <2>1 DEF TakenFirst
<1> QED BY <1>3, <1>4

LEMMA KeepsListStep ==
    ASSUME Types, Types', QueueInv, KeepsList
    PROVE  QueueInv'
<1>0. ListInv /\ StoreInv /\ CountInv /\ NumberInv /\ OrderInv /\ KeyInv
    BY DEF QueueInv
<1>1. UNCHANGED <<storeVars, count, scenario>> /\ EnvSpends
    BY DEF KeepsList
<1>2. Onward
    BY <1>1, EnvOnward
<1>3. /\ count \in Nat
      /\ Unwrapped' => Unwrapped
      /\ \A w \in DOMAIN budget' : budget'[w] <= scenario'.budget[w]
      /\ Steady' => Steady
    BY <1>0, <1>2, OnwardFacts
<1>4. commands \in Seq(Good) /\ commands' \in Seq(Good)
    BY DEF Types, QueueTypes
<1>5. PICK f : Keeps(commands', commands, {}, f)
    BY <1>4, KeepsSelf, KeepsCons DEF KeepsList
<1>6. Embeds(commands', commands, f)
    BY <1>5 DEF Keeps
<1>7. ListInv' /\ StoreInv' /\ CountInv'
    <2>1. ListInv'
        BY <1>0, <1>2, <1>6, KeptList
    <2>2. StoreInv'
        BY <1>0, <1>1, <1>5, KeptStore DEF storeVars
    <2>3. CountInv'
        BY <1>0, <1>1, <1>2, <1>5, KeptCount DEF storeVars
    <2> QED BY <2>1, <2>2, <2>3
<1>8. KeyInv'
    <2>1. SeqnoGrows
        BY <1>1, <1>3, AsyncAssumption DEF Types, StoreTypes, storeVars, SeqnoGrows
    <2>2. UNCHANGED <<store, scenario>>
        BY <1>1 DEF storeVars
    <2> QED BY <1>0, <1>5, <2>1, <2>2, KeptKeys
<1>9. NumberInv' /\ OrderInv'
    <2>1. CASE taken' = taken /\ started' = started
        <3>1. OrderInv'
            BY <1>0, <1>3, <1>5, <2>1, KeptOrder
        <3>2. NumberInv'
            BY <1>0, <1>1, <1>3, <2>1 DEF NumberInv, storeVars
        <3> QED BY <3>1, <3>2
    <2>2. CASE taken' = None /\ started' = started
        <3>1. OrderInv'
            <4>1. Steady' => OrderOK(commands', started')
                BY <1>0, <1>3, <1>4, <1>5, <2>2, EmbedOrderOK DEF Keeps, OrderInv
            <4> QED BY <2>2, <4>1 DEF OrderInv, TakenFirst
        <3>2. NumberInv'
            BY <1>0, <1>1, <1>3, <2>2 DEF NumberInv, storeVars
        <3> QED BY <3>1, <3>2
    <2>3. CASE /\ taken # None /\ IsData(taken) /\ taken' = None
               /\ started' = [started EXCEPT ![taken.client] = taken.n]
        <3>0. taken.client \in Clients /\ started \in [Clients -> Nat] /\ taken.n \in Nat
            BY <2>3, GoodFacts DEF Types, QueueTypes, HistTypes
        <3>1. OrderInv'
            <4> SUFFICES ASSUME Steady' PROVE OrderOK(commands', started')
                BY <2>3 DEF OrderInv, TakenFirst
            <4>1. OrderOK(commands, started) /\ TakenFirst
                BY <1>0, <1>3 DEF OrderInv
            <4>2. \A i \in Datas(commands) : commands[i].client \in Clients
                BY <1>4, DatasFacts
            <4>3. \A i \in Datas(commands) : commands[i].n > started'[commands[i].client]
                BY <2>3, <3>0, <4>1, <4>2 DEF OrderOK, TakenFirst
            <4>4. OrderOK(commands, started')
                BY <4>1, <4>3 DEF OrderOK
            <4> QED BY <1>4, <1>5, <4>4, EmbedOrderOK DEF Keeps
        <3>2. NumberInv'
            BY <1>0, <1>1, <1>3, <2>3, <3>0 DEF NumberInv, storeVars
        <3> QED BY <3>1, <3>2
    <2> QED BY <2>1, <2>2, <2>3 DEF KeepsList
<1> QED BY <1>7, <1>8, <1>9 DEF QueueInv

-----------------------------------------------------------------------------
(* Commands that are added and taken                                        *)

(* A command put at the end.                                                *)
LEMMA SeqnoFacts ==
    ASSUME Types, NumberInv, NEW c \in Clients
    PROVE  /\ Seqno(c) \in Nat /\ Seqno(c) <= count + 1
           /\ command_seqno[c] \in Nat
           /\ scenario.persistence /\ count + 1 < SeqnoLimit => Seqno(c) = command_seqno[c] + 1
<1>1. /\ command_seqno[c] \in Nat /\ count \in Nat /\ SeqnoLimit \in Nat \ {0}
      /\ command_seqno[c] <= count
    BY AsyncAssumption DEF Types, StoreTypes, HistTypes, NumberInv
<1>2. Seqno(c) \in 0 .. SeqnoLimit - 1 /\ Seqno(c) <= command_seqno[c] + 1
    BY SeqnoType
<1>3. ASSUME scenario.persistence, count + 1 < SeqnoLimit PROVE Seqno(c) = command_seqno[c] + 1
    <2> DEFINE k == command_seqno[c] + 1
    <2>1. k \in Nat /\ k < SeqnoLimit
        BY <1>1, <1>3
    <2> HIDE DEF k
    <2>2. k % SeqnoLimit = k
        BY <1>1, <2>1
    <2>3. Seqno(c) = k % SeqnoLimit
        BY <1>3 DEF Seqno, k
    <2> QED BY <2>2, <2>3 DEF k
<1> QED BY <1>1, <1>2, <1>3

LEMMA AddsNumbers ==
    ASSUME Types, Types', NumberInv, Onward, UNCHANGED <<taken, started>>, count' = count + 1,
           NEW d \in Clients, NEW k \in {command_seqno[d], Seqno(d)},
           command_seqno' = [command_seqno EXCEPT ![d] = k]
    PROVE  NumberInv'
<1>1. count \in Nat /\ \A w \in DOMAIN budget' : budget'[w] <= scenario'.budget[w]
    BY OnwardFacts
<1>2. k \in Nat /\ k <= count + 1
    BY <1>1, SeqnoFacts DEF NumberInv
<1>3. \A c \in Clients : started'[c] <= count' /\ command_seqno'[c] <= count'
    <2>1. \A c \in Clients : /\ started[c] \in Nat /\ started[c] <= count
                             /\ command_seqno[c] \in Nat /\ command_seqno[c] <= count
        BY AsyncAssumption DEF Types, HistTypes, StoreTypes, NumberInv
    <2>2. \A c \in Clients : started'[c] <= count'
        BY <1>1, <2>1
    <2>3. \A c \in Clients : command_seqno'[c] <= count'
        BY <1>1, <1>2, <2>1 DEF Types, StoreTypes
    <2> QED BY <2>2, <2>3
<1>4. taken' # None => taken'.n <= count'
    <2>1. taken # None => taken.n \in Nat
        BY TakenFacts, GoodFacts
    <2> QED BY <1>1, <2>1 DEF NumberInv
<1> QED BY <1>1, <1>3, <1>4 DEF NumberInv

LEMMA AddDisconnectStep ==
    ASSUME Types, Types', QueueInv, NEW x \in HeadCommands, AddDisconnect(x),
           UNCHANGED <<taken, started, budget, scenario>>
    PROVE  QueueInv'
<1>0. ListInv /\ StoreInv /\ CountInv /\ NumberInv /\ OrderInv /\ KeyInv
    BY DEF QueueInv
<1> DEFINE d == x.client
<1>1. /\ commands' = Append(commands, x) /\ count' = count + 1
      /\ command_seqno' = [command_seqno EXCEPT ![d] = Seqno(d)]
      /\ UNCHANGED <<noBufferedMessages, store>> /\ d \in Clients
    BY GoodFacts DEF AddDisconnect, Good
<1> HIDE DEF d
<1>2. Onward
    BY <1>1, EnvOnward
<1>3. /\ count \in Nat /\ SeqnoLimit \in Nat
      /\ Unwrapped' => Unwrapped
      /\ Steady' => Steady
    BY <1>0, <1>2, OnwardFacts
<1>4. commands \in Seq(Good) /\ commands' \in Seq(Good)
    BY DEF Types, QueueTypes
<1>5. PICK f : Keeps(commands', commands, {}, f)
    BY <1>1, <1>4, KeepsAppendHead
<1>6. Embeds(commands', commands, f)
    BY <1>5 DEF Keeps
<1>7. ListInv'
    BY <1>0, <1>2, <1>6, KeptList
<1>8. StoreInv'
    BY <1>0, <1>1, <1>5, KeptStore
<1>9. CountInv'
    BY <1>0, <1>1, <1>2, <1>5, KeptCount
<1>10. OrderInv'
    BY <1>0, <1>3, <1>5, KeptOrder
<1>11. NumberInv'
    BY <1>0, <1>1, <1>2, AddsNumbers
<1>12. KeyInv'
    <2>1. SeqnoGrows
        <3> SUFFICES ASSUME NEW c \in Clients, scenario.persistence, Unwrapped'
                     PROVE  command_seqno[c] <= command_seqno'[c]
            BY <1>3 DEF SeqnoGrows
        <3>1. command_seqno[c] \in Nat /\ command_seqno[d] \in Nat
            BY <1>0, <1>1, SeqnoFacts
        <3>2. Seqno(d) = command_seqno[d] + 1
            BY <1>0, <1>1, SeqnoFacts DEF Unwrapped
        <3> QED BY <1>1, <3>1, <3>2 DEF Types, StoreTypes
    <2>2. UNCHANGED <<store, scenario>>
        BY <1>1
    <2> QED BY <1>0, <1>5, <2>1, <2>2, KeptKeys
<1> QED BY <1>7, <1>8, <1>9, <1>10, <1>11, <1>12 DEF QueueInv

(* A publication or subscription: it goes to the end of the list and into   *)
(* the store; K is the place of the publication that has to go, if any.     *)
Longer(x) == Append(commands, Numbered(x))

LEMMA AddDataWays ==
    ASSUME Types, NEW x \in DataCommands, AddData(x)
    PROVE  \E K, f :
             /\ K \subseteq Publishes(Longer(x), x.client)
             /\ Keeps(commands', Longer(x), K, f)
             /\ store' = IF scenario.persistence
                         THEN [store EXCEPT ![x.client] =
                                 Stored(Numbered(x), {Longer(x)[k].key : k \in K})]
                         ELSE store
             /\ noBufferedMessages' =
                  [noBufferedMessages EXCEPT ![x.client] =
                     IF x.type = "PUBLISH" /\ K = {} THEN @ + 1 ELSE @]
             /\ IF x.type = "PUBLISH" /\ Full(x.client) THEN \E k : K = {k} ELSE K = {}
<1> DEFINE c == x.client
           q == Longer(x)
           o == OldestPublish(q, c)
<1>1. q \in Seq(Good)
    BY AddDataFacts DEF Longer
<1>2. IF x.type = "PUBLISH" /\ Full(c)
      THEN /\ commands' = RemoveAt(q, o)
           /\ store' = IF scenario.persistence
                       THEN [store EXCEPT ![c] = Stored(Numbered(x), {q[o].key})] ELSE store
           /\ noBufferedMessages' = [noBufferedMessages EXCEPT ![c] = noBufferedMessages[c]]
      ELSE /\ commands' = q
           /\ store' = IF scenario.persistence
                       THEN [store EXCEPT ![c] = Stored(Numbered(x), {})] ELSE store
           /\ noBufferedMessages' =
                [noBufferedMessages EXCEPT ![c] = IF x.type = "PUBLISH" THEN @ + 1 ELSE @]
    BY DEF AddData, CountUp, Longer
<1>3. CASE x.type = "PUBLISH" /\ Full(c)
    <2>1. o \in DOMAIN q /\ o \in Publishes(q, c)
        BY <1>3, AddDataFacts DEF Longer, Publishes
    <2> HIDE DEF o
    <2>0. commands' = RemoveAt(q, o)
        BY <1>2, <1>3
    <2> HIDE DEF q
    <2>2. PICK f : Keeps(commands', q, {o}, f)
        BY <1>1, <2>0, <2>1, KeepsRemoved
    <2> USE DEF q
    <2>3. {q[k].key : k \in {o}} = {q[o].key} /\ {o} # {}
        OBVIOUS
    <2> QED BY <1>2, <1>3, <2>1, <2>2, <2>3
<1>4. CASE ~(x.type = "PUBLISH" /\ Full(c))
    <2>1. PICK f : Keeps(commands', q, {}, f)
        BY <1>1, <1>2, <1>4, KeepsSelf
    <2>2. {q[k].key : k \in {}} = {}
        OBVIOUS
    <2> QED BY <1>2, <1>4, <2>1, <2>2
<1> QED BY <1>3, <1>4

(* What AddData does, with the parts named.                                 *)
AddsData(x, K, f) ==
    /\ K \subseteq Publishes(Longer(x), x.client)
    /\ Keeps(commands', Longer(x), K, f)
    /\ store' = IF scenario.persistence
                THEN [store EXCEPT ![x.client] =
                        Stored(Numbered(x), {Longer(x)[k].key : k \in K})]
                ELSE store
    /\ noBufferedMessages' =
         [noBufferedMessages EXCEPT ![x.client] =
            IF x.type = "PUBLISH" /\ K = {} THEN @ + 1 ELSE @]
    /\ IF x.type = "PUBLISH" /\ Full(x.client) THEN \E k : K = {k} ELSE K = {}

LEMMA LongerFacts ==
    ASSUME Types, NEW x \in DataCommands
    PROVE  /\ Longer(x) \in Seq(Good) /\ Len(commands) + 1 \notin Datas(commands)
           /\ Datas(Longer(x)) = Datas(commands) \cup {Len(commands) + 1}
           /\ \A i \in Datas(commands) : Longer(x)[i] = commands[i]
           /\ Longer(x)[Len(commands) + 1] = Numbered(x)
           /\ commands \in Seq(Good) /\ Numbered(x) \in DataCommands
<1>1. commands \in Seq(Good)
    BY DEF Types, QueueTypes
<1>2. Numbered(x) \in DataCommands
    BY NumberedFacts
<1>3. /\ Longer(x) \in Seq(Good) /\ Len(commands) \in Nat
      /\ Datas(Longer(x)) = Datas(commands) \cup {Len(commands) + 1}
      /\ \A i \in Datas(commands) : Longer(x)[i] = commands[i] /\ i < Len(commands) + 1
      /\ Longer(x)[Len(commands) + 1] = Numbered(x)
    BY <1>1, <1>2, DatasAppend DEF Longer
<1> QED BY <1>1, <1>2, <1>3

LEMMA AddDataCount ==
    ASSUME Types, Types', CountInv, NumberInv, Onward,
           NEW x \in DataCommands, NEW K, NEW f, AddsData(x, K, f)
    PROVE  CountInv'
<1> DEFINE c == x.client
           q == Longer(x)
<1>0. /\ q \in Seq(Good) /\ c \in Clients /\ commands' \in Seq(Good) /\ commands \in Seq(Good)
      /\ Numbered(x) \in DataCommands
      /\ Numbered(x).client = c /\ Numbered(x).type = x.type
    <2>1. /\ Numbered(x) \in DataCommands /\ Numbered(x).client = c /\ Numbered(x).type = x.type
        BY NumberedFacts
    <2>2. q \in Seq(Good) /\ commands \in Seq(Good)
        BY LongerFacts
    <2> QED BY <2>1, <2>2, GoodFacts DEF Types, QueueTypes, Good
<1>1. noBufferedMessages \in [Clients -> Nat]
    BY DEF CountInv
<1>2. noBufferedMessages' =
         [noBufferedMessages EXCEPT ![c] = IF x.type = "PUBLISH" /\ K = {} THEN @ + 1 ELSE @]
    BY DEF AddsData
<1>3. noBufferedMessages' \in [Clients -> Nat]
    BY <1>0, <1>1, <1>2
<1>4. ASSUME NEW d \in Clients
      PROVE  /\ Cardinality(Publishes(q, d)) = IF c = d /\ x.type = "PUBLISH"
                                               THEN noBufferedMessages[d] + 1
                                               ELSE noBufferedMessages[d]
             /\ Cardinality(Publishes(commands', d)) = Cardinality(Publishes(q, d) \ K)
             /\ Bound(noBufferedMessages[d], scenario', budget')
    <2>1. Cardinality(Publishes(commands, d)) = noBufferedMessages[d]
          /\ Bound(noBufferedMessages[d], scenario, budget) /\ noBufferedMessages[d] \in Nat
        BY CountBound
    <2>2. Cardinality(Publishes(q, d)) = IF c = d /\ x.type = "PUBLISH"
                                         THEN Cardinality(Publishes(commands, d)) + 1
                                         ELSE Cardinality(Publishes(commands, d))
        BY <1>0, AppendPublishes DEF Longer
    <2>3. Cardinality(Publishes(commands', d)) = Cardinality(Publishes(q, d) \ K)
        BY <1>0, KeepsPublishes DEF AddsData
    <2>4. Bound(noBufferedMessages[d], scenario', budget')
        <3> DEFINE m == noBufferedMessages[d]
        <3>1. m \in Nat /\ m <= m /\ Bound(m, scenario, budget)
            BY <2>1
        <3> HIDE DEF m
        <3>2. Bound(m, scenario', budget')
            BY <3>1, BoundKept
        <3> QED BY <3>2 DEF m
    <2> QED BY <2>1, <2>2, <2>3, <2>4
<1>5. scenario.maxBuffered \in Nat
    BY ScenarioFacts DEF Types
<1>6. ASSUME NEW d \in Clients
      PROVE  /\ noBufferedMessages'[d] = Cardinality(Publishes(commands', d))
             /\ Bound(noBufferedMessages'[d], scenario', budget')
    <2>0. noBufferedMessages[d] \in Nat
        BY <1>1
    <2>1. CASE d # c
        <3>1. Publishes(q, d) \ K = Publishes(q, d)
            BY <2>1 DEF AddsData, Publishes
        <3>2. noBufferedMessages'[d] = noBufferedMessages[d]
            BY <1>1, <1>2, <2>1
        <3> QED BY <1>4, <2>1, <3>1, <3>2
    <2>2. CASE d = c /\ x.type = "PUBLISH" /\ Full(c)
        <3>1. PICK k : K = {k}
            BY <2>2 DEF AddsData
        <3>2. k \in Publishes(q, d) /\ IsFiniteSet(Publishes(q, d))
            BY <1>0, <2>2, <3>1, PublishesFacts DEF AddsData
        <3> DEFINE P == Publishes(q, d)
        <3>3. Cardinality(P \ {k}) = Cardinality(P) - 1
            BY <3>2, FS_RemoveElement
        <3>4. noBufferedMessages'[d] = noBufferedMessages[d]
            BY <1>1, <1>2, <2>2, <3>1
        <3>5. Cardinality(P) = noBufferedMessages[d] + 1
            BY <1>4, <2>2
        <3> HIDE DEF P
        <3>6. Cardinality(P \ {k}) = noBufferedMessages[d]
            BY <2>0, <3>3, <3>5
        <3> QED BY <1>4, <3>1, <3>4, <3>6 DEF P
    <2>3. CASE d = c /\ x.type = "PUBLISH" /\ ~Full(c)
        <3>1. K = {}
            BY <2>3 DEF AddsData
        <3>2. Publishes(q, d) \ K = Publishes(q, d)
            BY <3>1
        <3>3. noBufferedMessages'[d] = noBufferedMessages[d] + 1
            BY <1>1, <1>2, <2>3, <3>1
        <3> DEFINE m == noBufferedMessages[d] + 1
        <3>4. m \in Nat /\ (scenario.maxBuffered > 0 => m <= scenario.maxBuffered)
            BY <1>5, <2>0, <2>3 DEF Full
        <3> HIDE DEF m
        <3>5. Bound(m, scenario', budget')
            BY <3>4, BoundBelow
        <3> USE DEF m
        <3>6. Bound(noBufferedMessages'[d], scenario', budget')
            BY <3>3, <3>5
        <3> QED BY <1>4, <2>3, <3>2, <3>3, <3>6
    <2>4. CASE d = c /\ x.type # "PUBLISH"
        <3>1. K = {}
            BY <2>4 DEF AddsData
        <3>2. Publishes(q, d) \ K = Publishes(q, d)
            BY <3>1
        <3>3. noBufferedMessages'[d] = noBufferedMessages[d]
            BY <1>1, <1>2, <2>4
        <3> QED BY <1>4, <2>4, <3>2, <3>3
    <2> QED BY <2>1, <2>2, <2>3, <2>4
<1> QED BY <1>3, <1>6, CountBoundNext

LEMMA AddDataOrder ==
    ASSUME Types, Types', ListInv, NumberInv, OrderInv, Steady' => Steady,
           NEW x \in DataCommands, NEW K, NEW f, AddsData(x, K, f),
           UNCHANGED <<taken, started, scenario>>, count' = count + 1
    PROVE  ListInv' /\ OrderInv'
<1> DEFINE c == x.client
           q == Longer(x)
           y == Numbered(x)
<1>0. /\ q \in Seq(Good) /\ commands' \in Seq(Good) /\ commands \in Seq(Good)
      /\ y \in DataCommands
      /\ Datas(q) = Datas(commands) \cup {Len(commands) + 1}
      /\ \A i \in Datas(commands) : q[i] = commands[i]
      /\ q[Len(commands) + 1] = y
    BY LongerFacts DEF Types, QueueTypes
<1>1. y.client = c /\ y.n = count + 1 /\ y.key <= y.n /\ c \in Clients
    <2>1. /\ y.client = c /\ y.n = count + 1
          /\ y.key = IF Persists(x) THEN Seqno(c) ELSE 0
        BY NumberedFacts
    <2>2. c \in Clients
        BY GoodFacts DEF Good
    <2>3. Seqno(c) <= count + 1 /\ count \in Nat
        BY <2>2, SeqnoFacts DEF Types, HistTypes
    <2> QED BY <2>1, <2>2, <2>3
<1>2. count \in Nat /\ started \in [Clients -> Nat] /\ started[c] <= count
    BY <1>1 DEF Types, HistTypes, NumberInv
<1> HIDE DEF y
<1>3. Embeds(commands', q, f) /\ KeepsOrder(commands', f)
    BY DEF AddsData, Keeps
<1>4. q = Append(commands, y)
    BY DEF Longer, y
<1>5. ListOK(q, count + 1)
    BY <1>0, <1>1, <1>2, <1>4, AppendListOK DEF ListInv
<1>6. ListInv'
    BY <1>0, <1>3, <1>5, EmbedListOK DEF ListInv
<1>7. ASSUME Steady' PROVE OrderOK(commands', started') /\ TakenFirst'
    <2>1. OrderOK(commands, started) /\ TakenFirst
        BY <1>7 DEF OrderInv
    <2>2. OrderOK(q, started)
        BY <1>0, <1>1, <1>2, <1>4, <2>1, AppendOrderOK DEF ListInv
    <2> HIDE DEF q
    <2>3. OrderOK(commands', started)
        BY <1>0, <1>3, <2>2, EmbedOrderOK
    <2>4. TakenFirst'
        <3> SUFFICES ASSUME taken # None, IsData(taken)
                     PROVE  /\ taken.n > started[taken.client]
                            /\ \A j \in Datas(commands') :
                                 commands'[j].client = taken.client => commands'[j].n > taken.n
            BY DEF TakenFirst
        <3>1. /\ taken.n > started[taken.client]
              /\ \A i \in Datas(commands) : commands[i].client = taken.client => commands[i].n > taken.n
            BY <2>1 DEF TakenFirst
        <3>2. taken.n <= count /\ taken.n \in Nat
            BY TakenFacts, GoodFacts DEF NumberInv
        <3>3. \A i \in Datas(q) : q[i].client = taken.client => q[i].n > taken.n
            <4> TAKE i \in Datas(q)
            <4>1. CASE i \in Datas(commands)
                BY <1>0, <3>1, <4>1
            <4>2. CASE i = Len(commands) + 1
                <5>1. q[i].n = count + 1
                    BY <1>0, <1>1, <4>2
                <5> QED BY <1>2, <3>2, <5>1
            <4> QED BY <1>0, <4>1, <4>2
        <3> QED BY <1>3, <3>1, <3>3 DEF Embeds, Alike
    <2> QED BY <2>3, <2>4
<1> QED BY <1>6, <1>7 DEF OrderInv

(* While addCommand runs: the list with the new command, and its record.    *)
LEMMA RecordedIs ==
    ASSUME Types, NEW x \in DataCommands
    PROVE  /\ \A d \in Clients : d # x.client => Recorded(x)[d] = store[d]
           /\ \A rec : rec \in Recorded(x)[x.client] <=>
                IF Stores(scenario, x)
                THEN rec = Numbered(x) \/ (rec \in store[x.client] /\ rec.key # Numbered(x).key)
                ELSE rec \in store[x.client]
<1>1. /\ x.client \in Clients /\ DOMAIN store = Clients
      /\ Numbered(x).client = x.client /\ Numbered(x).req = x.req
    BY GoodFacts, NumberedFacts DEF Good, Types, StoreTypes
<1>2. Persists(Numbered(x)) <=> Stores(scenario, x)
    BY <1>1 DEF Persists, Stores
<1>3. Recorded(x)[x.client] = WithRecord(Numbered(x))
    BY <1>1 DEF Recorded
<1>4. \A d \in Clients : d # x.client => Recorded(x)[d] = store[d]
    BY <1>1 DEF Recorded
<1>5. \A rec : rec \in WithRecord(Numbered(x)) <=>
                IF Stores(scenario, x)
                THEN rec = Numbered(x) \/ (rec \in store[x.client] /\ rec.key # Numbered(x).key)
                ELSE rec \in store[x.client]
    BY <1>1, <1>2 DEF WithRecord
<1> QED BY <1>3, <1>4, <1>5

LEMMA LongerStore ==
    ASSUME Types, StoreInv, NEW x \in DataCommands
    PROVE  StoreOK(Longer(x), Recorded(x), scenario)
<1> DEFINE q == Longer(x)
           y == Numbered(x)
           c == x.client
           R == Recorded(x)
<1>0. /\ Datas(q) = Datas(commands) \cup {Len(commands) + 1}
      /\ \A i \in Datas(commands) : q[i] = commands[i]
      /\ q[Len(commands) + 1] = y
    BY LongerFacts
<1>1. c \in Clients /\ y.req = x.req
    BY GoodFacts, NumberedFacts DEF Good
<1>2. /\ \A d \in Clients : d # c => R[d] = store[d]
      /\ \A rec \in R[c] :
            \/ rec = y /\ Stores(scenario, x)
            \/ rec \in store[c] /\ (Stores(scenario, x) => rec.key # y.key)
      /\ Stores(scenario, x) <=> Stores(scenario, y)
    <2>1. Stores(scenario, x) <=> Stores(scenario, y)
        BY <1>1 DEF Stores
    <2>2. \A d \in Clients : d # c => R[d] = store[d]
        BY RecordedIs
    <2>3. \A rec : rec \in R[c] <=> IF Stores(scenario, x)
                                    THEN rec = y \/ (rec \in store[c] /\ rec.key # y.key)
                                    ELSE rec \in store[c]
        BY RecordedIs
    <2> HIDE DEF R, y, c
    <2> QED BY <2>1, <2>2, <2>3
<1> HIDE DEF q, y, R
<1>3. \A rec : HasCommand(rec, commands, scenario) => HasCommand(rec, q, scenario)
    BY <1>0 DEF HasCommand
<1>4. Stores(scenario, x) => HasCommand(y, q, scenario)
    BY <1>0, <1>2 DEF HasCommand
<1>5. ASSUME NEW d \in Clients, NEW rec \in R[d] PROVE HasCommand(rec, q, scenario)
    <2>1. CASE rec \in store[d]
        BY <1>3, <2>1 DEF StoreInv, StoreOK
    <2>2. CASE rec \notin store[d]
        BY <1>2, <1>4, <1>5, <2>2
    <2> QED BY <2>1, <2>2
<1>6. ASSUME NEW d \in Clients, NEW u \in R[d], NEW v \in R[d], u.key = v.key PROVE u = v
    <2>1. u \in store[d] /\ v \in store[d] => u = v
        BY <1>6 DEF StoreInv, StoreOK
    <2> QED BY <1>2, <1>6, <2>1
<1> QED BY <1>5, <1>6 DEF StoreOK, q, R

Ahead(x) ==
    [command_seqno EXCEPT ![x.client] = IF Persists(x) THEN Seqno(x.client) ELSE command_seqno[x.client]]

LEMMA LongerKeys ==
    ASSUME Types, NumberInv, KeyInv, scenario.persistence, count + 1 < SeqnoLimit,
           NEW x \in DataCommands
    PROVE  KeysIn(Longer(x), Recorded(x), Ahead(x), scenario)
<1> DEFINE q == Longer(x)
           y == Numbered(x)
           c == x.client
           R == Recorded(x)
           sq == Ahead(x)
<1>0. /\ Datas(q) = Datas(commands) \cup {Len(commands) + 1}
      /\ \A i \in Datas(commands) : q[i] = commands[i]
      /\ q[Len(commands) + 1] = y /\ q = Append(commands, y)
      /\ commands \in Seq(Good) /\ y \in DataCommands
      /\ Len(commands) + 1 \notin Datas(commands)
    BY LongerFacts DEF Longer
<1>1. c \in Clients /\ y.client = c /\ y.req = x.req
      /\ y.key = IF Persists(x) THEN Seqno(c) ELSE 0
    BY GoodFacts, NumberedFacts DEF Good
<1>2. Stores(scenario, y) <=> Persists(x)
    BY <1>1 DEF Stores, Persists
<1>2a. Stores(scenario, x) <=> Persists(x)
    BY DEF Stores, Persists
<1>3. KeysIn(commands, store, command_seqno, scenario)
    <2>1. Unwrapped
        BY AsyncAssumption DEF Unwrapped, Types, HistTypes
    <2> QED BY <2>1 DEF KeyInv
<1>4. Seqno(c) = command_seqno[c] + 1 /\ command_seqno[c] \in Nat
    BY <1>1, SeqnoFacts
<1>5. \A i \in Datas(commands) :
         /\ commands[i].client \in Clients /\ commands[i].key \in Nat
         /\ commands[i] \in Commands /\ commands[i] \in DataCommands
         /\ command_seqno[commands[i].client] \in Nat
    BY <1>0, DatasFacts, GoodFacts, AsyncAssumption DEF Types, StoreTypes
<1>6. /\ sq[c] = IF Persists(x) THEN Seqno(c) ELSE command_seqno[c]
      /\ \A d \in Clients : d # c => sq[d] = command_seqno[d]
    BY <1>1 DEF Ahead, Types, StoreTypes
<1>7. /\ \A d \in Clients : d # c => R[d] = store[d]
      /\ \A rec : rec \in R[c] <=> IF Persists(x)
                                    THEN rec = y \/ (rec \in store[c] /\ rec.key # y.key)
                                    ELSE rec \in store[c]
    BY <1>2a, RecordedIs
<1> HIDE DEF q, y, R, sq
<1>8. ASSUME NEW i \in Datas(commands)
      PROVE  KeyIs(commands[i], sq, scenario) /\ commands[i].key <= command_seqno[commands[i].client]
    <2>1. KeyIs(commands[i], command_seqno, scenario)
        BY <1>3 DEF KeysIn
    <2>2. command_seqno[commands[i].client] <= sq[commands[i].client]
        BY <1>4, <1>5, <1>6
    <2>3. sq[commands[i].client] \in Nat
        BY <1>4, <1>5, <1>6
    <2> QED BY <1>5, <2>1, <2>2, <2>3 DEF KeyIs
<1>9. Persists(x) => KeysBelow(commands, scenario, c, y.key)
    <2> SUFFICES ASSUME Persists(x), NEW i \in Lasting(commands, scenario), commands[i].client = c
                 PROVE  commands[i].key < y.key
        BY DEF KeysBelow
    <2>1. i \in Datas(commands)
        BY DEF Lasting
    <2> QED BY <1>1, <1>4, <1>5, <1>8, <2>1
<1>10. KeysOK(q, scenario)
    <2>1. KeysOK(commands, scenario)
        BY <1>3 DEF KeysIn
    <2> QED BY <1>0, <1>1, <1>2, <1>9, <2>1, AppendKeysOK
<1>11. ASSUME NEW i \in Datas(q) PROVE KeyIs(q[i], sq, scenario)
    <2>1. CASE i \in Datas(commands)
        BY <1>0, <1>8, <2>1
    <2>2. CASE i = Len(commands) + 1
        <3>1. q[i] = y
            BY <1>0, <2>2
        <3>2. IF Stores(scenario, y) THEN 0 < y.key /\ y.key <= sq[y.client] ELSE y.key = 0
            BY <1>1, <1>2, <1>4, <1>6
        <3> QED BY <3>1, <3>2 DEF KeyIs
    <2> QED BY <1>0, <2>1, <2>2
<1>12. ASSUME NEW i \in Lasting(q, scenario) PROVE HasRecord(q[i], R)
    <2>0. i \in Datas(q) /\ Stores(scenario, q[i])
        BY DEF Lasting
    <2>1. CASE i \in Datas(commands)
        <3>1. q[i] = commands[i] /\ i \in Lasting(commands, scenario)
            BY <1>0, <2>0, <2>1 DEF Lasting
        <3>2. PICK rec \in store[commands[i].client] : Blank(commands[i]) = Blank(rec)
            BY <1>3, <3>1 DEF KeysIn, HasRecord
        <3>3. commands[i].key = rec.key
            <4>1. rec \in Commands
                BY <1>5, <2>1 DEF Types, StoreTypes, DataCommands
            <4> QED BY <1>5, <2>1, <3>2, <4>1, BlankEqual
        <3>4. rec \in R[commands[i].client]
            <4>1. CASE commands[i].client = c /\ Persists(x)
                <5>1. commands[i].key < y.key
                    BY <1>9, <3>1, <4>1 DEF KeysBelow
                <5>2. y.key \in Nat
                    BY <1>1, <1>4, <4>1
                <5>3. rec.key # y.key
                    BY <1>5, <2>1, <3>3, <5>1, <5>2
                <5> QED BY <1>7, <3>2, <4>1, <5>3
            <4>2. CASE commands[i].client = c /\ ~Persists(x)
                BY <1>7, <3>2, <4>2
            <4>3. CASE commands[i].client # c
                BY <1>5, <1>7, <2>1, <3>2, <4>3
            <4> QED BY <4>1, <4>2, <4>3
        <3> QED BY <3>1, <3>2, <3>4 DEF HasRecord
    <2>2. CASE i = Len(commands) + 1
        <3>1. q[i] = y /\ Persists(x)
            BY <1>0, <1>2, <2>0, <2>2
        <3>2. y \in R[c]
            BY <1>7, <3>1
        <3> QED BY <1>1, <3>1, <3>2 DEF HasRecord
    <2> QED BY <1>0, <2>0, <2>1, <2>2
<1> QED BY <1>10, <1>11, <1>12 DEF KeysIn, q, R, sq

(* Commands of a client leave the list, and with them the records that have *)
(* their keys.                                                              *)
Removes(R2, R, q, K, c) ==
    /\ \A d \in Clients : d # c => R2[d] = R[d]
    /\ R2[c] = {rec \in R[c] : rec.key \notin {q[k].key : k \in K}}
Own(q, K, c) == K \subseteq DOMAIN q /\ \A k \in K : q[k].client = c

LEMMA RecordIs ==
    ASSUME NEW R, RecordsOK(R), NEW d \in Clients, NEW rec \in R[d]
    PROVE  rec \in Commands /\ rec \in DataCommands /\ rec.client = d /\ rec.key \in Nat
BY DEF RecordsOK, RecordSet, DataCommands, Commands

LEMMA DropStore ==
    ASSUME NEW s \in Seq(Good), NEW q \in Seq(Good), NEW K, NEW f, Keeps(s, q, K, f),
           NEW R, RecordsOK(R), NEW R2, NEW c \in Clients, Removes(R2, R, q, K, c), Own(q, K, c),
           NEW sc, StoreOK(q, R, sc)
    PROVE  StoreOK(s, R2, sc)
<1>1. \A d \in Clients : \A rec \in R2[d] : rec \in R[d]
    BY DEF Removes
<1>2. ASSUME NEW d \in Clients, NEW rec \in R2[d] PROVE HasCommand(rec, s, sc)
    <2>1. rec \in R[d]
        BY <1>1
    <2>2. HasCommand(rec, q, sc)
        BY <2>1 DEF StoreOK
    <2>3. PICK i \in Datas(q) : Blank(q[i]) = Blank(rec)
        BY <2>2 DEF HasCommand
    <2>4. q[i].key = rec.key /\ q[i].client = rec.client /\ rec.client = d
        <3>1. q[i] \in Commands /\ rec \in Commands /\ rec.client = d
            BY <2>1, DatasFacts, GoodFacts, RecordIs
        <3> QED BY <2>3, <3>1, BlankEqual
    <2>5. i \notin K
        <3> SUFFICES ASSUME i \in K PROVE FALSE
            OBVIOUS
        <3>1. d = c
            BY <2>4 DEF Own
        <3> QED BY <2>4, <3>1 DEF Removes
    <2>6. \E j \in Datas(s) : s[j] = q[i]
        BY <2>5 DEF Keeps
    <2> QED BY <2>2, <2>3, <2>6 DEF HasCommand
<1>3. \A d \in Clients : \A u, v \in R2[d] : u.key = v.key => u = v
    BY <1>1 DEF StoreOK
<1> QED BY <1>2, <1>3 DEF StoreOK

LEMMA DropKeys ==
    ASSUME NEW s \in Seq(Good), NEW q \in Seq(Good), NEW K, NEW f, Keeps(s, q, K, f),
           NEW R, RecordsOK(R), NEW R2, NEW c \in Clients, Removes(R2, R, q, K, c), Own(q, K, c),
           NEW sq, NEW sc, KeysIn(q, R, sq, sc)
    PROVE  KeysIn(s, R2, sq, sc)
<1>1. \A j \in Datas(s) : f[j] \in Datas(q) /\ s[j] = q[f[j]] /\ f[j] \notin K
    BY DEF Keeps, Embeds
<1>2. KeysOK(s, sc)
    BY EmbedKeysOK DEF Keeps, KeysIn
<1>3. \A j \in Datas(s) : KeyIs(s[j], sq, sc)
    BY <1>1 DEF KeysIn
<1>4. ASSUME NEW k \in K, k \notin Lasting(q, sc) PROVE q[k].key = 0
    <2>1. CASE k \in Datas(q)
        BY <1>4, <2>1 DEF KeysIn, KeyIs, Lasting
    <2>2. CASE k \notin Datas(q)
        <3>1. k \in DOMAIN q /\ q[k] \in Good /\ q[k] \notin DataCommands
            BY <2>2, DatasFacts DEF Own
        <3> QED BY <3>1 DEF Good, HeadCommands, HeadKind
    <2> QED BY <2>1, <2>2
<1>5. ASSUME NEW j \in Lasting(s, sc) PROVE HasRecord(s[j], R2)
    <2> DEFINE i == f[j]
    <2>1. i \in Datas(q) /\ s[j] = q[i] /\ i \notin K /\ Stores(sc, q[i])
        BY <1>1 DEF Lasting
    <2> HIDE DEF i
    <2>2. i \in Lasting(q, sc)
        BY <2>1 DEF Lasting
    <2>3. PICK rec \in R[q[i].client] : Blank(q[i]) = Blank(rec)
        BY <2>2 DEF KeysIn, HasRecord
    <2>4. q[i].client \in Clients /\ q[i].key \in Nat /\ q[i] \in Commands /\ i \in Nat
        BY <2>1, DatasFacts, GoodFacts
    <2>5. q[i].key = rec.key
        <3>1. rec \in Commands
            BY <2>4, RecordIs
        <3> QED BY <2>3, <2>4, <3>1, BlankEqual
    <2>6. 0 < q[i].key
        BY <2>1 DEF KeysIn, KeyIs
    <2>7. ASSUME q[i].client = c, NEW k \in K PROVE rec.key # q[k].key
        <3>1. CASE k \in Lasting(q, sc)
            <4>1. k \in Nat /\ q[k].client = c /\ i # k /\ q[k].key \in Nat
                BY <2>1, <3>1, DatasFacts DEF Own, Lasting
            <4>2. i < k \/ k < i
                BY <2>4, <4>1
            <4>3. q[i].key < q[k].key \/ q[k].key < q[i].key
                BY <2>2, <2>7, <3>1, <4>1, <4>2 DEF KeysIn, KeysOK
            <4> QED BY <2>4, <2>5, <4>1, <4>3
        <3>2. CASE k \notin Lasting(q, sc)
            BY <1>4, <2>4, <2>5, <2>6, <3>2
        <3> QED BY <3>1, <3>2
    <2>8. rec \in R2[q[i].client]
        <3>1. CASE q[i].client = c
            BY <2>3, <2>7, <3>1 DEF Removes
        <3>2. CASE q[i].client # c
            BY <2>3, <2>4, <3>2 DEF Removes
        <3> QED BY <3>1, <3>2
    <2> QED BY <2>1, <2>3, <2>8 DEF HasRecord
<1> QED BY <1>2, <1>3, <1>5 DEF KeysIn

LEMMA AddDataRemoves ==
    ASSUME Types, NEW x \in DataCommands, NEW K, NEW f, AddsData(x, K, f), scenario.persistence
    PROVE  Removes(store', Recorded(x), Longer(x), K, x.client) /\ Own(Longer(x), K, x.client)
<1> DEFINE c == x.client
           y == Numbered(x)
           gone == {Longer(x)[k].key : k \in K}
<1>1. c \in Clients /\ DOMAIN store = Clients
    BY GoodFacts DEF Good, Types, StoreTypes
<1>2. store' = [store EXCEPT ![c] = Stored(y, gone)]
    BY DEF AddsData
<1>3. Recorded(x)[c] = WithRecord(y) /\ \A d \in Clients : d # c => Recorded(x)[d] = store[d]
    BY <1>1 DEF Recorded
<1>4. Stored(y, gone) = {rec \in WithRecord(y) : rec.key \notin gone}
    BY DEF Stored
<1> HIDE DEF y, gone
<1>5. store'[c] = {rec \in Recorded(x)[c] : rec.key \notin gone}
      /\ \A d \in Clients : d # c => store'[d] = Recorded(x)[d]
    BY <1>1, <1>2, <1>3, <1>4
<1>6. Own(Longer(x), K, c)
    BY DEF AddsData, Publishes, Own
<1> QED BY <1>5, <1>6 DEF Removes, gone

LEMMA AddDataStore ==
    ASSUME Types, Types', StoreInv, NEW x \in DataCommands, NEW K, NEW f, AddsData(x, K, f),
           UNCHANGED scenario
    PROVE  StoreInv'
<1>1. CASE ~scenario.persistence
    <2>1. \A d \in Clients : store'[d] = {}
        BY <1>1 DEF StoreInv, StoreOK, HasCommand, Stores, AddsData
    <2> QED BY <2>1 DEF StoreInv, StoreOK
<1>2. CASE scenario.persistence
    <2>1. Removes(store', Recorded(x), Longer(x), K, x.client) /\ Own(Longer(x), K, x.client)
        BY <1>2, AddDataRemoves
    <2>2. RecordsOK(Recorded(x)) /\ StoreOK(Longer(x), Recorded(x), scenario)
        BY RecordedFacts, LongerStore
    <2>3. /\ Longer(x) \in Seq(Good) /\ commands' \in Seq(Good) /\ x.client \in Clients
          /\ Keeps(commands', Longer(x), K, f)
        BY LongerFacts, GoodFacts DEF Good, Types, QueueTypes, AddsData
    <2>4. StoreOK(commands', store', scenario)
        BY <2>1, <2>2, <2>3, DropStore
    <2> QED BY <2>4 DEF StoreInv
<1> QED BY <1>1, <1>2

LEMMA AddDataKeys ==
    ASSUME Types, Types', NumberInv, KeyInv, Onward,
           NEW x \in DataCommands, NEW K, NEW f, AddsData(x, K, f), count' = count + 1,
           command_seqno' = Ahead(x)
    PROVE  KeyInv'
<1> SUFFICES ASSUME scenario.persistence, Unwrapped'
             PROVE  KeysIn(commands', store', command_seqno', scenario)
    BY DEF KeyInv, Onward
<1>1. Removes(store', Recorded(x), Longer(x), K, x.client) /\ Own(Longer(x), K, x.client)
    BY AddDataRemoves
<1>2. RecordsOK(Recorded(x)) /\ KeysIn(Longer(x), Recorded(x), command_seqno', scenario)
    <2>1. count + 1 < SeqnoLimit
        BY DEF Unwrapped
    <2> QED BY <2>1, RecordedFacts, LongerKeys
<1>3. /\ Longer(x) \in Seq(Good) /\ commands' \in Seq(Good) /\ x.client \in Clients
      /\ Keeps(commands', Longer(x), K, f)
    BY LongerFacts, GoodFacts DEF Good, Types, QueueTypes, AddsData
<1> QED BY <1>1, <1>2, <1>3, DropKeys

LEMMA AddDataStep ==
    ASSUME Types, Types', QueueInv, NEW x \in DataCommands, AddData(x),
           UNCHANGED <<taken, started, budget, scenario>>
    PROVE  QueueInv'
<1>0. ListInv /\ StoreInv /\ CountInv /\ NumberInv /\ OrderInv /\ KeyInv
    BY DEF QueueInv
<1>1. PICK K, f : AddsData(x, K, f)
    BY AddDataWays DEF AddsData
<1>2. /\ count' = count + 1 /\ x.client \in Clients
      /\ command_seqno' = Ahead(x)
    BY GoodFacts DEF AddData, Good, Ahead
<1>3. Onward
    BY <1>2, EnvOnward
<1>4. Steady' => Steady
    BY <1>0, <1>3, OnwardFacts
<1>5. ListInv' /\ OrderInv'
    BY <1>0, <1>1, <1>2, <1>4, AddDataOrder
<1>6. StoreInv' /\ CountInv'
    BY <1>0, <1>1, <1>3, AddDataStore, AddDataCount
<1>7. NumberInv'
    <2> DEFINE k == IF Persists(x) THEN Seqno(x.client) ELSE command_seqno[x.client]
    <2>1. k \in {command_seqno[x.client], Seqno(x.client)}
          /\ command_seqno' = [command_seqno EXCEPT ![x.client] = k]
        BY <1>2 DEF Ahead
    <2> HIDE DEF k
    <2> QED BY <1>0, <1>2, <1>3, <2>1, AddsNumbers
<1>8. KeyInv'
    BY <1>0, <1>1, <1>2, <1>3, AddDataKeys
<1> QED BY <1>5, <1>6, <1>7, <1>8 DEF QueueInv

(* Taking a command.                                                        *)
LEMMA TakeStep ==
    ASSUME Types, Types', QueueInv, Take
    PROVE  QueueInv'
<1>0. ListInv /\ StoreInv /\ CountInv /\ NumberInv /\ OrderInv /\ KeyInv
    BY DEF QueueInv
<1> DEFINE k == FirstTakeable
           x == commands[k]
           d == x.client
<1>1. /\ k \in DOMAIN commands /\ x \in Good
      /\ \A j \in 1 .. k - 1 : commands[j].client # d
      /\ taken = None /\ taken' = x
      /\ commands' = RemoveAt(commands, k)
      /\ noBufferedMessages' =
           [noBufferedMessages EXCEPT ![d] = IF x.type = "PUBLISH" THEN @ - 1 ELSE @]
      /\ store' = [store EXCEPT ![d] = Unpersisted(x)]
      /\ UNCHANGED <<command_seqno, started, count, budget, scenario>>
    BY TakeWays DEF histVars
<1> HIDE DEF k
<1>2. /\ d \in Clients /\ x.n \in Nat /\ x.key \in Nat
      /\ IsData(x) <=> k \in Datas(commands)
    BY <1>1, GoodFacts DEF Datas
<1>3. commands \in Seq(Good) /\ commands' \in Seq(Good) /\ k \in Nat
    BY <1>1, SeqFacts DEF Types, QueueTypes
<1>4. PICK f : Keeps(commands', commands, {k}, f)
    <2>1. \E f : Keeps(RemoveAt(commands, k), commands, {k}, f)
        BY <1>1, <1>3, KeepsRemoved
    <2> QED BY <1>1, <2>1
<1>5. Embeds(commands', commands, f) /\ KeepsOrder(commands', f)
    BY <1>4 DEF Keeps
<1>6. /\ \A j \in Datas(commands') :
           f[j] \in Datas(commands) /\ commands'[j] = commands[f[j]] /\ f[j] # k
      /\ \A i \in Datas(commands) : i # k => \E j \in Datas(commands') : commands'[j] = commands[i]
    BY <1>4 DEF Keeps, Embeds
<1>7. Onward
    BY <1>1, EnvOnward
<1>8. Steady' => Steady
    BY <1>0, <1>7, OnwardFacts
<1>9. ListInv'
    BY <1>0, <1>5, <1>7, KeptList
<1>10. \A i \in Datas(commands) : i \in Nat /\ commands[i].client \in Clients
                                  /\ commands[i].key \in Nat /\ commands[i] \in Commands
    BY <1>3, DatasFacts, GoodFacts
<1>11. Removes(store', store, commands, {k}, d) /\ Own(commands, {k}, d) /\ RecordsOK(store)
    <2>1. /\ \A c \in Clients : c # d => store'[c] = store[c]
          /\ store'[d] = {rec \in store[d] : rec.key # x.key}
        BY <1>1, <1>2 DEF Types, StoreTypes, Unpersisted
    <2>2. {commands[l].key : l \in {k}} = {x.key}
        OBVIOUS
    <2> QED BY <1>1, <2>1, <2>2, StoreRecords DEF Removes, Own
<1>13. StoreInv'
    <2>1. StoreOK(commands, store, scenario)
        BY <1>0 DEF StoreInv
    <2>2. StoreOK(commands', store', scenario)
        BY <1>2, <1>3, <1>4, <1>11, <2>1, DropStore
    <2> QED BY <1>1, <2>2 DEF StoreInv
<1>14. CountInv'
    <2>1. noBufferedMessages \in [Clients -> Nat] /\ scenario.maxBuffered \in Nat
        BY <1>0, ScenarioFacts DEF CountInv, Types
    <2>2. ASSUME NEW c \in Clients
          PROVE  /\ noBufferedMessages'[c] \in Nat
                 /\ noBufferedMessages'[c] = Cardinality(Publishes(commands', c))
                 /\ noBufferedMessages'[c] <= noBufferedMessages[c]
        <3>1. noBufferedMessages[c] = Cardinality(Publishes(commands, c))
            BY <1>0, CountBound
        <3> DEFINE P == Publishes(commands, c)
        <3>2. Cardinality(Publishes(commands', c)) = Cardinality(P \ {k})
            BY <1>3, <1>4, KeepsPublishes
        <3>3. IsFiniteSet(P) /\ Cardinality(P) \in Nat
            BY <1>3, PublishesFacts
        <3>4. CASE c = d /\ x.type = "PUBLISH"
            <4>1. k \in P
                BY <1>1, <3>4 DEF Publishes
            <4>2. Cardinality(P \ {k}) = Cardinality(P) - 1
                BY <3>3, <4>1, FS_RemoveElement
            <4>3. Cardinality(P \ {k}) \in Nat
                BY <1>3, <3>2, PublishesFacts
            <4>4. noBufferedMessages'[c] = noBufferedMessages[c] - 1
                BY <1>1, <2>1, <3>4
            <4> HIDE DEF P
            <4> QED BY <1>1, <2>1, <3>1, <3>2, <4>2, <4>3, <4>4 DEF P
        <3>5. CASE ~(c = d /\ x.type = "PUBLISH")
            <4>1. k \notin P
                BY <3>5 DEF Publishes
            <4>2. P \ {k} = P
                BY <4>1
            <4>3. noBufferedMessages'[c] = noBufferedMessages[c]
                BY <1>1, <2>1, <3>5
            <4>4. noBufferedMessages[c] \in Nat
                BY <2>1
            <4>5. Cardinality(Publishes(commands', c)) = noBufferedMessages[c]
                BY <3>1, <3>2, <4>2
            <4> HIDE DEF P
            <4> QED BY <4>3, <4>4, <4>5
        <3> QED BY <3>4, <3>5
    <2>3. noBufferedMessages' \in [Clients -> Nat]
        <3>1. noBufferedMessages' = [c \in Clients |-> noBufferedMessages'[c]]
            BY <1>1, <2>1
        <3> QED BY <2>2, <3>1
    <2>4. ASSUME NEW c \in Clients PROVE Bound(noBufferedMessages'[c], scenario', budget')
        <3> DEFINE m == noBufferedMessages[c]
                   n == noBufferedMessages'[c]
        <3>1. m \in Nat /\ n \in Nat /\ n <= m /\ Bound(m, scenario, budget)
            BY <1>0, <2>1, <2>2, CountBound
        <3> HIDE DEF m, n
        <3>2. Bound(n, scenario', budget')
            BY <1>7, <3>1, BoundKept
        <3> QED BY <3>2 DEF n
    <2> QED BY <2>2, <2>3, <2>4, CountBoundNext
<1>15. NumberInv'
    <2>1. x.n <= count
        <3>1. CASE k \in Datas(commands)
            BY <1>0, <3>1 DEF ListInv, ListOK
        <3>2. CASE k \notin Datas(commands)
            <4>1. x.n = 0
                BY <1>1, <1>2, <3>2, GoodFacts DEF HeadCommands, HeadKind
            <4> QED BY <4>1 DEF Types, HistTypes
        <3> QED BY <3>1, <3>2
    <2> QED BY <1>0, <1>1, <2>1 DEF NumberInv
<1>16. OrderInv'
    <2> SUFFICES ASSUME Steady' PROVE OrderOK(commands', started') /\ TakenFirst'
        BY DEF OrderInv
    <2>1. OrderOK(commands, started)
        BY <1>0, <1>8 DEF OrderInv
    <2>2. OrderOK(commands', started')
        BY <1>1, <1>3, <1>5, <2>1, EmbedOrderOK
    <2>3. ASSUME IsData(x)
          PROVE  /\ x.n > started[d]
                 /\ \A j \in Datas(commands') : commands'[j].client = d => commands'[j].n > x.n
        <3>1. k \in Datas(commands)
            BY <1>2, <2>3
        <3>2. ASSUME NEW j \in Datas(commands'), commands'[j].client = d
              PROVE  commands'[j].n > x.n
            <4>1. f[j] \in Datas(commands) /\ commands'[j] = commands[f[j]] /\ f[j] # k
                BY <1>6
            <4>2. f[j] \in Nat /\ f[j] \in DOMAIN commands /\ 1 <= f[j]
                BY <1>3, <4>1, DatasFacts, SeqFacts
            <4>3. ~(f[j] < k)
                <5> SUFFICES ASSUME f[j] < k PROVE FALSE
                    OBVIOUS
                <5>1. f[j] \in 1 .. k - 1
                    BY <1>3, <4>2
                <5>2. commands[f[j]].client # d
                    BY <1>1, <5>1
                <5> QED BY <3>2, <4>1, <5>2
            <4>4. k < f[j]
                BY <1>3, <4>1, <4>2, <4>3
            <4>5. x.n < commands[f[j]].n
                BY <2>1, <3>1, <3>2, <4>1, <4>4 DEF OrderOK
            <4>6. commands[f[j]].n \in Nat
                BY <1>3, <4>1, DatasFacts
            <4> QED BY <1>2, <4>1, <4>5, <4>6
        <3> QED BY <2>1, <3>1, <3>2 DEF OrderOK
    <2>4. TakenFirst'
        BY <1>1, <2>3 DEF TakenFirst
    <2> QED BY <2>2, <2>4
<1>17. KeyInv'
    <2> SUFFICES ASSUME scenario.persistence, Unwrapped'
                 PROVE  KeysIn(commands', store', command_seqno, scenario)
        BY <1>1 DEF KeyInv
    <2>1. KeysIn(commands, store, command_seqno, scenario)
        BY <1>0, <1>1 DEF KeyInv, Unwrapped
    <2> QED BY <1>2, <1>3, <1>4, <1>11, <2>1, DropKeys
<1> QED BY <1>9, <1>13, <1>14, <1>15, <1>16, <1>17 DEF QueueInv

-----------------------------------------------------------------------------
(* Restarts                                                                 *)

(* After a restart the list holds the records S of the client, each once.   *)
Restores(s, S, c) ==
    /\ \A i \in Datas(s) : s[i].client = c => s[i] \in RestoreCommands(S)
    /\ \A x \in RestoreCommands(S) : \E i \in Datas(s) : s[i] = x
    /\ \A i, j \in Datas(s) : s[i].client = c /\ s[i] = s[j] => i = j
MadeFrom(S, x) == \E rec \in S : x = Blank(rec) /\ x.key = rec.key /\ x.type = rec.type

LEMMA BlankRecord ==
    ASSUME NEW c \in Clients, NEW S, RecordSet(S, c), NEW x \in RestoreCommands(S)
    PROVE  /\ x \in DataCommands /\ x \in Commands /\ x \in Good
           /\ IsData(x) /\ x.client = c /\ Blank(x) = x
           /\ MadeFrom(S, x)
<1>1. x \in DataCommands /\ x.client = c
    BY RecordFacts
<1>2. PICK rec \in S : x = Blank(rec)
    <2>1. ReadFrom(S, x)
        BY RecordFacts
    <2> QED BY <2>1 DEF ReadFrom
<1>3. rec \in Commands /\ x \in Commands
    BY <1>1 DEF RecordSet, DataCommands
<1>4. Blank(x) = x /\ Blank(x) = Blank(rec)
    BY <1>2, <1>3, BlankEqual
<1>5. x.key = rec.key /\ x.type = rec.type
    BY <1>3, <1>4, BlankEqual
<1>6. x \in Good /\ IsData(x)
    BY <1>1, GoodFacts DEF Good
<1>7. MadeFrom(S, x)
    BY <1>2, <1>5 DEF MadeFrom
<1> QED BY <1>1, <1>3, <1>4, <1>6, <1>7

(* The records of a client, as StoreOK wants them.                          *)
KeyOnce(S) == \A x, y \in S : x.key = y.key => x = y
Held(S, q, sc) == \A rec \in S : HasCommand(rec, q, sc)

LEMMA StoreHeld ==
    ASSUME NEW R, RecordsOK(R), NEW q, NEW sc, StoreOK(q, R, sc), NEW c \in Clients
    PROVE  RecordSet(R[c], c) /\ Held(R[c], q, sc) /\ KeyOnce(R[c])
BY DEF RecordsOK, StoreOK, Held, KeyOnce

LEMMA RestoredPublishes ==
    ASSUME NEW s \in Seq(Good), NEW c \in Clients, NEW S, RecordSet(S, c), KeyOnce(S),
           Restores(s, S, c)
    PROVE  Cardinality(Publishes(s, c)) = CountRestored(S)
<1> DEFINE Q == {rec \in S : rec.type = "PUBLISH"}
           P == Publishes(s, c)
           h == [rec \in Q |-> CHOOSE i \in P : s[i] = Blank(rec)]
<1>1. \A i : i \in P <=> i \in Datas(s) /\ s[i].client = c /\ s[i].type = "PUBLISH"
    BY PublishesFacts
<1>2. \A rec \in S : rec \in Commands /\ rec.client = c /\ Blank(rec) \in RestoreCommands(S)
    BY RecordFacts DEF RecordSet, DataCommands
<1> HIDE DEF P
<1>3. ASSUME NEW rec \in Q PROVE h[rec] \in P /\ s[h[rec]] = Blank(rec)
    <2>1. PICK i \in Datas(s) : s[i] = Blank(rec)
        BY <1>2 DEF Restores
    <2>2. Blank(rec).client = c /\ Blank(rec).type = "PUBLISH"
        <3>1. Blank(rec) \in Commands /\ Blank(Blank(rec)) = Blank(rec)
            BY <1>2, BlankEqual
        <3> QED BY <1>2, <3>1, BlankEqual
    <2>3. i \in P
        BY <1>1, <2>1, <2>2
    <2> QED BY <2>1, <2>3
<1>4. h \in [Q -> P]
    BY <1>3
<1>5. \A u, v \in Q : h[u] = h[v] => u = v
    <2> TAKE u, v \in Q
    <2> HAVE h[u] = h[v]
    <2>1. Blank(u) = Blank(v)
        BY <1>3
    <2>2. u.key = v.key
        BY <1>2, <2>1, BlankEqual
    <2> QED BY <2>2 DEF KeyOnce
<1>6. \A i \in P : \E rec \in Q : h[rec] = i
    <2> TAKE i \in P
    <2>1. i \in Datas(s) /\ s[i].client = c /\ s[i].type = "PUBLISH" /\ s[i] \in RestoreCommands(S)
        BY <1>1 DEF Restores
    <2>2. PICK rec \in S : s[i] = Blank(rec) /\ s[i].type = rec.type
        BY <2>1, BlankRecord DEF MadeFrom
    <2>3. rec \in Q
        BY <2>1, <2>2
    <2>4. h[rec] \in P /\ s[h[rec]] = s[i]
        BY <1>3, <2>2, <2>3
    <2>5. h[rec] \in Datas(s)
        BY <1>1, <2>4
    <2>6. h[rec] = i
        BY <2>1, <2>4, <2>5 DEF Restores
    <2> QED BY <2>3, <2>6
<1>7. h \in Bijection(Q, P)
    BY <1>4, <1>5, <1>6 DEF Bijection, Injection, Surjection, IsInjective
<1>8. IsFiniteSet(Q)
    BY FS_Subset DEF RecordSet
<1>9. Cardinality(Q) = Cardinality(P)
    BY <1>7, <1>8, FS_Bijection DEF ExistsBijection
<1> QED BY <1>9 DEF CountRestored, P

(* Where a record was in the list q.                                        *)
Back(q, x) == CHOOSE k \in Datas(q) : Blank(q[k]) = Blank(x)

LEMMA BackFacts ==
    ASSUME NEW q \in Seq(Good), NEW c \in Clients, NEW S, RecordSet(S, c), NEW sc, Held(S, q, sc),
           NEW x \in RestoreCommands(S)
    PROVE  /\ Back(q, x) \in Datas(q) /\ Back(q, x) \in Lasting(q, sc)
           /\ Blank(q[Back(q, x)]) = x /\ Alike(x, q[Back(q, x)])
<1>1. PICK rec \in S : x = Blank(rec)
    BY BlankRecord DEF MadeFrom
<1>2. x \in Commands /\ rec \in Commands /\ Blank(x) = x
    BY BlankRecord DEF RecordSet, DataCommands
<1>3. Blank(x) = Blank(rec) /\ x.req = rec.req
    BY <1>1, <1>2, BlankEqual
<1>4. Stores(sc, rec) /\ \E k \in Datas(q) : Blank(q[k]) = Blank(x)
    BY <1>3 DEF Held, HasCommand
<1>5. Back(q, x) \in Datas(q) /\ Blank(q[Back(q, x)]) = Blank(x)
    BY <1>4 DEF Back
<1>6. q[Back(q, x)] \in Commands
    BY <1>5, DatasFacts DEF DataCommands
<1>7. Alike(x, q[Back(q, x)])
    BY <1>2, <1>5, <1>6, BlankEqual DEF Alike
<1>8. Back(q, x) \in Lasting(q, sc)
    BY <1>3, <1>4, <1>5, <1>7 DEF Alike, Stores, Lasting
<1> QED BY <1>2, <1>5, <1>7, <1>8

LEMMA BackOrder ==
    ASSUME NEW q \in Seq(Good), NEW c \in Clients, NEW S, RecordSet(S, c), NEW sc, Held(S, q, sc),
           KeysOK(q, sc),
           NEW x \in RestoreCommands(S), NEW y \in RestoreCommands(S), x.key < y.key
    PROVE  Back(q, x) < Back(q, y)
<1> DEFINE i == Back(q, x)
           j == Back(q, y)
<1>1. /\ i \in Datas(q) /\ i \in Lasting(q, sc) /\ Alike(x, q[i])
      /\ j \in Datas(q) /\ j \in Lasting(q, sc) /\ Alike(y, q[j])
    BY BackFacts
<1> HIDE DEF i, j
<1>2. x.client = c /\ y.client = c /\ x.key \in Nat /\ y.key \in Nat
    BY RecordFacts
<1>3. i \in Nat /\ j \in Nat
    BY <1>1, DatasFacts
<1>4. i # j
    BY <1>1, <1>2 DEF Alike
<1>5. ~(j < i)
    <2>1. q[i].key = x.key /\ q[i].client = c /\ q[j].key = y.key /\ q[j].client = c
        BY <1>1, <1>2 DEF Alike
    <2>2. j < i => y.key < x.key
        BY <1>1, <2>1 DEF KeysOK
    <2> QED BY <1>2, <2>2
<1> QED BY <1>3, <1>4, <1>5 DEF i, j

(* What a restart starts from: a list q, the records R, the numbers sq.     *)
Ready(q, R, sq) ==
    /\ q \in Seq(Good) /\ RecordsOK(R) /\ ListOK(q, count') /\ StoreOK(q, R, scenario)
    /\ scenario.persistence /\ Unwrapped' => KeysIn(q, R, sq, scenario)
    /\ Steady' => OrderOK(q, started)
    /\ \A c \in Clients : sq[c] <= count'
    /\ \A c \in Clients : \A n \in Nat :
          n <= Cardinality(Publishes(q, c)) => Bound(n, scenario', budget')

(* It either rebuilds the commands of a client or leaves them alone.        *)
Rebuilt(S, c) ==
    /\ Restores(commands', S, c)
    /\ noBufferedMessages'[c] = CountRestored(S)
    /\ command_seqno'[c] = Largest(KeysOf(S))
LeftAlone(q, f, sq, c) ==
    /\ KeepsOf(commands', q, {}, f, c)
    /\ \A j \in Datas(commands') : commands'[j].client = c => commands'[j] = q[f[j]]
    /\ noBufferedMessages'[c] = Cardinality(Publishes(q, c))
    /\ command_seqno'[c] = sq[c]
Restarted(q, R, sq, f) ==
    /\ store' = R /\ scenario' = scenario /\ started' = started /\ taken' = None
    /\ Embeds(commands', q, f)
    /\ noBufferedMessages' = [c \in Clients |-> noBufferedMessages'[c]]
    /\ \A c \in Clients : Rebuilt(R[c], c) \/ LeftAlone(q, f, sq, c)

LEMMA RestartStore ==
    ASSUME Types', NEW q, NEW R, NEW sq, Ready(q, R, sq), NEW f, Restarted(q, R, sq, f)
    PROVE  StoreInv'
<1>0. q \in Seq(Good) /\ RecordsOK(R) /\ StoreOK(q, R, scenario)
    BY DEF Ready
<1>1. ASSUME NEW c \in Clients, NEW rec \in R[c]
      PROVE  HasCommand(rec, commands', scenario)
    <2> DEFINE S == R[c]
    <2>0. rec \in S /\ RecordSet(S, c) /\ Held(S, q, scenario)
        BY <1>0, StoreHeld
    <2>1. Rebuilt(S, c) \/ LeftAlone(q, f, sq, c)
        BY DEF Restarted
    <2> HIDE DEF S
    <2>2. HasCommand(rec, q, scenario) /\ rec \in Commands /\ rec.client = c
        BY <2>0 DEF Held, RecordSet, DataCommands
    <2>3. CASE Rebuilt(S, c)
        <3>1. Blank(rec) \in RestoreCommands(S)
            BY <2>0, RecordFacts
        <3>2. PICK j \in Datas(commands') : commands'[j] = Blank(rec)
            BY <2>3, <3>1 DEF Rebuilt, Restores
        <3>3. Blank(Blank(rec)) = Blank(rec)
            BY <2>2, BlankEqual
        <3> QED BY <2>2, <3>2, <3>3 DEF HasCommand
    <2>4. CASE LeftAlone(q, f, sq, c)
        <3>1. PICK i \in Datas(q) : Blank(q[i]) = Blank(rec)
            BY <2>2 DEF HasCommand
        <3>2. q[i].client = c
            <4>1. q[i] \in Commands
                BY <1>0, DatasFacts DEF DataCommands
            <4> QED BY <2>2, <3>1, <4>1, BlankEqual
        <3>3. PICK j \in Datas(commands') : f[j] = i
            BY <2>4, <3>2 DEF LeftAlone, KeepsOf
        <3>4. commands'[j].client = c
            BY <3>2, <3>3 DEF Restarted, Embeds, Alike
        <3>5. commands'[j] = q[i]
            BY <2>4, <3>3, <3>4 DEF LeftAlone
        <3> QED BY <2>2, <3>1, <3>5 DEF HasCommand
    <2> QED BY <2>1, <2>3, <2>4
<1>2. \A c \in Clients : \A u, v \in R[c] : u.key = v.key => u = v
    BY <1>0 DEF StoreOK
<1>3. store' = R /\ scenario' = scenario
    BY DEF Restarted
<1>4. StoreOK(commands', R, scenario)
    BY <1>1, <1>2 DEF StoreOK
<1> QED BY <1>3, <1>4 DEF StoreInv

LEMMA RestartCount ==
    ASSUME Types', NEW q, NEW R, NEW sq, Ready(q, R, sq), NEW f, Restarted(q, R, sq, f)
    PROVE  CountInv'
<1>0. /\ q \in Seq(Good) /\ commands' \in Seq(Good) /\ Embeds(commands', q, f)
      /\ RecordsOK(R) /\ StoreOK(q, R, scenario)
    BY DEF Types, QueueTypes, Ready, Restarted
<1>1. ASSUME NEW c \in Clients
      PROVE  /\ noBufferedMessages'[c] \in Nat
             /\ noBufferedMessages'[c] = Cardinality(Publishes(commands', c))
             /\ Bound(noBufferedMessages'[c], scenario', budget')
    <2> DEFINE m == Cardinality(Publishes(q, c))
               n == Cardinality(Publishes(commands', c))
               S == R[c]
    <2>1. RecordSet(S, c) /\ KeyOnce(S)
        BY <1>0, StoreHeld
    <2>2. n <= m /\ n \in Nat /\ m \in Nat
        BY <1>0, FewerPublishes, PublishesFacts
    <2>3. Rebuilt(S, c) \/ LeftAlone(q, f, sq, c)
        BY DEF Restarted
    <2> HIDE DEF S
    <2>4. n = noBufferedMessages'[c]
        <3>1. CASE Rebuilt(S, c)
            BY <1>0, <2>1, <3>1, RestoredPublishes DEF Rebuilt
        <3>2. CASE LeftAlone(q, f, sq, c)
            <4>1. n = Cardinality(Publishes(q, c) \ {})
                BY <1>0, <3>2, SamePublishes DEF LeftAlone
            <4>2. Publishes(q, c) \ {} = Publishes(q, c)
                OBVIOUS
            <4> QED BY <3>2, <4>1, <4>2 DEF LeftAlone
        <3> QED BY <2>3, <3>1, <3>2
    <2>5. Bound(n, scenario', budget')
        BY <2>2 DEF Ready
    <2> HIDE DEF m, n
    <2> QED BY <2>2, <2>4, <2>5 DEF n
<1>2. noBufferedMessages' \in [Clients -> Nat]
    <2>1. noBufferedMessages' = [c \in Clients |-> noBufferedMessages'[c]]
        BY DEF Restarted
    <2> QED BY <1>1, <2>1
<1> QED BY <1>1, <1>2, CountBoundNext

LEMMA RestartNumbers ==
    ASSUME Types, Types', NumberInv, Onward, NEW q, NEW R, NEW sq, Ready(q, R, sq),
           NEW f, Restarted(q, R, sq, f)
    PROVE  NumberInv'
<1>0. q \in Seq(Good) /\ RecordsOK(R) /\ StoreOK(q, R, scenario) /\ ListOK(q, count')
    BY DEF Ready
<1>1. /\ count \in Nat /\ count' \in Nat /\ count <= count'
      /\ \A w \in DOMAIN budget' : budget'[w] <= scenario'.budget[w]
    BY OnwardFacts
<1>2. ASSUME NEW c \in Clients PROVE command_seqno'[c] <= count'
    <2> DEFINE S == R[c]
    <2>0. RecordSet(S, c) /\ Held(S, q, scenario)
        BY <1>0, StoreHeld
    <2>1. Rebuilt(S, c) \/ LeftAlone(q, f, sq, c)
        BY DEF Restarted
    <2> HIDE DEF S
    <2>2. CASE Rebuilt(S, c)
        <3>1. CASE S = {}
            BY <1>1, <2>0, <2>2, <3>1, KeyFacts DEF Rebuilt
        <3>2. CASE S # {}
            <4>1. PICK rec \in S : rec.key = command_seqno'[c]
                BY <2>0, <2>2, <3>2, KeyFacts DEF Rebuilt
            <4>2. PICK i \in Datas(q) : Blank(q[i]) = Blank(rec)
                BY <2>0 DEF Held, HasCommand
            <4>3. q[i].key = rec.key
                <5>1. q[i] \in Commands /\ rec \in Commands
                    BY <1>0, <2>0, DatasFacts DEF RecordSet, DataCommands
                <5> QED BY <4>2, <5>1, BlankEqual
            <4>4. q[i].key <= q[i].n /\ q[i].n \in 1 .. count'
                BY <1>0 DEF ListOK
            <4>5. q[i].key \in Nat /\ q[i].n \in Nat
                BY <1>0, DatasFacts
            <4> QED BY <1>1, <4>1, <4>3, <4>4, <4>5
        <3> QED BY <3>1, <3>2
    <2>3. CASE LeftAlone(q, f, sq, c)
        BY <2>3 DEF LeftAlone, Ready
    <2> QED BY <2>1, <2>2, <2>3
<1>3. \A c \in Clients : started'[c] <= count'
    <2>1. \A c \in Clients : started[c] \in Nat /\ started[c] <= count
        BY DEF Types, HistTypes, NumberInv
    <2> QED BY <1>1, <2>1 DEF Restarted
<1>4. taken' = None
    BY DEF Restarted
<1> QED BY <1>1, <1>2, <1>3, <1>4 DEF NumberInv

LEMMA RestartKeys ==
    ASSUME Types', NEW q, NEW R, NEW sq, Ready(q, R, sq), NEW f, Restarted(q, R, sq, f),
           Unwrapped' \/ ~scenario.persistence => KeepsOrder(commands', f)
    PROVE  KeyInv'
<1>0. /\ q \in Seq(Good) /\ commands' \in Seq(Good) /\ Embeds(commands', q, f)
      /\ RecordsOK(R) /\ StoreOK(q, R, scenario) /\ store' = R /\ scenario' = scenario
    BY DEF Types, QueueTypes, Ready, Restarted
<1> SUFFICES ASSUME scenario.persistence, Unwrapped'
             PROVE  KeysIn(commands', R, command_seqno', scenario)
    BY <1>0 DEF KeyInv
<1>1. KeysIn(q, R, sq, scenario) /\ KeepsOrder(commands', f)
    BY DEF Ready
<1>2. KeysOK(commands', scenario)
    BY <1>0, <1>1, EmbedKeysOK DEF KeysIn
<1>3. ASSUME NEW j \in Datas(commands')
      PROVE  /\ KeyIs(commands'[j], command_seqno', scenario)
             /\ Stores(scenario, commands'[j]) => HasRecord(commands'[j], R)
    <2> DEFINE c == commands'[j].client
               S == R[c]
               x == commands'[j]
               i == f[j]
    <2>0. c \in Clients /\ x.client = c
        BY <1>0, DatasFacts
    <2>1. i \in Datas(q) /\ Alike(x, q[i])
        BY <1>0 DEF Embeds
    <2>2. KeyIs(q[i], sq, scenario) /\ q[i].client = c
        BY <1>1, <2>1 DEF KeysIn, Alike
    <2>3. Rebuilt(S, c) \/ LeftAlone(q, f, sq, c)
        BY <2>0 DEF Restarted
    <2>4. RecordSet(S, c) /\ Held(S, q, scenario)
        BY <1>0, <2>0, StoreHeld
    <2>5. CASE Rebuilt(S, c)
        <3>1. x \in RestoreCommands(S)
            BY <2>5 DEF Rebuilt, Restores
        <3> HIDE DEF S, x
        <3>2. PICK rec \in S : x = Blank(rec) /\ x.key = rec.key
            BY <2>0, <2>4, <3>1, BlankRecord DEF MadeFrom
        <3>3. Blank(x) = x /\ x \in Commands
            BY <2>0, <2>4, <3>1, BlankRecord
        <3>4. rec.key <= Largest(KeysOf(S))
            BY <2>0, <2>4, KeyFacts
        <3>5. Stores(scenario, rec) /\ rec \in Commands
            BY <2>4 DEF Held, HasCommand, RecordSet, DataCommands
        <3>6. x.req = rec.req
            BY <3>2, <3>3, <3>5, BlankEqual
        <3>7. Stores(scenario, x) /\ Stores(scenario, q[i])
            BY <2>1, <3>5, <3>6 DEF Stores, Alike
        <3>8. 0 < x.key
            BY <2>1, <2>2, <3>7 DEF KeyIs, Alike
        <3>9. command_seqno'[c] = Largest(KeysOf(S))
            BY <2>5 DEF Rebuilt
        <3>10. KeyIs(x, command_seqno', scenario)
            BY <2>0, <3>2, <3>4, <3>7, <3>8, <3>9 DEF KeyIs
        <3>11. HasRecord(x, R)
            BY <2>0, <3>2, <3>3 DEF HasRecord, S
        <3> QED BY <3>10, <3>11 DEF x
    <2>6. CASE LeftAlone(q, f, sq, c)
        <3>1. x = q[i] /\ command_seqno'[c] = sq[c]
            BY <2>0, <2>6 DEF LeftAlone
        <3>2. KeyIs(x, command_seqno', scenario)
            BY <2>0, <2>2, <3>1 DEF KeyIs
        <3>3. Stores(scenario, x) => HasRecord(x, R)
            BY <1>1, <2>1, <3>1 DEF KeysIn, Lasting
        <3> QED BY <3>2, <3>3
    <2> QED BY <2>3, <2>5, <2>6
<1> QED BY <1>2, <1>3 DEF KeysIn, Lasting

LEMMA RestartStep ==
    ASSUME Types, Types', QueueInv, NEW what \in {"kill", "tear"}, Spend(what),
           count' \in {count, count + 1},
           NEW q, NEW R, NEW sq, Ready(q, R, sq), NEW f, Restarted(q, R, sq, f),
           Unwrapped' \/ ~scenario.persistence => KeepsOrder(commands', f)
    PROVE  QueueInv'
<1>0. NumberInv
    BY DEF QueueInv
<1>1. /\ Onward
      /\ Steady' => Unwrapped' \/ ~scenario.persistence
    BY <1>0, KillOnward DEF Restarted
<1>2. /\ q \in Seq(Good) /\ commands' \in Seq(Good) /\ ListOK(q, count')
      /\ Embeds(commands', q, f)
    BY DEF Types, QueueTypes, Ready, Restarted
<1>3. ListInv'
    BY <1>2, EmbedListOK DEF ListInv
<1>4. StoreInv' /\ CountInv'
    BY RestartStore, RestartCount
<1>5. NumberInv'
    BY <1>0, <1>1, RestartNumbers
<1>6. KeyInv'
    BY RestartKeys
<1>7. OrderInv'
    <2> SUFFICES ASSUME Steady' PROVE OrderOK(commands', started)
        BY DEF OrderInv, TakenFirst, Restarted
    <2>1. OrderOK(q, started)
        BY DEF Ready
    <2>2. KeepsOrder(commands', f)
        BY <1>1
    <2> QED BY <1>2, <2>1, <2>2, EmbedOrderOK
<1> QED BY <1>3, <1>4, <1>5, <1>6, <1>7 DEF QueueInv

(* Where the commands were that all clients read again. *)
Origins(q) == [i \in Datas(commands') |-> Back(q, commands'[i])]

LEMMA RestartedList ==
    ASSUME NEW q \in Seq(Good), NEW R, RecordsOK(R), NEW sc, StoreOK(q, R, sc), Restart(R)
    PROVE  /\ commands' \in Seq(Good) /\ commands' \in Seq(DataCommands)
           /\ ToSet(commands') = AllRecords(R)
           /\ \A i, j \in DOMAIN commands' : commands'[i] = commands'[j] => i = j
           /\ \A i, j \in DOMAIN commands' :
                 i < j /\ commands'[i].client = commands'[j].client
                 => commands'[i].key < commands'[j].key
           /\ \A i \in Datas(commands') :
                 /\ i \in DOMAIN commands' /\ commands'[i].client \in Clients
                 /\ commands'[i] \in RestoreCommands(R[commands'[i].client])
                 /\ Back(q, commands'[i]) \in Datas(q)
                 /\ Blank(q[Back(q, commands'[i])]) = commands'[i]
                 /\ Alike(commands'[i], q[Back(q, commands'[i])])
           /\ Embeds(commands', q, Origins(q))
<1>0. RecordsOK(R) /\ StoreOK(q, R, sc) /\ q \in Seq(Good)
    OBVIOUS
<1>1. PICK order \in Injection(Clients, 1 .. Cardinality(Clients)) :
          commands' \in Restored(AllRecords(R), order)
    BY RestartWays
<1> DEFINE s == commands'
           f == Origins(q)
<1>2. /\ s \in Seq(Good) /\ s \in Seq(DataCommands) /\ ToSet(s) = AllRecords(R)
      /\ \A i, j \in DOMAIN s : s[i] = s[j] => i = j
      /\ \A i, j \in DOMAIN s : i < j /\ s[i].client = s[j].client => s[i].key < s[j].key
    BY <1>0, <1>1, AllRecordFacts
<1>3. f = [i \in Datas(s) |-> Back(q, s[i])]
    BY DEF Origins
<1>4. s = commands' /\ f = Origins(q)
    OBVIOUS
<1> HIDE DEF s, f
<1>5. ASSUME NEW i \in Datas(s)
      PROVE  i \in DOMAIN s /\ s[i].client \in Clients /\ s[i] \in RestoreCommands(R[s[i].client])
    <2>1. i \in DOMAIN s
        BY DEF Datas
    <2>2. s[i] \in AllRecords(R)
        BY <1>2, <2>1 DEF ToSet
    <2>3. PICK c \in Clients : s[i] \in RestoreCommands(R[c])
        BY <2>2 DEF AllRecords
    <2>4. s[i].client = c
        <3> DEFINE S == R[c]
        <3>1. RecordSet(S, c) /\ s[i] \in RestoreCommands(S)
            BY <1>0, <2>3, StoreHeld
        <3> HIDE DEF S
        <3> QED BY <3>1, RecordFacts
    <2> QED BY <2>1, <2>3, <2>4
<1>6. ASSUME NEW i \in Datas(s)
      PROVE  /\ Back(q, s[i]) \in Datas(q) /\ Blank(q[Back(q, s[i])]) = s[i]
             /\ Alike(s[i], q[Back(q, s[i])])
    <2> DEFINE c == s[i].client
               S == R[c]
               x == s[i]
    <2>1. c \in Clients /\ x \in RestoreCommands(S) /\ RecordSet(S, c) /\ Held(S, q, sc)
        BY <1>0, <1>5, StoreHeld
    <2> HIDE DEF c, S, x
    <2>2. Back(q, x) \in Datas(q) /\ Blank(q[Back(q, x)]) = x /\ Alike(x, q[Back(q, x)])
        BY <1>0, <2>1, BackFacts
    <2> QED BY <2>2 DEF x
<1>7. Embeds(s, q, f)
    <2>1. \A i, j \in Datas(s) : f[i] = f[j] => i = j
        BY <1>2, <1>3, <1>5, <1>6
    <2> QED BY <1>3, <1>6, <2>1 DEF Embeds
<1> QED BY <1>2, <1>4, <1>5, <1>6, <1>7

(* All clients restart.                                                     *)
LEMMA RestartAll ==
    ASSUME Types, Types', QueueInv, NEW what \in {"kill", "tear"}, Spend(what),
           count' \in {count, count + 1},
           NEW q, NEW R, NEW sq, Ready(q, R, sq), Restart(R)
    PROVE  QueueInv'
<1>0. q \in Seq(Good) /\ RecordsOK(R) /\ StoreOK(q, R, scenario)
    BY DEF Ready
<1> DEFINE s == commands'
           f == Origins(q)
<1>2. /\ s \in Seq(Good) /\ ToSet(s) = AllRecords(R)
      /\ \A i, j \in DOMAIN s : s[i] = s[j] => i = j
      /\ \A i, j \in DOMAIN s : i < j /\ s[i].client = s[j].client => s[i].key < s[j].key
      /\ \A i \in Datas(s) :
            i \in DOMAIN s /\ s[i].client \in Clients /\ s[i] \in RestoreCommands(R[s[i].client])
      /\ Embeds(s, q, f)
    BY <1>0, RestartedList
<1>3. /\ store' = R /\ taken' = None
      /\ noBufferedMessages' = [c \in Clients |-> CountRestored(R[c])]
      /\ command_seqno' = [c \in Clients |-> Largest(KeysOf(R[c]))]
      /\ UNCHANGED <<started, scenario>>
    BY RestartWays
<1>4. \A i \in Datas(s) : f[i] = Back(q, s[i])
    BY DEF Origins
<1> HIDE DEF s, f
<1>5. \A i \in Datas(s) :
          i \in DOMAIN s /\ s[i].client \in Clients /\ s[i] \in RestoreCommands(R[s[i].client])
    BY <1>2
<1>7. Embeds(s, q, f)
    BY <1>2
<1>8. Unwrapped' \/ ~scenario.persistence => KeepsOrder(s, f)
    <2>1. CASE ~scenario.persistence
        <3>1. \A c \in Clients : RestoreCommands(R[c]) = {}
            BY <1>0, <2>1 DEF StoreOK, HasCommand, Stores, RestoreCommands
        <3>2. Datas(s) = {}
            BY <1>5, <3>1
        <3> QED BY <3>2 DEF KeepsOrder
    <2>2. CASE scenario.persistence /\ Unwrapped'
        <3>1. KeysOK(q, scenario)
            BY <2>2 DEF Ready, KeysIn
        <3>2. ASSUME NEW i \in Datas(s), NEW j \in Datas(s), i < j, s[i].client = s[j].client
              PROVE  f[i] < f[j]
            <4>1. s[i].key < s[j].key
                BY <1>2, <1>5, <3>2
            <4> DEFINE c == s[i].client
                       S == R[c]
                       x == s[i]
                       y == s[j]
            <4>2. /\ c \in Clients /\ x \in RestoreCommands(S) /\ y \in RestoreCommands(S)
                  /\ RecordSet(S, c) /\ Held(S, q, scenario) /\ x.key < y.key
                BY <1>0, <1>5, <3>2, <4>1, StoreHeld
            <4> HIDE DEF c, S, x, y
            <4>3. Back(q, x) < Back(q, y)
                BY <1>0, <3>1, <4>2, BackOrder
            <4> QED BY <1>4, <4>3 DEF x, y
        <3> QED BY <3>2 DEF KeepsOrder
    <2> QED BY <2>1, <2>2
<1>9. ASSUME NEW c \in Clients PROVE Rebuilt(R[c], c)
    <2> DEFINE S == R[c]
    <2>0. RecordSet(S, c)
        BY <1>0, StoreHeld
    <2>1. ASSUME NEW x \in RestoreCommands(S) PROVE \E i \in Datas(s) : s[i] = x
        <3>1. x \in ToSet(s)
            BY <1>2 DEF AllRecords
        <3> HIDE DEF S
        <3>2. IsData(x)
            BY <2>0, BlankRecord
        <3>3. PICK i \in DOMAIN s : s[i] = x
            BY <3>1 DEF ToSet
        <3>4. i \in Datas(s)
            BY <3>2, <3>3 DEF Datas
        <3> QED BY <3>3, <3>4
    <2>2. Restores(s, S, c)
        BY <1>2, <1>5, <2>1 DEF Restores
    <2> QED BY <1>3, <2>2 DEF Rebuilt, s
<1>10. noBufferedMessages' = [c \in Clients |-> noBufferedMessages'[c]]
    BY <1>3
<1>11. Restarted(q, R, sq, f)
    BY <1>3, <1>7, <1>9, <1>10 DEF Restarted, s
<1> QED BY <1>8, <1>11, RestartStep DEF s

(* What a kill or a new creation of a client starts from. *)
LEMMA AsItWas ==
    ASSUME Types, Types', QueueInv, Spend("kill"), scenario' = scenario, count' = count
    PROVE  Ready(commands, store, command_seqno)
<1>0. ListInv /\ StoreInv /\ CountInv /\ NumberInv /\ OrderInv /\ KeyInv
    BY DEF QueueInv
<1>3. Onward /\ (Steady' => Steady)
    <2>1. Onward
        BY <1>0, KillOnward
    <2> QED BY <1>0, <2>1, OnwardFacts
<1>4. ASSUME NEW c \in Clients, NEW n \in Nat, n <= Cardinality(Publishes(commands, c))
      PROVE  Bound(n, scenario', budget')
    <2> DEFINE m == noBufferedMessages[c]
    <2>1. m \in Nat /\ n <= m /\ Bound(m, scenario, budget)
        BY <1>0, <1>4, CountBound
    <2> HIDE DEF m
    <2> QED BY <1>3, <2>1, BoundKept
<1>5. commands \in Seq(Good) /\ RecordsOK(store)
    BY StoreRecords DEF Types, QueueTypes
<1>6. ListOK(commands, count') /\ StoreOK(commands, store, scenario)
    BY <1>0 DEF ListInv, StoreInv
<1>7. scenario.persistence /\ Unwrapped' => KeysIn(commands, store, command_seqno, scenario)
    BY <1>0 DEF KeyInv, Unwrapped
<1>8. Steady' => OrderOK(commands, started)
    BY <1>0, <1>3 DEF OrderInv
<1>9. \A c \in Clients : command_seqno[c] <= count'
    BY <1>0 DEF NumberInv
<1> QED BY <1>4, <1>5, <1>6, <1>7, <1>8, <1>9 DEF Ready

LEMMA KillStep ==
    ASSUME Types, Types', QueueInv, Kill
    PROVE  QueueInv'
<1>1. Spend("kill") /\ Restart(store) /\ count' = count
    BY DEF Kill
<1>2. scenario' = scenario
    BY <1>1, RestartWays
<1>3. Ready(commands, store, command_seqno)
    BY <1>1, <1>2, AsItWas
<1> QED BY <1>1, <1>3, RestartAll

(* Killed between the two store operations: the restart starts from a list  *)
(* with the new command in it and the old one still there.                  *)
LEMMA KillInAddCommandStep ==
    ASSUME Types, Types', QueueInv, NEW t \in Threads, KillInAddCommand(t)
    PROVE  QueueInv'
<1>0. ListInv /\ StoreInv /\ CountInv /\ NumberInv /\ OrderInv /\ KeyInv
    BY DEF QueueInv
<1> DEFINE x == api[t]
           q == Longer(x)
           y == Numbered(x)
<1>1. /\ Spend("tear") /\ Restart(Recorded(x)) /\ count' = count + 1
      /\ x \in DataCommands
    BY KillInAddCommandWays
<1>2. scenario' = scenario
    BY <1>1, RestartWays
<1> HIDE DEF x
<1>3. Onward /\ (Steady' => Steady)
    <2>1. Onward
        BY <1>0, <1>1, <1>2, KillOnward
    <2> QED BY <1>0, <2>1, OnwardFacts
<1>4. /\ commands \in Seq(Good) /\ y \in DataCommands /\ q = Append(commands, y)
      /\ q \in Seq(Good)
    BY <1>1, LongerFacts DEF Longer
<1>5. y.n = count + 1 /\ y.key <= y.n /\ y.client = x.client /\ x.client \in Clients
    <2>1. /\ y.client = x.client /\ y.n = count + 1
          /\ y.key = IF Persists(x) THEN Seqno(x.client) ELSE 0
        BY <1>1, NumberedFacts
    <2>2. x.client \in Clients
        BY <1>1, GoodFacts DEF Good
    <2>3. Seqno(x.client) <= count + 1 /\ count \in Nat
        BY <1>0, <2>2, SeqnoFacts DEF Types, HistTypes
    <2> QED BY <2>1, <2>2, <2>3
<1>6. ASSUME NEW c \in Clients, NEW n \in Nat, n <= Cardinality(Publishes(q, c))
      PROVE  Bound(n, scenario', budget')
    <2> DEFINE m == noBufferedMessages[c]
    <2>1. m \in Nat /\ m = Cardinality(Publishes(commands, c)) /\ Bound(m, scenario, budget)
        BY <1>0, CountBound
    <2>2. Cardinality(Publishes(q, c)) = m + 1 \/ Cardinality(Publishes(q, c)) = m
        BY <1>4, <2>1, AppendPublishes
    <2> HIDE DEF m, q
    <2>3. n <= m + 1
        BY <1>6, <2>1, <2>2
    <2> QED BY <1>1, <1>3, <2>1, <2>3, BoundTorn
<1> HIDE DEF y
<1>7. ListOK(q, count')
    <2>1. count \in Nat
        BY DEF Types, HistTypes
    <2> QED BY <1>0, <1>1, <1>4, <1>5, <2>1, AppendListOK DEF ListInv
<1>8. Steady' => OrderOK(q, started)
    <2> SUFFICES ASSUME Steady' PROVE OrderOK(q, started)
        OBVIOUS
    <2>1. count \in Nat /\ started \in [Clients -> Nat] /\ started[x.client] <= count
        BY <1>0, <1>5 DEF Types, HistTypes, NumberInv
    <2>2. OrderOK(commands, started) /\ ListOK(commands, count)
        BY <1>0, <1>3 DEF OrderInv, ListInv
    <2> HIDE DEF q
    <2> QED BY <1>4, <1>5, <2>1, <2>2, AppendOrderOK
<1>9. scenario.persistence /\ Unwrapped' => KeysIn(q, Recorded(x), Ahead(x), scenario)
    <2> SUFFICES ASSUME scenario.persistence, Unwrapped'
                 PROVE  KeysIn(q, Recorded(x), Ahead(x), scenario)
        OBVIOUS
    <2>1. count + 1 < SeqnoLimit
        BY <1>1 DEF Unwrapped
    <2> QED BY <1>0, <1>1, <2>1, LongerKeys
<1>10. RecordsOK(Recorded(x)) /\ StoreOK(q, Recorded(x), scenario)
    BY <1>0, <1>1, RecordedFacts, LongerStore
<1>11. ASSUME NEW c \in Clients PROVE Ahead(x)[c] <= count'
    <2>1. command_seqno[c] \in Nat /\ command_seqno[c] <= count /\ count \in Nat
        BY <1>0, SeqnoFacts DEF NumberInv, Types, HistTypes
    <2>2. Seqno(x.client) \in Nat /\ Seqno(x.client) <= count + 1
        BY <1>0, <1>5, SeqnoFacts
    <2>3. Ahead(x)[c] \in {command_seqno[c], Seqno(x.client)}
        BY <1>5 DEF Ahead, Types, StoreTypes
    <2> QED BY <1>1, <2>1, <2>2, <2>3
<1> HIDE DEF q
<1>12. Ready(q, Recorded(x), Ahead(x))
    BY <1>4, <1>6, <1>7, <1>8, <1>9, <1>10, <1>11 DEF Ready
<1> QED BY <1>1, <1>12, RestartAll

(* The list after Recreate(c): the commands of the others, then the records *)
(* of c; g says where the others were.                                      *)
Moved(others, own, g) ==
    [i \in Datas(others \o own) |-> IF i <= Len(others) THEN g[i] ELSE Back(commands, (others \o own)[i])]

MovedBy(c, S, others, own, g) ==
    /\ others \in Seq(Good) /\ own \in Seq(Good)
    /\ g \in [DOMAIN others -> OthersOf(c)]
    /\ \A k \in DOMAIN others : others[k] = commands[g[k]]
    /\ \A k, l \in DOMAIN others : k < l => g[k] < g[l]
    /\ \A i \in OthersOf(c) : \E k \in DOMAIN others : g[k] = i
    /\ ToSet(own) = RestoreCommands(S)
    /\ \A i, j \in DOMAIN own : i < j => own[i].key < own[j].key
    /\ \A i, j \in DOMAIN own : own[i] = own[j] => i = j

MovedShape(c, S, s, f, others, own, g) ==
    /\ \A i \in Datas(s) : /\ f[i] \in Datas(commands) /\ Alike(s[i], commands[f[i]])
                           /\ i \in Nat /\ f[i] \in Nat
    /\ \A i \in Datas(s) : s[i].client # c =>
          i \in DOMAIN others /\ f[i] = g[i] /\ s[i] = commands[g[i]]
    /\ \A i \in Datas(s) : s[i].client = c =>
          /\ i > Len(others) /\ i - Len(others) \in DOMAIN own
          /\ s[i] = own[i - Len(others)]
          /\ s[i] \in RestoreCommands(S) /\ f[i] = Back(commands, s[i])

LEMMA MovedWays ==
    ASSUME Types, NEW c \in Clients, NEW S, RecordSet(S, c), Held(S, commands, scenario),
           NEW others, NEW own, NEW g, MovedBy(c, S, others, own, g)
    PROVE  /\ others \o own \in Seq(Good)
           /\ MovedShape(c, S, others \o own, Moved(others, own, g), others, own, g)
<1> DEFINE s == others \o own
           f == Moved(others, own, g)
           n == Len(others)
<1>1. /\ s \in Seq(Good)
      /\ \A i \in DOMAIN s : \/ i <= n /\ i \in DOMAIN others /\ s[i] = others[i]
                             \/ i > n /\ i - n \in DOMAIN own /\ s[i] = own[i - n]
    BY ConcatFacts DEF MovedBy
<1>2. \A i \in Datas(s) : f[i] = IF i <= n THEN g[i] ELSE Back(commands, s[i])
    BY DEF Moved
<1>3. n \in Nat /\ commands \in Seq(Good)
    BY SeqFacts DEF MovedBy, Types, QueueTypes
<1> HIDE DEF s, f, n
<1>4. \A i \in Datas(s) : i \in DOMAIN s /\ i \in Nat /\ IsData(s[i])
    BY <1>1, DatasFacts
<1>5. ASSUME NEW i \in Datas(s), i <= n
      PROVE  /\ i \in DOMAIN others /\ f[i] = g[i] /\ s[i] = commands[g[i]] /\ s[i].client # c
             /\ g[i] \in Datas(commands)
    <2>1. i \in DOMAIN others /\ s[i] = others[i]
        BY <1>1, <1>3, <1>4, <1>5
    <2>2. g[i] \in OthersOf(c) /\ others[i] = commands[g[i]]
        BY <2>1 DEF MovedBy
    <2>3. g[i] \in DOMAIN commands /\ commands[g[i]].client # c
        BY <2>2 DEF OthersOf
    <2>4. g[i] \in Datas(commands)
        BY <1>4, <2>1, <2>2, <2>3 DEF Datas
    <2> QED BY <1>2, <1>5, <2>1, <2>2, <2>3, <2>4
<1>6. ASSUME NEW i \in Datas(s), i > n
      PROVE  /\ i - n \in DOMAIN own /\ s[i] = own[i - n] /\ s[i] \in RestoreCommands(S)
             /\ s[i].client = c /\ f[i] = Back(commands, s[i])
    <2>1. i - n \in DOMAIN own /\ s[i] = own[i - n]
        BY <1>1, <1>3, <1>4, <1>6
    <2>2. s[i] \in RestoreCommands(S)
        BY <2>1 DEF MovedBy, ToSet
    <2>3. s[i].client = c
        BY <2>2, RecordFacts
    <2>4. f[i] = Back(commands, s[i])
        BY <1>2, <1>3, <1>4, <1>6
    <2> QED BY <2>1, <2>2, <2>3, <2>4
<1>7. \A i \in Datas(s) : i <= n \/ i > n
    BY <1>3, <1>4
<1>8. ASSUME NEW i \in Datas(s)
      PROVE  f[i] \in Datas(commands) /\ Alike(s[i], commands[f[i]]) /\ f[i] \in Nat
    <2>1. CASE i <= n
        BY <1>3, <1>5, <2>1, DatasFacts DEF Alike
    <2>2. CASE i > n
        <3>1. s[i] \in RestoreCommands(S) /\ f[i] = Back(commands, s[i])
            BY <1>6, <2>2
        <3>2. Back(commands, s[i]) \in Datas(commands) /\ Alike(s[i], commands[Back(commands, s[i])])
            BY <1>3, <3>1, BackFacts
        <3> QED BY <1>3, <3>1, <3>2, DatasFacts
    <2> QED BY <1>7, <2>1, <2>2
<1>9. \A i \in Datas(s) : s[i].client # c => i \in DOMAIN others /\ f[i] = g[i] /\ s[i] = commands[g[i]]
    BY <1>5, <1>6, <1>7
<1>10. \A i \in Datas(s) : s[i].client = c =>
            /\ i > n /\ i - n \in DOMAIN own /\ s[i] = own[i - n]
            /\ s[i] \in RestoreCommands(S) /\ f[i] = Back(commands, s[i])
    BY <1>5, <1>6, <1>7
<1>11. MovedShape(c, S, s, f, others, own, g)
    BY <1>4, <1>8, <1>9, <1>10 DEF MovedShape, n
<1> QED BY <1>1, <1>11 DEF s, f

LEMMA MovedEmbeds ==
    ASSUME Types, NEW c \in Clients, NEW S, RecordSet(S, c), Held(S, commands, scenario),
           NEW others, NEW own, NEW g, MovedBy(c, S, others, own, g)
    PROVE  /\ Embeds(others \o own, commands, Moved(others, own, g))
           /\ Restores(others \o own, S, c)
<1> DEFINE s == others \o own
           f == Moved(others, own, g)
           n == Len(others)
<1>1. /\ s \in Seq(Good)
      /\ \A i \in Datas(s) : /\ f[i] \in Datas(commands) /\ Alike(s[i], commands[f[i]])
                             /\ i \in Nat /\ f[i] \in Nat
      /\ \A i \in Datas(s) : s[i].client # c => i \in DOMAIN others /\ f[i] = g[i] /\ s[i] = commands[g[i]]
      /\ \A i \in Datas(s) : s[i].client = c =>
            /\ i > n /\ i - n \in DOMAIN own /\ s[i] = own[i - n]
            /\ s[i] \in RestoreCommands(S) /\ f[i] = Back(commands, s[i])
    <2>1. MovedShape(c, S, s, f, others, own, g) /\ s \in Seq(Good)
        BY MovedWays
    <2> HIDE DEF s, f
    <2> QED BY <2>1 DEF MovedShape
<1>2. n \in Nat
    BY SeqFacts DEF MovedBy
<1>3. f \in [Datas(s) -> Datas(commands)]
    <2>1. f = [i \in Datas(s) |-> f[i]]
        BY DEF Moved
    <2> HIDE DEF f, s
    <2> QED BY <1>1, <2>1
<1>4. /\ \A i, j \in DOMAIN own : own[i] = own[j] => i = j
      /\ \A k, l \in DOMAIN others : k < l => g[k] < g[l]
      /\ \A k \in DOMAIN others : g[k] \in Nat
    <2>1. \A i \in DOMAIN commands : i \in Nat
        BY DatasFacts DEF Types, QueueTypes
    <2>2. \A i, j \in DOMAIN own : own[i] = own[j] => i = j
        BY DEF MovedBy
    <2>3. \A k, l \in DOMAIN others : k < l => g[k] < g[l]
        BY DEF MovedBy
    <2>4. \A k \in DOMAIN others : g[k] \in Nat
        BY <2>1 DEF MovedBy, OthersOf
    <2> QED BY <2>2, <2>3, <2>4
<1> HIDE DEF s, f, n
<1>5. \A i, j \in Datas(s) : s[i].client = c /\ s[i] = s[j] => i = j
    <2> TAKE i, j \in Datas(s)
    <2> HAVE s[i].client = c /\ s[i] = s[j]
    <2>1. i - n \in DOMAIN own /\ j - n \in DOMAIN own /\ own[i - n] = own[j - n]
        BY <1>1
    <2>2. i - n = j - n
        BY <1>4, <2>1
    <2> QED BY <1>1, <1>2, <2>2
<1>6. ASSUME NEW i \in Datas(s), NEW j \in Datas(s), f[i] = f[j] PROVE i = j
    <2>1. s[i].client = s[j].client
        BY <1>1, <1>6 DEF Alike
    <2>2. CASE s[i].client = c
        <3>1. Back(commands, s[i]) = Back(commands, s[j]) /\ s[i] \in RestoreCommands(S) /\ s[j] \in RestoreCommands(S)
            BY <1>1, <1>6, <2>1, <2>2
        <3>2. s[i] = s[j]
            <4>1. commands \in Seq(Good)
                BY DEF Types, QueueTypes
            <4>2. Blank(commands[Back(commands, s[i])]) = s[i] /\ Blank(commands[Back(commands, s[j])]) = s[j]
                BY <3>1, <4>1, BackFacts
            <4> QED BY <3>1, <4>2
        <3> QED BY <1>5, <2>2, <3>2
    <2>3. CASE s[i].client # c
        <3>1. i \in DOMAIN others /\ j \in DOMAIN others /\ g[i] = g[j]
            BY <1>1, <1>6, <2>1, <2>3
        <3>2. ~(i < j) /\ ~(j < i)
            BY <1>4, <3>1
        <3> QED BY <1>1, <3>2
    <2> QED BY <2>2, <2>3
<1>7. Embeds(s, commands, f)
    BY <1>1, <1>3, <1>6 DEF Embeds
<1>8. ASSUME NEW x \in RestoreCommands(S) PROVE \E i \in Datas(s) : s[i] = x
    <2>1. x \in ToSet(own) /\ own \in Seq(Good) /\ others \in Seq(Good)
        BY DEF MovedBy
    <2>2. x \in ToSet(s)
        BY <2>1, ConcatFacts DEF s
    <2>3. PICK i \in DOMAIN s : s[i] = x
        BY <2>2 DEF ToSet
    <2>4. IsData(x)
        BY BlankRecord
    <2>5. i \in Datas(s)
        BY <2>3, <2>4 DEF Datas
    <2> QED BY <2>3, <2>5
<1>9. Restores(s, S, c)
    BY <1>1, <1>5, <1>8 DEF Restores
<1> QED BY <1>7, <1>9 DEF s, f

(* The keys of the stored commands, if S has a record, grow along the list.  *)
Ordered(S) == S # {} => KeysOK(commands, scenario)

LEMMA MovedOrder ==
    ASSUME Types, NEW c \in Clients, NEW S, RecordSet(S, c), Held(S, commands, scenario),
           NEW others, NEW own, NEW g, MovedBy(c, S, others, own, g), Ordered(S)
    PROVE  KeepsOrder(others \o own, Moved(others, own, g))
<1> DEFINE s == others \o own
           f == Moved(others, own, g)
           n == Len(others)
<1>1. /\ \A i \in Datas(s) : i \in Nat
      /\ \A i \in Datas(s) : s[i].client # c => i \in DOMAIN others /\ f[i] = g[i] /\ s[i] = commands[g[i]]
      /\ \A i \in Datas(s) : s[i].client = c =>
            /\ i > n /\ i - n \in DOMAIN own /\ s[i] = own[i - n]
            /\ s[i] \in RestoreCommands(S) /\ f[i] = Back(commands, s[i])
    <2>1. MovedShape(c, S, s, f, others, own, g) /\ s \in Seq(Good)
        BY MovedWays
    <2> HIDE DEF s, f
    <2> QED BY <2>1 DEF MovedShape
<1>2. n \in Nat
    BY SeqFacts DEF MovedBy
<1>3. \A i, j \in DOMAIN own : i < j => own[i].key < own[j].key
    BY DEF MovedBy
<1>4. \A k, l \in DOMAIN others : k < l => g[k] < g[l]
    BY DEF MovedBy
<1> HIDE DEF s, f, n
<1>5. ASSUME NEW i \in Datas(s), NEW j \in Datas(s), i < j, s[i].client = s[j].client
      PROVE  f[i] < f[j]
    <2>1. CASE s[i].client # c
        <3>1. i \in DOMAIN others /\ j \in DOMAIN others /\ f[i] = g[i] /\ f[j] = g[j]
            BY <1>1, <1>5, <2>1
        <3> QED BY <1>4, <1>5, <3>1
    <2>2. CASE s[i].client = c
        <3>1. /\ i - n \in DOMAIN own /\ s[i] = own[i - n] /\ f[i] = Back(commands, s[i])
              /\ j - n \in DOMAIN own /\ s[j] = own[j - n] /\ f[j] = Back(commands, s[j])
              /\ s[i] \in RestoreCommands(S) /\ s[j] \in RestoreCommands(S)
            BY <1>1, <1>5, <2>2
        <3>2. i - n < j - n
            BY <1>1, <1>2, <1>5
        <3>3. s[i].key < s[j].key
            BY <1>3, <3>1, <3>2
        <3>4. S # {}
            BY <3>1 DEF RestoreCommands
        <3>5. KeysOK(commands, scenario) /\ commands \in Seq(Good)
            BY <3>4 DEF Ordered, Types, QueueTypes
        <3>6. Back(commands, s[i]) < Back(commands, s[j])
            BY <3>1, <3>3, <3>5, BackOrder
        <3> QED BY <3>1, <3>6
    <2> QED BY <2>1, <2>2
<1> QED BY <1>5 DEF KeepsOrder, s, f

SameFor(s, f, d) ==
    /\ KeepsOf(s, commands, {}, f, d)
    /\ \A j \in Datas(s) : s[j].client = d => s[j] = commands[f[j]]

LEMMA MovedLeavesAlone ==
    ASSUME Types, NEW c \in Clients, NEW S, RecordSet(S, c), Held(S, commands, scenario),
           NEW others, NEW own, NEW g, MovedBy(c, S, others, own, g), NEW d \in Clients, d # c
    PROVE  SameFor(others \o own, Moved(others, own, g), d)
<1> DEFINE s == others \o own
           f == Moved(others, own, g)
<1>1. \A i \in Datas(s) : s[i].client # c => f[i] = g[i] /\ s[i] = commands[g[i]]
    <2>1. MovedShape(c, S, s, f, others, own, g)
        BY MovedWays
    <2> HIDE DEF s, f
    <2> QED BY <2>1 DEF MovedShape
<1>2. others \in Seq(Good) /\ own \in Seq(Good) /\ commands \in Seq(Good)
    BY DEF MovedBy, Types, QueueTypes
<1>3. \A i \in DOMAIN others : i \in DOMAIN s /\ s[i] = others[i]
    BY <1>2, ConcatProperties, SeqFacts
<1> HIDE DEF s, f
<1>4. ASSUME NEW i \in Datas(commands), commands[i].client = d
      PROVE  \E j \in Datas(s) : f[j] = i
    <2>1. i \in OthersOf(c) /\ IsData(commands[i])
        BY <1>2, <1>4, DatasFacts DEF OthersOf
    <2>2. PICK k \in DOMAIN others : g[k] = i
        BY <2>1 DEF MovedBy
    <2>3. others[k] = commands[i]
        BY <2>2 DEF MovedBy
    <2>4. k \in Datas(s) /\ s[k].client # c
        BY <1>3, <1>4, <2>1, <2>2, <2>3 DEF Datas
    <2> QED BY <1>1, <2>2, <2>4
<1>5. KeepsOf(s, commands, {}, f, d)
    BY <1>4 DEF KeepsOf
<1>6. \A j \in Datas(s) : s[j].client = d => s[j] = commands[f[j]]
    BY <1>1
<1> QED BY <1>5, <1>6 DEF s, f, SameFor

LEMMA RecreateMoves ==
    ASSUME Types, NEW c \in Clients, Recreate(c)
    PROVE  \E others, own, g : commands' = others \o own /\ MovedBy(c, store[c], others, own, g)
<1>1. PICK others \in Remaining(commands, OthersOf(c)),
           own \in Restored(RestoreCommands(store[c]), Each(0)) : commands' = others \o own
    BY RecreateWays
<1>2. /\ others \in Seq(Good)
      /\ \E f \in [DOMAIN others -> OthersOf(c)] :
            /\ \A k \in DOMAIN others : others[k] = commands[f[k]]
            /\ \A k, l \in DOMAIN others : k < l => f[k] < f[l]
            /\ \A i \in OthersOf(c) : \E k \in DOMAIN others : f[k] = i
      /\ own \in Seq(Good) /\ ToSet(own) = RestoreCommands(store[c])
      /\ \A i, j \in DOMAIN own : i < j => own[i].key < own[j].key
      /\ \A i, j \in DOMAIN own : own[i] = own[j] => i = j
    BY RecreateList
<1>3. PICK g \in [DOMAIN others -> OthersOf(c)] :
            /\ \A k \in DOMAIN others : others[k] = commands[g[k]]
            /\ \A k, l \in DOMAIN others : k < l => g[k] < g[l]
            /\ \A i \in OthersOf(c) : \E k \in DOMAIN others : g[k] = i
    BY <1>2
<1>4. MovedBy(c, store[c], others, own, g)
    BY <1>2, <1>3 DEF MovedBy
<1> QED BY <1>1, <1>4

LEMMA RecreateStep ==
    ASSUME Types, Types', QueueInv, NEW c \in Clients, Recreate(c)
    PROVE  QueueInv'
<1>0. StoreInv /\ KeyInv /\ CountInv /\ noBufferedMessages \in [Clients -> Nat]
    BY DEF QueueInv, CountInv
<1> DEFINE S == store[c]
<1>1. PICK others, own, g : commands' = others \o own /\ MovedBy(c, S, others, own, g)
    BY RecreateMoves
<1> DEFINE f == Moved(others, own, g)
<1>2. /\ Spend("kill") /\ taken' = None
      /\ noBufferedMessages' = [noBufferedMessages EXCEPT ![c] = CountRestored(store[c])]
      /\ command_seqno' = [command_seqno EXCEPT ![c] = Largest(KeysOf(store[c]))]
      /\ UNCHANGED <<store, count, started, scenario>>
    BY RecreateWays
<1>3. command_seqno \in [Clients -> 0 .. SeqnoLimit - 1] /\ commands \in Seq(Good)
    BY DEF Types, StoreTypes, QueueTypes
<1>4. RecordSet(S, c) /\ Held(S, commands, scenario)
    <2>1. RecordsOK(store) /\ StoreOK(commands, store, scenario)
        BY <1>0, StoreRecords DEF StoreInv
    <2> QED BY <2>1, StoreHeld
<1>5. /\ noBufferedMessages'[c] = CountRestored(S)
      /\ command_seqno'[c] = Largest(KeysOf(S))
    BY <1>0, <1>2, <1>3
<1>6. Unwrapped \/ ~scenario.persistence => Ordered(S)
    <2>1. S # {} => scenario.persistence
        BY <1>4 DEF Held, HasCommand, Stores
    <2> QED BY <1>0, <2>1 DEF Ordered, KeyInv, KeysIn
<1>7. store[c] = S
    OBVIOUS
<1> HIDE DEF S
<1>8. Embeds(commands', commands, f) /\ Restores(commands', S, c)
    BY <1>1, <1>4, MovedEmbeds
<1>9. Unwrapped' \/ ~scenario.persistence => KeepsOrder(commands', f)
    <2>1. Unwrapped' => Unwrapped
        BY <1>2 DEF Unwrapped
    <2> QED BY <1>1, <1>4, <1>6, <2>1, MovedOrder
<1>10. Rebuilt(store[c], c)
    BY <1>5, <1>7, <1>8 DEF Rebuilt
<1>11. ASSUME NEW d \in Clients, d # c PROVE LeftAlone(commands, f, command_seqno, d)
    <2>1. SameFor(commands', f, d)
        BY <1>1, <1>4, <1>11, MovedLeavesAlone
    <2>2. noBufferedMessages'[d] = noBufferedMessages[d] /\ command_seqno'[d] = command_seqno[d]
        BY <1>0, <1>2, <1>3, <1>11
    <2>3. noBufferedMessages[d] = Cardinality(Publishes(commands, d))
        BY <1>0, CountBound
    <2> HIDE DEF f
    <2> QED BY <2>1, <2>2, <2>3 DEF LeftAlone, SameFor
<1> HIDE DEF f
<1>12. \A d \in Clients : Rebuilt(store[d], d) \/ LeftAlone(commands, f, command_seqno, d)
    BY <1>10, <1>11
<1>13. noBufferedMessages' = [d \in Clients |-> noBufferedMessages'[d]]
    BY <1>0, <1>2
<1>14. Ready(commands, store, command_seqno)
    BY <1>2, AsItWas
<1>15. Restarted(commands, store, command_seqno, f)
    BY <1>2, <1>8, <1>12, <1>13 DEF Restarted
<1>16. count' \in {count, count + 1} /\ Spend("kill")
    BY <1>2
<1> DEFINE k == "kill"
<1>17. k \in {"kill", "tear"} /\ Spend(k)
    BY <1>16
<1> HIDE DEF k
<1> QED BY <1>9, <1>14, <1>15, <1>16, <1>17, RestartStep

LEMMA InitQueue == Init => QueueInv
<1> SUFFICES ASSUME Init PROVE QueueInv
    OBVIOUS
<1>1. commands = <<>> /\ Datas(commands) = {} /\ \A c : Publishes(commands, c) = {}
    BY DEF Init, Datas, Publishes
<1>2. Cardinality({}) = 0 /\ 0 \in Nat
    BY FS_EmptySet
<1>3. EnvTypes
    BY InitTypes DEF Types
<1>4. \A w \in DOMAIN budget : budget[w] <= scenario.budget[w]
    BY <1>3, BudgetFacts DEF Init
<1>5. /\ noBufferedMessages = Each(0) /\ store = Each({}) /\ count = 0 /\ started = Each(0)
      /\ command_seqno = Each(0) /\ taken = None
    BY DEF Init
<1>6. ListInv /\ OrderInv /\ KeyInv
    BY <1>1, <1>5 DEF ListInv, ListOK, OrderInv, OrderOK, TakenFirst, KeyInv, KeysIn, KeysOK, Lasting
<1>7. StoreInv /\ NumberInv
    BY <1>4, <1>5 DEF StoreInv, StoreOK, NumberInv, Each
<1>8. CountInv
    <2>1. Bound(0, scenario, budget)
        <3>1. scenario.maxBuffered \in Nat /\ budget["tear"] \in Nat
            BY <1>3, ScenarioFacts, BudgetFacts DEF Kinds
        <3>2. scenario.budget["tear"] = budget["tear"]
            BY DEF Init
        <3> QED BY <3>1, <3>2 DEF Bound
    <2>2. noBufferedMessages \in [Clients -> Nat] /\ \A c \in Clients : noBufferedMessages[c] = 0
        BY <1>5 DEF Each
    <2>3. \A c \in Clients : Cardinality(Publishes(commands, c)) = 0
        BY <1>1, <1>2
    <2>4. \A c \in Clients : /\ noBufferedMessages[c] = Cardinality(Publishes(commands, c))
                             /\ Bound(noBufferedMessages[c], scenario, budget)
        BY <2>1, <2>2, <2>3
    <2> QED BY <2>2, <2>4, CountBound
<1> QED BY <1>6, <1>7, <1>8 DEF QueueInv

LEMMA QueueStep == Types /\ QueueInv /\ [Next]_vars => QueueInv'
<1> SUFFICES ASSUME Types, QueueInv, [Next]_vars PROVE QueueInv'
    OBVIOUS
<1>1. Types'
    BY TypesStep
<1>2. CASE KeepsList
    BY <1>1, <1>2, KeepsListStep
<1>3. ASSUME NEW t \in Threads, AddCommand(t), AddsAtEnd(api[t]) PROVE QueueInv'
    <2> DEFINE x == api[t]
    <2>0. x \in Good
        BY <1>3, AddCommandWays
    <2>1. /\ AddDisconnect(x) \/ AddData(x)
          /\ UNCHANGED <<taken, started, budget, scenario>>
        BY <1>3 DEF AddsAtEnd
    <2>2. CASE AddDisconnect(x)
        <3>1. x \in HeadCommands
            BY <2>0, <2>2, GoodFacts DEF AddDisconnect
        <3> QED BY <1>1, <2>1, <2>2, <3>1, AddDisconnectStep
    <2>3. CASE AddData(x)
        <3>1. x \in DataCommands
            BY <2>0, <2>3, GoodFacts DEF AddData
        <3> QED BY <1>1, <2>1, <2>3, <3>1, AddDataStep
    <2> QED BY <2>1, <2>2, <2>3
<1>4. CASE Take
    BY <1>1, <1>4, TakeStep
<1>5. ASSUME NEW c \in Clients, Recreate(c) PROVE QueueInv'
    BY <1>1, <1>5, RecreateStep
<1>6. CASE Kill
    BY <1>1, <1>6, KillStep
<1>7. ASSUME NEW t \in Threads, KillInAddCommand(t) PROVE QueueInv'
    BY <1>1, <1>7, KillInAddCommandStep
<1> QED BY <1>2, <1>3, <1>4, <1>5, <1>6, <1>7, QueueSteps

LEMMA AlwaysQueue == Spec => [](Types /\ QueueInv)
<1>1. Init => Types /\ QueueInv
    BY InitTypes, InitQueue
<1>2. (Types /\ QueueInv) /\ [Next]_vars => (Types /\ QueueInv)'
    BY TypesStep, QueueStep
<1> QED BY <1>1, <1>2, PTL DEF Spec

(* Through sends, drops, executions, destroy and restart noBufferedMessages *)
(* stays the number of publications of the client in the list; it exceeds   *)
(* maxBufferedMessages by at most one for each time the process was killed  *)
(* within MQTTAsync_addCommand, between the two store operations.           *)
THEOREM CountIsTrue == Spec => []BufferedCountIsTrue
<1>1. QueueInv => BufferedCountIsTrue
    BY DEF QueueInv, CountInv
<1> QED BY <1>1, AlwaysQueue, PTL

(* The publications and subscriptions of a client stay in the order in      *)
(* which they were accepted, behind the last one started.                   *)
THEOREM StartedInOrder == Spec => []InOrder
<1>1. Types /\ QueueInv => InOrder
    <2> SUFFICES ASSUME QueueInv, Steady, NEW i \in DOMAIN commands, NEW j \in DOMAIN commands
                 PROVE  /\ IsData(commands[i]) => commands[i].n > started[commands[i].client]
                        /\ i < j /\ IsData(commands[i]) /\ IsData(commands[j])
                             /\ commands[i].client = commands[j].client
                             => commands[i].n < commands[j].n
        BY DEF InOrder, Steady, Undisturbed
    <2>1. OrderOK(commands, started)
        BY DEF QueueInv, OrderInv
    <2> QED BY <2>1 DEF OrderOK, Datas
<1> QED BY <1>1, AlwaysQueue, PTL

(* Whenever no thread is within MQTTAsync_addCommand, the store holds the   *)
(* data commands of the list that are persisted at all (QoS 0 publications  *)
(* only if persistQoS0 is set or there is no limit to the queue), no        *)
(* others, with keys in the order of the list; so it is again after a       *)
(* restart from a store that a kill within addCommand left with one record  *)
(* too many.                                                                *)
THEOREM StoreIsQueue == Spec => []QueueIsStored
<1>1. Types /\ QueueInv => QueueIsStored
    <2> SUFFICES ASSUME Types, QueueInv, scenario.persistence, Unwrapped
                 PROVE  /\ \A c \in Clients :
                              RestoreCommands(store[c]) = {[x EXCEPT !.cb = FALSE] :
                                  x \in {y \in ToSet(commands) : y.client = c /\ IsData(y) /\ Persists(y)}}
                        /\ \A i, j \in DOMAIN commands :
                              /\ i < j /\ IsData(commands[i]) /\ IsData(commands[j])
                              /\ Persists(commands[i]) /\ Persists(commands[j])
                              /\ commands[i].client = commands[j].client
                              => commands[i].key < commands[j].key
        BY DEF QueueIsStored
    <2>1. KeysIn(commands, store, command_seqno, scenario) /\ commands \in Seq(Good)
        BY DEF QueueInv, KeyInv, Types, QueueTypes
    <2>2. RecordsOK(store) /\ StoreOK(commands, store, scenario)
        BY StoreRecords DEF QueueInv, StoreInv
    <2>3. \A y : Persists(y) <=> Stores(scenario, y)
        BY DEF Persists, Stores
    <2>4. ASSUME NEW c \in Clients
          PROVE  RestoreCommands(store[c]) = {[x EXCEPT !.cb = FALSE] :
                                  x \in {y \in ToSet(commands) : y.client = c /\ IsData(y) /\ Persists(y)}}
        <3> DEFINE StoredHere == {y \in ToSet(commands) : y.client = c /\ IsData(y) /\ Persists(y)}
                   S == store[c]
        <3>0. RecordSet(S, c) /\ Held(S, commands, scenario)
            BY <2>2, StoreHeld
        <3>1. ASSUME NEW y \in StoredHere PROVE Blank(y) \in RestoreCommands(S)
            <4>1. PICK k \in DOMAIN commands : commands[k] = y
                BY DEF ToSet
            <4>2. k \in Lasting(commands, scenario) /\ y.client = c
                BY <2>3, <4>1 DEF Datas, Lasting
            <4>3. PICK rec \in store[c] : Blank(y) = Blank(rec)
                BY <2>1, <4>1, <4>2 DEF KeysIn, HasRecord
            <4>4. Blank(rec) \in RestoreCommands(S)
                BY <4>3 DEF RestoreCommands, Blank
            <4> QED BY <4>3, <4>4
        <3> HIDE DEF S
        <3>2. ASSUME NEW x \in RestoreCommands(S) PROVE \E y \in StoredHere : x = Blank(y)
            <4> DEFINE k == Back(commands, x)
            <4>1. /\ k \in Datas(commands) /\ k \in Lasting(commands, scenario)
                  /\ Blank(commands[k]) = x /\ Alike(x, commands[k])
                BY <2>1, <3>0, BackFacts
            <4> HIDE DEF k
            <4>2. x.client = c
                BY <3>0, RecordFacts
            <4>3. /\ k \in DOMAIN commands /\ IsData(commands[k]) /\ commands[k].client = c
                  /\ Persists(commands[k])
                BY <2>1, <2>3, <4>1, <4>2, DatasFacts DEF Alike, Lasting
            <4>4. commands[k] \in StoredHere
                BY <4>3 DEF ToSet
            <4> QED BY <4>1, <4>4
        <3>3. S = store[c]
            BY DEF S
        <3> HIDE DEF StoredHere
        <3>4. RestoreCommands(S) = {Blank(x) : x \in StoredHere}
            BY <3>1, <3>2
        <3> QED BY <3>3, <3>4 DEF Blank, StoredHere
    <2>5. \A i, j \in DOMAIN commands :
              /\ i < j /\ IsData(commands[i]) /\ IsData(commands[j])
              /\ Persists(commands[i]) /\ Persists(commands[j])
              /\ commands[i].client = commands[j].client
              => commands[i].key < commands[j].key
        BY <2>1, <2>3 DEF KeysIn, KeysOK, Lasting, Datas
    <2> QED BY <2>4, <2>5
<1> QED BY <1>1, AlwaysQueue, PTL
=============================================================================
