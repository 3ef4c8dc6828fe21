---------------------------- MODULE SessionProofs ----------------------------
(***************************************************************************)
(* Proofs about the message exchanges, for any messages, any number of     *)
(* ids, any in-flight window and any number of losses, partial writes,     *)
(* retries, forgotten sessions and restarts.                               *)
(***************************************************************************)
EXTENDS Session, FiniteSetTheorems, SequenceTheorems, WellFoundedInduction, SequencesExt, TLAPS

-----------------------------------------------------------------------------
(* Sequences and natural numbers                                            *)

LEMMA SeqOfFunction ==
    ASSUME NEW T, NEW n \in Nat, NEW f \in [1 .. n -> T]
    PROVE  f \in Seq(T) /\ Len(f) = n /\ DOMAIN f = 1 .. n
<1>1. f \in Seq(T)
    BY SeqDef
<1> QED BY <1>1, LenProperties

LEMMA SeqFacts ==
    ASSUME NEW T, NEW s \in Seq(T)
    PROVE  /\ Len(s) \in Nat
           /\ DOMAIN s = 1 .. Len(s)
           /\ \A k \in DOMAIN s : s[k] \in T
BY LenProperties

LEMMA AppendFacts ==
    ASSUME NEW T, NEW s \in Seq(T), NEW e \in T
    PROVE  /\ Append(s, e) \in Seq(T)
           /\ DOMAIN Append(s, e) = 1 .. (Len(s) + 1)
           /\ Append(s, e)[Len(s) + 1] = e
           /\ \A k \in DOMAIN s : Append(s, e)[k] = s[k]
OBVIOUS

LEMMA FrontLastFacts ==
    ASSUME NEW T, NEW s \in Seq(T), s # <<>>
    PROVE  /\ Front(s) \in Seq(T)
           /\ Last(s) \in T
<1>1. Len(s) \in Nat \ {0}
    BY EmptySeq
<1>2. Front(s) \in Seq(T)
    BY <1>1, SubSeqProperties, LenProperties DEF Front
<1>3. Last(s) \in T
    BY <1>1, ElementOfSeq DEF Last
<1> QED BY <1>2, <1>3

(* Element j of s without its element k. *)
LEMMA RemoveAtFacts ==
    ASSUME NEW T, NEW s \in Seq(T), NEW k \in DOMAIN s
    PROVE  /\ RemoveAt(s, k) \in Seq(T)
           /\ DOMAIN RemoveAt(s, k) = 1 .. (Len(s) - 1)
           /\ \A j \in 1 .. (Len(s) - 1) :
                 RemoveAt(s, k)[j] = IF j < k THEN s[j] ELSE s[j + 1]
<1> DEFINE a == SubSeq(s, 1, k - 1)
           b == SubSeq(s, k + 1, Len(s))
<1>0. k \in Int /\ 1 <= k /\ k <= Len(s) /\ Len(s) \in Nat /\ DOMAIN s = 1 .. Len(s)
    BY LenProperties
<1>1. /\ a \in Seq(T)
      /\ Len(a) = k - 1
      /\ \A i \in 1 .. (k - 1) : a[i] = s[i]
    <2>1. \A i \in 1 .. (k - 1) : s[i] \in T
        BY <1>0, LenProperties
    <2>2. /\ SubSeq(s, 1, k - 1) \in Seq(T)
          /\ Len(SubSeq(s, 1, k - 1)) = IF 1 <= k - 1 THEN (k - 1) - 1 + 1 ELSE 0
          /\ \A i \in 1 .. (k - 1) - 1 + 1 : SubSeq(s, 1, k - 1)[i] = s[1 + i - 1]
        BY <1>0, <2>1, SubSeqProperties
    <2> QED BY <1>0, <2>2
<1>2. /\ b \in Seq(T)
      /\ Len(b) = Len(s) - k
      /\ \A i \in 1 .. (Len(s) - k) : b[i] = s[k + i]
    <2>1. \A i \in (k + 1) .. Len(s) : s[i] \in T
        BY <1>0, LenProperties
    <2>2. /\ SubSeq(s, k + 1, Len(s)) \in Seq(T)
          /\ Len(SubSeq(s, k + 1, Len(s))) =
                IF k + 1 <= Len(s) THEN Len(s) - (k + 1) + 1 ELSE 0
          /\ \A i \in 1 .. Len(s) - (k + 1) + 1 :
                SubSeq(s, k + 1, Len(s))[i] = s[k + 1 + i - 1]
        BY <1>0, <2>1, SubSeqProperties
    <2> QED BY <1>0, <2>2
<1>3. RemoveAt(s, k) = a \o b
    BY DEF RemoveAt
<1> HIDE DEF a, b
<1>4. /\ a \o b \in Seq(T)
      /\ Len(a \o b) = Len(s) - 1
      /\ \A i \in 1 .. (Len(s) - 1) : (a \o b)[i] = IF i <= k - 1 THEN a[i] ELSE b[i - (k - 1)]
    <2>1. /\ a \o b \in Seq(T)
          /\ Len(a \o b) = Len(a) + Len(b)
          /\ \A i \in 1 .. Len(a) + Len(b) :
                (a \o b)[i] = IF i <= Len(a) THEN a[i] ELSE b[i - Len(a)]
        BY <1>1, <1>2, ConcatProperties
    <2>2. Len(a) + Len(b) = Len(s) - 1
        BY <1>0, <1>1, <1>2
    <2> QED BY <1>1, <2>1, <2>2
<1>5. DOMAIN (a \o b) = 1 .. (Len(s) - 1)
    BY <1>4, LenProperties
<1>6. \A j \in 1 .. (Len(s) - 1) : (a \o b)[j] = IF j < k THEN s[j] ELSE s[j + 1]
    <2> TAKE j \in 1 .. (Len(s) - 1)
    <2>1. CASE j < k
        BY <1>0, <1>1, <1>4, <2>1
    <2>2. CASE ~(j < k)
        <3>1. j - (k - 1) \in 1 .. (Len(s) - k) /\ k + (j - (k - 1)) = j + 1 /\ ~(j <= k - 1)
            BY <1>0, <2>2
        <3> QED BY <1>2, <1>4, <2>2, <3>1
    <2> QED BY <2>1, <2>2
<1> QED BY <1>3, <1>4, <1>5, <1>6

LEMMA LeastNatural ==
    ASSUME NEW S \in SUBSET Nat, S # {}
    PROVE  \E k \in S : \A l \in S : k <= l
<1> DEFINE R == OpToRel(<, Nat)
<1>1. PICK k \in S : \A l \in S : ~ (<<l, k>> \in R)
    <2>1. IsWellFoundedOn(R, Nat)
        BY NatLessThanWellFounded
    <2> HIDE DEF R
    <2> QED BY <2>1, WFMin
<1>2. \A l \in S : ~ (l < k)
    BY <1>1 DEF OpToRel
<1> QED BY <1>2

-----------------------------------------------------------------------------
(* Message ids                                                              *)

(* The id given out is one of the ids, and is free. *)
LEMMA AssignedIsFree ==
    ASSUME NEW start \in 0 .. MaxMsgId, NEW used,
           AssignMsgId(start, used) # 0
    PROVE  AssignMsgId(start, used) \in Ids \ used
<1>1. Stops(start, used) # {}
    BY DEF AssignMsgId
<1>2. Stops(start, used) \in SUBSET Nat
    BY MaxMsgIdAssumption DEF Stops, Ids
<1>3. PICK k \in Stops(start, used) : AssignMsgId(start, used) = Tried(start, k)
    BY <1>1, <1>2, LeastNatural DEF AssignMsgId
<1>4. k \in Ids /\ Tried(start, k) \notin used
    BY DEF Stops
<1>5. Tried(start, k) \in Ids
    BY <1>4, MaxMsgIdAssumption DEF Tried, Ids
<1> QED BY <1>3, <1>4, <1>5

-----------------------------------------------------------------------------
(* Types of what the parts of the actions compute                           *)

LEMMA PublishIsPacket ==
    ASSUME NEW i \in Ids, NEW m \in Msgs
    PROVE  Packet("PUBLISH", i, m) \in ToServer
BY DEF Packet, ToServer

LEMMA AckIsPacket ==
    ASSUME NEW a \in Acks
    PROVE  Packet(a.type, a.id, None) \in ToServer
<1>1. CASE a \in [type : {"PUBACK", "PUBREC", "PUBCOMP"}, id : SrvIds]
    BY <1>1 DEF Packet, ToServer
<1>2. CASE a \in [type : {"PUBREL"}, id : Ids]
    BY <1>2 DEF Packet, ToServer
<1> QED BY <1>1, <1>2 DEF Acks

(* A packet to the client is what its type says it is. *)
LEMMA ToClientFields ==
    ASSUME NEW p \in ToClient
    PROVE  /\ p.type = "PUBLISH" => p.id \in SrvIds /\ p.m \in SrvMsgs
           /\ p.type = "PUBREL" => p.id \in SrvIds
           /\ p.type \in {"PUBACK", "PUBREC", "PUBCOMP"} => p.id \in Ids
           /\ p.ok \in BOOLEAN
BY DEF ToClient

LEMMA ToServerFields ==
    ASSUME NEW p \in ToServer
    PROVE  /\ p.type = "PUBLISH" => p.id \in Ids /\ p.m \in Msgs
           /\ p.type = "PUBREL" => p.id \in Ids
           /\ p.type \in {"PUBACK", "PUBREC", "PUBCOMP"} => p.id \in SrvIds
BY DEF ToServer

LEMMA TransmitType ==
    ASSUME NEW wire \in Seq(ToServer), NEW ps \in Seq(ToServer), ps # <<>>,
           NEW outcome, Transmit(wire, ps, outcome)
    PROVE  c2s' \in Seq(ToServer) /\ pendingWrite' \in ToServer \cup {None}
<1>1. Front(ps) \in Seq(ToServer) /\ Last(ps) \in ToServer
    BY FrontLastFacts
<1>2. wire \o ps \in Seq(ToServer) /\ wire \o Front(ps) \in Seq(ToServer)
    BY <1>1, ConcatProperties
<1> QED BY <1>1, <1>2 DEF Transmit

LEMMA SpendType ==
    ASSUME NEW b \in Budgets, NEW kind \in {"loss", "crash", "partial", "drop", "retry", "forget"},
           b[kind] > 0
    PROVE  /\ Spend(b, kind) \in Budgets
           /\ \A other \in {"loss", "crash", "partial", "drop", "retry", "forget"} :
                 other # kind => Spend(b, kind)[other] = b[other]
BY DEF Spend, Budgets

LEMMA SpendOnType ==
    ASSUME NEW outcome \in Outcomes, NEW b \in Budgets, b["partial"] = budget["partial"]
    PROVE  SpendOn(b, outcome) \in Budgets /\ SpendOn(b, outcome)["drop"] = b["drop"]
<1>1. CASE outcome = "partial"
    <2>1. b["partial"] > 0
        BY <1>1 DEF Outcomes, Allowed
    <2> QED BY <1>1, <2>1, SpendType DEF SpendOn
<1>2. CASE outcome # "partial"
    BY <1>2 DEF SpendOn
<1> QED BY <1>1, <1>2

LEMMA PutPubrelType ==
    ASSUME NEW keys \in SUBSET Ids, NEW ps \in Seq(ToServer)
    PROVE  PutPubrel(keys, ps) \in SUBSET Ids
<1>1. \A k \in DOMAIN ps : ps[k].type = "PUBREL" => ps[k].id \in Ids
    BY SeqFacts, ToServerFields
<1> QED BY <1>1 DEF PutPubrel

LEMMA PutSentType ==
    ASSUME NEW keys \in [Ids -> Msgs \cup {None}], NEW ps \in Seq(ToServer)
    PROVE  PutSent(keys, ps) \in [Ids -> Msgs \cup {None}]
<1>1. \A k \in DOMAIN ps : ps[k].type = "PUBLISH" => ps[k].m \in Msgs
    BY SeqFacts, ToServerFields
<1> QED BY <1>1 DEF PutSent

LEMMA SendAckType ==
    ASSUME StateOK, NEW type, NEW id, [type |-> type, id |-> id] \in Acks, SendAck(type, id)
    PROVE  /\ c2s' \in Seq(ToServer)
           /\ pendingWrite' \in ToServer \cup {None}
           /\ pubrelKeys' \in SUBSET Ids
           /\ outboundQueue' \in Seq(Acks)
           /\ budget' \in Budgets
<1> DEFINE ps == <<Packet(type, id, None)>>
<1>1. Packet(type, id, None) \in ToServer
    <2>1. Packet([type |-> type, id |-> id].type, [type |-> type, id |-> id].id, None) \in ToServer
        BY AckIsPacket
    <2> QED BY <2>1
<1>2. ps \in Seq(ToServer) /\ ps # <<>>
    BY <1>1
<1> HIDE DEF ps
<1>3. CASE pendingWrite = None
    <2>1. PICK outcome \in Outcomes : /\ Transmit(c2s, ps, outcome)
                                      /\ budget' = SpendOn(budget, outcome)
        BY <1>3 DEF SendAck, ps
    <2>2. pubrelKeys' = PutPubrel(pubrelKeys, ps) /\ outboundQueue' = outboundQueue
        BY <1>3 DEF SendAck, ps
    <2>3. c2s' \in Seq(ToServer) /\ pendingWrite' \in ToServer \cup {None}
        BY <1>2, <2>1, TransmitType DEF StateOK
    <2>4. budget' \in Budgets
        BY <2>1, SpendOnType DEF StateOK
    <2>5. pubrelKeys' \in SUBSET Ids
        BY <1>2, <2>2, PutPubrelType DEF StateOK
    <2> QED BY <2>2, <2>3, <2>4, <2>5 DEF StateOK
<1>4. CASE pendingWrite # None
    <2>1. /\ outboundQueue' = Append(outboundQueue, [type |-> type, id |-> id])
          /\ UNCHANGED <<c2s, pendingWrite, pubrelKeys, budget>>
        BY <1>4 DEF SendAck
    <2>2. outboundQueue \in Seq(Acks)
        BY DEF StateOK
    <2>3. outboundQueue' \in Seq(Acks)
        BY <2>1, <2>2, AppendFacts
    <2> QED BY <2>1, <2>3 DEF StateOK
<1> QED BY <1>3, <1>4

-----------------------------------------------------------------------------
(* The list and the store                                                   *)

(* The list out and the records keys say the same: ids are not shared, each *)
(* message of the list has its record, each record its message.             *)
Matches(out, keys) ==
    /\ \A k, l \in DOMAIN out : out[k].id = out[l].id => k = l
    /\ \A k \in DOMAIN out : keys[out[k].id] = out[k].m
    /\ \A i \in Ids : keys[i] # None => \E k \in DOMAIN out : out[k].id = i

SentRecords == [Ids -> Msgs \cup {None}]

(* The list MQTTPersistence_restorePackets builds matches the records. *)
LEMMA RestoredMatches ==
    ASSUME NEW sent \in SentRecords, NEW pubrel,
           NEW s \in InIdOrder(Restored(sent, pubrel))
    PROVE  s \in Seq(OutEntry) /\ Matches(s, sent)
<1> DEFINE S == Restored(sent, pubrel)
           n == Cardinality(S)
<1>1. \A e \in S : e \in OutEntry /\ sent[e.id] = e.m
    <2> TAKE e \in S
    <2>1. PICK i \in Ids :
             /\ sent[i] # None
             /\ e = [id |-> i, m |-> sent[i],
                     next |-> IF sent[i] \in Msgs2 /\ i \in pubrel THEN "PUBCOMP"
                              ELSE FirstAck(sent[i])]
        BY DEF Restored
    <2>2. sent[i] \in Msgs
        BY <2>1 DEF SentRecords
    <2>3. e.next \in {"PUBACK", "PUBREC", "PUBCOMP"}
        BY <2>1 DEF FirstAck
    <2> QED BY <2>1, <2>2, <2>3 DEF OutEntry
<1>2. \A e, g \in S : e.id = g.id => e = g
    BY DEF Restored
<1>3. \A i \in Ids : sent[i] # None => \E e \in S : e.id = i
    <2> TAKE i \in Ids
    <2> HAVE sent[i] # None
    <2> DEFINE e == [id |-> i, m |-> sent[i],
                     next |-> IF sent[i] \in Msgs2 /\ i \in pubrel THEN "PUBCOMP"
                              ELSE FirstAck(sent[i])]
    <2>1. e \in S
        BY DEF Restored
    <2> QED BY <2>1
<1>4. s \in [1 .. n -> S] /\ \A k, l \in DOMAIN s : k < l => s[k].id < s[l].id
    BY DEF InIdOrder
<1> HIDE DEF S
<1>5. IsFiniteSet(S)
    <2> DEFINE h == [e \in S |-> e.id]
    <2>1. h \in [S -> Ids] /\ \A e, g \in S : h[e] = h[g] => e = g
        BY <1>1, <1>2 DEF OutEntry
    <2>2. h \in Injection(S, Ids)
        BY <2>1 DEF Injection, IsInjective
    <2>3. IsFiniteSet(Ids)
        BY MaxMsgIdAssumption, FS_Interval DEF Ids
    <2> HIDE DEF h
    <2> QED BY <2>2, <2>3, FS_Injection
<1>6. n \in Nat
    BY <1>5, FS_CardinalityType
<1>7. \A k \in 1 .. n : s[k] \in S /\ s[k].id \in Ids
    BY <1>1, <1>4 DEF OutEntry
<1>8. \A k, l \in 1 .. n : s[k].id = s[l].id => k = l
    <2> TAKE k, l \in 1 .. n
    <2> HAVE s[k].id = s[l].id
    <2>1. s[k].id \in Int /\ s[l].id \in Int
        BY <1>7, MaxMsgIdAssumption DEF Ids
    <2>2. ~(k < l) /\ ~(l < k)
        BY <1>4, <2>1
    <2> QED BY <2>2, <1>6
<1>9. \A e \in S : \E k \in 1 .. n : s[k] = e
    <2>1. s \in Injection(1 .. n, S)
        BY <1>4, <1>8 DEF Injection, IsInjective
    <2>2. Cardinality(1 .. n) = n
        BY <1>6, FS_Interval
    <2>3. s \in Surjection(1 .. n, S)
        BY <1>5, <2>1, <2>2, FS_Injection
    <2> QED BY <2>3 DEF Surjection
<1>10. s \in Seq(OutEntry) /\ DOMAIN s = 1 .. n
    <2>1. s \in [1 .. n -> OutEntry]
        BY <1>1, <1>4
    <2> QED BY <1>6, <2>1, SeqOfFunction
<1> HIDE DEF n
<1>11. \A k \in DOMAIN s : sent[s[k].id] = s[k].m
    BY <1>1, <1>7, <1>10
<1>12. \A i \in Ids : sent[i] # None => \E k \in DOMAIN s : s[k].id = i
    BY <1>3, <1>9, <1>10
<1> QED BY <1>8, <1>10, <1>11, <1>12 DEF Matches

(* A list turned round still matches them. *)
LEMMA RotateMatches ==
    ASSUME NEW s \in Seq(OutEntry), NEW sent, Matches(s, sent), NEW k \in 2 .. Len(s)
    PROVE  Rotate(s, k) \in Seq(OutEntry) /\ Matches(Rotate(s, k), sent)
<1> DEFINE n == Len(s)
           at == [j \in DOMAIN s |-> IF j + k - 1 <= n THEN j + k - 1 ELSE j + k - 1 - n]
           r == Rotate(s, k)
<1>1. n \in Nat /\ DOMAIN s = 1 .. n /\ k \in 2 .. n
    BY LenProperties
<1>2. r = [j \in DOMAIN s |-> s[at[j]]]
    BY DEF Rotate
<1> HIDE DEF n, r
<1>3. at \in [DOMAIN s -> DOMAIN s]
    BY <1>1
<1>4. \A i, j \in DOMAIN s : at[i] = at[j] => i = j
    BY <1>1
<1>5. \A i \in DOMAIN s : \E j \in DOMAIN s : at[j] = i
    <2> TAKE i \in DOMAIN s
    <2> DEFINE j == IF i >= k THEN i - k + 1 ELSE i - k + 1 + n
    <2>1. j \in DOMAIN s /\ at[j] = i
        BY <1>1
    <2> QED BY <2>1
<1> HIDE DEF at
<1>6. DOMAIN r = DOMAIN s /\ \A j \in DOMAIN s : r[j] = s[at[j]]
    BY <1>2
<1>7. r \in Seq(OutEntry)
    <2>1. \A j \in DOMAIN s : s[at[j]] \in OutEntry
        BY <1>3, SeqFacts
    <2>2. r \in [1 .. n -> OutEntry]
        BY <1>1, <1>2, <2>1
    <2> QED BY <1>1, <2>2, SeqOfFunction
<1>8. \A i, j \in DOMAIN r : r[i].id = r[j].id => i = j
    <2> TAKE i, j \in DOMAIN r
    <2> HAVE r[i].id = r[j].id
    <2>1. at[i] \in DOMAIN s /\ at[j] \in DOMAIN s /\ s[at[i]].id = s[at[j]].id
        BY <1>3, <1>6
    <2>2. at[i] = at[j]
        BY <2>1 DEF Matches
    <2> QED BY <1>4, <1>6, <2>2
<1>9. \A j \in DOMAIN r : sent[r[j].id] = r[j].m
    BY <1>3, <1>6 DEF Matches
<1>10. \A i \in Ids : sent[i] # None => \E j \in DOMAIN r : r[j].id = i
    <2> TAKE i \in Ids
    <2> HAVE sent[i] # None
    <2>1. PICK l \in DOMAIN s : s[l].id = i
        BY DEF Matches
    <2>2. PICK j \in DOMAIN s : at[j] = l
        BY <1>5
    <2> QED BY <1>6, <2>1, <2>2
<1> QED BY <1>7, <1>8, <1>9, <1>10 DEF Matches, r

(* So does what MQTTPersistence_wrapMsgID makes of it. *)
LEMMA WrapMatches ==
    ASSUME NEW s \in Seq(OutEntry), NEW sent, Matches(s, sent)
    PROVE  WrapMsgID(s) \in Seq(OutEntry) /\ Matches(WrapMsgID(s), sent)
<1>1. CASE WrapPoints(s) = {}
    BY <1>1 DEF WrapMsgID
<1>2. CASE WrapPoints(s) # {}
    <2>1. PICK k \in WrapPoints(s) : WrapMsgID(s) = Rotate(s, k)
        BY <1>2 DEF WrapMsgID
    <2>2. k \in 2 .. Len(s)
        BY DEF WrapPoints
    <2> QED BY <2>1, <2>2, RotateMatches
<1> QED BY <1>1, <1>2

-----------------------------------------------------------------------------
(* Type correctness, one lemma per action                                   *)

LEMMA NoneFacts == None \notin Msgs /\ None \notin SrvMsgs
BY SessionAssumption DEF Msgs, SrvMsgs

LEMMA PublishType == ASSUME StateOK, NEW m \in Msgs, Publish(m) PROVE StateOK'
<1> DEFINE id == AssignMsgId(msgID, OutIds)
           p == <<Packet("PUBLISH", id, m)>>
           e == [id |-> id, m |-> m, next |-> FirstAck(m)]
<1>1. id \in Ids
    BY AssignedIsFree DEF Publish, StateOK
<1>2. id \in 0 .. MaxMsgId
    BY <1>1, MaxMsgIdAssumption DEF Ids
<1>3. /\ msgID' = id
      /\ outboundMsgs' = Append(outboundMsgs, e)
      /\ sentKeys' = PutSent(sentKeys, p)
      /\ accepted' = Append(accepted, m)
      /\ sentNow' = sentNow \cup {m}
      /\ \E outcome \in Outcomes : Transmit(c2s, p, outcome) /\ budget' = SpendOn(budget, outcome)
    BY DEF Publish
<1>4. /\ UNCHANGED <<connected, inboundMsgs, outboundQueue, connect_count, connect_sent>>
      /\ UNCHANGED <<pubrelKeys, rcvdKeys, s2c, srvIds, srvOut, acked, refused, srvGot>>
      /\ UNCHANGED <<srvSent, srvDone, delivered>>
    BY DEF Publish, serverVars
<1> HIDE DEF id
<1>5. p \in Seq(ToServer) /\ p # <<>>
    BY <1>1, PublishIsPacket
<1>6. e \in OutEntry
    BY <1>1 DEF OutEntry, FirstAck
<1> HIDE DEF p, e
<1>7. sentKeys' \in SentRecords
    BY <1>3, <1>5, PutSentType DEF StateOK, SentRecords
<1>8. outboundMsgs' \in Seq(OutEntry)
    BY <1>3, <1>6, AppendFacts DEF StateOK
<1>9. accepted' \in Seq(Msgs)
    BY <1>3, AppendFacts DEF StateOK
<1>10. c2s' \in Seq(ToServer) /\ pendingWrite' \in ToServer \cup {None} /\ budget' \in Budgets
    BY <1>3, <1>5, TransmitType, SpendOnType DEF StateOK
<1> QED BY <1>2, <1>3, <1>4, <1>7, <1>8, <1>9, <1>10 DEF StateOK, SentRecords

LEMMA ReceiveType ==
    ASSUME StateOK, NEW p, NEW type, Receive(p, type)
    PROVE  p \in ToClient /\ p.type = type /\ s2c' \in Seq(ToClient)
<1>1. s2c \in Seq(ToClient) /\ s2c # <<>> /\ p = Head(s2c) /\ s2c' = Tail(s2c) /\ p.type = type
    BY DEF Receive, StateOK
<1>2. Head(s2c) \in ToClient /\ Tail(s2c) \in Seq(ToClient)
    BY <1>1, HeadTailProperties
<1> QED BY <1>1, <1>2

LEMMA DeliverType ==
    ASSUME StateOK, NEW m \in SrvMsgs, Deliver(m)
    PROVE  delivered' \in [SrvMsgs -> 0 .. 2]
<1>1. delivered \in [SrvMsgs -> 0 .. 2]
    BY DEF StateOK
<1>2. AtMost2(delivered[m]) \in 0 .. 2
    BY <1>1 DEF AtMost2
<1> QED BY <1>1, <1>2 DEF Deliver

LEMMA HandlePublishType == ASSUME StateOK, NEW p, HandlePublish(p) PROVE StateOK'
<1>1. p \in ToClient /\ p.type = "PUBLISH" /\ s2c' \in Seq(ToClient)
    BY ReceiveType DEF HandlePublish
<1>2. p.id \in SrvIds /\ p.m \in SrvMsgs
    BY <1>1, ToClientFields
<1>3. /\ UNCHANGED <<connected, msgID, outboundMsgs, connect_count, connect_sent, sentKeys>>
      /\ UNCHANGED <<srvIds, srvOut, accepted, acked, refused, srvGot, srvSent, srvDone, sentNow>>
    BY DEF HandlePublish, serverVars
<1>4. CASE HandlePublishQoS1(p)
    <2>1. [type |-> "PUBACK", id |-> p.id] \in Acks
        BY <1>2 DEF Acks
    <2>2. /\ c2s' \in Seq(ToServer)
          /\ pendingWrite' \in ToServer \cup {None}
          /\ pubrelKeys' \in SUBSET Ids
          /\ outboundQueue' \in Seq(Acks)
          /\ budget' \in Budgets
        BY <1>4, <2>1, SendAckType DEF HandlePublishQoS1
    <2>3. delivered' \in [SrvMsgs -> 0 .. 2]
        BY <1>2, <1>4, DeliverType DEF HandlePublishQoS1
    <2>4. UNCHANGED <<inboundMsgs, rcvdKeys>>
        BY <1>4 DEF HandlePublishQoS1
    <2> QED BY <1>1, <1>3, <2>2, <2>3, <2>4 DEF StateOK
<1>5. CASE HandlePublishQoS2(p)
    <2>1. [type |-> "PUBREC", id |-> p.id] \in Acks
        BY <1>2 DEF Acks
    <2>2. /\ c2s' \in Seq(ToServer)
          /\ pendingWrite' \in ToServer \cup {None}
          /\ pubrelKeys' \in SUBSET Ids
          /\ outboundQueue' \in Seq(Acks)
          /\ budget' \in Budgets
        BY <1>5, <2>1, SendAckType DEF HandlePublishQoS2
    <2>3. delivered' \in [SrvMsgs -> 0 .. 2]
        BY <1>2, <1>5, DeliverType DEF HandlePublishQoS2, StateOK
    <2>4. /\ inboundMsgs' \in [SrvIds -> SrvMsgs2 \cup {None}]
          /\ rcvdKeys' \in [SrvIds -> SrvMsgs2 \cup {None}]
        BY <1>5 DEF HandlePublishQoS2, StateOK
    <2> QED BY <1>1, <1>3, <2>2, <2>3, <2>4 DEF StateOK
<1> QED BY <1>4, <1>5 DEF HandlePublish

LEMMA EndExchangeType ==
    ASSUME StateOK, NEW k \in DOMAIN outboundMsgs, NEW ok, EndExchange(k, ok)
    PROVE  /\ sentKeys' \in SentRecords
           /\ pubrelKeys' \in SUBSET Ids
           /\ outboundMsgs' \in Seq(OutEntry)
           /\ acked' \subseteq Msgs /\ refused' \subseteq Msgs
<1>0. outboundMsgs \in Seq(OutEntry) /\ outboundMsgs' = RemoveAt(outboundMsgs, k)
    BY DEF EndExchange, StateOK
<1>1. outboundMsgs[k].m \in Msgs
    <2>1. outboundMsgs[k] \in OutEntry
        BY <1>0, SeqFacts
    <2> QED BY <2>1 DEF OutEntry
<1>2. outboundMsgs' \in Seq(OutEntry)
    BY <1>0, RemoveAtFacts
<1> QED BY <1>1, <1>2 DEF EndExchange, StateOK, SentRecords

LEMMA HandleFinalAckType ==
    ASSUME StateOK, NEW p, NEW type, HandleFinalAck(p, type) PROVE StateOK'
<1>1. s2c' \in Seq(ToClient)
    BY ReceiveType DEF HandleFinalAck
<1>2. /\ UNCHANGED <<connected, msgID, inboundMsgs, outboundQueue, connect_count, connect_sent>>
      /\ UNCHANGED <<rcvdKeys, pendingWrite, c2s, srvIds, srvOut, accepted, srvGot, srvSent>>
      /\ UNCHANGED <<srvDone, delivered, sentNow, budget>>
    BY DEF HandleFinalAck, serverVars
<1>3. /\ sentKeys' \in SentRecords
      /\ pubrelKeys' \in SUBSET Ids
      /\ outboundMsgs' \in Seq(OutEntry)
      /\ acked' \subseteq Msgs /\ refused' \subseteq Msgs
    <2>1. CASE \E k \in Waiting(p.id, type) : EndExchange(k, p.ok)
        BY <2>1, EndExchangeType DEF Waiting
    <2>2. CASE UNCHANGED <<sentKeys, pubrelKeys, outboundMsgs, acked, refused>>
        BY <2>2 DEF StateOK, SentRecords
    <2> QED BY <2>1, <2>2 DEF HandleFinalAck
<1> QED BY <1>1, <1>2, <1>3 DEF StateOK, SentRecords

LEMMA HandlePubrecType == ASSUME StateOK, NEW p, HandlePubrec(p) PROVE StateOK'
<1>1. p \in ToClient /\ p.type = "PUBREC" /\ s2c' \in Seq(ToClient)
    BY ReceiveType DEF HandlePubrec
<1>2. p.id \in Ids
    BY <1>1, ToClientFields
<1>3. /\ UNCHANGED <<connected, msgID, inboundMsgs, connect_count, connect_sent, rcvdKeys>>
      /\ UNCHANGED <<srvIds, srvOut, accepted, srvGot, srvSent, srvDone, delivered, sentNow>>
    BY DEF HandlePubrec, serverVars
<1>4. CASE PubrecRefuses(p)
    <2>1. /\ sentKeys' \in SentRecords
          /\ pubrelKeys' \in SUBSET Ids
          /\ outboundMsgs' \in Seq(OutEntry)
          /\ acked' \subseteq Msgs /\ refused' \subseteq Msgs
        BY <1>4, EndExchangeType DEF PubrecRefuses, Waiting
    <2>2. UNCHANGED <<outboundQueue, c2s, pendingWrite, budget>>
        BY <1>4 DEF PubrecRefuses
    <2> QED BY <1>1, <1>3, <2>1, <2>2 DEF StateOK, SentRecords
<1>5. CASE PubrecReleases(p)
    <2>1. [type |-> "PUBREL", id |-> p.id] \in Acks
        BY <1>2 DEF Acks
    <2>2. /\ c2s' \in Seq(ToServer)
          /\ pendingWrite' \in ToServer \cup {None}
          /\ pubrelKeys' \in SUBSET Ids
          /\ outboundQueue' \in Seq(Acks)
          /\ budget' \in Budgets
        BY <1>5, <2>1, SendAckType DEF PubrecReleases
    <2>3. outboundMsgs' \in Seq(OutEntry)
        <3>1. /\ Len(outboundMsgs) \in Nat
              /\ DOMAIN outboundMsgs = 1 .. Len(outboundMsgs)
              /\ \A k \in DOMAIN outboundMsgs : outboundMsgs[k] \in OutEntry
            BY SeqFacts DEF StateOK
        <3>2. outboundMsgs' \in [1 .. Len(outboundMsgs) -> OutEntry]
            BY <1>5, <3>1 DEF PubrecReleases, OutEntry
        <3> QED BY <3>1, <3>2, SeqOfFunction
    <2>4. UNCHANGED <<sentKeys, acked, refused>>
        BY <1>5 DEF PubrecReleases
    <2> QED BY <1>1, <1>3, <2>2, <2>3, <2>4 DEF StateOK
<1> QED BY <1>4, <1>5 DEF HandlePubrec

LEMMA HandlePubrelType == ASSUME StateOK, NEW p, HandlePubrel(p) PROVE StateOK'
<1>1. p \in ToClient /\ p.type = "PUBREL" /\ s2c' \in Seq(ToClient)
    BY ReceiveType DEF HandlePubrel
<1>2. p.id \in SrvIds
    BY <1>1, ToClientFields
<1>3. /\ UNCHANGED <<connected, msgID, outboundMsgs, connect_count, connect_sent, sentKeys>>
      /\ UNCHANGED <<srvIds, srvOut, accepted, acked, refused, srvGot, srvSent, srvDone, sentNow>>
    BY DEF HandlePubrel, serverVars
<1>4. [type |-> "PUBCOMP", id |-> p.id] \in Acks
    BY <1>2 DEF Acks
<1>5. /\ c2s' \in Seq(ToServer)
      /\ pendingWrite' \in ToServer \cup {None}
      /\ pubrelKeys' \in SUBSET Ids
      /\ outboundQueue' \in Seq(Acks)
      /\ budget' \in Budgets
    BY <1>4, SendAckType DEF HandlePubrel
<1>6. CASE ReleaseInbound(p.id)
    <2>1. inboundMsgs[p.id] \in SrvMsgs
        BY <1>2, <1>6 DEF ReleaseInbound, StateOK, SrvMsgs
    <2>2. delivered' \in [SrvMsgs -> 0 .. 2]
        BY <1>6, <2>1, DeliverType DEF ReleaseInbound, StateOK
    <2>3. /\ inboundMsgs' \in [SrvIds -> SrvMsgs2 \cup {None}]
          /\ rcvdKeys' \in [SrvIds -> SrvMsgs2 \cup {None}]
        BY <1>6 DEF ReleaseInbound, StateOK
    <2> QED BY <1>1, <1>3, <1>5, <2>2, <2>3 DEF StateOK
<1>7. CASE UNCHANGED <<delivered, rcvdKeys, inboundMsgs>>
    BY <1>1, <1>3, <1>5, <1>7 DEF StateOK
<1> QED BY <1>6, <1>7 DEF HandlePubrel

LEMMA WriteAvailableSpends ==
    ASSUME WriteAvailable
    PROVE  \E o \in Outcomes :
              \/ budget' = SpendOn(budget, o)
              \/ Allowed("drop") /\ budget' = Spend(SpendOn(budget, o), "drop")
BY DEF WriteAvailable

LEMMA WriteAvailableType == ASSUME StateOK, WriteAvailable PROVE StateOK'
<1>1. PICK n \in 0 .. Len(outboundQueue), outcome \in Outcomes :
         LET acks == [k \in 1 .. n |-> Packet(outboundQueue[k].type, outboundQueue[k].id, None)]
         IN  /\ Transmit(c2s, <<pendingWrite>> \o acks, outcome)
             /\ pubrelKeys' = PutPubrel(pubrelKeys, acks)
    BY DEF WriteAvailable
<1> DEFINE acks == [k \in 1 .. n |-> Packet(outboundQueue[k].type, outboundQueue[k].id, None)]
<1>2. acks \in Seq(ToServer)
    <2>1. outboundQueue \in Seq(Acks)
        BY DEF StateOK
    <2>2. Len(outboundQueue) \in Nat /\ \A k \in 1 .. Len(outboundQueue) : outboundQueue[k] \in Acks
        BY <2>1, SeqFacts
    <2>3. n \in Nat /\ \A k \in 1 .. n : Packet(outboundQueue[k].type, outboundQueue[k].id, None) \in ToServer
        BY <2>2, AckIsPacket
    <2>4. acks \in [1 .. n -> ToServer]
        BY <2>3
    <2> QED BY <2>3, <2>4, SeqOfFunction
<1>3. /\ Transmit(c2s, <<pendingWrite>> \o acks, outcome)
      /\ pubrelKeys' = PutPubrel(pubrelKeys, acks)
    BY <1>1
<1> HIDE DEF acks
<1>4. <<pendingWrite>> \o acks \in Seq(ToServer) /\ <<pendingWrite>> \o acks # <<>>
    <2>1. <<pendingWrite>> \in Seq(ToServer) /\ <<pendingWrite>> # <<>>
        BY DEF WriteAvailable, StateOK
    <2> QED BY <1>2, <2>1, ConcatProperties, ConcatEqualIffEmpty
<1>5. c2s' \in Seq(ToServer) /\ pendingWrite' \in ToServer \cup {None}
    BY <1>3, <1>4, TransmitType DEF StateOK
<1>6. pubrelKeys' \in SUBSET Ids
    BY <1>2, <1>3, PutPubrelType DEF StateOK
<1>7. budget' \in Budgets
    <2>1. budget \in Budgets
        BY DEF StateOK
    <2>2. PICK o \in Outcomes :
             \/ budget' = SpendOn(budget, o)
             \/ Allowed("drop") /\ budget' = Spend(SpendOn(budget, o), "drop")
        BY WriteAvailableSpends
    <2>3. SpendOn(budget, o) \in Budgets /\ SpendOn(budget, o)["drop"] = budget["drop"]
        BY <2>1, SpendOnType
    <2> QED BY <2>2, <2>3, SpendType DEF Allowed
<1>8. outboundQueue' = <<>> /\ <<>> \in Seq(Acks)
    BY EmptySeq DEF WriteAvailable
<1>9. /\ UNCHANGED <<connected, msgID, outboundMsgs, inboundMsgs, connect_count, connect_sent>>
      /\ UNCHANGED <<sentKeys, rcvdKeys, s2c, srvIds, srvOut, sentNow>>
      /\ UNCHANGED <<accepted, acked, refused, srvGot, srvSent, srvDone, delivered>>
    BY DEF WriteAvailable, serverVars, appVars
<1> QED BY <1>5, <1>6, <1>7, <1>8, <1>9 DEF StateOK

LEMMA CloseSocketType ==
    ASSUME CloseSocket
    PROVE  connected' = FALSE /\ pendingWrite' = None /\ s2c' = <<>> /\ s2c' \in Seq(ToClient)
BY EmptySeq DEF CloseSocket

(* The types of the variables of a session. *)
SessionTypes ==
    /\ msgID \in 0 .. MaxMsgId
    /\ outboundMsgs \in Seq(OutEntry)
    /\ inboundMsgs \in [SrvIds -> SrvMsgs2 \cup {None}]
    /\ sentKeys \in SentRecords
    /\ pubrelKeys \in SUBSET Ids
    /\ rcvdKeys \in [SrvIds -> SrvMsgs2 \cup {None}]

LEMMA StateHasSessionTypes == StateOK => SessionTypes
BY DEF StateOK, SessionTypes, SentRecords

LEMMA EmptySessionType ==
    ASSUME EmptySession
    PROVE  SessionTypes' /\ Matches(outboundMsgs', sentKeys')
<1>1. <<>> \in Seq(OutEntry) /\ 0 \in 0 .. MaxMsgId
    BY EmptySeq, MaxMsgIdAssumption
<1>2. SessionTypes'
    BY <1>1 DEF EmptySession, SessionTypes, SentRecords
<1>3. Matches(outboundMsgs', sentKeys')
    BY DEF EmptySession, Matches
<1> QED BY <1>2, <1>3

LEMMA SessionUnchangedType ==
    ASSUME StateOK, UNCHANGED sessionVars
    PROVE  SessionTypes'
BY DEF StateOK, sessionVars, SessionTypes, SentRecords

LEMMA ConnectionLostType == ASSUME StateOK, ConnectionLost PROVE StateOK'
<1>1. /\ UNCHANGED <<outboundQueue, connect_count, connect_sent, c2s, srvIds, srvOut, sentNow>>
      /\ UNCHANGED <<accepted, acked, refused, srvGot, srvSent, srvDone, delivered>>
    BY DEF ConnectionLost, serverVars, appVars
<1>2. budget' \in Budgets
    BY SpendType DEF ConnectionLost, Allowed, StateOK
<1>3. connected' = FALSE /\ pendingWrite' = None /\ s2c' \in Seq(ToClient)
    BY CloseSocketType DEF ConnectionLost
<1>4. SessionTypes'
    BY EmptySessionType, SessionUnchangedType DEF ConnectionLost
<1> QED BY <1>1, <1>2, <1>3, <1>4 DEF StateOK, SessionTypes, SentRecords

LEMMA AttemptsFacts ==
    ASSUME outboundMsgs \in Seq(OutEntry), NEW regardless, NEW outcome,
           NEW f \in Attempts(regardless, outcome)
    PROVE  \E n \in Nat \ {0} : f \in [1 .. n -> DOMAIN outboundMsgs]
<1>1. Len(outboundMsgs) \in Nat /\ DOMAIN outboundMsgs = 1 .. Len(outboundMsgs)
    BY SeqFacts
<1>2. CASE regardless
    <2>1. PICK n \in DOMAIN outboundMsgs : f = [k \in 1 .. n |-> k]
        BY <1>2 DEF Attempts
    <2>2. n \in Nat \ {0} /\ f \in [1 .. n -> DOMAIN outboundMsgs]
        BY <1>1, <2>1
    <2> QED BY <2>2
<1>3. CASE ~regardless
    <2>1. PICK n \in DOMAIN outboundMsgs : f \in [1 .. n -> DOMAIN outboundMsgs]
        BY <1>3 DEF Attempts
    <2>2. n \in Nat \ {0}
        BY <1>1
    <2> QED BY <2>1, <2>2
<1> QED BY <1>2, <1>3

(* The packets a retry sends, and that storing a PUBLISH again changes      *)
(* nothing when the store matches the list.                                 *)
LEMMA RetryPackets ==
    ASSUME outboundMsgs \in Seq(OutEntry), NEW regardless, NEW outcome,
           NEW f \in Attempts(regardless, outcome), NEW ps,
           ps = [k \in DOMAIN f |-> RetryPacket(outboundMsgs[f[k]])]
    PROVE  /\ Len(f) \in Nat /\ DOMAIN f = DOMAIN ps
           /\ ps \in Seq(ToServer) /\ ps # <<>>
           /\ \A k \in DOMAIN f : f[k] \in DOMAIN outboundMsgs /\ outboundMsgs[f[k]].m \in Msgs
           /\ sentKeys \in SentRecords /\ Matches(outboundMsgs, sentKeys)
                 => PutSent(sentKeys, ps) = sentKeys
<1>1. PICK n \in Nat \ {0} : f \in [1 .. n -> DOMAIN outboundMsgs]
    BY AttemptsFacts
<1>2. DOMAIN f = 1 .. n /\ Len(f) = n
    BY <1>1, SeqOfFunction
<1>3. \A k \in 1 .. n : f[k] \in DOMAIN outboundMsgs /\ outboundMsgs[f[k]] \in OutEntry
    BY <1>1, SeqFacts
<1>4. \A e \in OutEntry : RetryPacket(e) \in ToServer
    <2> TAKE e \in OutEntry
    <2>1. e.id \in Ids /\ e.m \in Msgs
        BY DEF OutEntry
    <2> QED BY <2>1 DEF RetryPacket, Packet, ToServer
<1>5. ps \in [1 .. n -> ToServer]
    BY <1>2, <1>3, <1>4
<1>6. ps \in Seq(ToServer) /\ Len(ps) = n
    BY <1>5, SeqOfFunction
<1>7. ps # <<>>
    BY <1>6, EmptySeq
<1>8. ASSUME sentKeys \in SentRecords, Matches(outboundMsgs, sentKeys)
      PROVE  PutSent(sentKeys, ps) = sentKeys
    <2>1. \A k \in DOMAIN ps : ps[k].type = "PUBLISH" => sentKeys[ps[k].id] = ps[k].m
        BY <1>2, <1>3, <1>8 DEF RetryPacket, Packet, Matches
    <2>2. PutSent(sentKeys, ps) = [i \in Ids |-> sentKeys[i]]
        BY <2>1 DEF PutSent
    <2> QED BY <1>8, <2>2 DEF SentRecords
<1>9. \A k \in DOMAIN f : f[k] \in DOMAIN outboundMsgs /\ outboundMsgs[f[k]].m \in Msgs
    BY <1>2, <1>3 DEF OutEntry
<1>10. Len(f) \in Nat /\ DOMAIN f = DOMAIN ps
    BY <1>2, <1>5
<1> QED BY <1>6, <1>7, <1>8, <1>9, <1>10

LEMMA RetryLoopType ==
    ASSUME StateOK, NEW regardless, NEW outcome, NEW f \in Attempts(regardless, outcome),
           NEW wire \in Seq(ToServer), NEW incoming \in Seq(ToClient), NEW now \in SUBSET Msgs,
           RetryLoop(f, regardless, outcome, wire, incoming, now)
    PROVE  /\ SessionTypes'
           /\ connect_sent' \in Nat
           /\ connected' \in BOOLEAN
           /\ c2s' \in Seq(ToServer) /\ pendingWrite' \in ToServer \cup {None}
           /\ s2c' \in Seq(ToClient)
           /\ sentNow' \subseteq Msgs
           /\ Matches(outboundMsgs, sentKeys) => Matches(outboundMsgs', sentKeys')
           /\ Matches(outboundMsgs, sentKeys) /\ ~CleanSession => UNCHANGED sentKeys
<1>0. /\ outboundMsgs \in Seq(OutEntry) /\ SessionTypes /\ connect_sent \in Nat
      /\ sentKeys \in SentRecords
    BY DEF StateOK, SessionTypes, SentRecords
<1> DEFINE ps == [k \in DOMAIN f |-> RetryPacket(outboundMsgs[f[k]])]
<1>1. /\ Len(f) \in Nat /\ DOMAIN f = DOMAIN ps
      /\ ps \in Seq(ToServer) /\ ps # <<>>
      /\ \A k \in DOMAIN f : f[k] \in DOMAIN outboundMsgs /\ outboundMsgs[f[k]].m \in Msgs
      /\ sentKeys \in SentRecords /\ Matches(outboundMsgs, sentKeys)
            => PutSent(sentKeys, ps) = sentKeys
    BY <1>0, RetryPackets
<1>2. connect_sent' \in Nat
    BY <1>0, <1>1 DEF RetryLoop
<1>3. \/ /\ CloseSocket
         /\ c2s' = wire \o Front(ps)
         /\ sentNow' = {}
      \/ /\ Transmit(wire, ps, outcome)
         /\ connected' = TRUE
         /\ s2c' = incoming
         /\ sentNow' = now \cup {outboundMsgs[f[k]].m : k \in DOMAIN f}
    BY DEF RetryLoop
<1>4. \/ EmptySession /\ CleanSession
      \/ /\ sentKeys' = PutSent(sentKeys, ps)
         /\ pubrelKeys' = PutPubrel(pubrelKeys, ps)
         /\ UNCHANGED <<msgID, outboundMsgs, inboundMsgs, rcvdKeys>>
    BY DEF RetryLoop, CleansOnClose
<1> HIDE DEF ps
<1>5. /\ connected' \in BOOLEAN
      /\ c2s' \in Seq(ToServer) /\ pendingWrite' \in ToServer \cup {None}
      /\ s2c' \in Seq(ToClient)
      /\ sentNow' \subseteq Msgs
    <2>1. Front(ps) \in Seq(ToServer)
        BY <1>1, FrontLastFacts
    <2>2. wire \o Front(ps) \in Seq(ToServer)
        BY <2>1, ConcatProperties
    <2>3. CASE CloseSocket /\ c2s' = wire \o Front(ps) /\ sentNow' = {}
        BY <2>2, <2>3, CloseSocketType
    <2>4. CASE /\ Transmit(wire, ps, outcome)
               /\ connected' = TRUE
               /\ s2c' = incoming
               /\ sentNow' = now \cup {outboundMsgs[f[k]].m : k \in DOMAIN f}
        <3>1. c2s' \in Seq(ToServer) /\ pendingWrite' \in ToServer \cup {None}
            BY <1>1, <2>4, TransmitType
        <3> QED BY <1>1, <2>4, <3>1
    <2> QED BY <1>3, <2>3, <2>4
<1>6. CASE EmptySession /\ CleanSession
    BY <1>2, <1>5, <1>6, EmptySessionType
<1>7. CASE /\ sentKeys' = PutSent(sentKeys, ps)
           /\ pubrelKeys' = PutPubrel(pubrelKeys, ps)
           /\ UNCHANGED <<msgID, outboundMsgs, inboundMsgs, rcvdKeys>>
    <2>1. PutSent(sentKeys, ps) \in SentRecords
        BY <1>0, <1>1, PutSentType DEF SentRecords
    <2>2. PutPubrel(pubrelKeys, ps) \in SUBSET Ids
        BY <1>0, <1>1, PutPubrelType DEF SessionTypes
    <2>3. SessionTypes'
        BY <1>0, <1>7, <2>1, <2>2 DEF SessionTypes
    <2>4. Matches(outboundMsgs, sentKeys) => UNCHANGED <<sentKeys, outboundMsgs>>
        BY <1>0, <1>1, <1>7
    <2>5. Matches(outboundMsgs, sentKeys) => Matches(outboundMsgs', sentKeys')
        BY <2>4
    <2> QED BY <1>2, <1>5, <2>3, <2>4, <2>5
<1> QED BY <1>4, <1>6, <1>7

LEMMA SpendOnRetryType ==
    ASSUME NEW outcome \in RetryOutcomes, NEW b \in Budgets,
           b["partial"] = budget["partial"], b["loss"] = budget["loss"]
    PROVE  SpendOnRetry(b, outcome) \in Budgets
<1>1. CASE outcome = "failed"
    <2>1. b["loss"] > 0
        BY <1>1 DEF RetryOutcomes, Outcomes, Allowed
    <2> QED BY <1>1, <2>1, SpendType DEF SpendOnRetry
<1>2. CASE outcome # "failed"
    <2>1. outcome \in Outcomes
        BY <1>2 DEF RetryOutcomes
    <2> QED BY <1>2, <2>1, SpendOnType DEF SpendOnRetry
<1> QED BY <1>1, <1>2

LEMMA RetryType ==
    ASSUME StateOK, Retry
    PROVE  /\ StateOK'
           /\ Matches(outboundMsgs, sentKeys) => Matches(outboundMsgs', sentKeys')
           /\ Matches(outboundMsgs, sentKeys) /\ ~CleanSession => UNCHANGED sentKeys
           /\ UNCHANGED <<accepted, acked, refused>>
<1>1. PICK outcome \in RetryOutcomes :
         \E f \in Attempts(connect_sent < connect_count, outcome) :
            /\ RetryLoop(f, connect_sent < connect_count, outcome, c2s, s2c, sentNow)
            /\ budget' = SpendOnRetry(Spend(budget, "retry"), outcome)
    BY DEF Retry
<1>2. PICK f \in Attempts(connect_sent < connect_count, outcome) :
         /\ RetryLoop(f, connect_sent < connect_count, outcome, c2s, s2c, sentNow)
         /\ budget' = SpendOnRetry(Spend(budget, "retry"), outcome)
    BY <1>1
<1>3. /\ UNCHANGED <<outboundQueue, connect_count, srvIds, srvOut>>
      /\ UNCHANGED <<accepted, acked, refused, srvGot, srvSent, srvDone, delivered>>
    BY DEF Retry, serverVars, appVars
<1>4. c2s \in Seq(ToServer) /\ s2c \in Seq(ToClient) /\ sentNow \in SUBSET Msgs
    BY DEF StateOK
<1>5. /\ SessionTypes'
      /\ connect_sent' \in Nat
      /\ connected' \in BOOLEAN
      /\ c2s' \in Seq(ToServer) /\ pendingWrite' \in ToServer \cup {None}
      /\ s2c' \in Seq(ToClient)
      /\ sentNow' \subseteq Msgs
      /\ Matches(outboundMsgs, sentKeys) => Matches(outboundMsgs', sentKeys')
      /\ Matches(outboundMsgs, sentKeys) /\ ~CleanSession => UNCHANGED sentKeys
    BY <1>2, <1>4, RetryLoopType
<1>6. budget' \in Budgets
    <2>1. budget \in Budgets /\ budget["retry"] > 0
        BY DEF Retry, Allowed, StateOK
    <2>2. /\ Spend(budget, "retry") \in Budgets
          /\ Spend(budget, "retry")["partial"] = budget["partial"]
          /\ Spend(budget, "retry")["loss"] = budget["loss"]
        BY <2>1, SpendType
    <2> QED BY <1>2, <2>2, SpendOnRetryType
<1> QED BY <1>3, <1>5, <1>6 DEF StateOK, SessionTypes, SentRecords

LEMMA SrvResendType == StateOK => SrvResend \in Seq(ToClient)
<1> SUFFICES ASSUME StateOK PROVE SrvResend \in Seq(ToClient)
    OBVIOUS
<1>1. srvOut \in Seq(SrvEntry)
    BY DEF StateOK
<1>2. /\ Len(srvOut) \in Nat
      /\ DOMAIN srvOut = 1 .. Len(srvOut)
      /\ \A k \in DOMAIN srvOut : srvOut[k] \in SrvEntry
    BY <1>1, SeqFacts
<1>3. SrvResend \in [1 .. Len(srvOut) -> ToClient]
    BY <1>2 DEF SrvResend, SrvEntry, Packet, ToClient
<1> QED BY <1>2, <1>3, SeqOfFunction

LEMMA ReconnectType ==
    ASSUME StateOK, NEW fresh \in BOOLEAN, Reconnect(fresh)
    PROVE  /\ StateOK'
           /\ Matches(outboundMsgs, sentKeys) => Matches(outboundMsgs', sentKeys')
           /\ Matches(outboundMsgs, sentKeys) /\ ~CleanSession /\ ~AsyncAPI => UNCHANGED sentKeys
           /\ UNCHANGED <<accepted, acked, refused>>
<1> DEFINE cleans   == CleanSession \/ (fresh /\ AsyncAPI)
           incoming == IF fresh THEN <<>> ELSE SrvResend
           spent    == IF fresh /\ ~CleanSession THEN Spend(budget, "forget") ELSE budget
<1>1. /\ IF fresh THEN CleanSession \/ Allowed("forget") ELSE ~CleanSession
      /\ IF fresh THEN srvIds' = {} /\ srvOut' = <<>> ELSE UNCHANGED serverVars
      /\ UNCHANGED <<outboundQueue, appVars>>
    BY DEF Reconnect
<1>2. \/ /\ IF cleans THEN EmptySession ELSE UNCHANGED sessionVars
         /\ connected' = TRUE
         /\ c2s' = <<>>
         /\ s2c' = incoming
         /\ sentNow' = {}
         /\ budget' = spent
         /\ UNCHANGED <<pendingWrite, connect_count, connect_sent>>
      \/ /\ connect_count' = Len(outboundMsgs)
         /\ \E outcome \in RetryOutcomes : \E f \in Attempts(TRUE, outcome) :
               /\ RetryLoop(f, TRUE, outcome, <<>>, incoming, {})
               /\ budget' = SpendOnRetry(spent, outcome)
    BY DEF Reconnect
<1>3. incoming \in Seq(ToClient) /\ <<>> \in Seq(ToServer) /\ <<>> \in Seq(SrvEntry)
    BY SrvResendType, EmptySeq
<1>4. spent \in Budgets /\ spent["partial"] = budget["partial"] /\ spent["loss"] = budget["loss"]
    <2>1. budget \in Budgets
        BY DEF StateOK
    <2>2. CASE fresh /\ ~CleanSession
        <3>1. budget["forget"] > 0
            BY <1>1, <2>2 DEF Allowed
        <3> QED BY <2>1, <2>2, <3>1, SpendType
    <2> QED BY <2>1, <2>2
<1>5. srvIds' \subseteq Ids /\ srvOut' \in Seq(SrvEntry)
    BY <1>1, <1>3 DEF StateOK, serverVars
<1> HIDE DEF cleans, incoming, spent
<1>6. CASE /\ IF cleans THEN EmptySession ELSE UNCHANGED sessionVars
           /\ connected' = TRUE
           /\ c2s' = <<>>
           /\ s2c' = incoming
           /\ sentNow' = {}
           /\ budget' = spent
           /\ UNCHANGED <<pendingWrite, connect_count, connect_sent>>
    <2>1. SessionTypes' /\ (Matches(outboundMsgs, sentKeys) => Matches(outboundMsgs', sentKeys'))
        BY <1>6, EmptySessionType, SessionUnchangedType DEF sessionVars
    <2>2. StateOK'
        BY <1>1, <1>3, <1>4, <1>5, <1>6, <2>1 DEF StateOK, SessionTypes, SentRecords, appVars
    <2>3. ~CleanSession /\ ~AsyncAPI => UNCHANGED sentKeys
        BY <1>6 DEF cleans, sessionVars
    <2> QED BY <1>1, <2>1, <2>2, <2>3 DEF appVars
<1>7. CASE /\ connect_count' = Len(outboundMsgs)
           /\ \E outcome \in RetryOutcomes : \E f \in Attempts(TRUE, outcome) :
                 /\ RetryLoop(f, TRUE, outcome, <<>>, incoming, {})
                 /\ budget' = SpendOnRetry(spent, outcome)
    <2>1. PICK outcome \in RetryOutcomes : \E f \in Attempts(TRUE, outcome) :
             /\ RetryLoop(f, TRUE, outcome, <<>>, incoming, {})
             /\ budget' = SpendOnRetry(spent, outcome)
        BY <1>7
    <2>2. PICK f \in Attempts(TRUE, outcome) :
             /\ RetryLoop(f, TRUE, outcome, <<>>, incoming, {})
             /\ budget' = SpendOnRetry(spent, outcome)
        BY <2>1
    <2>3. {} \in SUBSET Msgs
        OBVIOUS
    <2>4. /\ SessionTypes'
          /\ connect_sent' \in Nat
          /\ connected' \in BOOLEAN
          /\ c2s' \in Seq(ToServer) /\ pendingWrite' \in ToServer \cup {None}
          /\ s2c' \in Seq(ToClient)
          /\ sentNow' \subseteq Msgs
          /\ Matches(outboundMsgs, sentKeys) => Matches(outboundMsgs', sentKeys')
          /\ Matches(outboundMsgs, sentKeys) /\ ~CleanSession => UNCHANGED sentKeys
        BY <1>3, <2>2, <2>3, RetryLoopType
    <2>5. connect_count' \in Nat
        BY <1>7 DEF StateOK
    <2>6. budget' \in Budgets
        BY <1>4, <2>2, SpendOnRetryType
    <2>7. StateOK'
        BY <1>1, <1>5, <2>4, <2>5, <2>6 DEF StateOK, SessionTypes, SentRecords, appVars
    <2> QED BY <1>1, <2>4, <2>7 DEF appVars
<1> QED BY <1>2, <1>6, <1>7

LEMMA RestoreType ==
    ASSUME NEW sent \in SentRecords, NEW pubrel \in SUBSET Ids,
           NEW rcvd \in [SrvIds -> SrvMsgs2 \cup {None}],
           Restore(sent, pubrel, rcvd)
    PROVE  /\ SessionTypes'
           /\ connected' = FALSE /\ pendingWrite' = None /\ s2c' \in Seq(ToClient)
           /\ outboundQueue' \in Seq(Acks)
           /\ connect_count' \in Nat /\ connect_sent' \in Nat
           /\ sentKeys' = sent
           /\ Matches(outboundMsgs', sentKeys')
<1>1. PICK s \in InIdOrder(Restored(sent, pubrel)) : outboundMsgs' = WrapMsgID(s)
    BY DEF Restore
<1>2. s \in Seq(OutEntry) /\ Matches(s, sent)
    BY RestoredMatches
<1>3. outboundMsgs' \in Seq(OutEntry) /\ Matches(outboundMsgs', sent)
    BY <1>1, <1>2, WrapMatches
<1>4. /\ msgID' = 0 /\ sentKeys' = sent /\ rcvdKeys' = rcvd
      /\ inboundMsgs' = rcvd
      /\ pubrelKeys' = {i \in pubrel : sent[i] # None}
      /\ outboundQueue' = <<>> /\ connect_count' = 0 /\ connect_sent' = 0
    BY DEF Restore, RestoredInbound
<1>5. 0 \in 0 .. MaxMsgId /\ <<>> \in Seq(Acks)
    BY MaxMsgIdAssumption, EmptySeq
<1>6. connected' = FALSE /\ pendingWrite' = None /\ s2c' \in Seq(ToClient)
    BY CloseSocketType DEF Restore
<1>7. SessionTypes'
    BY <1>3, <1>4, <1>5 DEF SessionTypes
<1> QED BY <1>3, <1>4, <1>5, <1>6, <1>7

LEMMA CrashType ==
    ASSUME StateOK, Crash
    PROVE  StateOK' /\ Matches(outboundMsgs', sentKeys') /\ sentKeys' = sentKeys
<1>1. /\ UNCHANGED <<c2s, srvIds, srvOut, sentNow>>
      /\ UNCHANGED <<accepted, acked, refused, srvGot, srvSent, srvDone, delivered>>
    BY DEF Crash, serverVars, appVars
<1>2. budget' \in Budgets
    BY SpendType DEF Crash, Allowed, StateOK
<1>3. SessionTypes
    BY StateHasSessionTypes
<1>4. /\ SessionTypes'
      /\ connected' = FALSE /\ pendingWrite' = None /\ s2c' \in Seq(ToClient)
      /\ outboundQueue' \in Seq(Acks)
      /\ connect_count' \in Nat /\ connect_sent' \in Nat
      /\ sentKeys' = sentKeys
      /\ Matches(outboundMsgs', sentKeys')
    BY <1>3, RestoreType DEF Crash, SessionTypes
<1> QED BY <1>1, <1>2, <1>4 DEF StateOK, SessionTypes, SentRecords

(* A kill inside a handler leaves the records of the sent messages alone,   *)
(* or removes the one of a message that has been answered.                  *)
LEMMA CrashInHandlerType ==
    ASSUME StateOK, NEW p, CrashInHandler(p)
    PROVE  /\ StateOK' /\ Matches(outboundMsgs', sentKeys')
           /\ \/ sentKeys' = sentKeys /\ acked' = acked /\ refused' = refused
              \/ \E k \in DOMAIN outboundMsgs :
                    /\ sentKeys' = [sentKeys EXCEPT ![outboundMsgs[k].id] = None]
                    /\ acked' \cup refused' = acked \cup refused \cup {outboundMsgs[k].m}
<1>1. /\ UNCHANGED <<c2s, srvIds, srvOut, sentNow>>
      /\ UNCHANGED <<accepted, srvGot, srvSent, srvDone>>
      /\ s2c # <<>> /\ p = Head(s2c)
    BY DEF CrashInHandler, serverVars
<1>2. budget' \in Budgets
    BY SpendType DEF CrashInHandler, Allowed, StateOK
<1>3. p \in ToClient
    <2>1. s2c \in Seq(ToClient)
        BY DEF StateOK
    <2>2. Head(s2c) \in ToClient
        BY <1>1, <2>1, HeadTailProperties
    <2> QED BY <1>1, <2>2
<1>4. SessionTypes
    BY StateHasSessionTypes
<1> DEFINE Goal(sent) ==
       /\ SessionTypes'
       /\ connected' = FALSE /\ pendingWrite' = None /\ s2c' \in Seq(ToClient)
       /\ outboundQueue' \in Seq(Acks)
       /\ connect_count' \in Nat /\ connect_sent' \in Nat
       /\ sentKeys' = sent
       /\ Matches(outboundMsgs', sentKeys')
<1>5. CASE /\ p.type = "PUBLISH" /\ p.m \in SrvMsgs2
           /\ Restore(sentKeys, pubrelKeys, [rcvdKeys EXCEPT ![p.id] = p.m])
           /\ UNCHANGED <<delivered, acked, refused>>
    <2>1. [rcvdKeys EXCEPT ![p.id] = p.m] \in [SrvIds -> SrvMsgs2 \cup {None}]
        BY <1>4, <1>5 DEF SessionTypes
    <2>2. Goal(sentKeys)
        BY <1>4, <1>5, <2>1, RestoreType DEF SessionTypes
    <2> QED BY <1>1, <1>2, <1>5, <2>2 DEF StateOK, SessionTypes, SentRecords
<1>6. CASE /\ p.type = "PUBREL" /\ ~V5 /\ inboundMsgs[p.id] # None
           /\ Deliver(inboundMsgs[p.id])
           /\ Restore(sentKeys, pubrelKeys, rcvdKeys)
           /\ UNCHANGED <<acked, refused>>
    <2>1. p.id \in SrvIds
        BY <1>3, <1>6, ToClientFields
    <2>2. inboundMsgs[p.id] \in SrvMsgs
        BY <1>4, <1>6, <2>1 DEF SessionTypes, SrvMsgs
    <2>3. delivered' \in [SrvMsgs -> 0 .. 2]
        BY <1>6, <2>2, DeliverType
    <2>4. Goal(sentKeys)
        BY <1>4, <1>6, RestoreType DEF SessionTypes
    <2> QED BY <1>1, <1>2, <1>6, <2>3, <2>4 DEF StateOK, SessionTypes, SentRecords
<1>7. CASE /\ p.type \in {"PUBACK", "PUBCOMP"}
           /\ \E k \in Waiting(p.id, p.type) :
                 IF p.ok THEN acked' = acked \cup {outboundMsgs[k].m} /\ UNCHANGED refused
                 ELSE refused' = refused \cup {outboundMsgs[k].m} /\ UNCHANGED acked
           /\ Restore([sentKeys EXCEPT ![p.id] = None], pubrelKeys, rcvdKeys)
           /\ UNCHANGED delivered
    <2>1. PICK k \in Waiting(p.id, p.type) :
             IF p.ok THEN acked' = acked \cup {outboundMsgs[k].m} /\ UNCHANGED refused
             ELSE refused' = refused \cup {outboundMsgs[k].m} /\ UNCHANGED acked
        BY <1>7
    <2>2. k \in DOMAIN outboundMsgs /\ outboundMsgs[k].id = p.id
        BY DEF Waiting
    <2>3. outboundMsgs[k].m \in Msgs
        <3>1. outboundMsgs[k] \in OutEntry
            BY <1>4, <2>2, SeqFacts DEF SessionTypes
        <3> QED BY <3>1 DEF OutEntry
    <2>4. [sentKeys EXCEPT ![p.id] = None] \in SentRecords
        BY <1>4 DEF SessionTypes, SentRecords
    <2>5. Goal([sentKeys EXCEPT ![p.id] = None])
        BY <1>4, <1>7, <2>4, RestoreType DEF SessionTypes
    <2>6. acked' \subseteq Msgs /\ refused' \subseteq Msgs
        BY <2>1, <2>3 DEF StateOK
    <2>7. StateOK'
        BY <1>1, <1>2, <1>7, <2>5, <2>6 DEF StateOK, SessionTypes, SentRecords
    <2>8. acked' \cup refused' = acked \cup refused \cup {outboundMsgs[k].m}
        BY <2>1
    <2> QED BY <2>2, <2>5, <2>7, <2>8
<1> QED BY <1>5, <1>6, <1>7 DEF CrashInHandler

LEMMA SrvReceiveType ==
    ASSUME StateOK, NEW p, NEW types, SrvReceive(p, types)
    PROVE  p \in ToServer /\ p.type \in types /\ c2s' \in Seq(ToServer)
<1>1. /\ c2s \in Seq(ToServer) /\ c2s # <<>> /\ p = Head(c2s) /\ c2s' = Tail(c2s)
      /\ p.type \in types
    BY DEF SrvReceive, StateOK
<1>2. Head(c2s) \in ToServer /\ Tail(c2s) \in Seq(ToServer)
    BY <1>1, HeadTailProperties
<1> QED BY <1>1, <1>2

LEMMA SrvReplyType ==
    ASSUME StateOK, NEW p \in ToClient, SrvReply(p)
    PROVE  s2c' \in Seq(ToClient)
<1>1. s2c \in Seq(ToClient)
    BY DEF StateOK
<1>2. Append(s2c, p) \in Seq(ToClient)
    BY <1>1, AppendFacts
<1> QED BY <1>1, <1>2 DEF SrvReply

LEMMA SrvTakeType ==
    ASSUME StateOK, NEW m \in Msgs, SrvTake(m)
    PROVE  srvGot' \in [Msgs -> 0 .. 2]
<1>1. srvGot \in [Msgs -> 0 .. 2]
    BY DEF StateOK
<1>2. AtMost2(srvGot[m]) \in 0 .. 2
    BY <1>1 DEF AtMost2
<1> QED BY <1>1, <1>2 DEF SrvTake

(* What the server's steps leave alone. *)
SrvUnchanged ==
    /\ UNCHANGED <<connected, msgID, outboundMsgs, inboundMsgs, outboundQueue>>
    /\ UNCHANGED <<connect_count, connect_sent, sentKeys, pubrelKeys, rcvdKeys>>
    /\ UNCHANGED <<pendingWrite, accepted, acked, refused, delivered, sentNow, budget>>

LEMMA SrvPublishType == ASSUME StateOK, NEW p, SrvPublish(p) PROVE StateOK' /\ SrvUnchanged
<1>1. p \in ToServer /\ p.type \in {"PUBLISH"} /\ c2s' \in Seq(ToServer)
    BY SrvReceiveType DEF SrvPublish
<1>2. p.id \in Ids /\ p.m \in Msgs
    BY <1>1, ToServerFields
<1>3. SrvUnchanged /\ UNCHANGED <<srvOut, srvSent, srvDone>>
    BY DEF SrvPublish, SrvUnchanged, clientVars, storeVars
<1>4. /\ Packet("PUBACK", p.id, None) \in ToClient
      /\ [Packet("PUBACK", p.id, None) EXCEPT !.ok = FALSE] \in ToClient
      /\ Packet("PUBREC", p.id, None) \in ToClient
      /\ PubrecError(p.id) \in ToClient
    BY <1>2 DEF Packet, PubrecError, ToClient
<1>5. CASE SrvPublishQoS1(p)
    <2>1. s2c' \in Seq(ToClient)
        BY <1>4, <1>5, SrvReplyType DEF SrvPublishQoS1
    <2>2. srvGot' \in [Msgs -> 0 .. 2]
        BY <1>2, <1>5, SrvTakeType DEF SrvPublishQoS1, StateOK
    <2>3. UNCHANGED srvIds
        BY <1>5 DEF SrvPublishQoS1
    <2> QED BY <1>1, <1>3, <2>1, <2>2, <2>3 DEF StateOK, SrvUnchanged
<1>6. CASE SrvPublishQoS2(p)
    <2>1. s2c' \in Seq(ToClient)
        BY <1>4, <1>6, SrvReplyType DEF SrvPublishQoS2
    <2>2. srvGot' \in [Msgs -> 0 .. 2]
        BY <1>2, <1>6, SrvTakeType DEF SrvPublishQoS2, StateOK
    <2>3. srvIds' \subseteq Ids
        BY <1>2, <1>6 DEF SrvPublishQoS2, StateOK
    <2> QED BY <1>1, <1>3, <2>1, <2>2, <2>3 DEF StateOK, SrvUnchanged
<1> QED BY <1>5, <1>6 DEF SrvPublish

LEMMA SrvPubrelType == ASSUME StateOK, NEW p, SrvPubrel(p) PROVE StateOK' /\ SrvUnchanged
<1>1. p \in ToServer /\ p.type \in {"PUBREL"} /\ c2s' \in Seq(ToServer)
    BY SrvReceiveType DEF SrvPubrel
<1>2. Packet("PUBCOMP", p.id, None) \in ToClient
    BY <1>1, ToServerFields DEF Packet, ToClient
<1>3. s2c' \in Seq(ToClient)
    BY <1>2, SrvReplyType DEF SrvPubrel
<1>4. SrvUnchanged /\ UNCHANGED <<srvOut, srvGot, srvSent, srvDone>> /\ srvIds' \subseteq srvIds
    BY DEF SrvPubrel, SrvUnchanged, clientVars, storeVars, appVars
<1> QED BY <1>1, <1>3, <1>4 DEF StateOK, SrvUnchanged

LEMMA SrvSendType == ASSUME StateOK, NEW m \in SrvMsgs, SrvSend(m) PROVE StateOK' /\ SrvUnchanged
<1>1. PICK i \in SrvIds :
         /\ srvOut' = Append(srvOut,
                [id |-> i, m |-> m, next |-> IF m \in SrvMsgs2 THEN "PUBREC" ELSE "PUBACK"])
         /\ SrvReply(Packet("PUBLISH", i, m))
    BY DEF SrvSend
<1>2. Packet("PUBLISH", i, m) \in ToClient
    BY DEF Packet, ToClient
<1>3. s2c' \in Seq(ToClient)
    BY <1>1, <1>2, SrvReplyType
<1>4. srvOut' \in Seq(SrvEntry)
    <2> DEFINE e == [id |-> i, m |-> m, next |-> IF m \in SrvMsgs2 THEN "PUBREC" ELSE "PUBACK"]
    <2>1. e \in SrvEntry
        BY DEF SrvEntry
    <2>2. srvOut \in Seq(SrvEntry) /\ srvOut' = Append(srvOut, e)
        BY <1>1 DEF StateOK
    <2> HIDE DEF e
    <2> QED BY <2>1, <2>2, AppendFacts
<1>5. SrvUnchanged /\ UNCHANGED <<c2s, srvIds, srvGot, srvDone>> /\ srvSent' = srvSent \cup {m}
    BY DEF SrvSend, SrvUnchanged, clientVars, storeVars
<1> QED BY <1>3, <1>4, <1>5 DEF StateOK, SrvUnchanged

LEMMA SrvFinalAckType == ASSUME StateOK, NEW p, SrvFinalAck(p) PROVE StateOK' /\ SrvUnchanged
<1>1. c2s' \in Seq(ToServer)
    BY SrvReceiveType DEF SrvFinalAck
<1>2. SrvUnchanged /\ UNCHANGED <<s2c, srvIds, srvGot, srvSent>>
    BY DEF SrvFinalAck, SrvUnchanged, clientVars, storeVars
<1>3. srvOut' \in Seq(SrvEntry) /\ srvDone' \subseteq SrvMsgs
    <2>1. srvOut \in Seq(SrvEntry) /\ srvDone \subseteq SrvMsgs
        BY DEF StateOK
    <2>2. ASSUME NEW k \in DOMAIN srvOut
          PROVE  RemoveAt(srvOut, k) \in Seq(SrvEntry) /\ srvOut[k].m \in SrvMsgs
        <3>1. srvOut[k] \in SrvEntry
            BY <2>1, SeqFacts
        <3>2. RemoveAt(srvOut, k) \in Seq(SrvEntry)
            BY <2>1, RemoveAtFacts
        <3> QED BY <3>1, <3>2 DEF SrvEntry
    <2> QED BY <2>1, <2>2 DEF SrvFinalAck, SrvWaiting
<1> QED BY <1>1, <1>2, <1>3 DEF StateOK, SrvUnchanged

LEMMA SrvPubrecType == ASSUME StateOK, NEW p, SrvPubrec(p) PROVE StateOK' /\ SrvUnchanged
<1>1. p \in ToServer /\ p.type \in {"PUBREC"} /\ c2s' \in Seq(ToServer)
    BY SrvReceiveType DEF SrvPubrec
<1>2. Packet("PUBREL", p.id, None) \in ToClient
    BY <1>1, ToServerFields DEF Packet, ToClient
<1>3. s2c' \in Seq(ToClient)
    BY <1>2, SrvReplyType DEF SrvPubrec
<1>4. srvOut' \in Seq(SrvEntry)
    <2>1. srvOut \in Seq(SrvEntry)
        BY DEF StateOK
    <2>2. /\ Len(srvOut) \in Nat
          /\ DOMAIN srvOut = 1 .. Len(srvOut)
          /\ \A k \in DOMAIN srvOut : srvOut[k] \in SrvEntry
        BY <2>1, SeqFacts
    <2>3. srvOut' \in [1 .. Len(srvOut) -> SrvEntry]
        BY <2>2 DEF SrvPubrec, SrvEntry
    <2> QED BY <2>2, <2>3, SeqOfFunction
<1>5. SrvUnchanged /\ UNCHANGED <<srvIds, srvGot, srvSent, srvDone>>
    BY DEF SrvPubrec, SrvUnchanged, clientVars, storeVars, appVars
<1> QED BY <1>1, <1>3, <1>4, <1>5 DEF StateOK, SrvUnchanged

LEMMA InitType == Init => StateOK
<1>1. <<>> \in Seq(OutEntry) /\ <<>> \in Seq(Acks) /\ <<>> \in Seq(ToServer)
    BY EmptySeq
<1>2. <<>> \in Seq(ToClient) /\ <<>> \in Seq(SrvEntry) /\ <<>> \in Seq(Msgs)
    BY EmptySeq
<1>3. Init => msgID \in 0 .. MaxMsgId /\ budget \in Budgets
    BY SessionAssumption DEF Init, Scenario
<1> QED BY <1>1, <1>2, <1>3 DEF Init, StateOK

(* A step of the client's receive thread. *)
LEMMA ClientStepType == StateOK /\ ClientStep => StateOK'
BY HandlePublishType, HandleFinalAckType, HandlePubrecType, HandlePubrelType,
   WriteAvailableType DEF ClientStep, HandlePuback, HandlePubcomp

LEMMA ServerStepType == StateOK /\ ServerStep => StateOK' /\ SrvUnchanged
BY SrvPublishType, SrvPubrelType, SrvFinalAckType, SrvPubrecType DEF ServerStep

LEMMA TypeStep == StateOK /\ [Next]_vars => StateOK'
<1> SUFFICES ASSUME StateOK, [Next]_vars PROVE StateOK'
    OBVIOUS
<1>1. CASE ClientStep BY <1>1, ClientStepType
<1>2. CASE \E m \in Msgs : Publish(m) BY <1>2, PublishType
<1>3. CASE ConnectionLost BY <1>3, ConnectionLostType
<1>4. CASE Retry BY <1>4, RetryType
<1>5. CASE Connect BY <1>5, ReconnectType DEF Connect
<1>6. CASE Crash BY <1>6, CrashType
<1>7. CASE \E p \in InNet : CrashInHandler(p) BY <1>7, CrashInHandlerType
<1>8. CASE ServerStep BY <1>8, ServerStepType
<1>9. CASE \E m \in SrvMsgs : SrvSend(m) BY <1>9, SrvSendType
<1>10. CASE UNCHANGED vars
    BY <1>10 DEF vars, clientVars, storeVars, netVars, serverVars, appVars, StateOK
<1> QED BY <1>1, <1>2, <1>3, <1>4, <1>5, <1>6, <1>7, <1>8, <1>9, <1>10 DEF Next, Event

(* Every variable of the session keeps its type: the ids in the lists, the  *)
(* queues and the packets are ids of the right direction, whatever the      *)
(* order of handlers, losses and restarts.                                  *)
THEOREM TypeCorrect == Spec => []TypeOK
<1>1. Init => TypeOK
    BY InitType DEF Init, TypeOK
<1>2. TypeOK /\ [Next]_vars => TypeOK'
    BY TypeStep DEF TypeOK, Next, ClientStep, ServerStep, Connect, Event, vars
<1> QED BY <1>1, <1>2, PTL DEF Spec

-----------------------------------------------------------------------------
(* The store and the list agree                                             *)

StoreInv == StateOK /\ Matches(outboundMsgs, sentKeys)

(* A message that is published and not answered has a record. *)
KeptInStore ==
    \A m \in ToSet(accepted) \ (acked \cup refused) : \E i \in Ids : sentKeys[i] = m

LEMMA PublishStore ==
    ASSUME StoreInv, NEW m \in Msgs, Publish(m)
    PROVE  /\ Matches(outboundMsgs', sentKeys')
           /\ KeptInStore => KeptInStore'
<1> DEFINE id == AssignMsgId(msgID, OutIds)
           p == <<Packet("PUBLISH", id, m)>>
           e == [id |-> id, m |-> m, next |-> FirstAck(m)]
<1>1. id \in Ids \ OutIds
    BY AssignedIsFree DEF Publish, StateOK, StoreInv
<1>2. /\ outboundMsgs' = Append(outboundMsgs, e)
      /\ sentKeys' = PutSent(sentKeys, p)
      /\ accepted' = Append(accepted, m)
      /\ UNCHANGED <<acked, refused>>
    BY DEF Publish
<1>3. \A k \in DOMAIN outboundMsgs : outboundMsgs[k].id # id
    BY <1>1 DEF OutIds
<1> HIDE DEF id
<1>4. sentKeys \in SentRecords /\ outboundMsgs \in Seq(OutEntry) /\ accepted \in Seq(Msgs)
    BY DEF StoreInv, StateOK, SentRecords
<1>5. sentKeys' = [sentKeys EXCEPT ![id] = m]
    <2>1. \A i \in Ids : PutSent(sentKeys, p)[i] = IF i = id THEN m ELSE sentKeys[i]
        <3>1. DOMAIN p = {1} /\ p[1].type = "PUBLISH" /\ p[1].id = id /\ p[1].m = m
            BY DEF Packet
        <3> HIDE DEF p
        <3> QED BY <3>1 DEF PutSent
    <2>2. PutSent(sentKeys, p) = [i \in Ids |-> IF i = id THEN m ELSE sentKeys[i]]
        <3> HIDE DEF p
        <3> QED BY <2>1 DEF PutSent
    <2> QED BY <1>2, <1>4, <2>2 DEF SentRecords
<1>6. sentKeys[id] = None
    BY <1>1, <1>3 DEF StoreInv, Matches
<1>7. e \in OutEntry
    BY <1>1 DEF OutEntry, FirstAck
<1>8. e.id = id /\ e.m = m
    OBVIOUS
<1> HIDE DEF e, p
<1>9. /\ DOMAIN outboundMsgs' = 1 .. (Len(outboundMsgs) + 1)
      /\ outboundMsgs'[Len(outboundMsgs) + 1] = e
      /\ \A k \in DOMAIN outboundMsgs : outboundMsgs'[k] = outboundMsgs[k]
      /\ DOMAIN outboundMsgs = 1 .. Len(outboundMsgs) /\ Len(outboundMsgs) \in Nat
      /\ \A k \in DOMAIN outboundMsgs : outboundMsgs[k].id \in Ids
    <2>1. \A k \in DOMAIN outboundMsgs : outboundMsgs[k] \in OutEntry
        BY <1>4, SeqFacts
    <2>2. \A k \in DOMAIN outboundMsgs : outboundMsgs[k].id \in Ids
        BY <2>1 DEF OutEntry
    <2>3. DOMAIN outboundMsgs = 1 .. Len(outboundMsgs) /\ Len(outboundMsgs) \in Nat
        BY <1>4, SeqFacts
    <2> QED BY <1>2, <1>4, <1>7, <2>2, <2>3, AppendFacts
<1>10. \A k \in DOMAIN outboundMsgs' :
          \/ k = Len(outboundMsgs) + 1 /\ outboundMsgs'[k] = e
          \/ k \in DOMAIN outboundMsgs /\ outboundMsgs'[k] = outboundMsgs[k]
    BY <1>9
<1>11. \A k, l \in DOMAIN outboundMsgs' : outboundMsgs'[k].id = outboundMsgs'[l].id => k = l
    BY <1>3, <1>8, <1>10 DEF StoreInv, Matches
<1>12. \A k \in DOMAIN outboundMsgs' : sentKeys'[outboundMsgs'[k].id] = outboundMsgs'[k].m
    <2> TAKE k \in DOMAIN outboundMsgs'
    <2>1. CASE k = Len(outboundMsgs) + 1 /\ outboundMsgs'[k] = e
        BY <1>1, <1>4, <1>5, <1>8, <2>1 DEF SentRecords
    <2>2. CASE k \in DOMAIN outboundMsgs /\ outboundMsgs'[k] = outboundMsgs[k]
        <3>1. sentKeys[outboundMsgs[k].id] = outboundMsgs[k].m
            BY <2>2 DEF StoreInv, Matches
        <3> QED BY <1>3, <1>4, <1>5, <1>9, <2>2, <3>1 DEF SentRecords
    <2> QED BY <1>10, <2>1, <2>2
<1>13. \A i \in Ids : sentKeys'[i] # None => \E k \in DOMAIN outboundMsgs' : outboundMsgs'[k].id = i
    <2> TAKE i \in Ids
    <2> HAVE sentKeys'[i] # None
    <2>1. CASE i = id
        BY <1>8, <1>9, <2>1
    <2>2. CASE i # id
        <3>1. sentKeys[i] # None
            BY <1>4, <1>5, <2>2 DEF SentRecords
        <3>2. PICK k \in DOMAIN outboundMsgs : outboundMsgs[k].id = i
            BY <3>1 DEF StoreInv, Matches
        <3>3. k \in DOMAIN outboundMsgs' /\ outboundMsgs'[k].id = i
            BY <1>9, <3>2
        <3> QED BY <3>3
    <2> QED BY <2>1, <2>2
<1>14. Matches(outboundMsgs', sentKeys')
    BY <1>11, <1>12, <1>13 DEF Matches
<1>15. KeptInStore => KeptInStore'
    <2> SUFFICES ASSUME KeptInStore, NEW x \in ToSet(accepted') \ (acked' \cup refused')
                 PROVE  \E i \in Ids : sentKeys'[i] = x
        BY DEF KeptInStore
    <2>1. CASE x = m
        BY <1>1, <1>4, <1>5, <2>1 DEF SentRecords
    <2>2. CASE x # m
        <3>1. x \in ToSet(accepted) /\ x \in Msgs
            <4>1. PICK k \in DOMAIN accepted' : x = accepted'[k]
                BY DEF ToSet
            <4>2. /\ DOMAIN accepted' = 1 .. (Len(accepted) + 1)
                  /\ accepted'[Len(accepted) + 1] = m
                  /\ \A j \in DOMAIN accepted : accepted'[j] = accepted[j]
                BY <1>2, <1>4, AppendFacts
            <4>3. /\ Len(accepted) \in Nat /\ DOMAIN accepted = 1 .. Len(accepted)
                  /\ \A j \in DOMAIN accepted : accepted[j] \in Msgs
                BY <1>4, SeqFacts
            <4>4. k \in DOMAIN accepted
                BY <2>2, <4>1, <4>2, <4>3
            <4> QED BY <4>1, <4>2, <4>3, <4>4 DEF ToSet
        <3>2. PICK i \in Ids : sentKeys[i] = x
            BY <1>2, <3>1 DEF KeptInStore
        <3>3. i # id
            BY <1>6, <3>1, <3>2, NoneFacts
        <3> QED BY <1>4, <1>5, <3>2, <3>3 DEF SentRecords
    <2> QED BY <2>1, <2>2
<1> QED BY <1>14, <1>15

LEMMA EndExchangeStore ==
    ASSUME StoreInv, NEW k \in DOMAIN outboundMsgs, NEW ok, EndExchange(k, ok),
           UNCHANGED accepted
    PROVE  /\ Matches(outboundMsgs', sentKeys')
           /\ KeptInStore => KeptInStore'
<1> DEFINE n == Len(outboundMsgs)
           e == outboundMsgs[k]
<1>1. sentKeys \in SentRecords /\ outboundMsgs \in Seq(OutEntry)
    BY DEF StoreInv, StateOK, SentRecords
<1>2. n \in Nat /\ DOMAIN outboundMsgs = 1 .. n /\ k \in 1 .. n
    BY <1>1, SeqFacts
<1>3. \A j \in 1 .. n : outboundMsgs[j] \in OutEntry
    BY <1>1, SeqFacts
<1>4. \A j \in 1 .. n : outboundMsgs[j].id \in Ids
    BY <1>3 DEF OutEntry
<1>5. /\ sentKeys' = [sentKeys EXCEPT ![e.id] = None]
      /\ outboundMsgs' = RemoveAt(outboundMsgs, k)
      /\ acked' \cup refused' = acked \cup refused \cup {e.m}
    BY DEF EndExchange
<1>6. /\ DOMAIN outboundMsgs' = 1 .. (n - 1)
      /\ \A j \in 1 .. (n - 1) :
            outboundMsgs'[j] = IF j < k THEN outboundMsgs[j] ELSE outboundMsgs[j + 1]
    BY <1>1, <1>5, RemoveAtFacts
<1> DEFINE old(j) == IF j < k THEN j ELSE j + 1
<1> HIDE DEF n
<1>7. \A j \in 1 .. (n - 1) : old(j) \in 1 .. n /\ old(j) # k /\ outboundMsgs'[j] = outboundMsgs[old(j)]
    BY <1>2, <1>6
<1>8. \A i, j \in 1 .. (n - 1) : old(i) = old(j) => i = j
    BY <1>2
<1>9. \A l \in 1 .. n : l # k => \E j \in 1 .. (n - 1) : old(j) = l
    <2> TAKE l \in 1 .. n
    <2> HAVE l # k
    <2> DEFINE j == IF l < k THEN l ELSE l - 1
    <2>1. j \in 1 .. (n - 1) /\ old(j) = l
        BY <1>2
    <2> QED BY <2>1
<1> HIDE DEF old
<1>10. \A i, j \in DOMAIN outboundMsgs' : outboundMsgs'[i].id = outboundMsgs'[j].id => i = j
    <2> TAKE i, j \in DOMAIN outboundMsgs'
    <2> HAVE outboundMsgs'[i].id = outboundMsgs'[j].id
    <2>1. old(i) \in 1 .. n /\ old(j) \in 1 .. n /\ outboundMsgs[old(i)].id = outboundMsgs[old(j)].id
        BY <1>6, <1>7
    <2>2. old(i) = old(j)
        BY <1>2, <2>1 DEF StoreInv, Matches
    <2> QED BY <1>6, <1>8, <2>2
<1>11. \A j \in DOMAIN outboundMsgs' : sentKeys'[outboundMsgs'[j].id] = outboundMsgs'[j].m
    <2> TAKE j \in DOMAIN outboundMsgs'
    <2>1. old(j) \in 1 .. n /\ old(j) # k /\ outboundMsgs'[j] = outboundMsgs[old(j)]
        BY <1>6, <1>7
    <2>2. outboundMsgs[old(j)].id # e.id /\ sentKeys[outboundMsgs[old(j)].id] = outboundMsgs[old(j)].m
        BY <1>2, <2>1 DEF StoreInv, Matches
    <2>3. outboundMsgs[old(j)].id \in Ids
        BY <1>4, <2>1
    <2> QED BY <1>1, <1>5, <2>1, <2>2, <2>3 DEF SentRecords
<1>12. \A i \in Ids : sentKeys'[i] # None => \E j \in DOMAIN outboundMsgs' : outboundMsgs'[j].id = i
    <2> TAKE i \in Ids
    <2> HAVE sentKeys'[i] # None
    <2>1. i # e.id /\ sentKeys[i] # None
        BY <1>1, <1>5 DEF SentRecords
    <2>2. PICK l \in 1 .. n : outboundMsgs[l].id = i
        BY <1>2, <2>1 DEF StoreInv, Matches
    <2>3. PICK j \in 1 .. (n - 1) : old(j) = l
        BY <1>9, <2>1, <2>2
    <2> QED BY <1>6, <1>7, <2>2, <2>3
<1>13. Matches(outboundMsgs', sentKeys')
    BY <1>10, <1>11, <1>12 DEF Matches
<1>14. KeptInStore => KeptInStore'
    <2> SUFFICES ASSUME KeptInStore, NEW x \in ToSet(accepted) \ (acked' \cup refused')
                 PROVE  \E i \in Ids : sentKeys'[i] = x
        BY DEF KeptInStore
    <2>1. x # e.m /\ x \notin acked \cup refused
        BY <1>5
    <2>2. PICK i \in Ids : sentKeys[i] = x
        BY <2>1 DEF KeptInStore
    <2>3. sentKeys[e.id] = e.m
        BY DEF StoreInv, Matches
    <2> QED BY <1>1, <1>5, <2>1, <2>2, <2>3 DEF SentRecords
<1> QED BY <1>13, <1>14

(* What a step leaves alone when it touches neither list nor store. *)
StoreUnchanged == UNCHANGED <<outboundMsgs, sentKeys, accepted, acked, refused>>

LEMMA UnchangedStore ==
    ASSUME StoreInv, StoreUnchanged
    PROVE  /\ Matches(outboundMsgs', sentKeys')
           /\ KeptInStore => KeptInStore'
<1>1. Matches(outboundMsgs', sentKeys')
    BY DEF StoreInv, StoreUnchanged
<1>2. KeptInStore => KeptInStore'
    BY DEF StoreUnchanged, KeptInStore, ToSet
<1> QED BY <1>1, <1>2

LEMMA PubrecReleasesStore ==
    ASSUME StoreInv, NEW p, PubrecReleases(p), UNCHANGED accepted
    PROVE  /\ Matches(outboundMsgs', sentKeys')
           /\ KeptInStore => KeptInStore'
<1>1. \A k \in DOMAIN outboundMsgs : outboundMsgs[k] \in OutEntry
    <2>1. outboundMsgs \in Seq(OutEntry)
        BY DEF StoreInv, StateOK
    <2> QED BY <2>1, SeqFacts
<1>2. /\ DOMAIN outboundMsgs' = DOMAIN outboundMsgs
      /\ \A k \in DOMAIN outboundMsgs : /\ outboundMsgs'[k].id = outboundMsgs[k].id
                                         /\ outboundMsgs'[k].m = outboundMsgs[k].m
    BY <1>1 DEF PubrecReleases, OutEntry
<1>3. UNCHANGED <<sentKeys, acked, refused>>
    BY DEF PubrecReleases
<1>4. Matches(outboundMsgs', sentKeys')
    BY <1>2, <1>3 DEF StoreInv, Matches
<1>5. KeptInStore => KeptInStore'
    BY <1>3 DEF KeptInStore, ToSet
<1> QED BY <1>4, <1>5

LEMMA ClientStepStore ==
    ASSUME StoreInv, ClientStep
    PROVE  /\ Matches(outboundMsgs', sentKeys')
           /\ KeptInStore => KeptInStore'
<1>1. CASE \E p \in InNet : HandlePublish(p)
    BY <1>1, UnchangedStore DEF HandlePublish, StoreUnchanged
<1>2. ASSUME NEW p, NEW type, HandleFinalAck(p, type)
      PROVE  /\ Matches(outboundMsgs', sentKeys')
             /\ KeptInStore => KeptInStore'
    <2>1. CASE \E k \in Waiting(p.id, type) : EndExchange(k, p.ok)
        BY <1>2, <2>1, EndExchangeStore DEF HandleFinalAck, Waiting
    <2>2. CASE UNCHANGED <<sentKeys, pubrelKeys, outboundMsgs, acked, refused>>
        BY <1>2, <2>2, UnchangedStore DEF HandleFinalAck, StoreUnchanged
    <2> QED BY <1>2, <2>1, <2>2 DEF HandleFinalAck
<1>3. ASSUME NEW p, HandlePubrec(p)
      PROVE  /\ Matches(outboundMsgs', sentKeys')
             /\ KeptInStore => KeptInStore'
    <2>1. CASE PubrecRefuses(p)
        BY <1>3, <2>1, EndExchangeStore DEF HandlePubrec, PubrecRefuses, Waiting
    <2>2. CASE PubrecReleases(p)
        BY <1>3, <2>2, PubrecReleasesStore DEF HandlePubrec
    <2> QED BY <1>3, <2>1, <2>2 DEF HandlePubrec
<1>4. CASE \E p \in InNet : HandlePubrel(p)
    BY <1>4, UnchangedStore DEF HandlePubrel, StoreUnchanged
<1>5. CASE WriteAvailable
    BY <1>5, UnchangedStore DEF WriteAvailable, StoreUnchanged, appVars
<1> QED BY <1>1, <1>2, <1>3, <1>4, <1>5 DEF ClientStep, HandlePuback, HandlePubcomp

(* The records stay when a step leaves them or takes away that of a message *)
(* that is answered.                                                        *)
LEMMA KeptStep ==
    ASSUME StoreInv, KeptInStore, UNCHANGED <<sentKeys, accepted, acked, refused>>
    PROVE  KeptInStore'
BY DEF KeptInStore, ToSet

LEMMA CrashInHandlerKept ==
    ASSUME StoreInv, KeptInStore, NEW p, CrashInHandler(p)
    PROVE  KeptInStore'
<1>0. UNCHANGED accepted
    BY DEF CrashInHandler
<1>1. CASE sentKeys' = sentKeys /\ acked' = acked /\ refused' = refused
    BY <1>0, <1>1, KeptStep
<1>2. CASE \E k \in DOMAIN outboundMsgs :
              /\ sentKeys' = [sentKeys EXCEPT ![outboundMsgs[k].id] = None]
              /\ acked' \cup refused' = acked \cup refused \cup {outboundMsgs[k].m}
    <2>1. PICK k \in DOMAIN outboundMsgs :
              /\ sentKeys' = [sentKeys EXCEPT ![outboundMsgs[k].id] = None]
              /\ acked' \cup refused' = acked \cup refused \cup {outboundMsgs[k].m}
        BY <1>2
    <2> SUFFICES ASSUME NEW x \in ToSet(accepted) \ (acked' \cup refused')
                 PROVE  \E i \in Ids : sentKeys'[i] = x
        BY <1>0 DEF KeptInStore
    <2>2. x # outboundMsgs[k].m /\ x \notin acked \cup refused
        BY <2>1
    <2>3. PICK i \in Ids : sentKeys[i] = x
        BY <2>2 DEF KeptInStore
    <2>4. sentKeys[outboundMsgs[k].id] = outboundMsgs[k].m /\ sentKeys \in SentRecords
        BY DEF StoreInv, Matches, StateOK, SentRecords
    <2> QED BY <2>1, <2>2, <2>3, <2>4 DEF SentRecords
<1> QED BY <1>1, <1>2, CrashInHandlerType DEF StoreInv

LEMMA StoreInit == Init => StoreInv /\ KeptInStore
<1> SUFFICES ASSUME Init PROVE StoreInv /\ KeptInStore
    OBVIOUS
<1>1. StateOK
    BY InitType
<1>2. Matches(outboundMsgs, sentKeys)
    BY DEF Init, Matches
<1>3. KeptInStore
    BY DEF Init, KeptInStore, ToSet
<1> QED BY <1>1, <1>2, <1>3 DEF StoreInv

LEMMA StoreStep == StoreInv /\ [Next]_vars => StoreInv'
<1> SUFFICES ASSUME StoreInv, [Next]_vars PROVE StoreInv'
    OBVIOUS
<1>0. StateOK /\ StateOK'
    BY TypeStep DEF StoreInv
<1> SUFFICES Matches(outboundMsgs', sentKeys')
    BY <1>0 DEF StoreInv
<1>1. CASE ClientStep BY <1>1, ClientStepStore
<1>2. CASE \E m \in Msgs : Publish(m) BY <1>2, PublishStore
<1>3. CASE ConnectionLost
    BY <1>3, EmptySessionType DEF ConnectionLost, sessionVars, StoreInv
<1>4. CASE Retry BY <1>0, <1>4, RetryType DEF StoreInv
<1>5. CASE Connect BY <1>0, <1>5, ReconnectType DEF Connect, StoreInv
<1>6. CASE Crash BY <1>0, <1>6, CrashType
<1>7. CASE \E p \in InNet : CrashInHandler(p) BY <1>0, <1>7, CrashInHandlerType
<1>8. CASE ServerStep BY <1>0, <1>8, ServerStepType DEF SrvUnchanged, StoreInv
<1>9. CASE \E m \in SrvMsgs : SrvSend(m) BY <1>0, <1>9, SrvSendType DEF SrvUnchanged, StoreInv
<1>10. CASE UNCHANGED vars
    BY <1>10 DEF vars, clientVars, storeVars, StoreInv
<1> QED BY <1>1, <1>2, <1>3, <1>4, <1>5, <1>6, <1>7, <1>8, <1>9, <1>10 DEF Next, Event

THEOREM StoreInvariance == Spec => []StoreInv
<1>1. Init => StoreInv
    BY StoreInit
<1> QED BY <1>1, StoreStep, PTL DEF Spec

(* No two in-flight messages have the same id: an acknowledgement finds its *)
(* own message, for any number of ids, messages, losses and restarts.       *)
THEOREM IdsAreUnique == Spec => []UniqueIds
<1>1. StoreInv => UniqueIds
    BY DEF StoreInv, Matches, UniqueIds
<1> QED BY <1>1, StoreInvariance, PTL

(* Every record of a sent message belongs to an in-flight message, so a     *)
(* restart sends nothing again that has been answered.                      *)
THEOREM NoStaleSent == Spec => []StoreHasNoStaleSent
<1>1. StoreInv => StoreHasNoStaleSent
    BY DEF StoreInv, Matches, StoreHasNoStaleSent
<1> QED BY <1>1, StoreInvariance, PTL

LEMMA KeptNext ==
    ASSUME ~CleanSession, ~AsyncAPI, StoreInv, KeptInStore, [Next]_vars
    PROVE  KeptInStore'
<1>0. StateOK /\ Matches(outboundMsgs, sentKeys)
    BY DEF StoreInv
<1>1. CASE ClientStep BY <1>1, ClientStepStore
<1>2. CASE \E m \in Msgs : Publish(m) BY <1>2, PublishStore
<1>3. CASE ConnectionLost
    BY <1>3, KeptStep DEF ConnectionLost, CleansOnClose, sessionVars, appVars
<1>4. CASE Retry
    BY <1>0, <1>4, RetryType, KeptStep
<1>5. CASE Connect
    BY <1>0, <1>5, ReconnectType, KeptStep DEF Connect
<1>6. CASE Crash
    BY <1>0, <1>6, CrashType, KeptStep DEF Crash, appVars
<1>7. CASE \E p \in InNet : CrashInHandler(p)
    BY <1>7, CrashInHandlerKept
<1>8. CASE ServerStep
    BY <1>0, <1>8, ServerStepType, KeptStep DEF SrvUnchanged
<1>9. CASE \E m \in SrvMsgs : SrvSend(m)
    BY <1>0, <1>9, SrvSendType, KeptStep DEF SrvUnchanged
<1>10. CASE UNCHANGED vars
    BY <1>10, KeptStep DEF vars, storeVars, appVars
<1> QED BY <1>1, <1>2, <1>3, <1>4, <1>5, <1>6, <1>7, <1>8, <1>9, <1>10 DEF Next, Event

(* The session of a client that is not asked to clean it, and does not do   *)
(* so by itself, keeps these records.                                       *)
KeptInv == ~CleanSession /\ ~AsyncAPI => KeptInStore

LEMMA KeptInvNext == StoreInv /\ KeptInv /\ [Next]_vars => KeptInv'
<1> SUFFICES ASSUME StoreInv, KeptInv, [Next]_vars, (~CleanSession /\ ~AsyncAPI)'
             PROVE  KeptInStore'
    BY DEF KeptInv
<1>1. UNCHANGED scenario
    BY DEF Next, ClientStep, ServerStep, Connect, Event, vars
<1>2. ~CleanSession /\ ~AsyncAPI
    BY <1>1 DEF CleanSession, AsyncAPI
<1> QED BY <1>2, KeptNext DEF KeptInv

(* A message that is in the store is in the list. *)
LEMMA KeptImplies == StoreInv /\ KeptInv => KeptUntilAnswered
<1> SUFFICES ASSUME StoreInv, KeptInStore, NEW m \in ToSet(accepted) \ (acked \cup refused)
             PROVE  \E k \in DOMAIN outboundMsgs :
                       outboundMsgs[k].m = m /\ sentKeys[outboundMsgs[k].id] = m
    BY DEF KeptUntilAnswered, KeptInv
<1>1. m \in Msgs
    <2>1. accepted \in Seq(Msgs)
        BY DEF StoreInv, StateOK
    <2>2. \A k \in DOMAIN accepted : accepted[k] \in Msgs
        BY <2>1, SeqFacts
    <2> QED BY <2>2 DEF ToSet
<1>2. PICK i \in Ids : sentKeys[i] = m
    BY DEF KeptInStore
<1>3. sentKeys[i] # None
    BY <1>1, <1>2, NoneFacts
<1>4. PICK k \in DOMAIN outboundMsgs : outboundMsgs[k].id = i
    BY <1>3 DEF StoreInv, Matches
<1> QED BY <1>2, <1>4 DEF StoreInv, Matches

(* A client that keeps its session never loses a published message before   *)
(* the server has answered it: it is in the in-flight list and in the store *)
(* through every loss, failed or partial write, retry and restart, and also *)
(* a kill in the middle of a handler.                                       *)
THEOREM NothingLost == Spec => []KeptUntilAnswered
<1>1. Init => KeptInv
    BY StoreInit DEF KeptInv
<1>2. StoreInv /\ KeptInv => KeptUntilAnswered
    BY KeptImplies
<1> QED BY <1>1, <1>2, KeptInvNext, StoreInvariance, PTL DEF Spec

-----------------------------------------------------------------------------
(* There is always a free id                                                *)

(* The list has at least as many entries as there are ids in it. *)
LEMMA OutIdsCount ==
    ASSUME StateOK
    PROVE  IsFiniteSet(OutIds) /\ Cardinality(OutIds) <= Len(outboundMsgs)
<1> DEFINE n == Len(outboundMsgs)
           f == [k \in 1 .. n |-> outboundMsgs[k].id]
<1>1. n \in Nat /\ DOMAIN outboundMsgs = 1 .. n
    <2>1. outboundMsgs \in Seq(OutEntry)
        BY DEF StateOK
    <2> QED BY <2>1, SeqFacts
<1>2. OutIds = {outboundMsgs[k].id : k \in 1 .. n}
    BY <1>1 DEF OutIds
<1> HIDE DEF n
<1>3. f \in [1 .. n -> OutIds] /\ \A i \in OutIds : \E k \in 1 .. n : f[k] = i
    BY <1>2
<1>4. f \in Surjection(1 .. n, OutIds)
    BY <1>3 DEF Surjection
<1>5. IsFiniteSet(1 .. n) /\ Cardinality(1 .. n) = n
    BY <1>1, FS_Interval
<1> HIDE DEF f
<1>6. IsFiniteSet(OutIds) /\ Cardinality(OutIds) <= Cardinality(1 .. n)
    BY <1>4, <1>5, FS_Surjection
<1> QED BY <1>5, <1>6 DEF n

(* The search passes every id. *)
LEMMA EveryIdTried ==
    ASSUME NEW start \in 0 .. MaxMsgId, NEW i \in Ids
    PROVE  \E k \in Ids : Tried(start, k) = i
<1> DEFINE k == IF i > start THEN i - start ELSE i - start + MaxMsgId
<1>1. k \in Ids /\ Tried(start, k) = i
    BY MaxMsgIdAssumption DEF Ids, Tried
<1> QED BY <1>1

(* While the in-flight window has room the search finds an id, so the       *)
(* branch of MQTTClient_publish5 for a message id of 0 is never taken.      *)
THEOREM IdsSuffice == Spec => []NeverOutOfIds
<1>1. StateOK => NeverOutOfIds
    <2> SUFFICES ASSUME StateOK, Len(outboundMsgs) < MaxInflight,
                        AssignMsgId(msgID, OutIds) = 0
                 PROVE  FALSE
        BY DEF NeverOutOfIds
    <2>1. msgID \in 0 .. MaxMsgId /\ Len(outboundMsgs) \in Nat
        BY DEF StateOK
    <2>2. Stops(msgID, OutIds) = {}
        <3> SUFFICES ASSUME Stops(msgID, OutIds) # {} PROVE FALSE
            OBVIOUS
        <3>1. Stops(msgID, OutIds) \in SUBSET Nat
            BY MaxMsgIdAssumption DEF Stops, Ids
        <3>2. PICK k \in Stops(msgID, OutIds) : AssignMsgId(msgID, OutIds) = Tried(msgID, k)
            BY <3>1, LeastNatural DEF AssignMsgId
        <3>3. k \in Ids
            BY DEF Stops
        <3>4. Tried(msgID, k) # 0
            BY <2>1, <3>3, MaxMsgIdAssumption DEF Tried, Ids
        <3> QED BY <3>2, <3>4
    <2>3. Ids \subseteq OutIds \cup {msgID}
        BY <2>1, <2>2, EveryIdTried DEF Stops
    <2>4. IsFiniteSet(OutIds) /\ Cardinality(OutIds) <= Len(outboundMsgs)
        BY OutIdsCount
    <2>5. /\ Cardinality(OutIds) \in Nat
          /\ IsFiniteSet(OutIds \cup {msgID})
          /\ Cardinality(OutIds \cup {msgID}) <= Cardinality(OutIds) + 1
        <3>1. Cardinality(OutIds) \in Nat
            BY <2>4, FS_CardinalityType
        <3>2. /\ IsFiniteSet(OutIds \cup {msgID})
              /\ Cardinality(OutIds \cup {msgID}) =
                    IF msgID \in OutIds THEN Cardinality(OutIds) ELSE Cardinality(OutIds) + 1
            BY <2>4, FS_AddElement
        <3> QED BY <3>1, <3>2
    <2>6. Cardinality(Ids) = MaxMsgId
        BY MaxMsgIdAssumption, FS_Interval DEF Ids
    <2>7. Cardinality(Ids) <= Cardinality(OutIds \cup {msgID})
        BY <2>3, <2>5, FS_Subset
    <2>8. Cardinality(OutIds \cup {msgID}) \in Nat
        BY <2>5, FS_CardinalityType
    <2> QED BY <2>1, <2>4, <2>5, <2>6, <2>7, <2>8, SessionAssumption, MaxMsgIdAssumption
<1> QED BY <1>1, StoreInvariance, PTL DEF StoreInv

-----------------------------------------------------------------------------
(* A QoS 2 message of the client reaches the server exactly once, for any    *)
(* messages, ids and window and any number of losses, kills, partial writes  *)
(* and retries that Undisturbed admits.                                      *)
(*                                                                           *)
(* The argument follows one exchange.  Until the message is released, the    *)
(* server knows its id exactly when it has taken the message, so a repeated  *)
(* PUBLISH is recognised (Open).  Once it is released it has been taken, and *)
(* no PUBLISH of it follows a PUBREL (Sealed).  An id is free again only     *)
(* when nothing of the old exchange is left on its way (Idle).               *)

-----------------------------------------------------------------------------
(* What is on its way between client and server                             *)

(* The client writes what is queued after what is pending. *)
Queued == [k \in DOMAIN outboundQueue |->
              Packet(outboundQueue[k].type, outboundQueue[k].id, None)]
Written == IF pendingWrite = None THEN c2s ELSE Append(c2s, pendingWrite)
Outgoing == Written \o Queued

(* Packets of the exchanges of QoS 2 messages from the client: PUBLISH and  *)
(* PUBREL to the server, PUBREC and PUBCOMP to the client.                  *)
IsPub(p) == p.type = "PUBLISH" /\ p.m \in Msgs2
IsRel(p) == p.type = "PUBREL"
IsRec(p) == p.type = "PUBREC"
IsComp(p) == p.type = "PUBCOMP"

(* The ids of the messages that have been released. *)
Released == {outboundMsgs[k].id :
                k \in {j \in DOMAIN outboundMsgs : outboundMsgs[j].next = "PUBCOMP"}}

-----------------------------------------------------------------------------
(* The parts of the inductive invariant, as conditions on the packets out   *)
(* and in on their way, the records sent, the released ids rel, the ids     *)
(* the server knows, what it got and what the client accepted.              *)

Taken(got, acc) ==
    \A m \in Msgs2 : got[m] \in {0, 1} /\ (got[m] = 1 => m \in acc)

(* A message is not taken again: where its PUBLISH is still to come, the    *)
(* server knows its id, and goes on knowing it.                             *)
Wire(out, ids, got, acc) ==
    /\ \A k \in DOMAIN out : out[k].type = "PUBLISH" => out[k].m \in acc
    /\ \A k \in DOMAIN out : IsPub(out[k]) =>
          /\ got[out[k].m] = 0 => out[k].id \notin ids
          /\ got[out[k].m] = 1 => out[k].id \in ids
    /\ \A k, l \in DOMAIN out : l < k /\ IsPub(out[k]) /\ got[out[k].m] = 1 =>
          ~(IsRel(out[l]) /\ out[l].id = out[k].id)
    /\ \A k, l \in DOMAIN out : IsPub(out[k]) /\ IsPub(out[l]) =>
          (out[k].m = out[l].m <=> out[k].id = out[l].id)
    /\ \A j, k, l \in DOMAIN out :
          j < k /\ k < l /\ IsPub(out[j]) /\ IsPub(out[l]) /\ out[j].id = out[l].id =>
          ~(IsRel(out[k]) /\ out[k].id = out[l].id)

(* A message has one id, and a record only until it is answered. *)
Owned(sent, acc, done) ==
    /\ done \subseteq acc
    /\ \A i \in Ids : sent[i] \in Msgs => sent[i] \in acc /\ sent[i] \notin done
    /\ \A i, j \in Ids : sent[i] = sent[j] /\ sent[i] \in Msgs => i = j

Mine(out, sent) ==
    \A i \in Ids : \A k \in DOMAIN out :
        sent[i] \in Msgs2 /\ IsPub(out[k]) => (out[k].m = sent[i] <=> out[k].id = i)

(* A message that is not released: the server knows its id if it has taken  *)
(* it, and is told nothing that would make it forget the id.                *)
OpenAt(i, out, in, m, ids, got) ==
    /\ got[m] = 0 => i \notin ids
    /\ got[m] = 1 => i \in ids /\ \A k \in DOMAIN out : ~(IsRel(out[k]) /\ out[k].id = i)
    /\ \A k, l \in DOMAIN out : k < l /\ IsPub(out[k]) /\ out[k].id = i =>
          ~(IsRel(out[l]) /\ out[l].id = i)
    /\ \A k \in DOMAIN in : IsRec(in[k]) /\ in[k].id = i /\ in[k].ok => got[m] = 1
    /\ \A k, l \in DOMAIN in : k < l /\ IsRec(in[k]) /\ in[k].id = i /\ in[k].ok =>
          ~(IsComp(in[l]) /\ in[l].id = i)
Open(out, in, sent, rel, ids, got) ==
    \A i \in Ids : sent[i] \in Msgs2 /\ i \notin rel => OpenAt(i, out, in, sent[i], ids, got)

(* A message that is released was taken.  Once its PUBCOMP is on the way    *)
(* the server has forgotten the id, and no PUBLISH or PUBREC of it is left. *)
SealedAt(i, out, in, m, ids, got) ==
    /\ got[m] = 1
    /\ \A k, l \in DOMAIN out : k < l /\ IsRel(out[k]) /\ out[k].id = i =>
          ~(IsPub(out[l]) /\ out[l].id = i)
    /\ \A k \in DOMAIN in : IsComp(in[k]) /\ in[k].id = i =>
          /\ i \notin ids
          /\ \A l \in DOMAIN out : ~(IsPub(out[l]) /\ out[l].id = i)
          /\ \A l \in DOMAIN in : k < l => ~(IsRec(in[l]) /\ in[l].id = i)
Sealed(out, in, sent, rel, ids, got) ==
    \A i \in rel : i \in Ids /\ sent[i] \in Msgs2 /\ SealedAt(i, out, in, sent[i], ids, got)

(* What holds whether or not there is a connection. *)
Bundle(out, in, sent, rel, ids, got, acc, done) ==
    /\ Taken(got, acc)
    /\ Wire(out, ids, got, acc)
    /\ Owned(sent, acc, done)
    /\ Mine(out, sent)
    /\ Open(out, in, sent, rel, ids, got)
    /\ Sealed(out, in, sent, rel, ids, got)

(* An id without a message is unknown to the server. *)
Idle(out, in, sent, ids) ==
    \A i \in Ids : sent[i] \notin Msgs2 =>
        /\ i \notin ids
        /\ \A k \in DOMAIN out : ~(IsPub(out[k]) /\ out[k].id = i)
        /\ \A k \in DOMAIN in : ~(IsRec(in[k]) /\ in[k].id = i)

(* After a refusal nothing of the message is left. *)
Refusals(out, in, ids, v5) ==
    \A k \in DOMAIN in : IsRec(in[k]) /\ ~in[k].ok =>
        /\ v5
        /\ in[k].id \notin ids
        /\ \A l \in DOMAIN out : ~(IsPub(out[l]) /\ out[l].id = in[k].id)
        /\ \A l \in DOMAIN in : l # k => ~(IsRec(in[l]) /\ in[l].id = in[k].id)

(* Without repetition an exchange has one packet on the way, of a message   *)
(* that is in flight, also with QoS 1.                                      *)
Forth(p) == p.type \in {"PUBLISH", "PUBREL"}
Back(p) == p.type \in {"PUBACK", "PUBREC", "PUBCOMP"}
Solo(out, in, sent, rel, got) ==
    /\ \A k, l \in DOMAIN out : k # l /\ Forth(out[k]) /\ Forth(out[l]) => out[k].id # out[l].id
    /\ \A k, l \in DOMAIN in : k # l /\ Back(in[k]) /\ Back(in[l]) => in[k].id # in[l].id
    /\ \A k \in DOMAIN out : \A l \in DOMAIN in :
          Forth(out[k]) /\ Back(in[l]) => out[k].id # in[l].id
    /\ \A k \in DOMAIN out : out[k].type = "PUBLISH" => sent[out[k].id] = out[k].m
    /\ \A k \in DOMAIN out : IsRel(out[k]) => out[k].id \in rel
    /\ \A k \in DOMAIN in : IsComp(in[k]) => in[k].id \in rel
    /\ \A k \in DOMAIN in : in[k].type = "PUBACK" =>
          sent[in[k].id] \in Msgs1 /\ (in[k].ok => got[sent[in[k].id]] > 0)

(* The store says of each message whether it is released, but for a PUBREL  *)
(* not written yet.                                                         *)
Records(written, pubrel, rel, ids, crash) ==
    /\ crash # 0 => pubrel \subseteq rel
    /\ \A i \in rel \ pubrel :
          i \in ids /\ \A k \in DOMAIN written : ~(IsRel(written[k]) /\ written[k].id = i)

(* What a budget never had is never spent. *)
Spared == \A kind \in {"loss", "crash", "partial", "drop", "retry", "forget"} :
              scenario.budget[kind] = 0 => budget[kind] = 0

Phases == \A k \in DOMAIN outboundMsgs :
    outboundMsgs[k].next \in IF outboundMsgs[k].m \in Msgs2 THEN {"PUBREC", "PUBCOMP"} ELSE {"PUBACK"}

Channel ==
    /\ pendingWrite = None => outboundQueue = <<>>
    /\ scenario.budget.partial = 0 => pendingWrite = None
    /\ ~connected => pendingWrite = None /\ s2c = <<>>

Exchanges ==
    /\ Bundle(Outgoing, s2c, sentKeys, Released, srvIds, srvGot, ToSet(accepted), acked \cup refused)
    /\ connected \/ ~CleanSession => Idle(Outgoing, s2c, sentKeys, srvIds)
    /\ Refusals(Outgoing, s2c, srvIds, V5)
    /\ connected /\ scenario.budget.retry = 0 => Solo(Outgoing, s2c, sentKeys, Released, srvGot)
    /\ Records(Written, pubrelKeys, Released, srvIds, scenario.budget.crash)
    /\ \A m \in acked \cap Msgs2 : srvGot[m] = 1

OnceInv == Spared /\ Phases /\ (Undisturbed => Channel /\ Exchanges)
-----------------------------------------------------------------------------
(* Packets are lost or read: what is left is a segment.                     *)

Segment(s, t, d) == \A k \in DOMAIN s : k \in Int /\ k + d \in DOMAIN t /\ s[k] = t[k + d]

LEMMA ShiftFacts == \A k, l, d \in Int : k # l => k + d # l + d
OBVIOUS

LEMMA WireSegment ==
    ASSUME NEW out, NEW out2, NEW d \in Int, Segment(out2, out, d),
           NEW ids, NEW got, NEW acc, Wire(out, ids, got, acc)
    PROVE  Wire(out2, ids, got, acc)
<1>1. \A k \in DOMAIN out2 : k \in Int /\ k + d \in DOMAIN out /\ out2[k] = out[k + d]
    BY DEF Segment
<1>2. \A k, l \in DOMAIN out2 : k < l => k + d < l + d
    BY <1>1
<1> QED BY <1>1, <1>2 DEF Wire

LEMMA MineSegment ==
    ASSUME NEW out, NEW out2, NEW d \in Int, Segment(out2, out, d), NEW sent, Mine(out, sent)
    PROVE  Mine(out2, sent)
BY DEF Segment, Mine

LEMMA OpenSegment ==
    ASSUME NEW out, NEW out2, NEW d \in Int, Segment(out2, out, d),
           NEW in, NEW in2, NEW e \in Int, Segment(in2, in, e),
           NEW i, NEW m, NEW ids, NEW got, OpenAt(i, out, in, m, ids, got)
    PROVE  OpenAt(i, out2, in2, m, ids, got)
<1>1. \A k \in DOMAIN out2 : k \in Int /\ k + d \in DOMAIN out /\ out2[k] = out[k + d]
    BY DEF Segment
<1>2. \A k, l \in DOMAIN out2 : k < l => k + d < l + d
    BY <1>1
<1>3. \A k \in DOMAIN in2 : k \in Int /\ k + e \in DOMAIN in /\ in2[k] = in[k + e]
    BY DEF Segment
<1>4. \A k, l \in DOMAIN in2 : k < l => k + e < l + e
    BY <1>3
<1> QED BY <1>1, <1>2, <1>3, <1>4 DEF OpenAt

LEMMA SealedSegment ==
    ASSUME NEW out, NEW out2, NEW d \in Int, Segment(out2, out, d),
           NEW in, NEW in2, NEW e \in Int, Segment(in2, in, e),
           NEW i, NEW m, NEW ids, NEW got, SealedAt(i, out, in, m, ids, got)
    PROVE  SealedAt(i, out2, in2, m, ids, got)
<1>1. \A k \in DOMAIN out2 : k \in Int /\ k + d \in DOMAIN out /\ out2[k] = out[k + d]
    BY DEF Segment
<1>2. \A k, l \in DOMAIN out2 : k < l => k + d < l + d
    BY <1>1
<1>3. \A k \in DOMAIN in2 : k \in Int /\ k + e \in DOMAIN in /\ in2[k] = in[k + e]
    BY DEF Segment
<1>4. \A k, l \in DOMAIN in2 : k < l => k + e < l + e
    BY <1>3
<1> QED BY <1>1, <1>2, <1>3, <1>4 DEF SealedAt

LEMMA IdleSegment ==
    ASSUME NEW out, NEW out2, NEW d \in Int, Segment(out2, out, d),
           NEW in, NEW in2, NEW e \in Int, Segment(in2, in, e),
           NEW sent, NEW ids, Idle(out, in, sent, ids)
    PROVE  Idle(out2, in2, sent, ids)
BY DEF Segment, Idle

LEMMA RefusalsSegment ==
    ASSUME NEW out, NEW out2, NEW d \in Int, Segment(out2, out, d),
           NEW in, NEW in2, NEW e \in Int, Segment(in2, in, e),
           NEW ids, NEW v5, Refusals(out, in, ids, v5)
    PROVE  Refusals(out2, in2, ids, v5)
<1>1. \A k \in DOMAIN out2 : k \in Int /\ k + d \in DOMAIN out /\ out2[k] = out[k + d]
    BY DEF Segment
<1>2. \A k \in DOMAIN in2 : k \in Int /\ k + e \in DOMAIN in /\ in2[k] = in[k + e]
    BY DEF Segment
<1>3. \A k, l \in DOMAIN in2 : k # l => k + e # l + e
    BY <1>2, ShiftFacts
<1> QED BY <1>1, <1>2, <1>3 DEF Refusals

LEMMA SoloSegment ==
    ASSUME NEW out, NEW out2, NEW d \in Int, Segment(out2, out, d),
           NEW in, NEW in2, NEW e \in Int, Segment(in2, in, e),
           NEW sent, NEW rel, NEW got, Solo(out, in, sent, rel, got)
    PROVE  Solo(out2, in2, sent, rel, got)
<1>1. \A k \in DOMAIN out2 : k \in Int /\ k + d \in DOMAIN out /\ out2[k] = out[k + d]
    BY DEF Segment
<1>2. \A k, l \in DOMAIN out2 : k # l => k + d # l + d
    BY <1>1, ShiftFacts
<1>3. \A k \in DOMAIN in2 : k \in Int /\ k + e \in DOMAIN in /\ in2[k] = in[k + e]
    BY DEF Segment
<1>4. \A k, l \in DOMAIN in2 : k # l => k + e # l + e
    BY <1>3, ShiftFacts
<1> QED BY <1>1, <1>2, <1>3, <1>4 DEF Solo

-----------------------------------------------------------------------------
(* The client writes: packets that fit the messages in flight are added.    *)

Fits(p, sent, rel) ==
    /\ p.type = "PUBLISH" => p.id \in Ids /\ p.m \in Msgs /\ sent[p.id] = p.m /\ p.id \notin rel
    /\ IsRel(p) => p.id \in rel

Extends(out2, out, sent, rel) ==
    \A k \in DOMAIN out2 :
        /\ k \in Int
        /\ \/ k \in DOMAIN out /\ out2[k] = out[k]
           \/ /\ \A l \in DOMAIN out : l < k
              /\ Fits(out2[k], sent, rel)

LEMMA WireExtends ==
    ASSUME NEW out, NEW out2, NEW in, NEW sent \in SentRecords, NEW rel,
           Extends(out2, out, sent, rel),
           NEW ids, NEW got, NEW acc, NEW done, Taken(got, acc),
           Wire(out, ids, got, acc), Owned(sent, acc, done), Mine(out, sent),
           Open(out, in, sent, rel, ids, got)
    PROVE  Wire(out2, ids, got, acc)
<1> DEFINE Old(k) == k \in DOMAIN out /\ out2[k] = out[k]
           New(k) == (\A l \in DOMAIN out : l < k) /\ Fits(out2[k], sent, rel)
<1>1. \A k \in DOMAIN out2 : k \in Int /\ (Old(k) \/ New(k))
    BY DEF Extends
<1>2. \A k \in DOMAIN out2 : New(k) /\ IsPub(out2[k]) =>
         /\ out2[k].id \in Ids /\ sent[out2[k].id] = out2[k].m
         /\ out2[k].m \in Msgs2 /\ out2[k].m \in acc /\ out2[k].id \notin rel
         /\ OpenAt(out2[k].id, out, in, out2[k].m, ids, got)
    BY DEF Fits, IsPub, Owned, Open, Msgs
<1>3. \A k, l \in DOMAIN out2 : New(k) /\ Old(l) => l < k
    OBVIOUS
<1>4. \A k \in DOMAIN out2 : out2[k].type = "PUBLISH" => out2[k].m \in acc
    BY <1>1 DEF Wire, Fits, Owned
<1>5. \A k \in DOMAIN out2 : IsPub(out2[k]) =>
         /\ got[out2[k].m] = 0 => out2[k].id \notin ids
         /\ got[out2[k].m] = 1 => out2[k].id \in ids
    BY <1>1, <1>2 DEF Wire, OpenAt
<1>6. \A k, l \in DOMAIN out2 : l < k /\ IsPub(out2[k]) /\ got[out2[k].m] = 1 =>
         ~(IsRel(out2[l]) /\ out2[l].id = out2[k].id)
    <2> SUFFICES ASSUME NEW k \in DOMAIN out2, NEW l \in DOMAIN out2, l < k, IsPub(out2[k]),
                        got[out2[k].m] = 1, IsRel(out2[l]), out2[l].id = out2[k].id
                 PROVE  FALSE
        OBVIOUS
    <2>1. CASE Old(k)
        <3>1. Old(l)
            BY <1>1, <1>3, <2>1
        <3> QED BY <2>1, <3>1 DEF Wire
    <2>2. CASE New(k)
        <3>1. CASE Old(l)
            BY <1>2, <2>2, <3>1 DEF OpenAt
        <3>2. CASE New(l)
            BY <1>2, <2>2, <3>2 DEF Fits
        <3> QED BY <1>1, <3>1, <3>2
    <2> QED BY <1>1, <2>1, <2>2
<1>7. \A k, l \in DOMAIN out2 : IsPub(out2[k]) /\ IsPub(out2[l]) =>
         (out2[k].m = out2[l].m <=> out2[k].id = out2[l].id)
    <2> SUFFICES ASSUME NEW k \in DOMAIN out2, NEW l \in DOMAIN out2, IsPub(out2[k]), IsPub(out2[l])
                 PROVE  out2[k].m = out2[l].m <=> out2[k].id = out2[l].id
        OBVIOUS
    <2>1. CASE Old(k) /\ Old(l)
        BY <2>1 DEF Wire
    <2>2. CASE New(k) /\ Old(l)
        BY <1>2, <2>2 DEF Mine
    <2>3. CASE Old(k) /\ New(l)
        BY <1>2, <2>3 DEF Mine
    <2>4. CASE New(k) /\ New(l)
        BY <1>2, <2>4 DEF Owned, Msgs
    <2> QED BY <1>1, <2>1, <2>2, <2>3, <2>4
<1>8. \A j, k, l \in DOMAIN out2 :
         j < k /\ k < l /\ IsPub(out2[j]) /\ IsPub(out2[l]) /\ out2[j].id = out2[l].id =>
         ~(IsRel(out2[k]) /\ out2[k].id = out2[l].id)
    <2> SUFFICES ASSUME NEW j \in DOMAIN out2, NEW k \in DOMAIN out2, NEW l \in DOMAIN out2,
                        j < k, k < l, IsPub(out2[j]), IsPub(out2[l]), out2[j].id = out2[l].id,
                        IsRel(out2[k]), out2[k].id = out2[l].id
                 PROVE  FALSE
        OBVIOUS
    <2>1. CASE Old(l)
        <3>1. Old(j) /\ Old(k)
            BY <1>1, <1>3, <2>1
        <3> QED BY <2>1, <3>1 DEF Wire
    <2>2. CASE New(l)
        <3>1. CASE New(k)
            BY <1>2, <2>2, <3>1 DEF Fits
        <3>2. CASE Old(k)
            <4>1. Old(j)
                BY <1>1, <1>3, <3>2
            <4> QED BY <1>2, <2>2, <3>2, <4>1 DEF OpenAt
        <3> QED BY <1>1, <3>1, <3>2
    <2> QED BY <1>1, <2>1, <2>2
<1> QED BY <1>4, <1>5, <1>6, <1>7, <1>8 DEF Wire

LEMMA MineExtends ==
    ASSUME NEW out, NEW out2, NEW sent \in SentRecords, NEW rel, Extends(out2, out, sent, rel),
           NEW acc, NEW done, Owned(sent, acc, done), Mine(out, sent)
    PROVE  Mine(out2, sent)
<1> SUFFICES ASSUME NEW i \in Ids, NEW k \in DOMAIN out2, sent[i] \in Msgs2, IsPub(out2[k])
             PROVE  out2[k].m = sent[i] <=> out2[k].id = i
    BY DEF Mine
<1>1. CASE k \in DOMAIN out /\ out2[k] = out[k]
    BY <1>1 DEF Mine
<1>2. CASE Fits(out2[k], sent, rel)
    BY <1>2 DEF Fits, IsPub, Owned
<1> QED BY <1>1, <1>2 DEF Extends

LEMMA OpenExtends ==
    ASSUME NEW out, NEW out2, NEW in, NEW sent, NEW rel, Extends(out2, out, sent, rel),
           NEW ids, NEW got, Open(out, in, sent, rel, ids, got)
    PROVE  Open(out2, in, sent, rel, ids, got)
<1> SUFFICES ASSUME NEW i \in Ids, sent[i] \in Msgs2, i \notin rel
             PROVE  OpenAt(i, out2, in, sent[i], ids, got)
    BY DEF Open
<1>1. OpenAt(i, out, in, sent[i], ids, got)
    BY DEF Open
<1>2. \A k \in DOMAIN out2 : IsRel(out2[k]) /\ out2[k].id = i => k \in DOMAIN out /\ out2[k] = out[k]
    BY DEF Extends, Fits
<1>3. \A k, l \in DOMAIN out2 : k < l /\ l \in DOMAIN out => k \in DOMAIN out /\ out2[k] = out[k]
    BY DEF Extends
<1> QED BY <1>1, <1>2, <1>3 DEF OpenAt

LEMMA SealedExtends ==
    ASSUME NEW out, NEW out2, NEW in, NEW sent, NEW rel, Extends(out2, out, sent, rel),
           NEW ids, NEW got, Sealed(out, in, sent, rel, ids, got)
    PROVE  Sealed(out2, in, sent, rel, ids, got)
<1> SUFFICES ASSUME NEW i \in rel
             PROVE  SealedAt(i, out2, in, sent[i], ids, got)
    BY DEF Sealed
<1>1. SealedAt(i, out, in, sent[i], ids, got)
    BY DEF Sealed
<1>2. \A k \in DOMAIN out2 : IsPub(out2[k]) /\ out2[k].id = i => k \in DOMAIN out /\ out2[k] = out[k]
    BY DEF Extends, Fits, IsPub
<1>3. \A k, l \in DOMAIN out2 : k < l /\ l \in DOMAIN out => k \in DOMAIN out /\ out2[k] = out[k]
    BY DEF Extends
<1> QED BY <1>1, <1>2, <1>3 DEF SealedAt

LEMMA IdleExtends ==
    ASSUME NEW out, NEW out2, NEW in, NEW sent, NEW rel, Extends(out2, out, sent, rel),
           NEW ids, Idle(out, in, sent, ids)
    PROVE  Idle(out2, in, sent, ids)
BY DEF Extends, Fits, IsPub, Idle

LEMMA RefusalsExtends ==
    ASSUME NEW out, NEW out2, NEW in, NEW ids, NEW v5, Refusals(out, in, ids, v5),
           \A k \in DOMAIN out2 : \/ k \in DOMAIN out /\ out2[k] = out[k]
                                  \/ \A l \in DOMAIN in : IsPub(out2[k]) =>
                                        ~(IsRec(in[l]) /\ in[l].id = out2[k].id)
    PROVE  Refusals(out2, in, ids, v5)
<1> SUFFICES ASSUME NEW k \in DOMAIN in, IsRec(in[k]), ~in[k].ok, NEW l \in DOMAIN out2,
                    IsPub(out2[l]), out2[l].id = in[k].id
             PROVE  FALSE
    BY DEF Refusals
<1>1. CASE l \in DOMAIN out /\ out2[l] = out[l]
    BY <1>1 DEF Refusals
<1>2. CASE ~(IsRec(in[k]) /\ in[k].id = out2[l].id)
    BY <1>2
<1> QED BY <1>1, <1>2

(* Only an MQTT 5 server refuses. *)
LEMMA NoRefusals ==
    ASSUME NEW out, NEW out2, NEW in, NEW ids, Refusals(out, in, ids, FALSE)
    PROVE  Refusals(out2, in, ids, FALSE)
BY DEF Refusals

(* One packet is added to the sequence s, or none. *)
Appends(s2, s, p, n) ==
    /\ \A k \in DOMAIN s : k < n
    /\ \A k \in DOMAIN s2 : k \in Int /\ ((k \in DOMAIN s /\ s2[k] = s[k]) \/ (k = n /\ s2[k] = p))

LEMMA SoloExtends ==
    ASSUME NEW out, NEW out2, NEW p, NEW n, Appends(out2, out, p, n),
           NEW in, NEW sent, NEW rel, NEW got, Solo(out, in, sent, rel, got), Fits(p, sent, rel),
           Forth(p) => /\ \A k \in DOMAIN out : ~(Forth(out[k]) /\ out[k].id = p.id)
                       /\ \A k \in DOMAIN in : ~(Back(in[k]) /\ in[k].id = p.id)
    PROVE  Solo(out2, in, sent, rel, got)
<1>1. \A k \in DOMAIN out2 : (k \in DOMAIN out /\ out2[k] = out[k]) \/ (k = n /\ out2[k] = p)
    BY DEF Appends
<1>2. \A k, l \in DOMAIN out2 : k # l /\ Forth(out2[k]) /\ Forth(out2[l]) => out2[k].id # out2[l].id
    <2> SUFFICES ASSUME NEW k \in DOMAIN out2, NEW l \in DOMAIN out2, k # l, Forth(out2[k]),
                        Forth(out2[l])
                 PROVE  out2[k].id # out2[l].id
        OBVIOUS
    <2>1. CASE k \in DOMAIN out /\ out2[k] = out[k] /\ l \in DOMAIN out /\ out2[l] = out[l]
        BY <2>1 DEF Solo
    <2>2. CASE k = n /\ out2[k] = p /\ l \in DOMAIN out /\ out2[l] = out[l]
        BY <2>2
    <2>3. CASE k \in DOMAIN out /\ out2[k] = out[k] /\ l = n /\ out2[l] = p
        BY <2>3
    <2> QED BY <1>1, <2>1, <2>2, <2>3
<1>3. \A k \in DOMAIN out2 : \A l \in DOMAIN in :
         Forth(out2[k]) /\ Back(in[l]) => out2[k].id # in[l].id
    BY <1>1 DEF Solo
<1>4. \A k \in DOMAIN out2 : out2[k].type = "PUBLISH" => sent[out2[k].id] = out2[k].m
    BY <1>1 DEF Solo, Fits
<1>5. \A k \in DOMAIN out2 : IsRel(out2[k]) => out2[k].id \in rel
    BY <1>1 DEF Solo, Fits
<1> QED BY <1>2, <1>3, <1>4, <1>5 DEF Solo

-----------------------------------------------------------------------------
(* The server reads a packet and answers it.                                *)

(* A packet of no concern to these exchanges is added. *)
LEMMA OtherAdded ==
    ASSUME NEW in, NEW in2, NEW q, NEW n, Appends(in2, in, q, n), ~Back(q),
           NEW out, NEW sent, NEW rel, NEW ids, NEW got, NEW v5
    PROVE  /\ Open(out, in, sent, rel, ids, got) => Open(out, in2, sent, rel, ids, got)
           /\ Sealed(out, in, sent, rel, ids, got) => Sealed(out, in2, sent, rel, ids, got)
           /\ Idle(out, in, sent, ids) => Idle(out, in2, sent, ids)
           /\ Refusals(out, in, ids, v5) => Refusals(out, in2, ids, v5)
           /\ Solo(out, in, sent, rel, got) => Solo(out, in2, sent, rel, got)
<1>1. \A k \in DOMAIN in2 : Back(in2[k]) => k \in DOMAIN in /\ in2[k] = in[k]
    BY DEF Appends
<1>2. \A k \in DOMAIN in2 : IsRec(in2[k]) \/ IsComp(in2[k]) => k \in DOMAIN in /\ in2[k] = in[k]
    BY <1>1 DEF Back, IsRec, IsComp
<1>3. Open(out, in, sent, rel, ids, got) => Open(out, in2, sent, rel, ids, got)
    BY <1>2 DEF Open, OpenAt
<1>4. Sealed(out, in, sent, rel, ids, got) => Sealed(out, in2, sent, rel, ids, got)
    BY <1>2 DEF Sealed, SealedAt
<1>5. Idle(out, in, sent, ids) => Idle(out, in2, sent, ids)
    BY <1>2 DEF Idle
<1>6. Refusals(out, in, ids, v5) => Refusals(out, in2, ids, v5)
    BY <1>2 DEF Refusals
<1>7. Solo(out, in, sent, rel, got) => Solo(out, in2, sent, rel, got)
    <2>1. \A k \in DOMAIN in2 : in2[k].type = "PUBACK" => k \in DOMAIN in /\ in2[k] = in[k]
        BY <1>1 DEF Back
    <2> QED BY <1>1, <1>2, <2>1 DEF Solo
<1> QED BY <1>3, <1>4, <1>5, <1>6, <1>7

(* The server takes a QoS 2 message, or has taken it. *)
LEMMA TakeBundle ==
    ASSUME NEW out, NEW out2, 1 \in DOMAIN out, DOMAIN out2 \subseteq Nat \ {0}, Segment(out2, out, 1),
           NEW in, NEW in2, NEW n, NEW q, Appends(in2, in, q, n),
           IsPub(out[1]), q.type = "PUBREC", q.id = out[1].id, q.ok = TRUE,
           NEW sent, NEW rel, NEW ids, NEW got \in [Msgs -> 0 .. 2], NEW acc, NEW done,
           NEW got2, got2 = [got EXCEPT ![out[1].m] = 1],
           Bundle(out, in, sent, rel, ids, got, acc, done)
    PROVE  Bundle(out2, in2, sent, rel, ids \cup {out[1].id}, got2, acc, done)
<1> DEFINE p == out[1]
           ids2 == ids \cup {p.id}
<1>0. p.m \in Msgs2 /\ p.type = "PUBLISH" /\ Msgs2 \subseteq Msgs
    BY DEF IsPub, Msgs
<1>1. \A m \in Msgs2 : got2[m] = IF m = p.m THEN 1 ELSE got[m]
    BY <1>0
<1>2. \A k \in DOMAIN out2 : k \in Int /\ k + 1 \in DOMAIN out /\ out2[k] = out[k + 1] /\ 1 < k + 1
    BY DEF Segment
<1>3. \A k, l \in DOMAIN out2 : k < l => k + 1 < l + 1
    BY <1>2
<1>4. \A k \in DOMAIN in2 : k \in Int /\ ((k \in DOMAIN in /\ in2[k] = in[k]) \/ (k = n /\ in2[k] = q))
    BY DEF Appends
<1>5. \A k \in DOMAIN in : k < n
    BY DEF Appends
<1> HIDE DEF p
<1>6. Taken(got2, acc)
    <2>1. p.m \in acc
        BY <1>0 DEF Bundle, Wire, p
    <2> QED BY <1>1, <2>1 DEF Bundle, Taken
<1>7. \A k \in DOMAIN out2 : IsPub(out2[k]) => (out2[k].m = p.m <=> out2[k].id = p.id)
    BY <1>2 DEF Bundle, Wire, p
<1>8. \A k \in DOMAIN out2 : IsPub(out2[k]) => out2[k].m \in Msgs2
    BY DEF IsPub
<1>9. Wire(out2, ids2, got2, acc)
    <2>0. Wire(out, ids, got, acc) /\ Wire(out2, ids, got, acc)
        BY WireSegment DEF Bundle
    <2>1. \A k \in DOMAIN out2 : IsPub(out2[k]) =>
             /\ got2[out2[k].m] = 0 => out2[k].id \notin ids2
             /\ got2[out2[k].m] = 1 => out2[k].id \in ids2
        BY <1>1, <1>7, <1>8, <2>0 DEF Wire
    <2>2. \A k, l \in DOMAIN out2 : l < k /\ IsPub(out2[k]) /\ got2[out2[k].m] = 1 =>
             ~(IsRel(out2[l]) /\ out2[l].id = out2[k].id)
        <3> SUFFICES ASSUME NEW k \in DOMAIN out2, NEW l \in DOMAIN out2, l < k, IsPub(out2[k]),
                            got2[out2[k].m] = 1, IsRel(out2[l]), out2[l].id = out2[k].id
                     PROVE  FALSE
            OBVIOUS
        <3>1. CASE out2[k].m = p.m
            <4>1. 1 < l + 1 /\ l + 1 < k + 1 /\ l + 1 \in DOMAIN out /\ k + 1 \in DOMAIN out
                BY <1>2, <1>3
            <4>2. out[k + 1] = out2[k] /\ out[l + 1] = out2[l] /\ out[k + 1].id = p.id
                BY <1>2, <1>7, <3>1
            <4> QED BY <2>0, <4>1, <4>2 DEF Wire, p
        <3>2. CASE out2[k].m # p.m
            BY <1>1, <1>8, <2>0, <3>2 DEF Wire
        <3> QED BY <3>1, <3>2
    <2> QED BY <2>0, <2>1, <2>2 DEF Wire
<1>10. Mine(out2, sent)
    BY MineSegment DEF Bundle
<1>11. Open(out2, in2, sent, rel, ids2, got2)
    <2> SUFFICES ASSUME NEW i \in Ids, sent[i] \in Msgs2, i \notin rel
                 PROVE  OpenAt(i, out2, in2, sent[i], ids2, got2)
        BY DEF Open
    <2>1. OpenAt(i, out, in, sent[i], ids, got)
        BY DEF Bundle, Open
    <2>2. OpenAt(i, out2, in, sent[i], ids, got)
        <3>1. \A k, l \in DOMAIN out2 : k < l => k + 1 < l + 1
            BY <1>3
        <3> QED BY <1>2, <1>3, <2>1 DEF OpenAt
    <2>3. p.m = sent[i] <=> p.id = i
        BY DEF Bundle, Mine, p
    <2>4. CASE p.id = i
        <3>1. got2[sent[i]] = 1 /\ i \in ids2
            BY <1>1, <2>3, <2>4
        <3>2. \A k \in DOMAIN out2 : ~(IsRel(out2[k]) /\ out2[k].id = i)
            BY <1>2, <2>1, <2>4 DEF OpenAt, p
        <3>3. \A k, l \in DOMAIN in2 : k < l /\ IsRec(in2[k]) /\ in2[k].id = i /\ in2[k].ok =>
                  ~(IsComp(in2[l]) /\ in2[l].id = i)
            BY <1>4, <1>5, <2>1 DEF OpenAt, IsRec, IsComp
        <3> QED BY <3>1, <3>2, <3>3 DEF OpenAt
    <2>5. CASE p.id # i
        <3>1. got2[sent[i]] = got[sent[i]] /\ (i \in ids2 <=> i \in ids)
            BY <1>1, <2>3, <2>5
        <3>2. \A k \in DOMAIN in2 : (IsRec(in2[k]) \/ IsComp(in2[k])) /\ in2[k].id = i =>
                  k \in DOMAIN in /\ in2[k] = in[k]
            BY <1>4, <2>5 DEF p
        <3> QED BY <2>2, <3>1, <3>2 DEF OpenAt
    <2> QED BY <2>4, <2>5
<1>12. Sealed(out2, in2, sent, rel, ids2, got2)
    <2> SUFFICES ASSUME NEW i \in rel
                 PROVE  i \in Ids /\ sent[i] \in Msgs2 /\ SealedAt(i, out2, in2, sent[i], ids2, got2)
        BY DEF Sealed
    <2>1. i \in Ids /\ sent[i] \in Msgs2 /\ SealedAt(i, out, in, sent[i], ids, got)
        BY DEF Bundle, Sealed
    <2>2. got2[sent[i]] = 1
        BY <1>1, <2>1 DEF SealedAt
    <2>3. \A k, l \in DOMAIN out2 : k < l /\ IsRel(out2[k]) /\ out2[k].id = i =>
             ~(IsPub(out2[l]) /\ out2[l].id = i)
        BY <1>2, <1>3, <2>1 DEF SealedAt
    <2>4. ASSUME NEW k \in DOMAIN in2, IsComp(in2[k]), in2[k].id = i
          PROVE  /\ i \notin ids2
                 /\ \A l \in DOMAIN out2 : ~(IsPub(out2[l]) /\ out2[l].id = i)
                 /\ \A l \in DOMAIN in2 : k < l => ~(IsRec(in2[l]) /\ in2[l].id = i)
        <3>1. k \in DOMAIN in /\ in2[k] = in[k]
            BY <1>4, <2>4 DEF IsComp
        <3>2. i \notin ids /\ \A l \in DOMAIN out : ~(IsPub(out[l]) /\ out[l].id = i)
            BY <2>1, <2>4, <3>1 DEF SealedAt
        <3>3. p.id # i
            BY <3>2 DEF p
        <3>4. \A l \in DOMAIN in2 : k < l => ~(IsRec(in2[l]) /\ in2[l].id = i)
            BY <1>4, <2>1, <2>4, <3>1, <3>3 DEF SealedAt, p
        <3> QED BY <1>2, <3>2, <3>3, <3>4
    <2> QED BY <2>1, <2>2, <2>3, <2>4 DEF SealedAt
<1> QED BY <1>6, <1>9, <1>10, <1>11, <1>12 DEF Bundle, p

LEMMA TakeRest ==
    ASSUME NEW out, NEW out2, 1 \in DOMAIN out, DOMAIN out2 \subseteq Nat \ {0}, Segment(out2, out, 1),
           NEW in, NEW in2, NEW n, NEW q, Appends(in2, in, q, n),
           IsPub(out[1]), q.type = "PUBREC", q.id = out[1].id, q.ok = TRUE,
           NEW sent, NEW rel, NEW ids, NEW got \in [Msgs -> 0 .. 2], NEW v5, NEW acc, NEW done,
           Bundle(out, in, sent, rel, ids, got, acc, done), Refusals(out, in, ids, v5)
    PROVE  /\ Idle(out, in, sent, ids) => Idle(out2, in2, sent, ids \cup {out[1].id})
           /\ Refusals(out2, in2, ids \cup {out[1].id}, v5)
<1> DEFINE p == out[1]
<1>1. \A k \in DOMAIN out2 : k \in Int /\ k + 1 \in DOMAIN out /\ out2[k] = out[k + 1] /\ 1 # k + 1
    BY DEF Segment
<1>2. \A k \in DOMAIN in2 : k \in Int /\ ((k \in DOMAIN in /\ in2[k] = in[k]) \/ (k = n /\ in2[k] = q))
    BY DEF Appends
<1>3. Idle(out, in, sent, ids) => Idle(out2, in2, sent, ids \cup {p.id})
    <2> SUFFICES ASSUME Idle(out, in, sent, ids), NEW i \in Ids, sent[i] \notin Msgs2
                 PROVE  /\ i \notin ids \cup {p.id}
                        /\ \A k \in DOMAIN out2 : ~(IsPub(out2[k]) /\ out2[k].id = i)
                        /\ \A k \in DOMAIN in2 : ~(IsRec(in2[k]) /\ in2[k].id = i)
        BY DEF Idle
    <2>1. i \notin ids /\ p.id # i
        BY DEF Idle
    <2> QED BY <1>1, <1>2, <2>1 DEF Idle
<1>4. Refusals(out, in, ids, v5) => Refusals(out2, in2, ids \cup {p.id}, v5)
    <2> SUFFICES ASSUME Refusals(out, in, ids, v5), NEW k \in DOMAIN in2, IsRec(in2[k]), ~in2[k].ok
                 PROVE  /\ v5
                        /\ in2[k].id \notin ids \cup {p.id}
                        /\ \A l \in DOMAIN out2 : ~(IsPub(out2[l]) /\ out2[l].id = in2[k].id)
                        /\ \A l \in DOMAIN in2 : l # k => ~(IsRec(in2[l]) /\ in2[l].id = in2[k].id)
        BY DEF Refusals
    <2>1. k \in DOMAIN in /\ in2[k] = in[k]
        BY <1>2
    <2>2. /\ v5 /\ in[k].id \notin ids
          /\ \A l \in DOMAIN out : ~(IsPub(out[l]) /\ out[l].id = in[k].id)
          /\ \A l \in DOMAIN in : l # k => ~(IsRec(in[l]) /\ in[l].id = in[k].id)
        BY <2>1 DEF Refusals
    <2>3. in[k].id # p.id
        BY <2>2
    <2> QED BY <1>1, <1>2, <2>1, <2>2, <2>3
<1> QED BY <1>3, <1>4
(* The server reads a packet that leaves what it knows and has taken as it  *)
(* is, or with one more QoS 1 message taken.                                *)
LEMMA DropBundle ==
    ASSUME NEW out, NEW out2, NEW d \in Int, Segment(out2, out, d),
           NEW in, NEW in2, NEW e \in Int, Segment(in2, in, e),
           NEW sent, NEW rel, NEW ids, NEW got, NEW acc, NEW done,
           Bundle(out, in, sent, rel, ids, got, acc, done)
    PROVE  Bundle(out2, in2, sent, rel, ids, got, acc, done)
<1>1. Wire(out2, ids, got, acc) /\ Mine(out2, sent)
    BY WireSegment, MineSegment DEF Bundle
<1>2. Open(out2, in2, sent, rel, ids, got)
    BY OpenSegment DEF Bundle, Open
<1>3. Sealed(out2, in2, sent, rel, ids, got)
    BY SealedSegment DEF Bundle, Sealed
<1> QED BY <1>1, <1>2, <1>3 DEF Bundle

LEMMA OtherBundle ==
    ASSUME NEW in, NEW in2, NEW q, NEW n, Appends(in2, in, q, n), ~Back(q),
           NEW out, NEW sent, NEW rel, NEW ids, NEW got, NEW acc, NEW done,
           Bundle(out, in, sent, rel, ids, got, acc, done)
    PROVE  Bundle(out, in2, sent, rel, ids, got, acc, done)
BY OtherAdded DEF Bundle

LEMMA GotBundle ==
    ASSUME NEW got, NEW got2, \A m \in Msgs2 : got2[m] = got[m],
           NEW out, NEW in, NEW sent, NEW rel, NEW ids, NEW acc, NEW done,
           Bundle(out, in, sent, rel, ids, got, acc, done)
    PROVE  Bundle(out, in, sent, rel, ids, got2, acc, done)
<1>1. Taken(got2, acc)
    BY DEF Bundle, Taken
<1>2. Wire(out, ids, got2, acc)
    BY DEF Bundle, Wire, IsPub
<1>3. Open(out, in, sent, rel, ids, got2)
    BY DEF Bundle, Open, OpenAt
<1>4. Sealed(out, in, sent, rel, ids, got2)
    BY DEF Bundle, Sealed, SealedAt
<1> QED BY <1>1, <1>2, <1>3, <1>4 DEF Bundle

(* A QoS 1 message is answered. *)
LEMMA PubackAdded ==
    ASSUME NEW in, NEW in2, NEW q, NEW n, Appends(in2, in, q, n), q.type = "PUBACK",
           NEW out, NEW sent, NEW rel, NEW ids, NEW got, NEW v5
    PROVE  /\ Open(out, in, sent, rel, ids, got) => Open(out, in2, sent, rel, ids, got)
           /\ Sealed(out, in, sent, rel, ids, got) => Sealed(out, in2, sent, rel, ids, got)
           /\ Idle(out, in, sent, ids) => Idle(out, in2, sent, ids)
           /\ Refusals(out, in, ids, v5) => Refusals(out, in2, ids, v5)
<1>1. \A k \in DOMAIN in2 : IsRec(in2[k]) \/ IsComp(in2[k]) => k \in DOMAIN in /\ in2[k] = in[k]
    BY DEF Appends, IsRec, IsComp
<1>2. Open(out, in, sent, rel, ids, got) => Open(out, in2, sent, rel, ids, got)
    BY <1>1 DEF Open, OpenAt
<1>3. Sealed(out, in, sent, rel, ids, got) => Sealed(out, in2, sent, rel, ids, got)
    BY <1>1 DEF Sealed, SealedAt
<1>4. Idle(out, in, sent, ids) => Idle(out, in2, sent, ids)
    BY <1>1 DEF Idle
<1>5. Refusals(out, in, ids, v5) => Refusals(out, in2, ids, v5)
    BY <1>1 DEF Refusals
<1> QED BY <1>2, <1>3, <1>4, <1>5

LEMMA PubackBundle ==
    ASSUME NEW in, NEW in2, NEW q, NEW n, Appends(in2, in, q, n), q.type = "PUBACK",
           NEW out, NEW sent, NEW rel, NEW ids, NEW got, NEW acc, NEW done,
           Bundle(out, in, sent, rel, ids, got, acc, done)
    PROVE  Bundle(out, in2, sent, rel, ids, got, acc, done)
BY PubackAdded DEF Bundle

(* One packet of an exchange takes the place of another. *)
LEMMA SoloAnswered ==
    ASSUME NEW out, NEW out2, 1 \in DOMAIN out, DOMAIN out2 \subseteq Nat \ {0}, Segment(out2, out, 1),
           NEW in, NEW in2, NEW n, NEW q, Appends(in2, in, q, n),
           Forth(out[1]), Back(q), q.id = out[1].id,
           NEW sent, NEW rel, NEW got, NEW got2, \A m \in Msgs1 : got[m] > 0 => got2[m] > 0,
           IsComp(q) => q.id \in rel,
           q.type = "PUBACK" => sent[q.id] \in Msgs1 /\ (q.ok => got2[sent[q.id]] > 0),
           Solo(out, in, sent, rel, got)
    PROVE  Solo(out2, in2, sent, rel, got2)
<1> DEFINE p == out[1]
<1>1. \A k \in DOMAIN out2 : k \in Int /\ k + 1 \in DOMAIN out /\ out2[k] = out[k + 1] /\ 1 # k + 1
    BY DEF Segment
<1>2. \A k, l \in DOMAIN out2 : k # l => k + 1 # l + 1
    BY <1>1, ShiftFacts
<1>3. \A k \in DOMAIN in2 : k \in Int /\ ((k \in DOMAIN in /\ in2[k] = in[k]) \/ (k = n /\ in2[k] = q))
    BY DEF Appends
<1>4. \A k, l \in DOMAIN out2 : k # l /\ Forth(out2[k]) /\ Forth(out2[l]) => out2[k].id # out2[l].id
    BY <1>1, <1>2 DEF Solo
<1>5. \A k \in DOMAIN in : Back(in[k]) => in[k].id # q.id
    BY DEF Solo
<1>6. \A k, l \in DOMAIN in2 : k # l /\ Back(in2[k]) /\ Back(in2[l]) => in2[k].id # in2[l].id
    BY <1>3, <1>5 DEF Solo
<1>7. \A k \in DOMAIN out2 : Forth(out2[k]) => out2[k].id # q.id
    BY <1>1 DEF Solo
<1>8. \A k \in DOMAIN out2 : \A l \in DOMAIN in2 :
         Forth(out2[k]) /\ Back(in2[l]) => out2[k].id # in2[l].id
    BY <1>1, <1>3, <1>7 DEF Solo
<1>9. \A k \in DOMAIN out2 : /\ out2[k].type = "PUBLISH" => sent[out2[k].id] = out2[k].m
                             /\ IsRel(out2[k]) => out2[k].id \in rel
    BY <1>1 DEF Solo
<1>10. \A k \in DOMAIN in2 : IsComp(in2[k]) => in2[k].id \in rel
    BY <1>3 DEF Solo
<1>11. \A k \in DOMAIN in2 : in2[k].type = "PUBACK" =>
          sent[in2[k].id] \in Msgs1 /\ (in2[k].ok => got2[sent[in2[k].id]] > 0)
    BY <1>3 DEF Solo
<1> QED BY <1>4, <1>6, <1>8, <1>9, <1>10, <1>11 DEF Solo

(* The server refuses a QoS 2 message. *)
LEMMA RefuseStep ==
    ASSUME NEW out, NEW out2, 1 \in DOMAIN out, DOMAIN out2 \subseteq Nat \ {0}, Segment(out2, out, 1),
           NEW in, NEW in2, NEW n, NEW q, Appends(in2, in, q, n),
           IsPub(out[1]), IsRec(q), q.id = out[1].id, q.ok = FALSE,
           NEW sent, NEW rel, NEW ids, NEW got, NEW acc, NEW done,
           Bundle(out, in, sent, rel, ids, got, acc, done)
    PROVE  /\ Bundle(out2, in2, sent, rel, ids, got, acc, done)
           /\ Idle(out, in, sent, ids) => Idle(out2, in2, sent, ids)
           /\ Refusals(out, in, ids, TRUE) /\ Solo(out, in, sent, rel, got) /\ out[1].id \notin ids
                => Refusals(out2, in2, ids, TRUE)
<1> DEFINE p == out[1]
<1>1. \A k \in DOMAIN out2 : k \in Int /\ k + 1 \in DOMAIN out /\ out2[k] = out[k + 1] /\ 1 < k + 1
    BY DEF Segment
<1>2. \A k, l \in DOMAIN out2 : k < l => k + 1 < l + 1
    BY <1>1
<1>3. \A k \in DOMAIN in2 : k \in Int /\ ((k \in DOMAIN in /\ in2[k] = in[k]) \/ (k = n /\ in2[k] = q))
    BY DEF Appends
<1>4. Wire(out2, ids, got, acc) /\ Mine(out2, sent)
    BY WireSegment, MineSegment DEF Bundle
<1>5. ~IsComp(q)
    BY DEF IsRec, IsComp
<1>6. Open(out2, in2, sent, rel, ids, got)
    <2> SUFFICES ASSUME NEW i \in Ids, sent[i] \in Msgs2, i \notin rel
                 PROVE  OpenAt(i, out2, in2, sent[i], ids, got)
        BY DEF Open
    <2>1. OpenAt(i, out, in, sent[i], ids, got)
        BY DEF Bundle, Open
    <2>2. \A k \in DOMAIN in2 : (IsRec(in2[k]) /\ in2[k].ok) \/ IsComp(in2[k])
             => k \in DOMAIN in /\ in2[k] = in[k]
        BY <1>3, <1>5
    <2> QED BY <1>1, <1>2, <2>1, <2>2 DEF OpenAt
<1>7. Sealed(out2, in2, sent, rel, ids, got)
    <2> SUFFICES ASSUME NEW i \in rel
                 PROVE  i \in Ids /\ sent[i] \in Msgs2 /\ SealedAt(i, out2, in2, sent[i], ids, got)
        BY DEF Sealed
    <2>1. i \in Ids /\ sent[i] \in Msgs2 /\ SealedAt(i, out, in, sent[i], ids, got)
        BY DEF Bundle, Sealed
    <2>2. \A k, l \in DOMAIN out2 : k < l /\ IsRel(out2[k]) /\ out2[k].id = i =>
             ~(IsPub(out2[l]) /\ out2[l].id = i)
        BY <1>1, <1>2, <2>1 DEF SealedAt
    <2>3. ASSUME NEW k \in DOMAIN in2, IsComp(in2[k]), in2[k].id = i
          PROVE  /\ i \notin ids
                 /\ \A l \in DOMAIN out2 : ~(IsPub(out2[l]) /\ out2[l].id = i)
                 /\ \A l \in DOMAIN in2 : k < l => ~(IsRec(in2[l]) /\ in2[l].id = i)
        <3>1. k \in DOMAIN in /\ in2[k] = in[k]
            BY <1>3, <1>5, <2>3
        <3>2. i \notin ids /\ \A l \in DOMAIN out : ~(IsPub(out[l]) /\ out[l].id = i)
            BY <2>1, <2>3, <3>1 DEF SealedAt
        <3>3. q.id # i
            BY <3>2
        <3>4. \A l \in DOMAIN in2 : k < l => ~(IsRec(in2[l]) /\ in2[l].id = i)
            BY <1>3, <2>1, <2>3, <3>1, <3>3 DEF SealedAt
        <3> QED BY <1>1, <3>2, <3>4
    <2> QED BY <2>1, <2>2, <2>3 DEF SealedAt
<1>8. Idle(out, in, sent, ids) => Idle(out2, in2, sent, ids)
    <2> SUFFICES ASSUME Idle(out, in, sent, ids), NEW i \in Ids, sent[i] \notin Msgs2
                 PROVE  /\ i \notin ids
                        /\ \A k \in DOMAIN out2 : ~(IsPub(out2[k]) /\ out2[k].id = i)
                        /\ \A k \in DOMAIN in2 : ~(IsRec(in2[k]) /\ in2[k].id = i)
        BY DEF Idle
    <2>1. q.id # i
        BY DEF Idle
    <2> QED BY <1>1, <1>3, <2>1 DEF Idle
<1>9. ASSUME Refusals(out, in, ids, TRUE), Solo(out, in, sent, rel, got), p.id \notin ids
      PROVE  Refusals(out2, in2, ids, TRUE)
    <2>0. Forth(p) /\ \A k \in DOMAIN out : IsPub(out[k]) => Forth(out[k])
        BY DEF IsPub, Forth
    <2>1. \A k \in DOMAIN in : IsRec(in[k]) => in[k].id # p.id
        BY <1>9, <2>0 DEF Solo, Back, IsRec
    <2>2. \A k \in DOMAIN out2 : IsPub(out2[k]) => out2[k].id # p.id
        BY <1>1, <1>9, <2>0 DEF Solo
    <2> SUFFICES ASSUME NEW k \in DOMAIN in2, IsRec(in2[k]), ~in2[k].ok
                 PROVE  /\ in2[k].id \notin ids
                        /\ \A l \in DOMAIN out2 : ~(IsPub(out2[l]) /\ out2[l].id = in2[k].id)
                        /\ \A l \in DOMAIN in2 : l # k => ~(IsRec(in2[l]) /\ in2[l].id = in2[k].id)
        BY DEF Refusals
    <2>3. CASE k = n /\ in2[k] = q
        BY <1>3, <1>9, <2>1, <2>2, <2>3
    <2>4. CASE k \in DOMAIN in /\ in2[k] = in[k]
        <3>1. /\ in[k].id \notin ids
              /\ \A l \in DOMAIN out : ~(IsPub(out[l]) /\ out[l].id = in[k].id)
              /\ \A l \in DOMAIN in : l # k => ~(IsRec(in[l]) /\ in[l].id = in[k].id)
            BY <1>9, <2>4 DEF Refusals
        <3>2. in[k].id # q.id
            BY <3>1
        <3> QED BY <1>1, <1>3, <2>4, <3>1, <3>2
    <2> QED BY <1>3, <2>3, <2>4
<1>10. Bundle(out2, in2, sent, rel, ids, got, acc, done)
    BY <1>4, <1>6, <1>7 DEF Bundle
<1> QED BY <1>8, <1>9, <1>10

(* The server reads a PUBREL. *)
LEMMA ReleaseRead ==
    ASSUME NEW out, NEW out2, 1 \in DOMAIN out, DOMAIN out2 \subseteq Nat \ {0}, Segment(out2, out, 1),
           NEW in, NEW in2, NEW n, NEW q, Appends(in2, in, q, n),
           IsRel(out[1]), IsComp(q), q.id = out[1].id,
           NEW sent, NEW rel, NEW ids, NEW got, NEW acc, NEW done, NEW v5,
           Bundle(out, in, sent, rel, ids, got, acc, done)
    PROVE  /\ Bundle(out2, in2, sent, rel, ids \ {out[1].id}, got, acc, done)
           /\ Idle(out, in, sent, ids) => Idle(out2, in2, sent, ids \ {out[1].id})
           /\ Refusals(out, in, ids, v5) => Refusals(out2, in2, ids \ {out[1].id}, v5)
<1> DEFINE p == out[1]
           ids2 == ids \ {p.id}
<1>1. \A k \in DOMAIN out2 : k \in Int /\ k + 1 \in DOMAIN out /\ out2[k] = out[k + 1] /\ 1 < k + 1
    BY DEF Segment
<1>2. \A k, l \in DOMAIN out2 : k < l => k + 1 < l + 1
    BY <1>1
<1>3. \A k \in DOMAIN in2 : k \in Int /\ ((k \in DOMAIN in /\ in2[k] = in[k]) \/ (k = n /\ in2[k] = q))
    BY DEF Appends
<1>4. (\A k \in DOMAIN in : k < n) /\ ~IsRec(q)
    BY DEF Appends, IsRec, IsComp
<1>5. Wire(out2, ids, got, acc) /\ Mine(out2, sent)
    BY WireSegment, MineSegment DEF Bundle
<1>6. \A k \in DOMAIN out2 : IsPub(out2[k]) /\ got[out2[k].m] = 1 => out2[k].id # p.id
    BY <1>1 DEF Bundle, Wire
<1>7. Wire(out2, ids2, got, acc)
    BY <1>5, <1>6 DEF Wire
<1>8. Open(out2, in2, sent, rel, ids2, got)
    <2> SUFFICES ASSUME NEW i \in Ids, sent[i] \in Msgs2, i \notin rel
                 PROVE  OpenAt(i, out2, in2, sent[i], ids2, got)
        BY DEF Open
    <2>1. OpenAt(i, out, in, sent[i], ids, got)
        BY DEF Bundle, Open
    <2>2. got[sent[i]] = 1 => i # p.id
        BY <2>1 DEF OpenAt
    <2>3. \A k \in DOMAIN in2 : IsRec(in2[k]) => k \in DOMAIN in /\ in2[k] = in[k]
        BY <1>3, <1>4
    <2>4. \A k \in DOMAIN in2 : IsRec(in2[k]) /\ in2[k].id = i /\ in2[k].ok => got[sent[i]] = 1
        BY <2>1, <2>3 DEF OpenAt
    <2>5. \A k, l \in DOMAIN in2 : k < l /\ IsRec(in2[k]) /\ in2[k].id = i /\ in2[k].ok =>
             ~(IsComp(in2[l]) /\ in2[l].id = i)
        BY <1>3, <2>1, <2>2, <2>3, <2>4 DEF OpenAt
    <2>6. /\ got[sent[i]] = 0 => i \notin ids2
          /\ got[sent[i]] = 1 => i \in ids2 /\ \A k \in DOMAIN out2 : ~(IsRel(out2[k]) /\ out2[k].id = i)
        BY <1>1, <2>1, <2>2 DEF OpenAt
    <2>7. \A k, l \in DOMAIN out2 : k < l /\ IsPub(out2[k]) /\ out2[k].id = i =>
             ~(IsRel(out2[l]) /\ out2[l].id = i)
        BY <1>1, <1>2, <2>1 DEF OpenAt
    <2> QED BY <2>4, <2>5, <2>6, <2>7 DEF OpenAt
<1>9. Sealed(out2, in2, sent, rel, ids2, got)
    <2> SUFFICES ASSUME NEW i \in rel
                 PROVE  i \in Ids /\ sent[i] \in Msgs2 /\ SealedAt(i, out2, in2, sent[i], ids2, got)
        BY DEF Sealed
    <2>1. i \in Ids /\ sent[i] \in Msgs2 /\ SealedAt(i, out, in, sent[i], ids, got)
        BY DEF Bundle, Sealed
    <2>2. \A k, l \in DOMAIN out2 : k < l /\ IsRel(out2[k]) /\ out2[k].id = i =>
             ~(IsPub(out2[l]) /\ out2[l].id = i)
        BY <1>1, <1>2, <2>1 DEF SealedAt
    <2>3. ASSUME NEW k \in DOMAIN in2, IsComp(in2[k]), in2[k].id = i
          PROVE  /\ i \notin ids2
                 /\ \A l \in DOMAIN out2 : ~(IsPub(out2[l]) /\ out2[l].id = i)
                 /\ \A l \in DOMAIN in2 : k < l => ~(IsRec(in2[l]) /\ in2[l].id = i)
        <3>1. CASE k \in DOMAIN in /\ in2[k] = in[k]
            <4>1. /\ i \notin ids
                  /\ \A l \in DOMAIN out : ~(IsPub(out[l]) /\ out[l].id = i)
                  /\ \A l \in DOMAIN in : k < l => ~(IsRec(in[l]) /\ in[l].id = i)
                BY <2>1, <2>3, <3>1 DEF SealedAt
            <4> QED BY <1>1, <1>3, <1>4, <4>1
        <3>2. CASE k = n /\ in2[k] = q
            <4>1. i = p.id
                BY <2>3, <3>2
            <4>2. \A l \in DOMAIN out2 : ~(IsPub(out2[l]) /\ out2[l].id = i)
                BY <1>1, <2>1, <4>1 DEF SealedAt
            <4>3. \A l \in DOMAIN in2 : k < l => ~(IsRec(in2[l]) /\ in2[l].id = i)
                BY <1>3, <1>4, <3>2
            <4> QED BY <4>1, <4>2, <4>3
        <3> QED BY <1>3, <3>1, <3>2
    <2> QED BY <2>1, <2>2, <2>3 DEF SealedAt
<1>10. Idle(out, in, sent, ids) => Idle(out2, in2, sent, ids2)
    BY <1>1, <1>3, <1>4 DEF Idle
<1>11. Refusals(out, in, ids, v5) => Refusals(out2, in2, ids2, v5)
    BY <1>1, <1>3, <1>4 DEF Refusals
<1> QED BY <1>5, <1>7, <1>8, <1>9, <1>10, <1>11 DEF Bundle


-----------------------------------------------------------------------------
(* The client publishes, releases, ends an exchange and starts again.       *)

(* The record of m under the unused id i is added to sent. *)
NewRecord(sent, i, m, sent2) == i \in Ids /\ sent[i] = None /\ sent2 = [sent EXCEPT ![i] = m]
NewMessage(m, acc) == m \in Msgs /\ m \notin acc /\ acc \subseteq Msgs

LEMMA PublishStep ==
    ASSUME NEW out, NEW in, NEW sent \in SentRecords, NEW rel, NEW ids, NEW got,
           NEW acc, NEW done,
           Bundle(out, in, sent, rel, ids, got, acc, done), Idle(out, in, sent, ids),
           NEW i, NEW m, NewMessage(m, acc), NEW sent2, NewRecord(sent, i, m, sent2)
    PROVE  /\ Bundle(out, in, sent2, rel, ids, got, acc \cup {m}, done)
           /\ Idle(out, in, sent2, ids)
           /\ i \notin rel
           /\ \A k \in DOMAIN in : ~(IsRec(in[k]) /\ in[k].id = i)
           /\ Solo(out, in, sent, rel, got) =>
                 /\ Solo(out, in, sent2, rel, got)
                 /\ \A k \in DOMAIN out : ~(Forth(out[k]) /\ out[k].id = i)
                 /\ \A k \in DOMAIN in : ~(Back(in[k]) /\ in[k].id = i)
<1>0. None \notin Msgs /\ None \notin Msgs2 /\ None \notin Msgs1 /\ Msgs2 \subseteq Msgs
    BY NoneFacts DEF Msgs
<1> USE DEF NewRecord, NewMessage
<1>1. sent2[i] = m /\ \A j \in Ids : j # i => sent2[j] = sent[j]
    BY DEF SentRecords
<1>2. /\ i \notin ids
      /\ \A k \in DOMAIN out : ~(IsPub(out[k]) /\ out[k].id = i)
      /\ \A k \in DOMAIN in : ~(IsRec(in[k]) /\ in[k].id = i)
    BY <1>0 DEF Idle
<1>3. i \notin rel
    BY <1>0 DEF Bundle, Sealed
<1>4. \A k \in DOMAIN out : out[k].type = "PUBLISH" => out[k].m \in Msgs /\ out[k].m # m
    BY DEF Bundle, Wire
<1>5. m \in Msgs2 => got[m] = 0
    BY DEF Bundle, Taken
<1>6. Taken(got, acc \cup {m}) /\ Wire(out, ids, got, acc \cup {m})
    BY DEF Bundle, Taken, Wire
<1>7. Owned(sent2, acc \cup {m}, done)
    <2>1. done \subseteq acc /\ m \notin done /\ \A j \in Ids : sent[j] # m
        BY DEF Bundle, Owned
    <2> QED BY <1>0, <1>1, <2>1 DEF Bundle, Owned
<1>8. Mine(out, sent2)
    <2> SUFFICES ASSUME NEW j \in Ids, NEW k \in DOMAIN out, sent2[j] \in Msgs2, IsPub(out[k])
                 PROVE  out[k].m = sent2[j] <=> out[k].id = j
        BY DEF Mine
    <2>1. CASE j = i
        BY <1>1, <1>2, <1>4, <2>1 DEF IsPub
    <2>2. CASE j # i
        BY <1>1, <2>2 DEF Bundle, Mine
    <2> QED BY <2>1, <2>2
<1>9. Open(out, in, sent2, rel, ids, got)
    <2> SUFFICES ASSUME NEW j \in Ids, sent2[j] \in Msgs2, j \notin rel
                 PROVE  OpenAt(j, out, in, sent2[j], ids, got)
        BY DEF Open
    <2>1. CASE j = i
        BY <1>1, <1>2, <1>5, <2>1 DEF OpenAt
    <2>2. CASE j # i
        BY <1>1, <2>2 DEF Bundle, Open
    <2> QED BY <2>1, <2>2
<1>10. Sealed(out, in, sent2, rel, ids, got)
    BY <1>1, <1>3 DEF Bundle, Sealed
<1>11. Idle(out, in, sent2, ids)
    BY <1>0, <1>1, <1>2 DEF Idle
<1>12. ASSUME Solo(out, in, sent, rel, got)
       PROVE  /\ Solo(out, in, sent2, rel, got)
              /\ \A k \in DOMAIN out : ~(Forth(out[k]) /\ out[k].id = i)
              /\ \A k \in DOMAIN in : ~(Back(in[k]) /\ in[k].id = i)
    <2>1. \A k \in DOMAIN out : out[k].type = "PUBLISH" => sent[out[k].id] = out[k].m /\ out[k].id # i
        BY <1>0, <1>4, <1>12 DEF Solo
    <2>2. \A k \in DOMAIN out : ~(Forth(out[k]) /\ out[k].id = i)
        BY <1>3, <1>12, <2>1 DEF Solo, Forth, IsRel
    <2>3. \A k \in DOMAIN in : in[k].type = "PUBACK" =>
             in[k].id # i /\ sent[in[k].id] \in Msgs1 /\ (in[k].ok => got[sent[in[k].id]] > 0)
        BY <1>0, <1>12 DEF Solo
    <2>4. \A k \in DOMAIN in : ~(Back(in[k]) /\ in[k].id = i)
        BY <1>2, <1>3, <1>12, <2>3 DEF Solo, Back, IsRec, IsComp
    <2>5. \A j : j # i => sent2[j] = sent[j]
        BY DEF SentRecords
    <2>6. Solo(out, in, sent2, rel, got)
        BY <1>12, <2>1, <2>3, <2>5 DEF Solo
    <2> QED BY <2>2, <2>4, <2>6
<1>13. Bundle(out, in, sent2, rel, ids, got, acc \cup {m}, done)
    BY <1>6, <1>7, <1>8, <1>9, <1>10 DEF Bundle
<1> QED BY <1>2, <1>3, <1>11, <1>12, <1>13

(* PUBREC for a message that waits for it. *)
Accepts(q, i) == IsRec(q) /\ q.ok /\ q.id = i

LEMMA ReleaseStep ==
    ASSUME NEW out, NEW in, NEW in2, DOMAIN in2 \subseteq Nat \ {0}, Segment(in2, in, 1),
           NEW sent, NEW rel, NEW ids, NEW got, NEW acc, NEW done,
           Bundle(out, in, sent, rel, ids, got, acc, done),
           1 \in DOMAIN in, NEW i \in Ids, Accepts(in[1], i), sent[i] \in Msgs2, i \notin rel
    PROVE  /\ Bundle(out, in2, sent, rel \cup {i}, ids, got, acc, done)
           /\ i \in ids /\ \A k \in DOMAIN out : ~(IsRel(out[k]) /\ out[k].id = i)
           /\ Solo(out, in, sent, rel, got) => Solo(out, in2, sent, rel \cup {i}, got)
<1> DEFINE rel2 == rel \cup {i}
<1>1. OpenAt(i, out, in, sent[i], ids, got)
    BY DEF Bundle, Open
<1>2. got[sent[i]] = 1
    BY <1>1 DEF OpenAt, Accepts
<1>3. i \in ids /\ \A k \in DOMAIN out : ~(IsRel(out[k]) /\ out[k].id = i)
    BY <1>1, <1>2 DEF OpenAt
<1>4. \A k \in DOMAIN in2 : k \in Int /\ k + 1 \in DOMAIN in /\ in2[k] = in[k + 1] /\ 1 < k + 1
    BY DEF Segment
<1>5. \A k, l \in DOMAIN in2 : k < l => k + 1 < l + 1
    BY <1>4
<1>6. \A k \in DOMAIN in2 : ~(IsComp(in2[k]) /\ in2[k].id = i)
    BY <1>1, <1>4 DEF OpenAt, Accepts
<1>7. Open(out, in2, sent, rel2, ids, got)
    <2> SUFFICES ASSUME NEW j \in Ids, sent[j] \in Msgs2, j \notin rel2
                 PROVE  OpenAt(j, out, in2, sent[j], ids, got)
        BY DEF Open
    <2>1. OpenAt(j, out, in, sent[j], ids, got)
        BY DEF Bundle, Open
    <2> QED BY <1>4, <1>5, <2>1 DEF OpenAt
<1>8. Sealed(out, in2, sent, rel2, ids, got)
    <2> SUFFICES ASSUME NEW j \in rel2
                 PROVE  j \in Ids /\ sent[j] \in Msgs2 /\ SealedAt(j, out, in2, sent[j], ids, got)
        BY DEF Sealed
    <2>1. CASE j = i
        BY <1>2, <1>3, <1>6, <2>1 DEF SealedAt
    <2>2. CASE j \in rel
        <3>1. j \in Ids /\ sent[j] \in Msgs2 /\ SealedAt(j, out, in, sent[j], ids, got)
            BY <2>2 DEF Bundle, Sealed
        <3> QED BY <1>4, <1>5, <3>1 DEF SealedAt
    <2> QED BY <2>1, <2>2
<1>9. Solo(out, in, sent, rel, got) => Solo(out, in2, sent, rel2, got)
    <2> HAVE Solo(out, in, sent, rel, got)
    <2>1. \A k, l \in DOMAIN in2 : k # l => k + 1 # l + 1
        BY <1>4, ShiftFacts
    <2> QED BY <1>4, <2>1 DEF Solo
<1> QED BY <1>3, <1>7, <1>8, <1>9 DEF Bundle

(* The exchange of id i is over. *)
LEMMA EndStep ==
    ASSUME NEW out, NEW in, NEW sent \in SentRecords, NEW rel, NEW ids, NEW got, NEW acc, NEW done,
           Bundle(out, in, sent, rel, ids, got, acc, done),
           NEW i \in Ids, sent[i] \in Msgs,
           NEW sent2, sent2 = [sent EXCEPT ![i] = None]
    PROVE  /\ Bundle(out, in, sent2, rel \ {i}, ids, got, acc, done \cup {sent[i]})
           /\ /\ Idle(out, in, sent, ids)
              /\ sent[i] \in Msgs2 =>
                    /\ i \notin ids
                    /\ \A k \in DOMAIN out : ~(IsPub(out[k]) /\ out[k].id = i)
                    /\ \A k \in DOMAIN in : ~(IsRec(in[k]) /\ in[k].id = i)
              => Idle(out, in, sent2, ids)
           /\ /\ Solo(out, in, sent, rel, got)
              /\ \A k \in DOMAIN out : ~(Forth(out[k]) /\ out[k].id = i)
              /\ \A k \in DOMAIN in : ~(Back(in[k]) /\ in[k].id = i)
              => Solo(out, in, sent2, rel \ {i}, got)
<1>0. None \notin Msgs /\ None \notin Msgs2 /\ None \notin Msgs1 /\ Msgs2 \subseteq Msgs
    BY NoneFacts DEF Msgs
<1>1. sent2[i] = None /\ \A j : j # i => sent2[j] = sent[j]
    BY DEF SentRecords
<1>2. Owned(sent2, acc, done \cup {sent[i]})
    BY <1>0, <1>1 DEF Bundle, Owned
<1>3. Mine(out, sent2)
    BY <1>0, <1>1 DEF Bundle, Mine
<1>4. Open(out, in, sent2, rel \ {i}, ids, got)
    <2> SUFFICES ASSUME NEW j \in Ids, sent2[j] \in Msgs2, j \notin rel \ {i}
                 PROVE  OpenAt(j, out, in, sent2[j], ids, got)
        BY DEF Open
    <2>1. j # i
        BY <1>0, <1>1
    <2> QED BY <1>1, <2>1 DEF Bundle, Open
<1>5. Sealed(out, in, sent2, rel \ {i}, ids, got)
    BY <1>1 DEF Bundle, Sealed
<1>6. ASSUME Idle(out, in, sent, ids),
             sent[i] \in Msgs2 =>
                /\ i \notin ids
                /\ \A k \in DOMAIN out : ~(IsPub(out[k]) /\ out[k].id = i)
                /\ \A k \in DOMAIN in : ~(IsRec(in[k]) /\ in[k].id = i)
      PROVE  Idle(out, in, sent2, ids)
    <2> SUFFICES ASSUME NEW j \in Ids, sent2[j] \notin Msgs2
                 PROVE  /\ j \notin ids
                        /\ \A k \in DOMAIN out : ~(IsPub(out[k]) /\ out[k].id = j)
                        /\ \A k \in DOMAIN in : ~(IsRec(in[k]) /\ in[k].id = j)
        BY DEF Idle
    <2>1. CASE j = i
        BY <1>6, <2>1 DEF Idle
    <2>2. CASE j # i
        BY <1>1, <1>6, <2>2 DEF Idle
    <2> QED BY <2>1, <2>2
<1>7. ASSUME Solo(out, in, sent, rel, got),
             \A k \in DOMAIN out : ~(Forth(out[k]) /\ out[k].id = i),
             \A k \in DOMAIN in : ~(Back(in[k]) /\ in[k].id = i)
      PROVE  Solo(out, in, sent2, rel \ {i}, got)
    <2>1. \A k \in DOMAIN out : out[k].type = "PUBLISH" \/ IsRel(out[k]) => out[k].id # i
        BY <1>7 DEF Forth, IsRel
    <2>2. \A k \in DOMAIN in : in[k].type = "PUBACK" \/ IsComp(in[k]) => in[k].id # i
        BY <1>7 DEF Back, IsComp
    <2> QED BY <1>1, <1>7, <2>1, <2>2 DEF Solo
<1>8. Bundle(out, in, sent2, rel \ {i}, ids, got, acc, done \cup {sent[i]})
    BY <1>2, <1>3, <1>4, <1>5 DEF Bundle
<1> QED BY <1>6, <1>7, <1>8

(* A client started again knows of a release what the store says. *)
LEMMA RestoreStep ==
    ASSUME NEW out, NEW sent, NEW rel, NEW ids, NEW got, NEW acc, NEW done,
           Bundle(out, <<>>, sent, rel, ids, got, acc, done),
           NEW pubrel, NEW written, NEW crash,
           Records(written, pubrel, rel, ids, crash),
           \A k \in DOMAIN out : \E l \in DOMAIN written : written[l] = out[k]
    PROVE  Bundle(out, <<>>, sent, rel \cap pubrel, ids, got, acc, done)
<1>1. Open(out, <<>>, sent, rel \cap pubrel, ids, got)
    <2> SUFFICES ASSUME NEW i \in Ids, sent[i] \in Msgs2, i \notin rel \cap pubrel
                 PROVE  OpenAt(i, out, <<>>, sent[i], ids, got)
        BY DEF Open
    <2>1. CASE i \notin rel
        BY <2>1 DEF Bundle, Open
    <2>2. CASE i \in rel
        <3>1. got[sent[i]] = 1
            BY <2>2 DEF Bundle, Sealed, SealedAt
        <3>2. i \in ids /\ \A k \in DOMAIN written : ~(IsRel(written[k]) /\ written[k].id = i)
            BY <2>2 DEF Records
        <3>3. \A k \in DOMAIN out : ~(IsRel(out[k]) /\ out[k].id = i)
            BY <3>2
        <3> QED BY <3>1, <3>2, <3>3 DEF OpenAt
    <2> QED BY <2>1, <2>2
<1>2. Sealed(out, <<>>, sent, rel \cap pubrel, ids, got)
    BY DEF Bundle, Sealed
<1> QED BY <1>1, <1>2 DEF Bundle

(* The client forgets everything. *)
LEMMA EmptyStep ==
    ASSUME NEW out, NEW in, NEW in2, NEW sent, NEW rel, NEW ids, NEW got, NEW acc, NEW done,
           Bundle(out, in, sent, rel, ids, got, acc, done),
           NEW sent2, sent2 = [i \in Ids |-> None]
    PROVE  Bundle(out, in2, sent2, {}, ids, got, acc, done)
<1>1. None \notin Msgs /\ None \notin Msgs2
    BY NoneFacts DEF Msgs
<1> QED BY <1>1 DEF Bundle, Owned, Mine, Open, Sealed

(* The server forgets as well. *)
LEMMA FreshStep ==
    ASSUME NEW out, NEW in, NEW sent, NEW rel, NEW ids, NEW got, NEW acc, NEW done, NEW v5,
           Bundle(out, in, sent, rel, ids, got, acc, done),
           NEW sent2, sent2 = [i \in Ids |-> None]
    PROVE  /\ Bundle(<<>>, <<>>, sent2, {}, {}, got, acc, done)
           /\ Idle(<<>>, <<>>, sent2, {})
           /\ Refusals(<<>>, <<>>, {}, v5)
           /\ Solo(<<>>, <<>>, sent2, {}, got)
<1>1. None \notin Msgs /\ None \notin Msgs2
    BY NoneFacts DEF Msgs
<1>2. Bundle(out, <<>>, sent2, {}, ids, got, acc, done)
    BY EmptyStep
<1>3. Wire(<<>>, {}, got, acc)
    BY DEF Wire
<1> QED BY <1>1, <1>2, <1>3 DEF Bundle, Mine, Open, Sealed, Idle, Refusals, Solo

(* What the server sends on a new connection is of no concern. *)
LEMMA QuietIn ==
    ASSUME NEW in, \A k \in DOMAIN in : ~Back(in[k]),
           NEW out, NEW sent, NEW rel, NEW ids, NEW got, NEW acc, NEW done, NEW v5
    PROVE  /\ Bundle(out, <<>>, sent, rel, ids, got, acc, done)
                => Bundle(out, in, sent, rel, ids, got, acc, done)
           /\ Idle(out, <<>>, sent, ids) => Idle(out, in, sent, ids)
           /\ Refusals(out, in, ids, v5)
<1>1. \A k \in DOMAIN in : ~IsRec(in[k]) /\ ~IsComp(in[k])
    BY DEF Back, IsRec, IsComp
<1>2. Open(out, <<>>, sent, rel, ids, got) => Open(out, in, sent, rel, ids, got)
    BY <1>1 DEF Open, OpenAt
<1>3. Sealed(out, <<>>, sent, rel, ids, got) => Sealed(out, in, sent, rel, ids, got)
    BY <1>1 DEF Sealed, SealedAt
<1>4. Idle(out, <<>>, sent, ids) => Idle(out, in, sent, ids)
    BY <1>1 DEF Idle
<1>5. Refusals(out, in, ids, v5)
    BY <1>1 DEF Refusals
<1> QED BY <1>2, <1>3, <1>4, <1>5 DEF Bundle

(* The client writes packets that fit what is in flight. *)
LEMMA ExtendStep ==
    ASSUME NEW out, NEW out2, NEW in, NEW sent \in SentRecords, NEW rel,
           Extends(out2, out, sent, rel),
           NEW ids, NEW got, NEW acc, NEW done, Bundle(out, in, sent, rel, ids, got, acc, done)
    PROVE  /\ Bundle(out2, in, sent, rel, ids, got, acc, done)
           /\ Idle(out, in, sent, ids) => Idle(out2, in, sent, ids)
<1>1. Wire(out2, ids, got, acc)
    BY WireExtends DEF Bundle
<1>2. Mine(out2, sent)
    BY MineExtends DEF Bundle
<1>3. Open(out2, in, sent, rel, ids, got) /\ Sealed(out2, in, sent, rel, ids, got)
    BY OpenExtends, SealedExtends DEF Bundle
<1> QED BY <1>1, <1>2, <1>3, IdleExtends DEF Bundle

-----------------------------------------------------------------------------
(* The sequences of packets in a state and after a step                     *)

LEMMA FrontThenLast ==
    ASSUME NEW T, NEW s \in Seq(T), s # <<>>
    PROVE  Append(Front(s), Last(s)) = s
<1>1. Len(s) \in Nat \ {0}
    BY EmptySeq
<1>2. 1 \in 1 .. Len(s) /\ Len(s) \in 1 .. Len(s)
    BY <1>1
<1>3. SubSeq(s, 1, Len(s)) = SubSeq(s, 1, Len(s) - 1) \o <<s[Len(s)]>>
    BY <1>2, SubSeqRecursiveSecond
<1>4. Front(s) \in Seq(T) /\ Last(s) \in T
    BY FrontLastFacts
<1>5. Append(Front(s), Last(s)) = Front(s) \o <<Last(s)>>
    BY <1>4, AppendIsConcat
<1> QED BY <1>3, <1>5, SubSeqFull DEF Front, Last

LEMMA TransmitWritten ==
    ASSUME NEW wire \in Seq(ToServer), NEW ps \in Seq(ToServer), ps # <<>>,
           NEW outcome, Transmit(wire, ps, outcome)
    PROVE  Written' = wire \o ps
<1>1. Front(ps) \in Seq(ToServer) /\ Last(ps) \in ToServer
    BY FrontLastFacts
<1>2. CASE c2s' = wire \o ps /\ pendingWrite' = None
    BY <1>2 DEF Written
<1>3. CASE c2s' = wire \o Front(ps) /\ pendingWrite' = Last(ps)
    <2>1. Written' = Append(wire \o Front(ps), Last(ps))
        BY <1>1, <1>3, NoPacketAssumption DEF Written
    <2>2. wire \o Front(ps) \in Seq(ToServer) /\ <<Last(ps)>> \in Seq(ToServer)
        BY <1>1, ConcatProperties
    <2>3. Append(wire \o Front(ps), Last(ps)) = (wire \o Front(ps)) \o <<Last(ps)>>
        BY <1>1, <2>2, AppendIsConcat
    <2>4. (wire \o Front(ps)) \o <<Last(ps)>> = wire \o (Front(ps) \o <<Last(ps)>>)
        BY <1>1, <2>2, ConcatAssociative
    <2>5. Front(ps) \o <<Last(ps)>> = ps
        BY <1>1, AppendIsConcat, FrontThenLast
    <2> QED BY <2>1, <2>3, <2>4, <2>5
<1> QED BY <1>2, <1>3 DEF Transmit

LEMMA OutgoingFacts ==
    ASSUME StateOK
    PROVE  /\ Written \in Seq(ToServer) /\ Queued \in Seq(ToServer)
           /\ Outgoing \in Seq(ToServer)
           /\ Len(Queued) = Len(outboundQueue)
           /\ outboundQueue = <<>> => Outgoing = Written
           /\ pendingWrite = None => Written = c2s
<1>1. outboundQueue \in Seq(Acks) /\ c2s \in Seq(ToServer) /\ pendingWrite \in ToServer \cup {None}
    BY DEF StateOK
<1>2. /\ Len(outboundQueue) \in Nat /\ DOMAIN outboundQueue = 1 .. Len(outboundQueue)
      /\ \A k \in DOMAIN outboundQueue : outboundQueue[k] \in Acks
    BY <1>1, SeqFacts
<1>3. Queued \in [1 .. Len(outboundQueue) -> ToServer]
    <2>1. \A k \in DOMAIN outboundQueue :
             Packet(outboundQueue[k].type, outboundQueue[k].id, None) \in ToServer
        BY <1>2, AckIsPacket
    <2> QED BY <1>2, <2>1 DEF Queued
<1>4. Queued \in Seq(ToServer) /\ Len(Queued) = Len(outboundQueue)
    BY <1>2, <1>3, SeqOfFunction
<1>5. Written \in Seq(ToServer)
    BY <1>1, AppendFacts DEF Written
<1>6. outboundQueue = <<>> => Queued = <<>>
    BY <1>4, EmptySeq
<1>7. Outgoing \in Seq(ToServer) /\ Written \o <<>> = Written
    BY <1>4, <1>5, ConcatProperties, ConcatEmptySeq DEF Outgoing
<1> QED BY <1>4, <1>5, <1>6, <1>7 DEF Outgoing, Written

LEMMA ConcatParts ==
    ASSUME NEW T, NEW s \in Seq(T), NEW t \in Seq(T)
    PROVE  /\ s \o t \in Seq(T)
           /\ Segment(s, s \o t, 0)
           /\ \A k \in DOMAIN (s \o t) :
                 /\ k \in Int
                 /\ \/ k \in DOMAIN s /\ (s \o t)[k] = s[k]
                    \/ /\ \A l \in DOMAIN s : l < k
                       /\ k - Len(s) \in DOMAIN t
                       /\ (s \o t)[k] = t[k - Len(s)]
<1> DEFINE u == s \o t
<1>1. /\ u \in Seq(T) /\ Len(u) = Len(s) + Len(t)
      /\ \A i \in 1 .. Len(s) + Len(t) : u[i] = IF i <= Len(s) THEN s[i] ELSE t[i - Len(s)]
    BY ConcatProperties
<1>2. /\ Len(s) \in Nat /\ DOMAIN s = 1 .. Len(s)
      /\ Len(t) \in Nat /\ DOMAIN t = 1 .. Len(t)
    BY SeqFacts
<1>3. DOMAIN u = 1 .. Len(s) + Len(t)
    BY <1>1, SeqFacts
<1> HIDE DEF u
<1>4. Segment(s, u, 0)
    <2> SUFFICES ASSUME NEW k \in DOMAIN s PROVE k \in Int /\ k + 0 \in DOMAIN u /\ s[k] = u[k + 0]
        BY DEF Segment
    <2>1. k \in Int /\ 1 <= k /\ k <= Len(s) /\ k + 0 = k
        BY <1>2
    <2>2. k \in 1 .. Len(s) + Len(t)
        BY <1>2, <2>1
    <2> QED BY <1>1, <1>3, <2>1, <2>2
<1>5. ASSUME NEW k \in DOMAIN u
      PROVE  /\ k \in Int
             /\ \/ k \in DOMAIN s /\ u[k] = s[k]
                \/ /\ \A l \in DOMAIN s : l < k
                   /\ k - Len(s) \in DOMAIN t
                   /\ u[k] = t[k - Len(s)]
    <2>1. k \in Int /\ 1 <= k /\ k <= Len(s) + Len(t) /\ k \in 1 .. Len(s) + Len(t)
        BY <1>2, <1>3
    <2>2. CASE k <= Len(s)
        BY <1>1, <1>2, <2>1, <2>2
    <2>3. CASE ~(k <= Len(s))
        <3>1. k - Len(s) \in 1 .. Len(t) /\ \A l \in 1 .. Len(s) : l < k
            BY <1>2, <2>1, <2>3
        <3> QED BY <1>1, <1>2, <2>1, <2>3, <3>1
    <2> QED BY <2>2, <2>3
<1> QED BY <1>1, <1>4, <1>5 DEF u

LEMMA ConcatExtends ==
    ASSUME NEW T, NEW s \in Seq(T), NEW t \in Seq(T), NEW sent, NEW rel,
           \A k \in DOMAIN t : Fits(t[k], sent, rel)
    PROVE  Extends(s \o t, s, sent, rel)
BY ConcatParts DEF Extends

LEMMA AppendsIntro ==
    ASSUME NEW s, NEW u, NEW p, NEW len \in Nat, DOMAIN s = 1 .. len, DOMAIN u = 1 .. (len + 1),
           u[len + 1] = p, \A k \in DOMAIN s : u[k] = s[k]
    PROVE  Appends(u, s, p, len + 1) /\ Appends(s, s, p, len + 1)
<1>1. \A k \in 1 .. (len + 1) : k \in Int /\ (k \in 1 .. len \/ k = len + 1)
    OBVIOUS
<1>2. \A k \in 1 .. len : k \in Int /\ k < len + 1
    OBVIOUS
<1>3. Appends(u, s, p, len + 1)
    BY <1>1, <1>2 DEF Appends
<1>4. Appends(s, s, p, len + 1)
    BY <1>2 DEF Appends
<1> QED BY <1>3, <1>4

LEMMA AppendAppends ==
    ASSUME NEW T, NEW s \in Seq(T), NEW p \in T
    PROVE  /\ Appends(Append(s, p), s, p, Len(s) + 1)
           /\ Appends(s, s, p, Len(s) + 1)
<1>1. Len(s) \in Nat /\ DOMAIN s = 1 .. Len(s)
    BY SeqFacts
<1>2. /\ DOMAIN Append(s, p) = 1 .. (Len(s) + 1)
      /\ Append(s, p)[Len(s) + 1] = p
      /\ \A k \in DOMAIN s : Append(s, p)[k] = s[k]
    BY AppendFacts
<1> QED BY <1>1, <1>2, AppendsIntro

LEMMA AppendExtends ==
    ASSUME NEW s, NEW t, NEW p, NEW n, Appends(t, s, p, n), NEW sent, NEW rel, Fits(p, sent, rel)
    PROVE  Extends(t, s, sent, rel)
BY DEF Appends, Extends

LEMMA TailSegment ==
    ASSUME NEW T, NEW s \in Seq(T), s # <<>>
    PROVE  /\ 1 \in DOMAIN s /\ s[1] = Head(s)
           /\ Segment(Tail(s), s, 1)
           /\ DOMAIN Tail(s) \subseteq Nat \ {0}
<1>1. Len(s) \in Nat \ {0} /\ DOMAIN s = 1 .. Len(s)
    BY EmptySeq, SeqFacts
<1>2. /\ Tail(s) \in Seq(T) /\ Len(Tail(s)) = Len(s) - 1
      /\ \A i \in 1 .. Len(Tail(s)) : Tail(s)[i] = s[i + 1]
    BY HeadTailProperties
<1>3. DOMAIN Tail(s) = 1 .. (Len(s) - 1)
    BY <1>2, SeqFacts
<1>4. \A k \in 1 .. (Len(s) - 1) : k \in Nat \ {0} /\ k + 1 \in 1 .. Len(s)
    BY <1>1
<1>5. Head(s) = s[1]
    OBVIOUS
<1>6. 1 \in 1 .. Len(s)
    BY <1>1
<1> QED BY <1>1, <1>2, <1>3, <1>4, <1>5, <1>6 DEF Segment

(* An acknowledgement is added to what is on its way, and if it is written  *)
(* at once, to the store.                                                   *)
LEMMA SendAckOutgoing ==
    ASSUME StateOK, StateOK', Channel, NEW type, NEW id,
           [type |-> type, id |-> id] \in Acks, SendAck(type, id)
    PROVE  /\ Packet(type, id, None) \in ToServer
           /\ Outgoing' = Append(Outgoing, Packet(type, id, None))
           /\ \/ Written' = Written /\ pubrelKeys' = pubrelKeys
              \/ /\ Written' = Append(Written, Packet(type, id, None))
                 /\ pubrelKeys' = pubrelKeys \cup (IF type = "PUBREL" THEN {id} ELSE {})
<1> DEFINE p == Packet(type, id, None)
<1>1. p \in ToServer
    <2>1. Packet([type |-> type, id |-> id].type, [type |-> type, id |-> id].id, None) \in ToServer
        BY AckIsPacket
    <2> QED BY <2>1
<1>2. p.type = type /\ p.id = id
    BY DEF Packet
<1>3. /\ Written \in Seq(ToServer) /\ Queued \in Seq(ToServer) /\ Outgoing \in Seq(ToServer)
      /\ outboundQueue = <<>> => Outgoing = Written
      /\ pendingWrite = None => Written = c2s
    BY OutgoingFacts
<1>4. outboundQueue' = <<>> => Outgoing' = Written'
    <2>1. (StateOK => (outboundQueue = <<>> => Outgoing = Written))'
        BY OutgoingFacts, PTL
    <2> QED BY <2>1
<1> HIDE DEF p
<1>5. CASE pendingWrite = None
    <2>1. PICK outcome : Transmit(c2s, <<p>>, outcome)
        BY <1>5 DEF SendAck, p
    <2>2. pubrelKeys' = PutPubrel(pubrelKeys, <<p>>) /\ outboundQueue' = outboundQueue
        BY <1>5 DEF SendAck, p
    <2>3. outboundQueue = <<>>
        BY <1>5 DEF Channel
    <2>4. <<p>> \in Seq(ToServer) /\ <<p>> # <<>>
        BY <1>1
    <2>5. Written' = Written \o <<p>>
        BY <1>3, <1>5, <2>1, <2>4, TransmitWritten
    <2>6. Written' = Append(Written, p)
        BY <1>1, <1>3, <2>5, AppendIsConcat
    <2>7. Outgoing' = Append(Outgoing, p)
        BY <1>3, <1>4, <2>2, <2>3, <2>6
    <2>8. pubrelKeys' = pubrelKeys \cup (IF type = "PUBREL" THEN {id} ELSE {})
        <3>1. DOMAIN <<p>> = {1} /\ <<p>>[1] = p
            OBVIOUS
        <3> DEFINE ps == <<p>>
        <3> HIDE DEF ps
        <3>2. PutPubrel(pubrelKeys, ps) = pubrelKeys \cup (IF type = "PUBREL" THEN {id} ELSE {})
            BY <1>2, <3>1 DEF PutPubrel, ps
        <3> QED BY <2>2, <3>2 DEF ps
    <2> QED BY <1>1, <2>6, <2>7, <2>8 DEF p
<1>6. CASE pendingWrite # None
    <2>1. /\ outboundQueue' = Append(outboundQueue, [type |-> type, id |-> id])
          /\ UNCHANGED <<c2s, pendingWrite, pubrelKeys>>
        BY <1>6 DEF SendAck
    <2>2. Written' = Written
        BY <2>1 DEF Written
    <2>3. Queued' = Append(Queued, p)
        <3> DEFINE a == [type |-> type, id |-> id]
        <3>1. outboundQueue \in Seq(Acks)
            BY DEF StateOK
        <3>2. /\ Append(outboundQueue, a) \in Seq(Acks)
              /\ DOMAIN Append(outboundQueue, a) = 1 .. (Len(outboundQueue) + 1)
              /\ Append(outboundQueue, a)[Len(outboundQueue) + 1] = a
              /\ \A k \in DOMAIN outboundQueue : Append(outboundQueue, a)[k] = outboundQueue[k]
            BY <3>1, AppendFacts
        <3>3. Packet(a.type, a.id, None) = p
            BY DEF p
        <3> HIDE DEF a
        <3>4. /\ Len(outboundQueue) \in Nat /\ DOMAIN outboundQueue = 1 .. Len(outboundQueue)
              /\ Len(Queued) = Len(outboundQueue) /\ DOMAIN Queued = 1 .. Len(outboundQueue)
            BY <1>3, <3>1, OutgoingFacts, SeqFacts
        <3>5. /\ DOMAIN outboundQueue' = 1 .. (Len(outboundQueue) + 1)
              /\ outboundQueue'[Len(outboundQueue) + 1] = a
              /\ \A k \in 1 .. Len(outboundQueue) : outboundQueue'[k] = outboundQueue[k]
            BY <2>1, <3>2, <3>4 DEF a
        <3>6. Queued' = [k \in 1 .. (Len(outboundQueue) + 1) |->
                           Packet(outboundQueue'[k].type, outboundQueue'[k].id, None)]
            BY <3>5 DEF Queued
        <3>7. /\ DOMAIN Queued' = 1 .. (Len(outboundQueue) + 1)
              /\ Queued'[Len(outboundQueue) + 1] = p
              /\ \A k \in 1 .. Len(outboundQueue) : Queued'[k] = Queued[k]
            <4>1. Len(outboundQueue) + 1 \in 1 .. (Len(outboundQueue) + 1)
                BY <3>4
            <4>2. \A k \in 1 .. Len(outboundQueue) : k \in 1 .. (Len(outboundQueue) + 1)
                BY <3>4
            <4>3. \A k \in 1 .. Len(outboundQueue) :
                     Queued[k] = Packet(outboundQueue[k].type, outboundQueue[k].id, None)
                BY <3>4 DEF Queued
            <4>4. Queued'[Len(outboundQueue) + 1] = p
                BY <3>3, <3>5, <3>6, <4>1
            <4>5. \A k \in 1 .. Len(outboundQueue) : Queued'[k] = Queued[k]
                BY <3>5, <3>6, <4>2, <4>3
            <4> QED BY <3>6, <4>4, <4>5
        <3>8. Queued' \in Seq(ToServer) /\ Len(Queued') = Len(outboundQueue) + 1
            <4>1. (StateOK => Queued \in Seq(ToServer))'
                BY OutgoingFacts, PTL
            <4>2. Queued' \in Seq(ToServer)
                BY <4>1
            <4>3. Len(Queued') \in Nat /\ DOMAIN Queued' = 1 .. Len(Queued')
                BY <4>2, SeqFacts
            <4> QED BY <3>4, <3>7, <4>2, <4>3
        <3>9. /\ Append(Queued, p) \in Seq(ToServer) /\ Len(Append(Queued, p)) = Len(Queued) + 1
              /\ \A i \in 1 .. Len(Queued) : Append(Queued, p)[i] = Queued[i]
              /\ Append(Queued, p)[Len(Queued) + 1] = p
            BY <1>1, <1>3, AppendProperties
        <3>10. \A i \in 1 .. (Len(outboundQueue) + 1) :
                  i \in 1 .. Len(outboundQueue) \/ i = Len(outboundQueue) + 1
            BY <3>4
        <3>11. \A i \in 1 .. Len(Queued') : Queued'[i] = Append(Queued, p)[i]
            BY <3>4, <3>7, <3>8, <3>9, <3>10
        <3> QED BY <3>4, <3>8, <3>9, <3>11, SeqEqual
    <2>4. Outgoing' = Written \o Append(Queued, p)
        BY <2>2, <2>3 DEF Outgoing
    <2>5. Append(Queued, p) = Queued \o <<p>> /\ <<p>> \in Seq(ToServer)
        BY <1>1, <1>3, AppendIsConcat
    <2>6. (Written \o Queued) \o <<p>> = Written \o (Queued \o <<p>>)
        BY <1>3, <2>5, ConcatAssociative
    <2>7. Append(Outgoing, p) = Outgoing \o <<p>>
        BY <1>1, <1>3, AppendIsConcat
    <2>8. Outgoing' = Append(Outgoing, p)
        BY <2>4, <2>5, <2>6, <2>7 DEF Outgoing
    <2> QED BY <1>1, <2>1, <2>2, <2>8 DEF p
<1> QED BY <1>5, <1>6

(* What is written is part of what is on its way. *)
LEMMA WrittenIsOutgoing ==
    ASSUME StateOK
    PROVE  /\ Segment(Written, Outgoing, 0)
           /\ \A k \in DOMAIN Written : k \in DOMAIN Outgoing /\ Outgoing[k] = Written[k]
<1>1. Segment(Written, Outgoing, 0)
    BY OutgoingFacts, ConcatParts DEF Outgoing
<1>2. \A k \in DOMAIN Written : k + 0 = k
    BY <1>1 DEF Segment
<1> QED BY <1>1, <1>2 DEF Segment

(* The server reads the first packet. *)
LEMMA SrvReceiveOutgoing ==
    ASSUME StateOK, NEW p, NEW types, SrvReceive(p, types),
           UNCHANGED <<pendingWrite, outboundQueue>>
    PROVE  /\ p \in ToServer /\ p.type \in types
           /\ 1 \in DOMAIN Outgoing /\ Outgoing[1] = p
           /\ 1 \in DOMAIN Written /\ Written[1] = p
           /\ Segment(Outgoing', Outgoing, 1) /\ DOMAIN Outgoing' \subseteq Nat \ {0}
           /\ Segment(Written', Written, 1)
<1>1. /\ c2s \in Seq(ToServer) /\ c2s # <<>> /\ p = Head(c2s) /\ c2s' = Tail(c2s)
      /\ pendingWrite \in ToServer \cup {None}
    BY DEF SrvReceive, StateOK
<1>2. p \in ToServer /\ p.type \in types
    BY SrvReceiveType
<1>3. /\ Written \in Seq(ToServer) /\ Queued \in Seq(ToServer) /\ Outgoing \in Seq(ToServer)
    BY OutgoingFacts
<1>4. Queued' = Queued
    BY DEF Queued
<1>5. Written # <<>> /\ Written' = Tail(Written) /\ Head(Written) = p
    <2>1. CASE pendingWrite = None
        BY <1>1, <2>1 DEF Written
    <2>2. CASE pendingWrite # None
        <3>1. /\ Head(Append(c2s, pendingWrite)) = IF c2s = <<>> THEN pendingWrite ELSE Head(c2s)
              /\ Tail(Append(c2s, pendingWrite)) =
                    IF c2s = <<>> THEN <<>> ELSE Append(Tail(c2s), pendingWrite)
            BY <1>1, HeadTailAppend
        <3>2. Append(c2s, pendingWrite) # <<>>
            BY <1>1, <2>2, AppendProperties
        <3> QED BY <1>1, <2>2, <3>1, <3>2 DEF Written
    <2> QED BY <2>1, <2>2
<1>6. 1 \in DOMAIN Written /\ Written[1] = p /\ Segment(Written', Written, 1)
    BY <1>3, <1>5, TailSegment
<1>7. 1 \in DOMAIN Outgoing /\ Outgoing[1] = p
    BY <1>6, WrittenIsOutgoing
<1>8. Outgoing # <<>>
    BY <1>7
<1>9. Outgoing' = Tail(Outgoing)
    <2>1. /\ Tail(Written) \in Seq(ToServer) /\ Len(Tail(Written)) = Len(Written) - 1
          /\ \A i \in 1 .. Len(Tail(Written)) : Tail(Written)[i] = Written[i + 1]
        BY <1>3, <1>5, HeadTailProperties
    <2>2. /\ Tail(Outgoing) \in Seq(ToServer) /\ Len(Tail(Outgoing)) = Len(Outgoing) - 1
          /\ \A i \in 1 .. Len(Tail(Outgoing)) : Tail(Outgoing)[i] = Outgoing[i + 1]
        BY <1>3, <1>8, HeadTailProperties
    <2> DEFINE s == Written
               t == Queued
               w == Tail(Written)
               u == w \o t
    <2>3. Outgoing' = u
        BY <1>4, <1>5 DEF Outgoing
    <2>4. /\ Len(Outgoing) = Len(s) + Len(t)
          /\ \A i \in 1 .. Len(s) + Len(t) : Outgoing[i] = IF i <= Len(s) THEN s[i] ELSE t[i - Len(s)]
        BY <1>3, ConcatProperties DEF Outgoing
    <2>5. /\ u \in Seq(ToServer) /\ Len(u) = Len(w) + Len(t)
          /\ \A i \in 1 .. Len(w) + Len(t) : u[i] = IF i <= Len(w) THEN w[i] ELSE t[i - Len(w)]
        BY <1>3, <2>1, ConcatProperties
    <2>6. Len(s) \in Nat \ {0} /\ Len(t) \in Nat
        BY <1>3, <1>5, EmptySeq, SeqFacts
    <2> HIDE DEF u, w, t, s
    <2>7. Len(u) = Len(s) - 1 + Len(t) /\ Len(w) = Len(s) - 1
        BY <2>1, <2>5, <2>6 DEF w, s
    <2>8. ASSUME NEW i \in 1 .. (Len(s) - 1 + Len(t)) PROVE u[i] = Outgoing[i + 1]
        <3>1. CASE i <= Len(s) - 1
            <4>1. u[i] = w[i]
                BY <2>5, <2>6, <2>7, <3>1
            <4>2. w[i] = s[i + 1]
                BY <2>1, <2>6, <2>7, <3>1 DEF w, s
            <4>3. Outgoing[i + 1] = s[i + 1]
                <5>1. i + 1 \in 1 .. Len(s) + Len(t) /\ i + 1 <= Len(s)
                    BY <2>6, <3>1
                <5> QED BY <2>4, <5>1
            <4> QED BY <4>1, <4>2, <4>3
        <3>2. CASE ~(i <= Len(s) - 1)
            <4>1. i + 1 \in 1 .. Len(s) + Len(t) /\ ~(i + 1 <= Len(s)) /\ (i + 1) - Len(s) = i - (Len(s) - 1)
                BY <2>6, <3>2
            <4>2. u[i] = t[i - (Len(s) - 1)]
                BY <2>5, <2>6, <2>7, <3>2
            <4> QED BY <2>4, <4>1, <4>2
        <3> QED BY <3>1, <3>2
    <2>9. Len(Tail(Outgoing)) = Len(s) - 1 + Len(t)
        BY <2>2, <2>4, <2>6
    <2>10. \A i \in 1 .. Len(u) : u[i] = Tail(Outgoing)[i]
        BY <2>2, <2>7, <2>8, <2>9
    <2> QED BY <2>2, <2>3, <2>5, <2>7, <2>9, <2>10, SeqEqual
<1>10. Segment(Outgoing', Outgoing, 1) /\ DOMAIN Outgoing' \subseteq Nat \ {0}
    BY <1>3, <1>8, <1>9, TailSegment
<1> QED BY <1>2, <1>6, <1>7, <1>10

-----------------------------------------------------------------------------
(* The phases of the exchanges, per action                                  *)

LEMMA ReleasedFacts ==
    ASSUME StoreInv, Phases
    PROVE  /\ sentKeys \in SentRecords
           /\ \A k \in DOMAIN outboundMsgs :
                 /\ outboundMsgs[k].id \in Ids /\ outboundMsgs[k].m \in Msgs
                 /\ sentKeys[outboundMsgs[k].id] = outboundMsgs[k].m
                 /\ outboundMsgs[k].id \in Released <=> outboundMsgs[k].next = "PUBCOMP"
                 /\ outboundMsgs[k].next = "PUBACK" <=> outboundMsgs[k].m \notin Msgs2
           /\ \A i \in Released : i \in Ids /\ sentKeys[i] \in Msgs2
           /\ \A i \in Ids : sentKeys[i] \in Msgs2 /\ Waiting(i, "PUBREC") = {} => i \in Released
<1>1. sentKeys \in SentRecords /\ outboundMsgs \in Seq(OutEntry)
    BY DEF StoreInv, StateOK, SentRecords
<1>2. \A k \in DOMAIN outboundMsgs : outboundMsgs[k] \in OutEntry
    BY <1>1, SeqFacts
<1>3. \A k \in DOMAIN outboundMsgs :
         /\ outboundMsgs[k].id \in Ids /\ outboundMsgs[k].m \in Msgs
         /\ sentKeys[outboundMsgs[k].id] = outboundMsgs[k].m
    BY <1>2 DEF OutEntry, StoreInv, Matches
<1>4. \A k, l \in DOMAIN outboundMsgs : outboundMsgs[k].id = outboundMsgs[l].id => k = l
    BY DEF StoreInv, Matches
<1>5. \A k \in DOMAIN outboundMsgs :
         /\ outboundMsgs[k].id \in Released <=> outboundMsgs[k].next = "PUBCOMP"
         /\ outboundMsgs[k].next = "PUBACK" <=> outboundMsgs[k].m \notin Msgs2
    BY <1>4 DEF Released, Phases
<1>6. \A i \in Released : i \in Ids /\ sentKeys[i] \in Msgs2
    BY <1>3, <1>5 DEF Released, Phases
<1>7. ASSUME NEW i \in Ids, sentKeys[i] \in Msgs2, Waiting(i, "PUBREC") = {}
      PROVE  i \in Released
    <2>1. sentKeys[i] # None
        BY <1>7, NoneFacts DEF Msgs
    <2>2. PICK k \in DOMAIN outboundMsgs : outboundMsgs[k].id = i
        BY <2>1 DEF StoreInv, Matches
    <2>3. outboundMsgs[k].m \in Msgs2 /\ outboundMsgs[k].next # "PUBREC"
        BY <1>3, <1>7, <2>2 DEF Waiting
    <2> QED BY <1>5, <2>2, <2>3 DEF Phases
<1> QED BY <1>1, <1>3, <1>5, <1>6, <1>7

LEMMA SamePhases ==
    ASSUME Phases, UNCHANGED outboundMsgs
    PROVE  Phases' /\ Released' = Released
BY DEF Phases, Released

LEMMA PublishPhases ==
    ASSUME StoreInv, Phases, NEW m \in Msgs, Publish(m)
    PROVE  Phases' /\ Released' = Released
<1> DEFINE id == AssignMsgId(msgID, OutIds)
           e == [id |-> id, m |-> m, next |-> FirstAck(m)]
<1>1. outboundMsgs' = Append(outboundMsgs, e) /\ outboundMsgs \in Seq(OutEntry)
    BY DEF Publish, StoreInv, StateOK
<1>2. e \in OutEntry
    <2>1. id \in Ids
        BY AssignedIsFree DEF Publish, StateOK, StoreInv
    <2> HIDE DEF id
    <2> QED BY <2>1 DEF OutEntry, FirstAck
<1>3. e.next = FirstAck(m) /\ e.m = m
    OBVIOUS
<1> HIDE DEF e
<1>4. /\ DOMAIN outboundMsgs' = 1 .. (Len(outboundMsgs) + 1)
      /\ outboundMsgs'[Len(outboundMsgs) + 1] = e
      /\ \A k \in DOMAIN outboundMsgs : outboundMsgs'[k] = outboundMsgs[k]
      /\ DOMAIN outboundMsgs = 1 .. Len(outboundMsgs) /\ Len(outboundMsgs) \in Nat
    BY <1>1, <1>2, AppendFacts, SeqFacts
<1>5. \A k \in DOMAIN outboundMsgs' :
         \/ k = Len(outboundMsgs) + 1 /\ outboundMsgs'[k] = e
         \/ k \in DOMAIN outboundMsgs /\ outboundMsgs'[k] = outboundMsgs[k]
    BY <1>4
<1>6. DOMAIN outboundMsgs \subseteq DOMAIN outboundMsgs'
    BY <1>4
<1>7. e.next # "PUBCOMP"
    BY <1>3 DEF FirstAck
<1>8. Phases'
    BY <1>3, <1>5 DEF Phases, FirstAck
<1>9. Released' = Released
    BY <1>4, <1>5, <1>6, <1>7 DEF Released
<1> QED BY <1>8, <1>9

LEMMA EndExchangePhases ==
    ASSUME StoreInv, Phases, NEW k \in DOMAIN outboundMsgs, NEW ok, EndExchange(k, ok)
    PROVE  Phases' /\ Released' = Released \ {outboundMsgs[k].id}
<1> DEFINE n == Len(outboundMsgs)
<1>1. outboundMsgs \in Seq(OutEntry) /\ outboundMsgs' = RemoveAt(outboundMsgs, k)
    BY DEF StoreInv, StateOK, EndExchange
<1>2. n \in Nat /\ DOMAIN outboundMsgs = 1 .. n /\ k \in 1 .. n
    BY <1>1, SeqFacts
<1>3. /\ DOMAIN outboundMsgs' = 1 .. (n - 1)
      /\ \A j \in 1 .. (n - 1) :
            outboundMsgs'[j] = IF j < k THEN outboundMsgs[j] ELSE outboundMsgs[j + 1]
    BY <1>1, RemoveAtFacts
<1> HIDE DEF n
<1>4. \A j \in DOMAIN outboundMsgs' :
         \E l \in DOMAIN outboundMsgs : l # k /\ outboundMsgs'[j] = outboundMsgs[l]
    <2> TAKE j \in DOMAIN outboundMsgs'
    <2> DEFINE l == IF j < k THEN j ELSE j + 1
    <2>1. l \in 1 .. n /\ l # k /\ outboundMsgs'[j] = outboundMsgs[l]
        BY <1>2, <1>3
    <2> QED BY <1>2, <2>1
<1>5. \A l \in DOMAIN outboundMsgs : l # k =>
         \E j \in DOMAIN outboundMsgs' : outboundMsgs'[j] = outboundMsgs[l]
    <2> TAKE l \in DOMAIN outboundMsgs
    <2> HAVE l # k
    <2> DEFINE j == IF l < k THEN l ELSE l - 1
    <2>1. j \in 1 .. (n - 1) /\ outboundMsgs'[j] = outboundMsgs[l]
        BY <1>2, <1>3
    <2> QED BY <1>3, <2>1
<1>6. Phases'
    BY <1>4 DEF Phases
<1>7. \A i, l \in DOMAIN outboundMsgs : outboundMsgs[i].id = outboundMsgs[l].id => i = l
    BY DEF StoreInv, Matches
<1>8. Released' \subseteq Released \ {outboundMsgs[k].id}
    BY <1>4, <1>7 DEF Released
<1>9. Released \ {outboundMsgs[k].id} \subseteq Released'
    BY <1>5 DEF Released
<1> QED BY <1>6, <1>8, <1>9

LEMMA PubrecReleasesPhases ==
    ASSUME StoreInv, Phases, NEW p, PubrecReleases(p)
    PROVE  /\ Phases'
           /\ Released' = Released \cup (IF Waiting(p.id, "PUBREC") = {} THEN {} ELSE {p.id})
<1>1. \A k \in DOMAIN outboundMsgs : outboundMsgs[k] \in OutEntry
    <2>1. outboundMsgs \in Seq(OutEntry)
        BY DEF StoreInv, StateOK
    <2> QED BY <2>1, SeqFacts
<1>2. /\ DOMAIN outboundMsgs' = DOMAIN outboundMsgs
      /\ \A k \in DOMAIN outboundMsgs :
            /\ outboundMsgs'[k].id = outboundMsgs[k].id
            /\ outboundMsgs'[k].m = outboundMsgs[k].m
            /\ k \in Waiting(p.id, "PUBREC") => outboundMsgs'[k].next = "PUBCOMP"
            /\ k \notin Waiting(p.id, "PUBREC") => outboundMsgs'[k].next = outboundMsgs[k].next
    BY <1>1 DEF PubrecReleases, OutEntry
<1>3. \A k \in Waiting(p.id, "PUBREC") : /\ k \in DOMAIN outboundMsgs
                                         /\ outboundMsgs[k].id = p.id
                                         /\ outboundMsgs[k].next = "PUBREC"
                                         /\ outboundMsgs[k].m \in Msgs2
    BY DEF Waiting, Phases
<1>4. Phases'
    BY <1>2, <1>3 DEF Phases
<1>5. \A k \in DOMAIN outboundMsgs :
         outboundMsgs'[k].next = "PUBCOMP" <=>
            outboundMsgs[k].next = "PUBCOMP" \/ k \in Waiting(p.id, "PUBREC")
    BY <1>2
<1>6. Released' = Released \cup {outboundMsgs[k].id : k \in Waiting(p.id, "PUBREC")}
    BY <1>2, <1>3, <1>5 DEF Released
<1> QED BY <1>3, <1>4, <1>6

LEMMA EmptySessionPhases ==
    ASSUME EmptySession
    PROVE  Phases' /\ Released' = {}
BY DEF EmptySession, Phases, Released

(* The entries of the list a client is started with come from the records. *)
LEMMA RestoredEntries ==
    ASSUME NEW sent \in SentRecords, NEW pubrel, NEW rcvd, Restore(sent, pubrel, rcvd)
    PROVE  \A k \in DOMAIN outboundMsgs' : outboundMsgs'[k] \in Restored(sent, pubrel)
<1>1. PICK s \in InIdOrder(Restored(sent, pubrel)) : outboundMsgs' = WrapMsgID(s)
    BY DEF Restore
<1>2. s \in Seq(OutEntry)
    BY RestoredMatches
<1>3. \A k \in DOMAIN s : s[k] \in Restored(sent, pubrel)
    BY DEF InIdOrder
<1>4. CASE WrapPoints(s) = {}
    BY <1>1, <1>3, <1>4 DEF WrapMsgID
<1>5. CASE WrapPoints(s) # {}
    <2>1. PICK k \in WrapPoints(s) : WrapMsgID(s) = Rotate(s, k)
        BY <1>5 DEF WrapMsgID
    <2> DEFINE n == Len(s)
    <2>2. n \in Nat /\ DOMAIN s = 1 .. n /\ k \in 2 .. n
        BY <1>2, SeqFacts DEF WrapPoints
    <2>3. Rotate(s, k) = [j \in DOMAIN s |-> IF j + k - 1 <= n THEN s[j + k - 1] ELSE s[j + k - 1 - n]]
        BY DEF Rotate
    <2> HIDE DEF n
    <2>4. \A j \in DOMAIN s : \E l \in DOMAIN s : Rotate(s, k)[j] = s[l]
        <3> TAKE j \in DOMAIN s
        <3> DEFINE l == IF j + k - 1 <= n THEN j + k - 1 ELSE j + k - 1 - n
        <3>1. l \in 1 .. n
            BY <2>2
        <3>2. Rotate(s, k)[j] = s[l]
            BY <2>3
        <3> QED BY <2>2, <3>1, <3>2
    <2>5. DOMAIN Rotate(s, k) = DOMAIN s
        BY <2>3
    <2> QED BY <1>1, <1>3, <2>1, <2>4, <2>5
<1> QED BY <1>4, <1>5

LEMMA RestorePhases ==
    ASSUME NEW sent \in SentRecords, NEW pubrel \in SUBSET Ids,
           NEW rcvd \in [SrvIds -> SrvMsgs2 \cup {None}],
           Restore(sent, pubrel, rcvd)
    PROVE  /\ Phases'
           /\ Released' = {i \in pubrel : sent[i] \in Msgs2}
           /\ sentKeys' = sent /\ pubrelKeys' = {i \in pubrel : sent[i] # None}
           /\ connected' = FALSE /\ pendingWrite' = None /\ s2c' = <<>> /\ outboundQueue' = <<>>
<1>1. \A k \in DOMAIN outboundMsgs' : \E i \in Ids :
         /\ outboundMsgs'[k].id = i /\ outboundMsgs'[k].m = sent[i]
         /\ outboundMsgs'[k].next = IF sent[i] \in Msgs2 /\ i \in pubrel THEN "PUBCOMP"
                                    ELSE FirstAck(sent[i])
    BY RestoredEntries DEF Restored
<1>2. Phases'
    BY <1>1 DEF Phases, FirstAck
<1>3. Matches(outboundMsgs', sent)
    BY RestoreType
<1>4. Released' \subseteq {i \in pubrel : sent[i] \in Msgs2}
    <2> SUFFICES ASSUME NEW k \in DOMAIN outboundMsgs', outboundMsgs'[k].next = "PUBCOMP"
                 PROVE  outboundMsgs'[k].id \in {i \in pubrel : sent[i] \in Msgs2}
        BY DEF Released
    <2> QED BY <1>1 DEF FirstAck
<1>5. {i \in pubrel : sent[i] \in Msgs2} \subseteq Released'
    <2> SUFFICES ASSUME NEW i \in pubrel, sent[i] \in Msgs2 PROVE i \in Released'
        OBVIOUS
    <2>1. sent[i] # None /\ i \in Ids
        BY NoneFacts DEF Msgs
    <2>2. PICK k \in DOMAIN outboundMsgs' : outboundMsgs'[k].id = i
        BY <1>3, <2>1 DEF Matches
    <2>3. outboundMsgs'[k].next = "PUBCOMP"
        BY <1>1, <2>2
    <2> QED BY <2>2, <2>3 DEF Released
<1> QED BY <1>2, <1>4, <1>5 DEF Restore, CloseSocket

-----------------------------------------------------------------------------
(* The server's steps                                                       *)

LEMMA RecordsSegment ==
    ASSUME NEW written, NEW written2, NEW d \in Int, Segment(written2, written, d),
           NEW pubrel, NEW rel, NEW ids, NEW ids2, ids \subseteq ids2, NEW crash,
           Records(written, pubrel, rel, ids, crash)
    PROVE  Records(written2, pubrel, rel, ids2, crash)
BY DEF Records, Segment

(* What a step of the server starts from and leaves alone. *)
OnceBefore == StoreInv /\ StoreInv' /\ Undisturbed /\ Spared /\ Phases /\ Channel /\ Exchanges
ServerLeaves ==
    UNCHANGED <<connected, outboundMsgs, outboundQueue, sentKeys, pubrelKeys, pendingWrite,
                accepted, acked, refused, scenario>>

LEMMA ServerLeavesFacts ==
    ASSUME OnceBefore, ServerLeaves, ~connected => s2c' = <<>>
    PROVE  /\ Channel' /\ Released' = Released /\ Queued' = Queued
           /\ V5' = V5 /\ CleanSession' = CleanSession
           /\ ToSet(accepted)' = ToSet(accepted) /\ (acked \cup refused)' = acked \cup refused
<1>1. Channel'
    BY DEF OnceBefore, Channel, ServerLeaves
<1> QED BY <1>1, SamePhases DEF OnceBefore, ServerLeaves, V5, CleanSession, Queued, ToSet

LEMMA ReplyFacts ==
    ASSUME OnceBefore, ServerLeaves, NEW q \in ToClient, SrvReply(q)
    PROVE  /\ Appends(s2c', s2c, q, Len(s2c) + 1)
           /\ ~connected => s2c = <<>> /\ s2c' = <<>>
           /\ s2c \in Seq(ToClient)
<1>1. s2c \in Seq(ToClient)
    BY DEF OnceBefore, StoreInv, StateOK
<1>2. ~connected => s2c = <<>>
    BY DEF OnceBefore, Channel
<1>3. s2c' = Append(s2c, q) \/ (s2c' = s2c /\ ~connected)
    BY DEF SrvReply
<1>4. connected => s2c' = Append(s2c, q)
    BY DEF SrvReply
<1>5. ~connected => s2c' = s2c
    BY DEF SrvReply
<1> QED BY <1>1, <1>2, <1>3, <1>5, AppendAppends

LEMMA SrvPublishQoS2Once ==
    ASSUME OnceBefore, ServerLeaves, NEW p, SrvReceive(p, {"PUBLISH"}), SrvPublishQoS2(p)
    PROVE  Channel' /\ Exchanges'
<1>1. /\ p \in ToServer /\ p.type = "PUBLISH"
      /\ 1 \in DOMAIN Outgoing /\ Outgoing[1] = p
      /\ Segment(Outgoing', Outgoing, 1) /\ DOMAIN Outgoing' \subseteq Nat \ {0}
      /\ Segment(Written', Written, 1)
    BY SrvReceiveOutgoing DEF OnceBefore, StoreInv, ServerLeaves
<1>2. p.id \in Ids /\ p.m \in Msgs2 /\ IsPub(p) /\ Msgs2 \subseteq Msgs
    BY <1>1, ToServerFields DEF SrvPublishQoS2, IsPub, Msgs
<1>3. /\ srvGot \in [Msgs -> 0 .. 2] /\ srvGot[p.m] \in {0, 1}
      /\ srvGot[p.m] = 0 => p.id \notin srvIds
      /\ srvGot[p.m] = 1 => p.id \in srvIds
    BY <1>1, <1>2 DEF OnceBefore, StoreInv, StateOK, Exchanges, Bundle, Taken, Wire
<1> DEFINE out == Outgoing
           acc == ToSet(accepted)
           done == acked \cup refused
           rel == Released
<1>4. Bundle(out, s2c, sentKeys, rel, srvIds, srvGot, acc, done)
    BY DEF OnceBefore, Exchanges
<1>5. Records(Written, pubrelKeys, rel, srvIds, scenario.budget.crash)
    BY DEF OnceBefore, Exchanges
<1>6. CASE /\ IF p.id \in srvIds THEN UNCHANGED srvGot ELSE SrvTake(p.m)
           /\ srvIds' = srvIds \cup {p.id}
           /\ SrvReply(Packet("PUBREC", p.id, None))
    <2> DEFINE q == Packet("PUBREC", p.id, None)
    <2>0. Refusals(out, s2c, srvIds, V5)
        BY DEF OnceBefore, Exchanges
    <2>1. q \in ToClient /\ q.type = "PUBREC" /\ q.id = p.id /\ q.ok = TRUE
        BY <1>2 DEF Packet, ToClient
    <2>2. Appends(s2c', s2c, q, Len(s2c) + 1) /\ (~connected => s2c' = <<>>)
        BY <1>6, <2>1, ReplyFacts
    <2>3. srvGot' = [srvGot EXCEPT ![p.m] = 1]
        <3>1. CASE p.id \in srvIds
            <4>1. srvGot[p.m] = 1 /\ srvGot' = srvGot
                BY <1>3, <1>6, <3>1
            <4> QED BY <1>2, <1>3, <4>1
        <3>2. CASE p.id \notin srvIds
            <4>1. srvGot[p.m] = 0
                BY <1>3, <3>2
            <4>2. srvGot' = [srvGot EXCEPT ![p.m] = AtMost2(srvGot[p.m])]
                BY <1>6, <3>2 DEF SrvTake
            <4>3. AtMost2(0) = 1
                BY DEF AtMost2
            <4> QED BY <4>1, <4>2, <4>3
        <3> QED BY <3>1, <3>2
    <2>4. /\ Channel' /\ Released' = Released
          /\ V5' = V5 /\ CleanSession' = CleanSession
          /\ ToSet(accepted)' = ToSet(accepted) /\ (acked \cup refused)' = acked \cup refused
        BY <2>2, ServerLeavesFacts
    <2> HIDE DEF q
    <2>5. Bundle(Outgoing', s2c', sentKeys, rel, srvIds \cup {p.id}, srvGot', acc, done)
        BY <1>1, <1>2, <1>3, <1>4, <2>1, <2>2, <2>3, TakeBundle
    <2>6. /\ Idle(out, s2c, sentKeys, srvIds) => Idle(Outgoing', s2c', sentKeys, srvIds \cup {p.id})
          /\ Refusals(Outgoing', s2c', srvIds \cup {p.id}, V5)
          /\ Solo(out, s2c, sentKeys, rel, srvGot) => Solo(Outgoing', s2c', sentKeys, rel, srvGot')
        <3>1. Idle(out, s2c, sentKeys, srvIds) => Idle(Outgoing', s2c', sentKeys, srvIds \cup {p.id})
            BY <1>1, <1>2, <1>3, <1>4, <2>0, <2>1, <2>2, <2>3, TakeRest
        <3>2. Refusals(Outgoing', s2c', srvIds \cup {p.id}, V5)
            BY <1>1, <1>2, <1>3, <1>4, <2>0, <2>1, <2>2, <2>3, TakeRest
        <3>3. Solo(out, s2c, sentKeys, rel, srvGot) => Solo(Outgoing', s2c', sentKeys, rel, srvGot')
            <4>1. Forth(Outgoing[1]) /\ Back(q) /\ q.id = Outgoing[1].id /\ ~IsComp(q) /\ q.type # "PUBACK"
                BY <1>1, <2>1 DEF Forth, Back, IsComp
            <4>2. \A m \in Msgs1 : srvGot[m] > 0 => srvGot'[m] > 0
                BY <1>2, <1>3, <2>3 DEF Msgs
            <4> QED BY <1>1, <2>2, <4>1, <4>2, SoloAnswered
        <3> QED BY <3>1, <3>2, <3>3
    <2>7. Records(Written', pubrelKeys, rel, srvIds \cup {p.id}, scenario.budget.crash)
        BY <1>1, <1>5, RecordsSegment
    <2>8. \A m \in acked \cap Msgs2 : srvGot'[m] = 1
        BY <1>2, <1>3, <2>3 DEF OnceBefore, Exchanges
    <2> QED BY <1>6, <2>4, <2>5, <2>6, <2>7, <2>8 DEF Exchanges, OnceBefore, ServerLeaves
<1>7. CASE /\ V5 /\ p.id \notin srvIds
           /\ SrvReply(PubrecError(p.id))
           /\ UNCHANGED <<srvGot, srvIds>>
    <2> DEFINE q == PubrecError(p.id)
    <2>1. q \in ToClient /\ IsRec(q) /\ q.id = p.id /\ q.ok = FALSE
        BY <1>2 DEF PubrecError, ToClient, IsRec
    <2>2. /\ Appends(s2c', s2c, q, Len(s2c) + 1)
          /\ ~connected => s2c' = <<>>
        BY <1>7, <2>1, ReplyFacts
    <2>3. /\ Channel' /\ Released' = Released
          /\ V5' = V5 /\ CleanSession' = CleanSession
          /\ ToSet(accepted)' = ToSet(accepted) /\ (acked \cup refused)' = acked \cup refused
        BY <2>2, ServerLeavesFacts
    <2> HIDE DEF q
    <2>4. scenario.budget.retry = 0
        BY <1>7 DEF OnceBefore, Undisturbed
    <2>5. /\ Bundle(Outgoing', s2c', sentKeys, rel, srvIds, srvGot, acc, done)
          /\ Idle(out, s2c, sentKeys, srvIds) => Idle(Outgoing', s2c', sentKeys, srvIds)
          /\ Refusals(out, s2c, srvIds, TRUE) /\ Solo(out, s2c, sentKeys, rel, srvGot)
                => Refusals(Outgoing', s2c', srvIds, TRUE)
        BY <1>1, <1>2, <1>4, <1>7, <2>1, <2>2, RefuseStep
    <2>6. Refusals(Outgoing', s2c', srvIds, V5)
        <3>1. CASE connected
            <4>1. Refusals(out, s2c, srvIds, TRUE)
                BY DEF OnceBefore, Exchanges, Refusals
            <4>2. Solo(out, s2c, sentKeys, rel, srvGot)
                BY <2>4, <3>1 DEF OnceBefore, Exchanges
            <4>3. Refusals(Outgoing', s2c', srvIds, TRUE)
                BY <2>5, <4>1, <4>2
            <4> QED BY <1>7, <4>3 DEF Refusals
        <3>2. CASE ~connected
            BY <2>2, <3>2 DEF Refusals
        <3> QED BY <3>1, <3>2
    <2>7. Solo(out, s2c, sentKeys, rel, srvGot) => Solo(Outgoing', s2c', sentKeys, rel, srvGot)
        <3>1. Forth(Outgoing[1]) /\ Back(q) /\ q.id = Outgoing[1].id /\ ~IsComp(q) /\ q.type # "PUBACK"
            BY <1>1, <2>1 DEF Forth, Back, IsRec, IsComp
        <3> QED BY <1>1, <2>2, <3>1, SoloAnswered
    <2>8. Records(Written', pubrelKeys, rel, srvIds, scenario.budget.crash)
        BY <1>1, <1>5, RecordsSegment
    <2> QED BY <1>7, <2>3, <2>5, <2>6, <2>7, <2>8 DEF Exchanges, OnceBefore, ServerLeaves
<1> QED BY <1>6, <1>7 DEF SrvPublishQoS2

LEMMA SelfSegment ==
    ASSUME NEW T, NEW s \in Seq(T)
    PROVE  Segment(s, s, 0)
<1>1. \A k \in DOMAIN s : k \in Int /\ k + 0 = k
    BY SeqFacts
<1> QED BY <1>1 DEF Segment

LEMMA SrvPublishQoS1Once ==
    ASSUME OnceBefore, ServerLeaves, NEW p, SrvReceive(p, {"PUBLISH"}), SrvPublishQoS1(p)
    PROVE  Channel' /\ Exchanges'
<1>1. /\ p \in ToServer /\ p.type = "PUBLISH"
      /\ 1 \in DOMAIN Outgoing /\ Outgoing[1] = p
      /\ Segment(Outgoing', Outgoing, 1) /\ DOMAIN Outgoing' \subseteq Nat \ {0}
      /\ Segment(Written', Written, 1)
    BY SrvReceiveOutgoing DEF OnceBefore, StoreInv, ServerLeaves
<1>2. p.id \in Ids /\ p.m \in Msgs1 /\ p.m \notin Msgs2 /\ p.m \in Msgs /\ srvIds' = srvIds
    BY <1>1, ToServerFields, SessionAssumption DEF SrvPublishQoS1, Msgs
<1>3. srvGot \in [Msgs -> 0 .. 2]
    BY DEF OnceBefore, StoreInv, StateOK
<1>4. PICK q \in ToClient :
         /\ q.type = "PUBACK" /\ q.id = p.id /\ SrvReply(q)
         /\ srvGot' = srvGot \/ srvGot' = [srvGot EXCEPT ![p.m] = AtMost2(srvGot[p.m])]
         /\ q.ok => srvGot' = [srvGot EXCEPT ![p.m] = AtMost2(srvGot[p.m])]
    <2> DEFINE a == Packet("PUBACK", p.id, None)
               b == [a EXCEPT !.ok = FALSE]
    <2>1. a \in ToClient /\ a.type = "PUBACK" /\ a.id = p.id
        BY <1>2 DEF Packet, ToClient
    <2>2. b \in ToClient /\ b.type = "PUBACK" /\ b.id = p.id /\ b.ok = FALSE
        BY <1>2 DEF Packet, ToClient
    <2>3. \/ SrvTake(p.m) /\ SrvReply(a)
          \/ UNCHANGED srvGot /\ SrvReply(b)
        BY DEF SrvPublishQoS1
    <2> HIDE DEF a, b
    <2> QED BY <2>1, <2>2, <2>3 DEF SrvTake
<1>5. /\ Appends(s2c', s2c, q, Len(s2c) + 1) /\ (~connected => s2c' = <<>>)
      /\ s2c \in Seq(ToClient)
    BY <1>4, ReplyFacts
<1>6. /\ Channel' /\ Released' = Released
      /\ V5' = V5 /\ CleanSession' = CleanSession
      /\ ToSet(accepted)' = ToSet(accepted) /\ (acked \cup refused)' = acked \cup refused
    BY <1>5, ServerLeavesFacts
<1>7. /\ \A m \in Msgs2 : srvGot'[m] = srvGot[m]
      /\ \A m \in Msgs1 : srvGot[m] > 0 => srvGot'[m] > 0
      /\ q.ok => srvGot'[p.m] > 0
    <2>1. AtMost2(srvGot[p.m]) > 0
        BY <1>2, <1>3 DEF AtMost2
    <2>2. CASE srvGot' = srvGot /\ ~q.ok
        BY <2>2
    <2>3. CASE srvGot' = [srvGot EXCEPT ![p.m] = AtMost2(srvGot[p.m])]
        BY <1>2, <1>3, <2>1, <2>3 DEF Msgs
    <2> QED BY <1>4, <2>2, <2>3
<1> DEFINE acc == ToSet(accepted)
           done == acked \cup refused
           rel == Released
<1>8. Bundle(Outgoing, s2c, sentKeys, rel, srvIds, srvGot, acc, done)
    BY DEF OnceBefore, Exchanges
<1>9. Segment(s2c, s2c, 0)
    BY <1>5, SelfSegment
<1>10. Bundle(Outgoing', s2c, sentKeys, rel, srvIds, srvGot, acc, done)
    BY <1>1, <1>8, <1>9, DropBundle
<1>11. Bundle(Outgoing', s2c', sentKeys, rel, srvIds, srvGot, acc, done)
    BY <1>4, <1>5, <1>10, PubackBundle
<1>12. Bundle(Outgoing', s2c', sentKeys, rel, srvIds, srvGot', acc, done)
    BY <1>7, <1>11, GotBundle
<1>13. Idle(Outgoing, s2c, sentKeys, srvIds) => Idle(Outgoing', s2c', sentKeys, srvIds)
    <2> HAVE Idle(Outgoing, s2c, sentKeys, srvIds)
    <2>1. Idle(Outgoing', s2c, sentKeys, srvIds)
        BY <1>1, <1>9, IdleSegment
    <2> QED BY <1>4, <1>5, <2>1, PubackAdded
<1>14. Refusals(Outgoing', s2c', srvIds, V5)
    <2>1. Refusals(Outgoing, s2c, srvIds, V5)
        BY DEF OnceBefore, Exchanges
    <2>2. Refusals(Outgoing', s2c, srvIds, V5)
        BY <1>1, <1>9, <2>1, RefusalsSegment
    <2> QED BY <1>4, <1>5, <2>2, PubackAdded
<1>15. Solo(Outgoing, s2c, sentKeys, rel, srvGot) => Solo(Outgoing', s2c', sentKeys, rel, srvGot')
    <2> HAVE Solo(Outgoing, s2c, sentKeys, rel, srvGot)
    <2>1. sentKeys[p.id] = p.m
        BY <1>1 DEF Solo
    <2>2. Forth(Outgoing[1]) /\ Back(q) /\ q.id = Outgoing[1].id /\ ~IsComp(q)
        BY <1>1, <1>4 DEF Forth, Back, IsComp
    <2>3. sentKeys[q.id] \in Msgs1 /\ (q.ok => srvGot'[sentKeys[q.id]] > 0)
        BY <1>2, <1>4, <1>7, <2>1
    <2> QED BY <1>1, <1>5, <1>7, <2>2, <2>3, SoloAnswered
<1>16. Records(Written', pubrelKeys, rel, srvIds, scenario.budget.crash)
    <2>1. Records(Written, pubrelKeys, rel, srvIds, scenario.budget.crash)
        BY DEF OnceBefore, Exchanges
    <2> QED BY <1>1, <2>1, RecordsSegment
<1>17. \A m \in acked \cap Msgs2 : srvGot'[m] = 1
    BY <1>7 DEF OnceBefore, Exchanges
<1> QED BY <1>2, <1>6, <1>12, <1>13, <1>14, <1>15, <1>16, <1>17 DEF Exchanges, OnceBefore, ServerLeaves

LEMMA SrvPubrelOnce ==
    ASSUME OnceBefore, ServerLeaves, NEW p, SrvPubrel(p)
    PROVE  Channel' /\ Exchanges'
<1>0. SrvReceive(p, {"PUBREL"}) /\ srvIds' = srvIds \ {p.id} /\ srvGot' = srvGot
      /\ SrvReply(Packet("PUBCOMP", p.id, None))
    BY DEF SrvPubrel, appVars
<1>1. /\ p \in ToServer /\ p.type = "PUBREL"
      /\ 1 \in DOMAIN Outgoing /\ Outgoing[1] = p
      /\ 1 \in DOMAIN Written /\ Written[1] = p
      /\ Segment(Outgoing', Outgoing, 1) /\ DOMAIN Outgoing' \subseteq Nat \ {0}
      /\ Segment(Written', Written, 1)
    BY <1>0, SrvReceiveOutgoing DEF OnceBefore, StoreInv, ServerLeaves
<1>2. p.id \in Ids
    BY <1>1, ToServerFields
<1> DEFINE q == Packet("PUBCOMP", p.id, None)
<1>3. q \in ToClient /\ q.type = "PUBCOMP" /\ q.id = p.id
    BY <1>2 DEF Packet, ToClient
<1>4. Appends(s2c', s2c, q, Len(s2c) + 1) /\ (~connected => s2c' = <<>>)
    BY <1>0, <1>3, ReplyFacts
<1>5. /\ Channel' /\ Released' = Released
      /\ V5' = V5 /\ CleanSession' = CleanSession
      /\ ToSet(accepted)' = ToSet(accepted) /\ (acked \cup refused)' = acked \cup refused
    BY <1>4, ServerLeavesFacts
<1> HIDE DEF q
<1>6. IsRel(Outgoing[1]) /\ IsComp(q) /\ q.id = Outgoing[1].id /\ Forth(Outgoing[1]) /\ Back(q)
      /\ q.type # "PUBACK"
    BY <1>1, <1>3 DEF IsRel, IsComp, Forth, Back
<1> DEFINE acc == ToSet(accepted)
           done == acked \cup refused
           rel == Released
<1>7. Bundle(Outgoing, s2c, sentKeys, rel, srvIds, srvGot, acc, done)
    BY DEF OnceBefore, Exchanges
<1>8. Refusals(Outgoing, s2c, srvIds, V5)
    BY DEF OnceBefore, Exchanges
<1>9. /\ Bundle(Outgoing', s2c', sentKeys, rel, srvIds \ {p.id}, srvGot, acc, done)
      /\ Idle(Outgoing, s2c, sentKeys, srvIds) => Idle(Outgoing', s2c', sentKeys, srvIds \ {p.id})
      /\ Refusals(Outgoing', s2c', srvIds \ {p.id}, V5)
    BY <1>1, <1>4, <1>6, <1>7, <1>8, ReleaseRead
<1>10. Solo(Outgoing, s2c, sentKeys, rel, srvGot) => Solo(Outgoing', s2c', sentKeys, rel, srvGot)
    <2> HAVE Solo(Outgoing, s2c, sentKeys, rel, srvGot)
    <2>1. q.id \in rel
        BY <1>1, <1>6 DEF Solo
    <2> QED BY <1>1, <1>4, <1>6, <2>1, SoloAnswered
<1>11. Records(Written', pubrelKeys, rel, srvIds \ {p.id}, scenario.budget.crash)
    <2>1. Records(Written, pubrelKeys, rel, srvIds, scenario.budget.crash)
        BY DEF OnceBefore, Exchanges
    <2>2. Records(Written', pubrelKeys, rel, srvIds, scenario.budget.crash)
        BY <1>1, <2>1, RecordsSegment
    <2>3. \A i \in rel \ pubrelKeys : i # p.id
        BY <1>1, <1>6, <2>1 DEF Records
    <2> QED BY <2>2, <2>3 DEF Records
<1> QED BY <1>0, <1>5, <1>9, <1>10, <1>11 DEF Exchanges, OnceBefore, ServerLeaves

(* The server reads or sends what is of no concern. *)
LEMMA QuietServerOnce ==
    ASSUME OnceBefore, ServerLeaves, UNCHANGED <<srvIds, srvGot>>,
           NEW d \in Int, Segment(Outgoing', Outgoing, d), Segment(Written', Written, d),
           NEW q \in ToClient, NEW n, ~Back(q), Appends(s2c', s2c, q, n),
           ~connected => s2c' = <<>>
    PROVE  Channel' /\ Exchanges'
<1>1. /\ Channel' /\ Released' = Released
      /\ V5' = V5 /\ CleanSession' = CleanSession
      /\ ToSet(accepted)' = ToSet(accepted) /\ (acked \cup refused)' = acked \cup refused
    BY ServerLeavesFacts
<1> DEFINE acc == ToSet(accepted)
           done == acked \cup refused
           rel == Released
<1>2. Bundle(Outgoing, s2c, sentKeys, rel, srvIds, srvGot, acc, done)
    BY DEF OnceBefore, Exchanges
<1>3. Segment(s2c, s2c, 0)
    BY SelfSegment DEF OnceBefore, StoreInv, StateOK
<1>4. Bundle(Outgoing', s2c, sentKeys, rel, srvIds, srvGot, acc, done)
    BY <1>2, <1>3, DropBundle
<1>5. Bundle(Outgoing', s2c', sentKeys, rel, srvIds, srvGot, acc, done)
    BY <1>4, OtherBundle
<1>6. Idle(Outgoing, s2c, sentKeys, srvIds) => Idle(Outgoing', s2c', sentKeys, srvIds)
    <2> HAVE Idle(Outgoing, s2c, sentKeys, srvIds)
    <2>1. Idle(Outgoing', s2c, sentKeys, srvIds)
        BY <1>3, IdleSegment
    <2> QED BY <2>1, OtherAdded
<1>7. Refusals(Outgoing', s2c', srvIds, V5)
    <2>1. Refusals(Outgoing, s2c, srvIds, V5)
        BY DEF OnceBefore, Exchanges
    <2>2. Refusals(Outgoing', s2c, srvIds, V5)
        BY <1>3, <2>1, RefusalsSegment
    <2> QED BY <2>2, OtherAdded
<1>8. Solo(Outgoing, s2c, sentKeys, rel, srvGot) => Solo(Outgoing', s2c', sentKeys, rel, srvGot)
    <2> HAVE Solo(Outgoing, s2c, sentKeys, rel, srvGot)
    <2>1. Solo(Outgoing', s2c, sentKeys, rel, srvGot)
        BY <1>3, SoloSegment
    <2> QED BY <2>1, OtherAdded
<1>9. Records(Written', pubrelKeys, rel, srvIds, scenario.budget.crash)
    <2>1. Records(Written, pubrelKeys, rel, srvIds, scenario.budget.crash)
        BY DEF OnceBefore, Exchanges
    <2> QED BY <2>1, RecordsSegment
<1> QED BY <1>1, <1>5, <1>6, <1>7, <1>8, <1>9 DEF Exchanges, OnceBefore, ServerLeaves

LEMMA ServerOnce ==
    ASSUME OnceBefore, ServerStep \/ \E m \in SrvMsgs : SrvSend(m) /\ UNCHANGED scenario
    PROVE  Channel' /\ Exchanges'
<1>0. /\ s2c \in Seq(ToClient) /\ (~connected => s2c = <<>>) /\ StateOK
    BY DEF OnceBefore, StoreInv, StateOK, Channel
<1>1. ASSUME NEW p, SrvPublish(p), UNCHANGED scenario PROVE Channel' /\ Exchanges'
    <2>1. ServerLeaves
        BY <1>1 DEF SrvPublish, ServerLeaves, clientVars, storeVars
    <2> QED BY <1>1, <2>1, SrvPublishQoS1Once, SrvPublishQoS2Once DEF SrvPublish
<1>2. ASSUME NEW p, SrvPubrel(p), UNCHANGED scenario PROVE Channel' /\ Exchanges'
    <2>1. ServerLeaves
        BY <1>2 DEF SrvPubrel, ServerLeaves, clientVars, storeVars, appVars
    <2> QED BY <1>2, <2>1, SrvPubrelOnce
<1>3. ASSUME NEW p, SrvFinalAck(p), UNCHANGED scenario PROVE Channel' /\ Exchanges'
    <2>1. ServerLeaves /\ UNCHANGED <<s2c, srvIds, srvGot>>
        BY <1>3 DEF SrvFinalAck, ServerLeaves, clientVars, storeVars
    <2>2. Segment(Outgoing', Outgoing, 1) /\ Segment(Written', Written, 1)
        BY <1>0, <1>3, <2>1, SrvReceiveOutgoing DEF SrvFinalAck, ServerLeaves
    <2> DEFINE q == Packet("PUBREL", 1, None)
    <2>3. q \in ToClient /\ ~Back(q)
        <3>1. 1 \in SrvIds
            BY SessionAssumption DEF SrvIds
        <3> QED BY <3>1 DEF Packet, ToClient, Back
    <2> HIDE DEF q
    <2>4. Appends(s2c', s2c, q, Len(s2c) + 1)
        BY <1>0, <2>1, <2>3, AppendAppends
    <2> QED BY <1>0, <2>1, <2>2, <2>3, <2>4, QuietServerOnce
<1>4. ASSUME NEW p, SrvPubrec(p), UNCHANGED scenario PROVE Channel' /\ Exchanges'
    <2>1. ServerLeaves /\ UNCHANGED <<srvIds, srvGot>>
        BY <1>4 DEF SrvPubrec, ServerLeaves, clientVars, storeVars, appVars
    <2>2. /\ Segment(Outgoing', Outgoing, 1) /\ Segment(Written', Written, 1)
          /\ p \in ToServer /\ p.type = "PUBREC"
        BY <1>0, <1>4, <2>1, SrvReceiveOutgoing DEF SrvPubrec, ServerLeaves
    <2> DEFINE q == Packet("PUBREL", p.id, None)
    <2>3. q \in ToClient /\ ~Back(q)
        <3>1. p.id \in SrvIds
            BY <2>2, ToServerFields
        <3> QED BY <3>1 DEF Packet, ToClient, Back
    <2>4. SrvReply(q)
        BY <1>4 DEF SrvPubrec
    <2> HIDE DEF q
    <2>5. Appends(s2c', s2c, q, Len(s2c) + 1) /\ (~connected => s2c' = <<>>)
        BY <2>1, <2>3, <2>4, ReplyFacts
    <2> QED BY <2>1, <2>2, <2>3, <2>5, QuietServerOnce
<1>5. ASSUME NEW m \in SrvMsgs, SrvSend(m), UNCHANGED scenario PROVE Channel' /\ Exchanges'
    <2>1. ServerLeaves /\ UNCHANGED <<c2s, srvIds, srvGot>>
        BY <1>5 DEF SrvSend, ServerLeaves, clientVars, storeVars
    <2>2. Outgoing' = Outgoing /\ Written' = Written
        BY <2>1 DEF Outgoing, Written, Queued, ServerLeaves
    <2>3. Segment(Outgoing', Outgoing, 0) /\ Segment(Written', Written, 0)
        BY <1>0, <2>2, OutgoingFacts, SelfSegment
    <2>4. PICK i \in SrvIds : SrvReply(Packet("PUBLISH", i, m))
        BY <1>5 DEF SrvSend
    <2> DEFINE q == Packet("PUBLISH", i, m)
    <2>5. q \in ToClient /\ ~Back(q)
        BY DEF Packet, ToClient, Back
    <2> HIDE DEF q
    <2>6. Appends(s2c', s2c, q, Len(s2c) + 1) /\ (~connected => s2c' = <<>>)
        BY <2>1, <2>4, <2>5, ReplyFacts DEF q
    <2> QED BY <2>1, <2>3, <2>5, <2>6, QuietServerOnce
<1> QED BY <1>1, <1>2, <1>3, <1>4, <1>5 DEF ServerStep

-----------------------------------------------------------------------------
(* The client's handlers                                                    *)

(* The last packet of an exchange has arrived for entry k. *)
LEMMA Answered ==
    ASSUME OnceBefore, connected, s2c # <<>>, NEW p, p = Head(s2c),
           NEW k \in Waiting(p.id, p.type),
           p.type \in {"PUBACK", "PUBCOMP"} \/ (p.type = "PUBREC" /\ ~p.ok),
           NEW sent2, sent2 = [sentKeys EXCEPT ![p.id] = None]
    PROVE  /\ p.id \in Ids /\ outboundMsgs[k].id = p.id /\ k \in DOMAIN outboundMsgs
           /\ sentKeys[p.id] = outboundMsgs[k].m /\ outboundMsgs[k].m \in Msgs
           /\ Bundle(Outgoing, Tail(s2c), sent2, Released \ {p.id}, srvIds, srvGot,
                     ToSet(accepted), acked \cup refused \cup {outboundMsgs[k].m})
           /\ Idle(Outgoing, Tail(s2c), sent2, srvIds)
           /\ Refusals(Outgoing, Tail(s2c), srvIds, V5)
           /\ scenario.budget.retry = 0 =>
                 Solo(Outgoing, Tail(s2c), sent2, Released \ {p.id}, srvGot)
           /\ Records(Written, pubrelKeys \ {p.id}, Released \ {p.id}, srvIds,
                      scenario.budget.crash)
           /\ outboundMsgs[k].m \in Msgs2 /\ p.type # "PUBREC" => srvGot[outboundMsgs[k].m] = 1
<1> DEFINE i == p.id
           m == outboundMsgs[k].m
           in == s2c
           in2 == Tail(s2c)
           acc == ToSet(accepted)
           done == acked \cup refused
           rel == Released
<1>1. k \in DOMAIN outboundMsgs /\ outboundMsgs[k].id = i /\ outboundMsgs[k].next = p.type
    BY DEF Waiting
<1>2. /\ sentKeys \in SentRecords /\ i \in Ids /\ m \in Msgs /\ sentKeys[i] = m
      /\ i \in Released <=> p.type = "PUBCOMP"
      /\ p.type = "PUBACK" <=> m \notin Msgs2
    BY <1>1, ReleasedFacts DEF OnceBefore
<1>3. in \in Seq(ToClient) /\ Outgoing \in Seq(ToServer)
    BY OutgoingFacts DEF OnceBefore, StoreInv, StateOK
<1>4. 1 \in DOMAIN in /\ in[1] = p /\ Segment(in2, in, 1) /\ DOMAIN in2 \subseteq Nat \ {0}
    BY <1>3, TailSegment
<1>5. \A l \in DOMAIN in2 : l \in Int /\ l + 1 \in DOMAIN in /\ in2[l] = in[l + 1] /\ 1 < l + 1 /\ 1 # l + 1
    BY <1>4 DEF Segment
<1>6. Segment(Outgoing, Outgoing, 0)
    BY <1>3, SelfSegment
<1>7. Bundle(Outgoing, in, sentKeys, rel, srvIds, srvGot, acc, done)
    BY DEF OnceBefore, Exchanges
<1>8. Bundle(Outgoing, in2, sentKeys, rel, srvIds, srvGot, acc, done)
    BY <1>4, <1>6, <1>7, DropBundle
<1>9. Idle(Outgoing, in, sentKeys, srvIds) /\ Refusals(Outgoing, in, srvIds, V5)
    BY DEF OnceBefore, Exchanges
<1>10. Idle(Outgoing, in2, sentKeys, srvIds)
    BY <1>4, <1>6, <1>9, IdleSegment
<1>11. Refusals(Outgoing, in2, srvIds, V5)
    BY <1>4, <1>6, <1>9, RefusalsSegment
<1>12. m \in Msgs2 => /\ i \notin srvIds
                      /\ \A l \in DOMAIN Outgoing : ~(IsPub(Outgoing[l]) /\ Outgoing[l].id = i)
                      /\ \A l \in DOMAIN in2 : ~(IsRec(in2[l]) /\ in2[l].id = i)
                      /\ p.type # "PUBREC" => srvGot[m] = 1
    <2>1. CASE p.type = "PUBCOMP"
        <3>1. SealedAt(i, Outgoing, in, m, srvIds, srvGot)
            BY <1>2, <1>7, <2>1 DEF Bundle, Sealed
        <3>2. IsComp(in[1])
            BY <1>4, <2>1 DEF IsComp
        <3> QED BY <1>4, <1>5, <3>1, <3>2 DEF SealedAt
    <2>2. CASE p.type = "PUBREC" /\ ~p.ok
        <3>1. IsRec(in[1])
            BY <1>4, <2>2 DEF IsRec
        <3> QED BY <1>4, <1>5, <1>9, <2>2, <3>1 DEF Refusals
    <2>3. CASE p.type = "PUBACK"
        BY <1>2, <2>3
    <2> QED BY <2>1, <2>2, <2>3
<1>13. ASSUME scenario.budget.retry = 0
       PROVE  /\ Solo(Outgoing, in2, sentKeys, rel, srvGot)
              /\ \A l \in DOMAIN Outgoing : ~(Forth(Outgoing[l]) /\ Outgoing[l].id = i)
              /\ \A l \in DOMAIN in2 : ~(Back(in2[l]) /\ in2[l].id = i)
    <2>1. Solo(Outgoing, in, sentKeys, rel, srvGot)
        BY <1>13 DEF OnceBefore, Exchanges
    <2>2. Solo(Outgoing, in2, sentKeys, rel, srvGot)
        BY <1>4, <1>6, <2>1, SoloSegment
    <2>3. Back(in[1]) /\ in[1].id = i
        BY <1>4 DEF Back
    <2> QED BY <1>4, <1>5, <2>1, <2>2, <2>3 DEF Solo
<1> HIDE DEF in, in2, acc, done, rel, i, m
<1>14. sent2 = [sentKeys EXCEPT ![i] = None]
    BY DEF i
<1>15. /\ Bundle(Outgoing, in2, sent2, rel \ {i}, srvIds, srvGot, acc, done \cup {sentKeys[i]})
       /\ Idle(Outgoing, in2, sent2, srvIds)
    BY <1>2, <1>8, <1>10, <1>12, <1>14, EndStep
<1>16. scenario.budget.retry = 0 => Solo(Outgoing, in2, sent2, rel \ {i}, srvGot)
    BY <1>2, <1>8, <1>13, <1>14, EndStep
<1>17. Records(Written, pubrelKeys \ {i}, rel \ {i}, srvIds, scenario.budget.crash)
    <2>1. Records(Written, pubrelKeys, rel, srvIds, scenario.budget.crash)
        BY DEF OnceBefore, Exchanges, rel
    <2> QED BY <2>1 DEF Records
<1> QED BY <1>1, <1>2, <1>11, <1>12, <1>15, <1>16, <1>17 DEF i, m, in, in2, acc, done, rel

(* What a handler leaves alone. *)
HandlerLeaves ==
    /\ connected /\ s2c # <<>> /\ s2c' = Tail(s2c)
    /\ UNCHANGED <<connected, srvIds, srvGot, accepted, scenario>>

LEMMA HandlerFacts ==
    ASSUME OnceBefore, HandlerLeaves
    PROVE  /\ s2c \in Seq(ToClient) /\ Head(s2c) \in ToClient
           /\ 1 \in DOMAIN s2c /\ s2c[1] = Head(s2c)
           /\ Segment(s2c', s2c, 1) /\ DOMAIN s2c' \subseteq Nat \ {0}
           /\ Segment(Outgoing, Outgoing, 0)
           /\ V5' = V5 /\ CleanSession' = CleanSession /\ ToSet(accepted)' = ToSet(accepted)
<1>1. s2c \in Seq(ToClient) /\ Outgoing \in Seq(ToServer)
    BY OutgoingFacts DEF OnceBefore, StoreInv, StateOK
<1>2. Head(s2c) \in ToClient
    BY <1>1, HeadTailProperties DEF HandlerLeaves
<1>3. /\ 1 \in DOMAIN s2c /\ s2c[1] = Head(s2c)
      /\ Segment(s2c', s2c, 1) /\ DOMAIN s2c' \subseteq Nat \ {0}
    BY <1>1, TailSegment DEF HandlerLeaves
<1> QED BY <1>1, <1>2, <1>3, SelfSegment DEF HandlerLeaves, V5, CleanSession, ToSet

(* The exchange of an entry ends. *)
LEMMA EndOnce ==
    ASSUME OnceBefore, HandlerLeaves, NEW p, p = Head(s2c), NEW k \in Waiting(p.id, p.type),
           p.type \in {"PUBACK", "PUBCOMP"} \/ (p.type = "PUBREC" /\ ~p.ok),
           EndExchange(k, p.ok), UNCHANGED <<outboundQueue, c2s, pendingWrite>>
    PROVE  Channel' /\ Exchanges'
<1> DEFINE sent2 == [sentKeys EXCEPT ![p.id] = None]
           m == outboundMsgs[k].m
<1>1. V5' = V5 /\ CleanSession' = CleanSession /\ ToSet(accepted)' = ToSet(accepted)
    BY HandlerFacts
<1>2. connected /\ s2c # <<>>
    BY DEF HandlerLeaves
<1>3. /\ p.id \in Ids /\ outboundMsgs[k].id = p.id /\ k \in DOMAIN outboundMsgs
      /\ Bundle(Outgoing, Tail(s2c), sent2, Released \ {p.id}, srvIds, srvGot,
                ToSet(accepted), acked \cup refused \cup {m})
      /\ Idle(Outgoing, Tail(s2c), sent2, srvIds)
      /\ Refusals(Outgoing, Tail(s2c), srvIds, V5)
      /\ scenario.budget.retry = 0 =>
            Solo(Outgoing, Tail(s2c), sent2, Released \ {p.id}, srvGot)
      /\ Records(Written, pubrelKeys \ {p.id}, Released \ {p.id}, srvIds, scenario.budget.crash)
      /\ m \in Msgs2 /\ p.type # "PUBREC" => srvGot[m] = 1
    BY <1>2, Answered
<1>4. Released' = Released \ {p.id}
    BY <1>3, EndExchangePhases DEF OnceBefore
<1>5. /\ sentKeys' = sent2 /\ pubrelKeys' = pubrelKeys \ {p.id}
      /\ (acked \cup refused)' = acked \cup refused \cup {m}
    BY <1>3 DEF EndExchange
<1>6. \A x \in acked' \cap Msgs2 : srvGot[x] = 1
    <2>1. CASE p.ok
        <3>1. acked' = acked \cup {m} /\ p.type # "PUBREC"
            BY <2>1 DEF EndExchange
        <3> QED BY <1>3, <3>1 DEF OnceBefore, Exchanges
    <2>2. CASE ~p.ok
        <3>1. acked' = acked
            BY <2>2 DEF EndExchange
        <3> QED BY <3>1 DEF OnceBefore, Exchanges
    <2> QED BY <2>1, <2>2
<1>7. Outgoing' = Outgoing /\ Written' = Written
    BY DEF Outgoing, Written, Queued
<1>8. Channel'
    BY <1>2 DEF Channel, OnceBefore, HandlerLeaves
<1>9. s2c' = Tail(s2c) /\ UNCHANGED <<srvIds, srvGot, scenario>>
    BY DEF HandlerLeaves
<1> HIDE DEF sent2, m
<1>10. /\ Bundle(Outgoing', s2c', sentKeys', Released', srvIds', srvGot', ToSet(accepted)', (acked \cup refused)')
       /\ Idle(Outgoing', s2c', sentKeys', srvIds')
       /\ Refusals(Outgoing', s2c', srvIds', V5')
       /\ scenario.budget.retry = 0 => Solo(Outgoing', s2c', sentKeys', Released', srvGot')
       /\ Records(Written', pubrelKeys', Released', srvIds', scenario.budget.crash)
    BY <1>1, <1>3, <1>4, <1>5, <1>7, <1>9
<1> QED BY <1>6, <1>8, <1>9, <1>10 DEF Exchanges

(* A packet is read and nothing else happens. *)
LEMMA IgnoreOnce ==
    ASSUME OnceBefore, HandlerLeaves,
           UNCHANGED <<outboundMsgs, outboundQueue, sentKeys, pubrelKeys, pendingWrite, c2s,
                       acked, refused>>
    PROVE  Channel' /\ Exchanges'
<1>1. /\ V5' = V5 /\ CleanSession' = CleanSession /\ ToSet(accepted)' = ToSet(accepted)
      /\ Segment(s2c', s2c, 1) /\ Segment(Outgoing, Outgoing, 0)
    BY HandlerFacts
<1>2. Outgoing' = Outgoing /\ Written' = Written /\ Released' = Released
    BY DEF Outgoing, Written, Queued, Released
<1>3. Bundle(Outgoing, s2c', sentKeys, Released, srvIds, srvGot, ToSet(accepted), acked \cup refused)
    BY <1>1, DropBundle DEF OnceBefore, Exchanges
<1>4. Idle(Outgoing, s2c', sentKeys, srvIds)
    <2>1. Idle(Outgoing, s2c, sentKeys, srvIds)
        BY DEF OnceBefore, Exchanges, HandlerLeaves
    <2> QED BY <1>1, <2>1, IdleSegment
<1>5. Refusals(Outgoing, s2c', srvIds, V5)
    <2>1. Refusals(Outgoing, s2c, srvIds, V5)
        BY DEF OnceBefore, Exchanges
    <2> QED BY <1>1, <2>1, RefusalsSegment
<1>6. scenario.budget.retry = 0 => Solo(Outgoing, s2c', sentKeys, Released, srvGot)
    <2> HAVE scenario.budget.retry = 0
    <2>1. Solo(Outgoing, s2c, sentKeys, Released, srvGot)
        BY DEF OnceBefore, Exchanges, HandlerLeaves
    <2> QED BY <1>1, <2>1, SoloSegment
<1>7. Channel'
    BY DEF Channel, OnceBefore, HandlerLeaves
<1> QED BY <1>1, <1>2, <1>3, <1>4, <1>5, <1>6, <1>7 DEF Exchanges, OnceBefore, HandlerLeaves

LEMMA FinalAckOnce ==
    ASSUME OnceBefore, NEW p, NEW type \in {"PUBACK", "PUBCOMP"}, HandleFinalAck(p, type),
           UNCHANGED scenario
    PROVE  Channel' /\ Exchanges'
<1>1. HandlerLeaves /\ p = Head(s2c) /\ p.type = type
    BY DEF HandleFinalAck, Receive, HandlerLeaves, serverVars
<1>2. UNCHANGED <<outboundQueue, c2s, pendingWrite>>
    BY DEF HandleFinalAck
<1>3. CASE \E k \in Waiting(p.id, type) : EndExchange(k, p.ok)
    BY <1>1, <1>2, <1>3, EndOnce
<1>4. CASE UNCHANGED <<sentKeys, pubrelKeys, outboundMsgs, acked, refused>>
    BY <1>1, <1>2, <1>4, IgnoreOnce
<1> QED BY <1>3, <1>4 DEF HandleFinalAck

LEMMA RecordsExtends ==
    ASSUME NEW written, NEW written2, NEW p, NEW n, Appends(written2, written, p, n),
           NEW pubrel, NEW pubrel2, pubrel2 = pubrel \cup (IF IsRel(p) THEN {p.id} ELSE {}),
           NEW rel, NEW ids, NEW crash, Records(written, pubrel, rel, ids, crash),
           IsRel(p) => p.id \in rel
    PROVE  Records(written2, pubrel2, rel, ids, crash)
BY DEF Records, Appends

(* Without partial writes nothing is left with the socket. *)
LEMMA CompleteOutcome ==
    ASSUME Spared, scenario.budget.partial = 0
    PROVE  Outcomes = {"complete"}
BY DEF Spared, Outcomes, Allowed

LEMMA SendAckChannel ==
    ASSUME Channel, Spared, NEW type, NEW id, SendAck(type, id),
           UNCHANGED <<connected, scenario>>, connected
    PROVE  Channel'
<1>1. CASE pendingWrite = None
    <2>1. outboundQueue' = <<>>
        BY <1>1 DEF SendAck, Channel
    <2>2. scenario.budget.partial = 0 => pendingWrite' = None
        <3> HAVE scenario.budget.partial = 0
        <3>1. PICK outcome \in Outcomes : Transmit(c2s, <<Packet(type, id, None)>>, outcome)
            BY <1>1 DEF SendAck
        <3>2. outcome = "complete"
            BY <3>1, CompleteOutcome
        <3> QED BY <3>1, <3>2 DEF Transmit
    <2> QED BY <2>1, <2>2 DEF Channel
<1>2. CASE pendingWrite # None
    <2>1. pendingWrite' = pendingWrite
        BY <1>2 DEF SendAck
    <2> QED BY <1>2, <2>1 DEF Channel
<1> QED BY <1>1, <1>2

(* An acknowledgement is sent after a packet has been read. *)
LEMMA AckOnce ==
    ASSUME OnceBefore, HandlerLeaves, NEW type, NEW id, [type |-> type, id |-> id] \in Acks,
           SendAck(type, id), UNCHANGED <<sentKeys, acked, refused>>,
           Bundle(Outgoing, s2c', sentKeys, Released', srvIds, srvGot, ToSet(accepted),
                  acked \cup refused),
           scenario.budget.retry = 0 => Solo(Outgoing, s2c', sentKeys, Released', srvGot),
           Records(Written, pubrelKeys, Released', srvIds, scenario.budget.crash),
           type = "PUBREL" =>
              /\ id \in Released'
              /\ scenario.budget.retry = 0 =>
                    /\ \A k \in DOMAIN Outgoing : ~(Forth(Outgoing[k]) /\ Outgoing[k].id = id)
                    /\ \A k \in DOMAIN s2c' : ~(Back(s2c'[k]) /\ s2c'[k].id = id)
    PROVE  Channel' /\ Exchanges'
<1> DEFINE p == Packet(type, id, None)
           out2 == Outgoing'
           in2 == s2c'
           rel2 == Released'
<1>1. /\ p \in ToServer /\ Outgoing' = Append(Outgoing, p)
      /\ \/ Written' = Written /\ pubrelKeys' = pubrelKeys
         \/ /\ Written' = Append(Written, p)
            /\ pubrelKeys' = pubrelKeys \cup (IF type = "PUBREL" THEN {id} ELSE {})
    BY SendAckOutgoing DEF OnceBefore, StoreInv
<1>2. p.type = type /\ p.id = id /\ type # "PUBLISH"
    BY DEF Packet, Acks
<1>3. Fits(p, sentKeys, rel2) /\ ~IsPub(p) /\ (IsRel(p) <=> type = "PUBREL") /\ (Forth(p) <=> type = "PUBREL")
    BY <1>2 DEF Fits, IsPub, IsRel, Forth
<1>4. /\ V5' = V5 /\ CleanSession' = CleanSession /\ ToSet(accepted)' = ToSet(accepted)
      /\ Segment(s2c', s2c, 1) /\ Segment(Outgoing, Outgoing, 0)
    BY HandlerFacts
<1>5. UNCHANGED <<connected, srvIds, srvGot, scenario>> /\ connected
    BY DEF HandlerLeaves
<1>6. Channel'
    BY <1>5, SendAckChannel DEF OnceBefore
<1>7. Outgoing \in Seq(ToServer) /\ Written \in Seq(ToServer) /\ sentKeys \in SentRecords
    BY OutgoingFacts DEF OnceBefore, StoreInv, StateOK, SentRecords
<1>8. Idle(Outgoing, in2, sentKeys, srvIds) /\ Refusals(Outgoing, in2, srvIds, V5)
    <2>1. Idle(Outgoing, s2c, sentKeys, srvIds) /\ Refusals(Outgoing, s2c, srvIds, V5)
        BY <1>5 DEF OnceBefore, Exchanges
    <2>2. Idle(Outgoing, in2, sentKeys, srvIds)
        BY <1>4, <2>1, IdleSegment
    <2>3. Refusals(Outgoing, in2, srvIds, V5)
        BY <1>4, <2>1, RefusalsSegment
    <2> QED BY <2>2, <2>3
<1> HIDE DEF p, rel2, in2
<1>9. Appends(out2, Outgoing, p, Len(Outgoing) + 1)
    BY <1>1, <1>7, AppendAppends
<1>10. Extends(out2, Outgoing, sentKeys, rel2)
    BY <1>3, <1>9, AppendExtends
<1> HIDE DEF out2
<1>11. Bundle(Outgoing, in2, sentKeys, rel2, srvIds, srvGot, ToSet(accepted), acked \cup refused)
    BY DEF in2, rel2
<1>12. /\ Bundle(out2, in2, sentKeys, rel2, srvIds, srvGot, ToSet(accepted), acked \cup refused)
       /\ Idle(out2, in2, sentKeys, srvIds)
    BY <1>7, <1>8, <1>10, <1>11, ExtendStep
<1>13. Refusals(out2, in2, srvIds, V5)
    <2>1. \A k \in DOMAIN out2 : (k \in DOMAIN Outgoing /\ out2[k] = Outgoing[k]) \/ ~IsPub(out2[k])
        BY <1>3, <1>9 DEF Appends
    <2> QED BY <1>8, <2>1, RefusalsExtends
<1>14. scenario.budget.retry = 0 => Solo(out2, in2, sentKeys, rel2, srvGot)
    <2> HAVE scenario.budget.retry = 0
    <2>1. Solo(Outgoing, in2, sentKeys, rel2, srvGot)
        BY DEF in2, rel2
    <2>2. Forth(p) => /\ \A k \in DOMAIN Outgoing : ~(Forth(Outgoing[k]) /\ Outgoing[k].id = p.id)
                      /\ \A k \in DOMAIN in2 : ~(Back(in2[k]) /\ in2[k].id = p.id)
        BY <1>2, <1>3 DEF in2
    <2> QED BY <1>3, <1>9, <2>1, <2>2, SoloExtends
<1>15. Records(Written', pubrelKeys', rel2, srvIds, scenario.budget.crash)
    <2>1. Records(Written, pubrelKeys, rel2, srvIds, scenario.budget.crash)
        BY DEF rel2
    <2>2. CASE Written' = Written /\ pubrelKeys' = pubrelKeys
        BY <2>1, <2>2
    <2>3. CASE Written' = Append(Written, p) /\ pubrelKeys' = pubrelKeys \cup (IF type = "PUBREL" THEN {id} ELSE {})
        <3>1. Appends(Written', Written, p, Len(Written) + 1)
            BY <1>1, <1>7, <2>3, AppendAppends
        <3>2. pubrelKeys' = pubrelKeys \cup (IF IsRel(p) THEN {p.id} ELSE {})
            BY <1>2, <1>3, <2>3
        <3>3. IsRel(p) => p.id \in rel2
            BY <1>3 DEF Fits
        <3> QED BY <2>1, <3>1, <3>2, <3>3, RecordsExtends
    <2> QED BY <1>1, <2>2, <2>3
<1> QED BY <1>4, <1>5, <1>6, <1>12, <1>13, <1>14, <1>15 DEF Exchanges, OnceBefore, out2, in2, rel2

(* The acknowledgement of a packet of the server. *)
LEMMA ReplyOnce ==
    ASSUME OnceBefore, HandlerLeaves, NEW type \in {"PUBACK", "PUBREC", "PUBCOMP"}, NEW id \in SrvIds,
           SendAck(type, id), UNCHANGED <<outboundMsgs, sentKeys, acked, refused>>
    PROVE  Channel' /\ Exchanges'
<1>1. Segment(s2c', s2c, 1) /\ Segment(Outgoing, Outgoing, 0) /\ connected
    BY HandlerFacts DEF HandlerLeaves
<1>2. Released' = Released
    BY SamePhases DEF OnceBefore
<1>3. Bundle(Outgoing, s2c', sentKeys, Released, srvIds, srvGot, ToSet(accepted), acked \cup refused)
    BY <1>1, DropBundle DEF OnceBefore, Exchanges
<1>4. scenario.budget.retry = 0 => Solo(Outgoing, s2c', sentKeys, Released, srvGot)
    <2> HAVE scenario.budget.retry = 0
    <2>1. Solo(Outgoing, s2c, sentKeys, Released, srvGot)
        BY <1>1 DEF OnceBefore, Exchanges
    <2> QED BY <1>1, <2>1, SoloSegment
<1>5. Records(Written, pubrelKeys, Released, srvIds, scenario.budget.crash)
    BY DEF OnceBefore, Exchanges
<1>6. [type |-> type, id |-> id] \in Acks /\ type # "PUBREL"
    BY DEF Acks
<1> QED BY <1>2, <1>3, <1>4, <1>5, <1>6, AckOnce

LEMMA HandlePublishOnce ==
    ASSUME OnceBefore, NEW p, HandlePublish(p), UNCHANGED scenario
    PROVE  Channel' /\ Exchanges'
<1>1. HandlerLeaves /\ p = Head(s2c) /\ p.type = "PUBLISH"
    BY DEF HandlePublish, Receive, HandlerLeaves, serverVars
<1>2. p.id \in SrvIds
    BY <1>1, HandlerFacts, ToClientFields
<1>3. UNCHANGED <<outboundMsgs, sentKeys, acked, refused>>
    BY DEF HandlePublish
<1>4. SendAck("PUBACK", p.id) \/ SendAck("PUBREC", p.id)
    BY DEF HandlePublish, HandlePublishQoS1, HandlePublishQoS2
<1> QED BY <1>1, <1>2, <1>3, <1>4, ReplyOnce

LEMMA HandlePubrelOnce ==
    ASSUME OnceBefore, NEW p, HandlePubrel(p), UNCHANGED scenario
    PROVE  Channel' /\ Exchanges'
<1>1. HandlerLeaves /\ p = Head(s2c) /\ p.type = "PUBREL"
    BY DEF HandlePubrel, Receive, HandlerLeaves, serverVars
<1>2. p.id \in SrvIds
    BY <1>1, HandlerFacts, ToClientFields
<1>3. UNCHANGED <<outboundMsgs, sentKeys, acked, refused>> /\ SendAck("PUBCOMP", p.id)
    BY DEF HandlePubrel
<1> QED BY <1>1, <1>2, <1>3, ReplyOnce

LEMMA PubrecReleasesOnce ==
    ASSUME OnceBefore, HandlerLeaves, NEW p, p = Head(s2c), p.type = "PUBREC", PubrecReleases(p)
    PROVE  Channel' /\ Exchanges'
<1> DEFINE i == p.id
           acc == ToSet(accepted)
           done == acked \cup refused
           in2 == s2c'
<1>1. /\ p \in ToClient /\ 1 \in DOMAIN s2c /\ s2c[1] = p
      /\ Segment(in2, s2c, 1) /\ DOMAIN in2 \subseteq Nat \ {0} /\ Segment(Outgoing, Outgoing, 0)
      /\ connected
    BY HandlerFacts DEF HandlerLeaves
<1>2. i \in Ids /\ IsRec(s2c[1]) /\ Back(s2c[1])
    BY <1>1, ToClientFields DEF IsRec, Back
<1>3. Bundle(Outgoing, s2c, sentKeys, Released, srvIds, srvGot, acc, done)
    BY DEF OnceBefore, Exchanges
<1>4. Released' = Released \cup (IF Waiting(i, "PUBREC") = {} THEN {} ELSE {i})
    BY PubrecReleasesPhases DEF OnceBefore
<1>5. scenario.budget.retry = 0 => Solo(Outgoing, s2c, sentKeys, Released, srvGot)
    BY <1>1 DEF OnceBefore, Exchanges
<1>6. Records(Written, pubrelKeys, Released, srvIds, scenario.budget.crash)
    BY DEF OnceBefore, Exchanges
<1>7. sentKeys[i] \in Msgs2
    <2>1. Idle(Outgoing, s2c, sentKeys, srvIds)
        BY <1>1 DEF OnceBefore, Exchanges
    <2> QED BY <1>1, <1>2, <2>1 DEF Idle
<1> HIDE DEF i, acc, done, in2
<1> DEFINE Goal == /\ Bundle(Outgoing, in2, sentKeys, Released', srvIds, srvGot, acc, done)
                   /\ scenario.budget.retry = 0 => Solo(Outgoing, in2, sentKeys, Released', srvGot)
                   /\ Records(Written, pubrelKeys, Released', srvIds, scenario.budget.crash)
                   /\ i \in Released'
<1>8. ASSUME Waiting(i, "PUBREC") = {} PROVE Goal
    <2>1. Released' = Released
        BY <1>4, <1>8
    <2>2. i \in Released
        BY <1>2, <1>7, <1>8, ReleasedFacts DEF OnceBefore
    <2>3. Bundle(Outgoing, in2, sentKeys, Released, srvIds, srvGot, acc, done)
        BY <1>1, <1>3, DropBundle
    <2>4. scenario.budget.retry = 0 => Solo(Outgoing, in2, sentKeys, Released, srvGot)
        BY <1>1, <1>5, SoloSegment
    <2> QED BY <1>6, <2>1, <2>2, <2>3, <2>4
<1>9. ASSUME Waiting(i, "PUBREC") # {} PROVE Goal
    <2>1. Released' = Released \cup {i}
        BY <1>4, <1>9
    <2>2. i \notin Released /\ p.ok
        <3>1. PICK k \in DOMAIN outboundMsgs : outboundMsgs[k].id = i /\ outboundMsgs[k].next = "PUBREC"
            BY <1>9 DEF Waiting
        <3> QED BY <1>9, <3>1, ReleasedFacts DEF OnceBefore, PubrecReleases, i
    <2>3. /\ Bundle(Outgoing, in2, sentKeys, Released \cup {i}, srvIds, srvGot, acc, done)
          /\ i \in srvIds /\ \A k \in DOMAIN Outgoing : ~(IsRel(Outgoing[k]) /\ Outgoing[k].id = i)
          /\ Solo(Outgoing, s2c, sentKeys, Released, srvGot)
                => Solo(Outgoing, in2, sentKeys, Released \cup {i}, srvGot)
        <3>1. Accepts(s2c[1], i)
            BY <1>1, <1>2, <2>2 DEF Accepts, i
        <3> QED BY <1>1, <1>2, <1>3, <1>7, <2>2, <3>1, ReleaseStep
    <2>4. \A k \in DOMAIN Written : ~(IsRel(Written[k]) /\ Written[k].id = i)
        BY <2>3, WrittenIsOutgoing DEF OnceBefore, StoreInv
    <2>5. Records(Written, pubrelKeys, Released \cup {i}, srvIds, scenario.budget.crash)
        BY <1>6, <2>3, <2>4 DEF Records
    <2> QED BY <1>5, <2>1, <2>3, <2>5
<1>10. Goal
    BY <1>8, <1>9
<1> HIDE DEF Goal
<1>11. ASSUME scenario.budget.retry = 0
       PROVE  /\ \A k \in DOMAIN Outgoing : ~(Forth(Outgoing[k]) /\ Outgoing[k].id = i)
              /\ \A k \in DOMAIN in2 : ~(Back(in2[k]) /\ in2[k].id = i)
    <2>1. Solo(Outgoing, s2c, sentKeys, Released, srvGot)
        BY <1>5, <1>11
    <2>2. \A k \in DOMAIN in2 : k + 1 \in DOMAIN s2c /\ in2[k] = s2c[k + 1] /\ 1 # k + 1
        BY <1>1 DEF Segment
    <2> QED BY <1>1, <1>2, <2>1, <2>2 DEF Solo, i
<1>12. /\ [type |-> "PUBREL", id |-> i] \in Acks
       /\ SendAck("PUBREL", i) /\ UNCHANGED <<sentKeys, acked, refused>>
    BY <1>2 DEF Acks, PubrecReleases, i
<1> QED BY <1>10, <1>11, <1>12, AckOnce DEF Goal, in2, acc, done

LEMMA HandlePubrecOnce ==
    ASSUME OnceBefore, NEW p, HandlePubrec(p), UNCHANGED scenario
    PROVE  Channel' /\ Exchanges'
<1>1. HandlerLeaves /\ p = Head(s2c) /\ p.type = "PUBREC"
    BY DEF HandlePubrec, Receive, HandlerLeaves, serverVars
<1>2. CASE PubrecRefuses(p)
    <2>1. PICK k \in Waiting(p.id, "PUBREC") : EndExchange(k, FALSE)
        BY <1>2 DEF PubrecRefuses
    <2>2. ~p.ok /\ UNCHANGED <<outboundQueue, c2s, pendingWrite>>
        BY <1>2 DEF PubrecRefuses
    <2>3. p.ok = FALSE
        <3>1. p \in ToClient
            BY <1>1, HandlerFacts
        <3> QED BY <2>2, <3>1 DEF ToClient
    <2> QED BY <1>1, <2>1, <2>2, <2>3, EndOnce
<1>3. CASE PubrecReleases(p)
    BY <1>1, <1>3, PubrecReleasesOnce
<1> QED BY <1>2, <1>3 DEF HandlePubrec

LEMMA ConcatPrefix ==
    ASSUME NEW T, NEW s \in Seq(T), NEW t \in Seq(T), NEW u \in Seq(T), Segment(u, t, 0)
    PROVE  Segment(s \o u, s \o t, 0)
<1> DEFINE v == s \o u
           w == s \o t
<1>1. /\ v \in Seq(T) /\ Len(v) = Len(s) + Len(u)
      /\ \A i \in 1 .. Len(s) + Len(u) : v[i] = IF i <= Len(s) THEN s[i] ELSE u[i - Len(s)]
    BY ConcatProperties
<1>2. /\ w \in Seq(T) /\ Len(w) = Len(s) + Len(t)
      /\ \A i \in 1 .. Len(s) + Len(t) : w[i] = IF i <= Len(s) THEN s[i] ELSE t[i - Len(s)]
    BY ConcatProperties
<1>3. /\ Len(s) \in Nat /\ Len(t) \in Nat /\ Len(u) \in Nat
      /\ DOMAIN t = 1 .. Len(t) /\ DOMAIN u = 1 .. Len(u)
    BY SeqFacts
<1>4. DOMAIN v = 1 .. Len(s) + Len(u) /\ DOMAIN w = 1 .. Len(s) + Len(t)
    BY <1>1, <1>2, SeqFacts
<1> HIDE DEF v, w
<1>5. \A k \in 1 .. Len(u) : k \in 1 .. Len(t) /\ u[k] = t[k]
    <2>1. \A k \in 1 .. Len(u) : k + 0 = k
        BY <1>3
    <2> QED BY <1>3, <2>1 DEF Segment
<1>6. Len(u) <= Len(t)
    BY <1>3, <1>5
<1> SUFFICES ASSUME NEW k \in DOMAIN v PROVE k \in Int /\ k + 0 \in DOMAIN w /\ v[k] = w[k + 0]
    BY DEF Segment, v, w
<1>7. k \in Int /\ k \in 1 .. Len(s) + Len(u) /\ k + 0 = k /\ k \in 1 .. Len(s) + Len(t)
    BY <1>3, <1>4, <1>6
<1>8. CASE k <= Len(s)
    BY <1>1, <1>2, <1>4, <1>7, <1>8
<1>9. CASE ~(k <= Len(s))
    <2>1. k - Len(s) \in 1 .. Len(u)
        BY <1>3, <1>7, <1>9
    <2> QED BY <1>1, <1>2, <1>4, <1>5, <1>7, <1>9, <2>1
<1> QED BY <1>8, <1>9

(* After a step that empties the queue everything on its way is written. *)
LEMMA NothingQueued ==
    ASSUME StateOK', outboundQueue' = <<>>
    PROVE  Outgoing' = Written' /\ (pendingWrite' = None => Written' = c2s')
<1>1. (StateOK => /\ outboundQueue = <<>> => Outgoing = Written
                  /\ pendingWrite = None => Written = c2s)'
    BY OutgoingFacts, PTL
<1> QED BY <1>1

LEMMA WriteAvailableOnce ==
    ASSUME OnceBefore, WriteAvailable, UNCHANGED scenario
    PROVE  Channel' /\ Exchanges'
<1>1. PICK n \in 0 .. Len(outboundQueue), outcome \in Outcomes :
         LET acks == [k \in 1 .. n |-> Packet(outboundQueue[k].type, outboundQueue[k].id, None)]
         IN  /\ Transmit(c2s, <<pendingWrite>> \o acks, outcome)
             /\ pubrelKeys' = PutPubrel(pubrelKeys, acks)
    BY DEF WriteAvailable
<1> DEFINE acks == [k \in 1 .. n |-> Packet(outboundQueue[k].type, outboundQueue[k].id, None)]
<1>2. /\ Transmit(c2s, <<pendingWrite>> \o acks, outcome)
      /\ pubrelKeys' = PutPubrel(pubrelKeys, acks)
    BY <1>1
<1>3. /\ connected /\ pendingWrite # None /\ outboundQueue' = <<>>
      /\ UNCHANGED <<connected, outboundMsgs, sentKeys, s2c, srvIds, srvGot, accepted, acked, refused>>
    BY DEF WriteAvailable, serverVars, appVars
<1>4. StateOK /\ StateOK' /\ c2s \in Seq(ToServer) /\ pendingWrite \in ToServer /\ s2c \in Seq(ToClient)
    BY <1>3 DEF OnceBefore, StoreInv, StateOK
<1>5. /\ Written \in Seq(ToServer) /\ Queued \in Seq(ToServer) /\ Outgoing \in Seq(ToServer)
      /\ Len(Queued) = Len(outboundQueue)
    BY <1>4, OutgoingFacts
<1>6. acks \in Seq(ToServer) /\ Segment(acks, Queued, 0)
    <2>1. DOMAIN Queued = 1 .. Len(outboundQueue) /\ Len(outboundQueue) \in Nat
          /\ \A k \in DOMAIN Queued : Queued[k] \in ToServer
        BY <1>5, SeqFacts
    <2>2. \A k \in 1 .. n : k \in Int /\ k + 0 = k /\ k \in DOMAIN Queued
        BY <2>1
    <2>3. DOMAIN outboundQueue = DOMAIN Queued
        BY DEF Queued
    <2>4. \A k \in DOMAIN Queued :
             Queued[k] = Packet(outboundQueue[k].type, outboundQueue[k].id, None)
        BY <2>3 DEF Queued
    <2>5. \A k \in 1 .. n : acks[k] = Queued[k]
        BY <2>2, <2>4
    <2>6. acks \in [1 .. n -> ToServer]
        BY <2>1, <2>2, <2>4
    <2>7. acks \in Seq(ToServer) /\ DOMAIN acks = 1 .. n
        BY <2>6, SeqOfFunction
    <2> HIDE DEF acks
    <2> QED BY <2>2, <2>5, <2>7 DEF Segment
<1> HIDE DEF acks
<1>7. Written' = Written \o acks
    <2>1. <<pendingWrite>> \in Seq(ToServer) /\ <<pendingWrite>> # <<>>
        BY <1>4
    <2>2. <<pendingWrite>> \o acks \in Seq(ToServer) /\ <<pendingWrite>> \o acks # <<>>
        BY <1>6, <2>1, ConcatProperties, ConcatEqualIffEmpty
    <2>3. Written' = c2s \o (<<pendingWrite>> \o acks)
        BY <1>2, <1>4, <2>2, TransmitWritten
    <2>4. (c2s \o <<pendingWrite>>) \o acks = c2s \o (<<pendingWrite>> \o acks)
        BY <1>4, <1>6, <2>1, ConcatAssociative
    <2>5. Written = c2s \o <<pendingWrite>>
        BY <1>3, <1>4, AppendIsConcat DEF Written
    <2> QED BY <2>3, <2>4, <2>5
<1>8. Outgoing' = Written'
    BY <1>3, <1>4, NothingQueued
<1>9. Segment(Outgoing', Outgoing, 0)
    BY <1>5, <1>6, <1>7, <1>8, ConcatPrefix DEF Outgoing
<1>10. Released' = Released /\ V5' = V5 /\ CleanSession' = CleanSession /\ ToSet(accepted)' = ToSet(accepted)
    BY <1>3, SamePhases DEF OnceBefore, V5, CleanSession, ToSet
<1>11. Segment(s2c, s2c, 0)
    BY <1>4, SelfSegment
<1>12. Channel' /\ scenario.budget.partial # 0
    BY <1>3 DEF OnceBefore, Channel
<1> DEFINE acc == ToSet(accepted)
           done == acked \cup refused
           out2 == Outgoing'
<1>13. /\ Bundle(Outgoing, s2c, sentKeys, Released, srvIds, srvGot, acc, done)
       /\ Idle(Outgoing, s2c, sentKeys, srvIds)
       /\ Refusals(Outgoing, s2c, srvIds, V5)
       /\ scenario.budget.retry = 0 => Solo(Outgoing, s2c, sentKeys, Released, srvGot)
       /\ Records(Written, pubrelKeys, Released, srvIds, scenario.budget.crash)
    BY <1>3 DEF OnceBefore, Exchanges
<1>14. Segment(out2, Outgoing, 0)
    BY <1>9
<1> HIDE DEF acc, done, out2
<1>15. Bundle(out2, s2c, sentKeys, Released, srvIds, srvGot, acc, done)
    BY <1>11, <1>13, <1>14, DropBundle
<1>16. Idle(out2, s2c, sentKeys, srvIds)
    BY <1>11, <1>13, <1>14, IdleSegment
<1>17. Refusals(out2, s2c, srvIds, V5)
    BY <1>11, <1>13, <1>14, RefusalsSegment
<1>18. scenario.budget.retry = 0 => Solo(out2, s2c, sentKeys, Released, srvGot)
    BY <1>11, <1>13, <1>14, SoloSegment
<1>19. Records(Written', pubrelKeys', Released, srvIds, scenario.budget.crash)
    <2>1. \A k \in DOMAIN Written' :
             \/ k \in DOMAIN Written /\ Written'[k] = Written[k]
             \/ \E j \in DOMAIN acks : Written'[k] = acks[j]
        BY <1>5, <1>6, <1>7, ConcatParts
    <2>2. \A k \in DOMAIN Written' : IsRel(Written'[k]) /\ Written'[k].id \notin pubrelKeys' =>
             k \in DOMAIN Written /\ Written'[k] = Written[k]
        BY <1>2, <2>1 DEF PutPubrel, IsRel
    <2>3. pubrelKeys \subseteq pubrelKeys'
        BY <1>2 DEF PutPubrel
    <2>4. ASSUME NEW i \in Released \ pubrelKeys'
          PROVE  i \in srvIds /\ \A k \in DOMAIN Written' : ~(IsRel(Written'[k]) /\ Written'[k].id = i)
        BY <1>13, <2>2, <2>3 DEF Records
    <2>5. ASSUME scenario.budget.crash # 0 PROVE pubrelKeys' \subseteq Released
        <3>1. scenario.budget.retry = 0
            BY <1>12, <2>5 DEF OnceBefore, Undisturbed
        <3>2. Solo(out2, s2c, sentKeys, Released, srvGot)
            BY <1>18, <3>1
        <3>3. \A k \in DOMAIN acks : \E l \in DOMAIN out2 : out2[l] = acks[k]
            <4>1. /\ Len(Written) \in Nat /\ DOMAIN acks = 1 .. Len(acks) /\ Len(acks) \in Nat
                BY <1>5, <1>6, SeqFacts
            <4>2. /\ Written \o acks \in Seq(ToServer)
                  /\ Len(Written \o acks) = Len(Written) + Len(acks)
                  /\ \A i \in 1 .. Len(Written) + Len(acks) :
                       (Written \o acks)[i] = IF i <= Len(Written) THEN Written[i] ELSE acks[i - Len(Written)]
                BY <1>5, <1>6, ConcatProperties
            <4>3. DOMAIN out2 = 1 .. Len(Written) + Len(acks) /\ out2 = Written \o acks
                BY <1>7, <1>8, <4>2, SeqFacts DEF out2
            <4>4. ASSUME NEW k \in 1 .. Len(acks)
                  PROVE  k + Len(Written) \in DOMAIN out2 /\ out2[k + Len(Written)] = acks[k]
                <5>1. /\ k + Len(Written) \in 1 .. Len(Written) + Len(acks)
                      /\ ~(k + Len(Written) <= Len(Written)) /\ (k + Len(Written)) - Len(Written) = k
                    BY <4>1
                <5> QED BY <4>2, <4>3, <5>1
            <4> QED BY <4>1, <4>4
        <3>4. \A k \in DOMAIN acks : acks[k].type = "PUBREL" => acks[k].id \in Released
            BY <3>2, <3>3 DEF Solo, IsRel
        <3> QED BY <1>2, <1>13, <2>5, <3>4 DEF Records, PutPubrel
    <2> QED BY <2>4, <2>5 DEF Records
<1>20. \A m \in acked \cap Msgs2 : srvGot[m] = 1
    BY DEF OnceBefore, Exchanges
<1> QED BY <1>3, <1>10, <1>12, <1>15, <1>16, <1>17, <1>18, <1>19, <1>20 DEF Exchanges, acc, done, out2

LEMMA PublishRecord ==
    ASSUME StoreInv, NEW m \in Msgs, Publish(m), NEW id, id = AssignMsgId(msgID, OutIds)
    PROVE  /\ id \in Ids /\ sentKeys[id] = None
           /\ sentKeys' = [sentKeys EXCEPT ![id] = m]
           /\ ToSet(accepted') = ToSet(accepted) \cup {m}
           /\ m \notin ToSet(accepted) /\ ToSet(accepted) \in SUBSET Msgs
<1> DEFINE p == <<Packet("PUBLISH", id, m)>>
<1>1. id \in Ids \ OutIds
    BY AssignedIsFree DEF Publish, StateOK, StoreInv
<1>2. /\ sentKeys' = PutSent(sentKeys, p)
      /\ accepted' = Append(accepted, m) /\ m \notin ToSet(accepted)
    BY DEF Publish
<1>3. sentKeys \in SentRecords /\ accepted \in Seq(Msgs)
    BY DEF StoreInv, StateOK, SentRecords
<1>4. sentKeys' = [sentKeys EXCEPT ![id] = m]
    <2>1. DOMAIN p = {1} /\ p[1].type = "PUBLISH" /\ p[1].id = id /\ p[1].m = m
        BY DEF Packet
    <2> HIDE DEF p
    <2>2. \A i \in Ids : PutSent(sentKeys, p)[i] = IF i = id THEN m ELSE sentKeys[i]
        BY <2>1 DEF PutSent
    <2>3. PutSent(sentKeys, p) = [i \in Ids |-> IF i = id THEN m ELSE sentKeys[i]]
        BY <2>2 DEF PutSent
    <2> QED BY <1>2, <1>3, <2>3 DEF SentRecords
<1>5. sentKeys[id] = None
    BY <1>1 DEF StoreInv, Matches, OutIds
<1>6. /\ DOMAIN accepted' = 1 .. (Len(accepted) + 1)
      /\ accepted'[Len(accepted) + 1] = m
      /\ \A j \in DOMAIN accepted : accepted'[j] = accepted[j]
      /\ Len(accepted) \in Nat /\ DOMAIN accepted = 1 .. Len(accepted)
      /\ \A j \in DOMAIN accepted : accepted[j] \in Msgs
    BY <1>2, <1>3, AppendFacts, SeqFacts
<1>7. DOMAIN accepted' = DOMAIN accepted \cup {Len(accepted) + 1}
    BY <1>6
<1>8. ToSet(accepted') = ToSet(accepted) \cup {m}
    BY <1>6, <1>7 DEF ToSet
<1>9. ToSet(accepted) \in SUBSET Msgs
    BY <1>6 DEF ToSet
<1> QED BY <1>1, <1>2, <1>4, <1>5, <1>8, <1>9

LEMMA PublishOnce ==
    ASSUME OnceBefore, NEW m \in Msgs, Publish(m), UNCHANGED scenario
    PROVE  Channel' /\ Exchanges'
<1> DEFINE id == AssignMsgId(msgID, OutIds)
           p == Packet("PUBLISH", id, m)
           acc == ToSet(accepted)
           done == acked \cup refused
           out2 == Outgoing'
           sent2 == sentKeys'
<1>1. /\ id \in Ids /\ sentKeys[id] = None
      /\ sent2 = [sentKeys EXCEPT ![id] = m]
      /\ ToSet(accepted)' = acc \cup {m}
      /\ m \notin acc /\ acc \in SUBSET Msgs
    BY PublishRecord DEF OnceBefore
<1>2. PICK outcome \in Outcomes : Transmit(c2s, <<p>>, outcome)
    BY DEF Publish
<1>3. /\ connected /\ pendingWrite = None
      /\ UNCHANGED <<connected, outboundQueue, pubrelKeys, s2c, srvIds, srvGot, acked, refused>>
    BY DEF Publish, serverVars
<1>4. Released' = Released /\ V5' = V5 /\ CleanSession' = CleanSession
    BY PublishPhases DEF OnceBefore, V5, CleanSession
<1>5. p \in ToServer /\ p.type = "PUBLISH" /\ p.id = id /\ p.m = m
    BY <1>1, PublishIsPacket DEF Packet
<1> HIDE DEF id, p, acc, done, sent2
<1>6. /\ StateOK /\ StateOK' /\ outboundQueue' = <<>> /\ outboundQueue = <<>>
      /\ c2s \in Seq(ToServer) /\ sentKeys \in SentRecords /\ sent2 \in SentRecords
    BY <1>3 DEF OnceBefore, StoreInv, StateOK, Channel, SentRecords, sent2
<1>7. Outgoing = c2s /\ Written = c2s
    BY <1>3, <1>6, OutgoingFacts
<1>8. Outgoing' = Append(Outgoing, p) /\ Written' = Append(Written, p)
    <2>1. <<p>> \in Seq(ToServer) /\ <<p>> # <<>>
        BY <1>5
    <2>2. Written' = c2s \o <<p>>
        BY <1>2, <1>6, <2>1, TransmitWritten
    <2> QED BY <1>5, <1>6, <1>7, <2>2, NothingQueued, AppendIsConcat
<1>9. Channel'
    <2>1. ASSUME scenario.budget.partial = 0 PROVE pendingWrite' = None
        <3>1. outcome = "complete"
            BY <1>2, <2>1, CompleteOutcome DEF OnceBefore
        <3> QED BY <1>2, <3>1 DEF Transmit
    <2> QED BY <1>3, <1>6, <2>1 DEF Channel
<1>10. /\ Bundle(Outgoing, s2c, sentKeys, Released, srvIds, srvGot, acc, done)
       /\ Idle(Outgoing, s2c, sentKeys, srvIds)
       /\ Refusals(Outgoing, s2c, srvIds, V5)
       /\ scenario.budget.retry = 0 => Solo(Outgoing, s2c, sentKeys, Released, srvGot)
       /\ Records(Written, pubrelKeys, Released, srvIds, scenario.budget.crash)
    BY <1>3 DEF OnceBefore, Exchanges, acc, done
<1>11. /\ Bundle(Outgoing, s2c, sent2, Released, srvIds, srvGot, acc \cup {m}, done)
       /\ Idle(Outgoing, s2c, sent2, srvIds)
       /\ id \notin Released
       /\ \A k \in DOMAIN s2c : ~(IsRec(s2c[k]) /\ s2c[k].id = id)
       /\ Solo(Outgoing, s2c, sentKeys, Released, srvGot) =>
             /\ Solo(Outgoing, s2c, sent2, Released, srvGot)
             /\ \A k \in DOMAIN Outgoing : ~(Forth(Outgoing[k]) /\ Outgoing[k].id = id)
             /\ \A k \in DOMAIN s2c : ~(Back(s2c[k]) /\ s2c[k].id = id)
    <2>1. /\ Bundle(Outgoing, s2c, sentKeys, Released, srvIds, srvGot, acc, done)
          /\ Idle(Outgoing, s2c, sentKeys, srvIds)
          /\ NewRecord(sentKeys, id, m, sent2) /\ NewMessage(m, acc)
        BY <1>1, <1>10 DEF NewRecord, NewMessage
    <2>2. /\ Bundle(Outgoing, s2c, sent2, Released, srvIds, srvGot, acc \cup {m}, done)
          /\ Idle(Outgoing, s2c, sent2, srvIds)
        BY <1>6, <2>1, PublishStep
    <2>3. id \notin Released
        BY <1>6, <2>1, PublishStep
    <2>4. \A k \in DOMAIN s2c : ~(IsRec(s2c[k]) /\ s2c[k].id = id)
        BY <1>6, <2>1, PublishStep
    <2>5. ASSUME Solo(Outgoing, s2c, sentKeys, Released, srvGot)
          PROVE  /\ Solo(Outgoing, s2c, sent2, Released, srvGot)
                 /\ \A k \in DOMAIN Outgoing : ~(Forth(Outgoing[k]) /\ Outgoing[k].id = id)
                 /\ \A k \in DOMAIN s2c : ~(Back(s2c[k]) /\ s2c[k].id = id)
        BY <1>6, <2>1, <2>5, PublishStep
    <2> QED BY <2>2, <2>3, <2>4, <2>5
<1>12. Fits(p, sent2, Released)
    <2>1. sent2[id] = m
        BY <1>1, <1>6 DEF SentRecords
    <2> QED BY <1>1, <1>5, <1>11, <2>1 DEF Fits, IsRel
<1>13. Outgoing \in Seq(ToServer) /\ Written \in Seq(ToServer)
    BY <1>6, <1>7
<1>14. Appends(out2, Outgoing, p, Len(Outgoing) + 1)
    BY <1>5, <1>8, <1>13, AppendAppends
<1>15. Extends(out2, Outgoing, sent2, Released)
    BY <1>12, <1>14, AppendExtends
<1> HIDE DEF out2
<1>16. /\ Bundle(out2, s2c, sent2, Released, srvIds, srvGot, acc \cup {m}, done)
       /\ Idle(out2, s2c, sent2, srvIds)
    BY <1>6, <1>11, <1>15, ExtendStep
<1>17. Refusals(out2, s2c, srvIds, V5)
    <2>1. \A k \in DOMAIN out2 : \/ k \in DOMAIN Outgoing /\ out2[k] = Outgoing[k]
                                 \/ \A l \in DOMAIN s2c : IsPub(out2[k]) =>
                                       ~(IsRec(s2c[l]) /\ s2c[l].id = out2[k].id)
        BY <1>5, <1>11, <1>14 DEF Appends
    <2> QED BY <1>10, <2>1, RefusalsExtends
<1>18. scenario.budget.retry = 0 => Solo(out2, s2c, sent2, Released, srvGot)
    BY <1>5, <1>10, <1>11, <1>12, <1>14, SoloExtends
<1>19. Records(Written', pubrelKeys, Released, srvIds, scenario.budget.crash)
    <2>1. Appends(Written', Written, p, Len(Written) + 1)
        BY <1>5, <1>8, <1>13, AppendAppends
    <2>2. ~IsRel(p)
        BY <1>5 DEF IsRel
    <2> QED BY <1>10, <2>1, <2>2, RecordsExtends
<1>20. \A x \in acked \cap Msgs2 : srvGot[x] = 1
    BY DEF OnceBefore, Exchanges
<1> QED BY <1>1, <1>3, <1>4, <1>9, <1>16, <1>17, <1>18, <1>19, <1>20
        DEF Exchanges, acc, done, out2, sent2

-----------------------------------------------------------------------------
(* Losing the connection, retrying and reconnecting                         *)

(* Where the connection may be lost, no write is partial. *)
LEMMA LossFacts ==
    ASSUME OnceBefore, Allowed("loss")
    PROVE  /\ scenario.budget.partial = 0
           /\ pendingWrite = None /\ outboundQueue = <<>> /\ Outgoing = c2s /\ Written = c2s
<1>1. scenario.budget.loss # 0
    BY DEF OnceBefore, Spared, Allowed
<1>2. scenario.budget.partial = 0
    BY <1>1 DEF OnceBefore, Undisturbed
<1>3. pendingWrite = None /\ outboundQueue = <<>>
    BY <1>2 DEF OnceBefore, Channel
<1> QED BY <1>2, <1>3, OutgoingFacts DEF OnceBefore, StoreInv

LEMMA EmptySegment ==
    ASSUME NEW s
    PROVE  Segment(<<>>, s, 0)
BY DEF Segment

(* The application's side and the server's. *)
Elsewhere ==
    UNCHANGED <<srvIds, srvGot, accepted, acked, refused, scenario>>

(* The socket is closed, and the session emptied or kept. *)
LEMMA CloseOnce ==
    ASSUME OnceBefore, Elsewhere, CloseSocket, outboundQueue' = <<>>,
           NEW in,
           Bundle(c2s', in, sentKeys, Released, srvIds, srvGot, ToSet(accepted), acked \cup refused),
           ~CleanSession => Idle(c2s', in, sentKeys, srvIds),
           \/ CleanSession /\ EmptySession
           \/ /\ UNCHANGED <<sentKeys, outboundMsgs>>
              /\ Records(c2s', pubrelKeys', Released, srvIds, scenario.budget.crash)
    PROVE  Channel' /\ Exchanges'
<1> DEFINE out2 == c2s'
<1>1. connected' = FALSE /\ pendingWrite' = None /\ s2c' = <<>>
    BY DEF CloseSocket
<1>2. Outgoing' = out2 /\ Written' = out2
    BY <1>1, NothingQueued DEF OnceBefore, StoreInv
<1>3. /\ V5' = V5 /\ CleanSession' = CleanSession /\ ToSet(accepted)' = ToSet(accepted)
      /\ UNCHANGED <<srvIds, srvGot, acked, refused, scenario>>
    BY DEF Elsewhere, V5, CleanSession, ToSet
<1>4. Channel'
    BY <1>1 DEF Channel
<1>5. Refusals(out2, <<>>, srvIds, V5)
    BY DEF Refusals
<1>6. \A m \in acked \cap Msgs2 : srvGot[m] = 1
    BY DEF OnceBefore, Exchanges
<1> HIDE DEF out2
<1>7. /\ Bundle(out2, in, sentKeys, Released, srvIds, srvGot, ToSet(accepted), acked \cup refused)
      /\ ~CleanSession => Idle(out2, in, sentKeys, srvIds)
    BY DEF out2
<1>8. CASE CleanSession /\ EmptySession
    <2>1. Released' = {} /\ sentKeys' = [i \in Ids |-> None] /\ pubrelKeys' = {}
        BY <1>8, EmptySessionPhases DEF EmptySession
    <2>2. Bundle(out2, <<>>, sentKeys', {}, srvIds, srvGot, ToSet(accepted), acked \cup refused)
        BY <1>7, <2>1, EmptyStep
    <2>3. Records(out2, {}, {}, srvIds, scenario.budget.crash)
        BY DEF Records
    <2> QED BY <1>1, <1>2, <1>3, <1>4, <1>5, <1>6, <1>8, <2>1, <2>2, <2>3 DEF Exchanges
<1>9. CASE /\ UNCHANGED <<sentKeys, outboundMsgs>>
           /\ Records(out2, pubrelKeys', Released, srvIds, scenario.budget.crash)
    <2>1. Released' = Released
        BY <1>9, SamePhases DEF OnceBefore
    <2>2. Segment(out2, out2, 0) /\ Segment(<<>>, in, 0)
        <3>1. c2s' \in Seq(ToServer)
            BY DEF OnceBefore, StoreInv, StateOK
        <3> QED BY <3>1, SelfSegment, EmptySegment DEF out2
    <2>3. Bundle(out2, <<>>, sentKeys, Released, srvIds, srvGot, ToSet(accepted), acked \cup refused)
        BY <1>7, <2>2, DropBundle
    <2>4. ~CleanSession => Idle(out2, <<>>, sentKeys, srvIds)
        BY <1>7, <2>2, IdleSegment
    <2> QED BY <1>1, <1>2, <1>3, <1>4, <1>5, <1>6, <1>9, <2>1, <2>3, <2>4 DEF Exchanges
<1> QED BY <1>8, <1>9 DEF out2

LEMMA ConnectionLostOnce ==
    ASSUME OnceBefore, ConnectionLost, UNCHANGED scenario
    PROVE  Channel' /\ Exchanges'
<1>1. /\ connected /\ Allowed("loss") /\ CloseSocket /\ c2s' = c2s /\ outboundQueue' = outboundQueue
      /\ Elsewhere
    BY DEF ConnectionLost, Elsewhere, serverVars, appVars
<1>2. outboundQueue = <<>> /\ Outgoing = c2s /\ Written = c2s
    BY <1>1, LossFacts
<1>3. /\ Bundle(c2s', s2c, sentKeys, Released, srvIds, srvGot, ToSet(accepted), acked \cup refused)
      /\ Idle(c2s', s2c, sentKeys, srvIds)
      /\ Records(c2s', pubrelKeys, Released, srvIds, scenario.budget.crash)
    BY <1>1, <1>2 DEF OnceBefore, Exchanges
<1>4. \/ CleanSession /\ EmptySession
      \/ UNCHANGED <<sentKeys, outboundMsgs, pubrelKeys>>
    BY DEF ConnectionLost, CleansOnClose, sessionVars
<1> QED BY <1>1, <1>2, <1>3, <1>4, CloseOnce

(* The packets ps are those of the messages at positions f. *)
SentFor(ps, f) ==
    \A k \in DOMAIN ps : f[k] \in DOMAIN outboundMsgs /\ ps[k].id = outboundMsgs[f[k]].id

(* What a retry writes fits what is in flight, and so does what it stores. *)
LEMMA RetryFits ==
    ASSUME OnceBefore, NEW regardless, NEW outcome, NEW f \in Attempts(regardless, outcome), NEW ps,
           ps = [k \in DOMAIN f |-> RetryPacket(outboundMsgs[f[k]])]
    PROVE  /\ ps \in Seq(ToServer) /\ ps # <<>> /\ DOMAIN ps = DOMAIN f
           /\ PutSent(sentKeys, ps) = sentKeys
           /\ \A k \in DOMAIN ps : Fits(ps[k], sentKeys, Released)
           /\ SentFor(ps, f)
<1>1. outboundMsgs \in Seq(OutEntry) /\ sentKeys \in SentRecords /\ Matches(outboundMsgs, sentKeys)
    BY DEF OnceBefore, StoreInv, StateOK, SentRecords
<1>2. /\ DOMAIN f = DOMAIN ps
      /\ ps \in Seq(ToServer) /\ ps # <<>>
      /\ \A k \in DOMAIN f : f[k] \in DOMAIN outboundMsgs
      /\ PutSent(sentKeys, ps) = sentKeys
    BY <1>1, RetryPackets
<1>3. \A k \in DOMAIN ps : ps[k] = RetryPacket(outboundMsgs[f[k]])
    OBVIOUS
<1>4. ASSUME NEW k \in DOMAIN ps
      PROVE  Fits(ps[k], sentKeys, Released) /\ ps[k].id = outboundMsgs[f[k]].id
    <2> DEFINE e == outboundMsgs[f[k]]
    <2>1. /\ e.id \in Ids /\ e.m \in Msgs /\ sentKeys[e.id] = e.m
          /\ e.id \in Released <=> e.next = "PUBCOMP"
        BY <1>2, ReleasedFacts DEF OnceBefore
    <2>2. ps[k] = RetryPacket(e)
        BY <1>3
    <2> HIDE DEF e
    <2>3. CASE e.next = "PUBCOMP"
        <3>1. ps[k].type = "PUBREL" /\ ps[k].id = e.id
            BY <2>2, <2>3 DEF RetryPacket, Packet
        <3> QED BY <2>1, <2>3, <3>1 DEF Fits, IsRel, e
    <2>4. CASE e.next # "PUBCOMP"
        <3>1. ps[k].type = "PUBLISH" /\ ps[k].id = e.id /\ ps[k].m = e.m
            BY <2>2, <2>4 DEF RetryPacket, Packet
        <3> QED BY <2>1, <2>4, <3>1 DEF Fits, IsRel, e
    <2> QED BY <2>3, <2>4
<1>5. SentFor(ps, f)
    BY <1>2, <1>4 DEF SentFor
<1> QED BY <1>2, <1>4, <1>5

LEMMA FrontSegment ==
    ASSUME NEW T, NEW s \in Seq(T), s # <<>>
    PROVE  Front(s) \in Seq(T) /\ \A k \in DOMAIN Front(s) : k \in DOMAIN s /\ Front(s)[k] = s[k]
<1>1. Len(s) \in Nat \ {0} /\ DOMAIN s = 1 .. Len(s)
    BY EmptySeq, SeqFacts
<1>2. Front(s) \in Seq(T)
    BY FrontLastFacts
<1>3. \A i \in 1 .. Len(s) - 1 : s[i] \in T
    BY <1>1, SeqFacts
<1>4. /\ Len(SubSeq(s, 1, Len(s) - 1)) = Len(s) - 1
      /\ \A i \in 1 .. Len(s) - 1 : SubSeq(s, 1, Len(s) - 1)[i] = s[i]
    <2>1. \A i \in 1 .. (Len(s) - 1) : SubSeq(s, 1, Len(s) - 1)[i] = s[1 + i - 1] /\ 1 + i - 1 = i
        BY <1>1, <1>3, SubSeqProperties
    <2>2. Len(SubSeq(s, 1, Len(s) - 1)) = IF 1 <= Len(s) - 1 THEN Len(s) - 1 - 1 + 1 ELSE 0
        BY <1>1, <1>3, SubSeqProperties
    <2> QED BY <1>1, <2>1, <2>2
<1>5. DOMAIN Front(s) = 1 .. Len(s) - 1
    BY <1>2, <1>4, SeqFacts DEF Front
<1>6. \A i \in 1 .. Len(s) - 1 : i \in 1 .. Len(s)
    BY <1>1
<1> QED BY <1>1, <1>2, <1>4, <1>5, <1>6 DEF Front

(* Packets that fit are written after what is on its way, and their PUBRELs *)
(* put in the store.                                                        *)
LEMMA RecordsConcat ==
    ASSUME NEW T, NEW wire \in Seq(T), NEW ps \in Seq(T), NEW ps2,
           \A k \in DOMAIN ps : \E l \in DOMAIN ps2 : ps[k] = ps2[l],
           NEW sent, NEW rel, \A k \in DOMAIN ps2 : Fits(ps2[k], sent, rel),
           NEW pubrel, NEW ids, NEW crash, Records(wire, pubrel, rel, ids, crash)
    PROVE  Records(wire \o ps, PutPubrel(pubrel, ps2), rel, ids, crash)
<1> DEFINE w == wire \o ps
           pubrel2 == PutPubrel(pubrel, ps2)
<1>1. \A k \in DOMAIN w : \/ k \in DOMAIN wire /\ w[k] = wire[k]
                          \/ \E l \in DOMAIN ps2 : w[k] = ps2[l]
    BY ConcatParts
<1>2. \A l \in DOMAIN ps2 : IsRel(ps2[l]) => ps2[l].id \in pubrel2
    BY DEF PutPubrel, IsRel
<1>3. pubrel \subseteq pubrel2 /\ \A i \in pubrel2 : i \in pubrel \/ i \in rel
    BY DEF PutPubrel, Fits, IsRel
<1> HIDE DEF w, pubrel2
<1>4. Records(w, pubrel2, rel, ids, crash)
    BY <1>1, <1>2, <1>3 DEF Records
<1> QED BY <1>4 DEF w, pubrel2

LEMMA RetryFailedOnce ==
    ASSUME OnceBefore, Elsewhere, outboundQueue' = <<>>,
           NEW regardless, NEW f \in Attempts(regardless, "failed"),
           NEW wire \in Seq(ToServer), NEW incoming, NEW now,
           RetryLoop(f, regardless, "failed", wire, incoming, now),
           Bundle(wire, incoming, sentKeys, Released, srvIds, srvGot, ToSet(accepted),
                  acked \cup refused),
           Idle(wire, incoming, sentKeys, srvIds),
           Records(wire, pubrelKeys, Released, srvIds, scenario.budget.crash)
    PROVE  Channel' /\ Exchanges'
<1> DEFINE ps == [k \in DOMAIN f |-> RetryPacket(outboundMsgs[f[k]])]
<1>1. /\ ps \in Seq(ToServer) /\ ps # <<>>
      /\ PutSent(sentKeys, ps) = sentKeys
      /\ \A k \in DOMAIN ps : Fits(ps[k], sentKeys, Released)
    BY RetryFits
<1>2. CloseSocket /\ c2s' = wire \o Front(ps)
    BY DEF RetryLoop, Transmit
<1>3. \/ CleanSession /\ EmptySession
      \/ /\ sentKeys' = PutSent(sentKeys, ps)
         /\ pubrelKeys' = PutPubrel(pubrelKeys, ps)
         /\ UNCHANGED outboundMsgs
    BY DEF RetryLoop, CleansOnClose
<1> HIDE DEF ps
<1>4. /\ Front(ps) \in Seq(ToServer)
      /\ \A k \in DOMAIN Front(ps) : k \in DOMAIN ps /\ Front(ps)[k] = ps[k]
    BY <1>1, FrontSegment
<1>5. Extends(c2s', wire, sentKeys, Released)
    BY <1>1, <1>2, <1>4, ConcatExtends
<1>6. sentKeys \in SentRecords
    BY DEF OnceBefore, StoreInv, StateOK, SentRecords
<1>7. /\ Bundle(c2s', incoming, sentKeys, Released, srvIds, srvGot, ToSet(accepted),
                acked \cup refused)
      /\ Idle(c2s', incoming, sentKeys, srvIds)
    BY <1>5, <1>6, ExtendStep
<1>8. Records(c2s', PutPubrel(pubrelKeys, ps), Released, srvIds, scenario.budget.crash)
    BY <1>1, <1>2, <1>4, RecordsConcat
<1> QED BY <1>1, <1>2, <1>3, <1>7, <1>8, CloseOnce

(* The first retry on a connection writes one packet for each message. *)
LEMMA RetrySolo ==
    ASSUME OnceBefore, NEW regardless, regardless = TRUE,
           NEW outcome, NEW f \in Attempts(regardless, outcome), NEW ps,
           ps = [k \in DOMAIN f |-> RetryPacket(outboundMsgs[f[k]])],
           NEW in, \A k \in DOMAIN in : ~Back(in[k])
    PROVE  Solo(ps, in, sentKeys, Released, srvGot)
<1>1. /\ DOMAIN ps = DOMAIN f
      /\ \A k \in DOMAIN ps : Fits(ps[k], sentKeys, Released)
      /\ \A k \in DOMAIN ps : f[k] \in DOMAIN outboundMsgs /\ ps[k].id = outboundMsgs[f[k]].id
    <2>1. DOMAIN ps = DOMAIN f
        BY RetryFits
    <2>2. \A k \in DOMAIN ps : Fits(ps[k], sentKeys, Released)
        BY RetryFits
    <2>3. SentFor(ps, f)
        BY RetryFits
    <2> QED BY <2>1, <2>2, <2>3 DEF SentFor
<1>2. \A k \in DOMAIN f : f[k] = k
    <2>1. PICK n : f = [k \in 1 .. n |-> k]
        BY DEF Attempts
    <2> QED BY <2>1
<1>3. \A k, l \in DOMAIN outboundMsgs : outboundMsgs[k].id = outboundMsgs[l].id => k = l
    BY DEF OnceBefore, StoreInv, Matches
<1>4. \A k, l \in DOMAIN ps : k # l => ps[k].id # ps[l].id
    BY <1>1, <1>2, <1>3
<1>5. /\ \A k \in DOMAIN ps : ps[k].type = "PUBLISH" => sentKeys[ps[k].id] = ps[k].m
      /\ \A k \in DOMAIN ps : IsRel(ps[k]) => ps[k].id \in Released
    BY <1>1 DEF Fits
<1>6. \A k \in DOMAIN in : ~IsComp(in[k]) /\ in[k].type # "PUBACK"
    BY DEF Back, IsComp
<1> QED BY <1>4, <1>5, <1>6 DEF Solo

LEMMA RetryWrittenOnce ==
    ASSUME OnceBefore, Elsewhere, outboundQueue' = <<>>,
           NEW regardless, NEW outcome \in RetryOutcomes, outcome # "failed",
           NEW f \in Attempts(regardless, outcome),
           NEW wire \in Seq(ToServer), NEW incoming, NEW now,
           RetryLoop(f, regardless, outcome, wire, incoming, now),
           Bundle(wire, incoming, sentKeys, Released, srvIds, srvGot, ToSet(accepted),
                  acked \cup refused),
           Idle(wire, incoming, sentKeys, srvIds),
           Records(wire, pubrelKeys, Released, srvIds, scenario.budget.crash),
           Refusals(wire, incoming, srvIds, V5),
           V5 \/ scenario.budget.retry = 0 => \A k \in DOMAIN incoming : ~Back(incoming[k]),
           scenario.budget.retry = 0 => regardless = TRUE /\ wire = <<>>
    PROVE  Channel' /\ Exchanges'
<1> DEFINE ps == [k \in DOMAIN f |-> RetryPacket(outboundMsgs[f[k]])]
           acc == ToSet(accepted)
           done == acked \cup refused
           out2 == wire \o ps
<1>1. /\ ps \in Seq(ToServer) /\ ps # <<>>
      /\ PutSent(sentKeys, ps) = sentKeys
      /\ \A k \in DOMAIN ps : Fits(ps[k], sentKeys, Released)
    BY RetryFits
<1>2. Transmit(wire, ps, outcome) /\ connected' = TRUE /\ s2c' = incoming
    BY DEF RetryLoop
<1>3. /\ sentKeys' = sentKeys /\ pubrelKeys' = PutPubrel(pubrelKeys, ps)
      /\ UNCHANGED outboundMsgs
    BY <1>1 DEF RetryLoop
<1>4. scenario.budget.retry = 0 => Solo(ps, incoming, sentKeys, Released, srvGot)
    BY RetrySolo
<1> HIDE DEF ps
<1>5. Written' = out2 /\ Outgoing' = out2
    BY <1>1, <1>2, TransmitWritten, NothingQueued DEF OnceBefore, StoreInv
<1>6. Released' = Released
    BY <1>3, SamePhases DEF OnceBefore
<1>7. Channel'
    <2>1. ASSUME scenario.budget.partial = 0 PROVE pendingWrite' = None
        <3>1. outcome = "complete"
            BY <2>1, CompleteOutcome DEF OnceBefore, RetryOutcomes
        <3> QED BY <1>2, <3>1 DEF Transmit
    <2>2. scenario' = scenario
        BY DEF Elsewhere
    <2> QED BY <1>2, <2>1, <2>2 DEF Channel
<1>8. sentKeys \in SentRecords
    BY DEF OnceBefore, StoreInv, StateOK, SentRecords
<1>9. Extends(out2, wire, sentKeys, Released)
    BY <1>1, ConcatExtends
<1>10. Records(out2, pubrelKeys', Released, srvIds, scenario.budget.crash)
    <2>1. \A k \in DOMAIN ps : \E l \in DOMAIN ps : ps[k] = ps[l]
        OBVIOUS
    <2> QED BY <1>1, <1>3, <2>1, RecordsConcat
<1>11. scenario.budget.retry = 0 => out2 = ps
    BY <1>1, ConcatEmptySeq
<1> HIDE DEF out2, acc, done
<1>12. Bundle(wire, incoming, sentKeys, Released, srvIds, srvGot, acc, done)
    BY DEF acc, done
<1>13. /\ Bundle(out2, incoming, sentKeys, Released, srvIds, srvGot, acc, done)
       /\ Idle(out2, incoming, sentKeys, srvIds)
    BY <1>8, <1>9, <1>12, ExtendStep
<1>14. Refusals(out2, incoming, srvIds, V5)
    <2>1. CASE V5
        BY <2>1 DEF Refusals, Back, IsRec
    <2>2. CASE ~V5
        BY <2>2 DEF Refusals
    <2> QED BY <2>1, <2>2
<1>15. scenario.budget.retry = 0 => Solo(out2, incoming, sentKeys, Released, srvGot)
    BY <1>4, <1>11
<1>16. /\ V5' = V5 /\ CleanSession' = CleanSession /\ ToSet(accepted)' = ToSet(accepted)
       /\ UNCHANGED <<srvIds, srvGot, acked, refused, scenario>>
    BY DEF Elsewhere, V5, CleanSession, ToSet
<1>17. \A m \in acked \cap Msgs2 : srvGot[m] = 1
    BY DEF OnceBefore, Exchanges
<1> QED BY <1>2, <1>3, <1>5, <1>6, <1>7, <1>10, <1>13, <1>14, <1>15, <1>16, <1>17
        DEF Exchanges, acc, done

LEMMA RetryOnce ==
    ASSUME OnceBefore, Retry, UNCHANGED scenario
    PROVE  Channel' /\ Exchanges'
<1> DEFINE regardless == connect_sent < connect_count
<1>1. /\ connected /\ pendingWrite = None /\ Allowed("retry")
      /\ outboundQueue' = outboundQueue /\ Elsewhere
    BY DEF Retry, Elsewhere, serverVars, appVars
<1>2. PICK outcome \in RetryOutcomes : \E f \in Attempts(regardless, outcome) :
         RetryLoop(f, regardless, outcome, c2s, s2c, sentNow)
    BY DEF Retry
<1> HIDE DEF regardless
<1>3. PICK f \in Attempts(regardless, outcome) :
         RetryLoop(f, regardless, outcome, c2s, s2c, sentNow)
    BY <1>2
<1>4. scenario.budget.retry # 0 /\ ~V5
    BY <1>1 DEF OnceBefore, Spared, Allowed, Undisturbed
<1>5. outboundQueue = <<>>
    BY <1>1 DEF OnceBefore, Channel
<1>6. Outgoing = c2s /\ Written = c2s /\ c2s \in Seq(ToServer)
    BY <1>1, <1>5, OutgoingFacts DEF OnceBefore, StoreInv, StateOK
<1>7. /\ Bundle(c2s, s2c, sentKeys, Released, srvIds, srvGot, ToSet(accepted), acked \cup refused)
      /\ Idle(c2s, s2c, sentKeys, srvIds)
      /\ Refusals(c2s, s2c, srvIds, V5)
      /\ Records(c2s, pubrelKeys, Released, srvIds, scenario.budget.crash)
    BY <1>1, <1>6 DEF OnceBefore, Exchanges
<1>8. CASE outcome = "failed"
    BY <1>1, <1>3, <1>5, <1>6, <1>7, <1>8, RetryFailedOnce
<1>9. CASE outcome # "failed"
    BY <1>1, <1>3, <1>4, <1>5, <1>6, <1>7, <1>9, RetryWrittenOnce
<1> QED BY <1>8, <1>9

(* A new connection to the session the server has kept. *)
LEMMA ReconnectOldOnce ==
    ASSUME OnceBefore, ~connected, ~CleanSession, Elsewhere,
           NEW in, in = SrvResend, outboundQueue' = outboundQueue,
           \/ /\ UNCHANGED sessionVars /\ connected' = TRUE /\ c2s' = <<>> /\ s2c' = in
              /\ UNCHANGED pendingWrite
           \/ \E outcome \in RetryOutcomes : \E f \in Attempts(TRUE, outcome) :
                 RetryLoop(f, TRUE, outcome, <<>>, in, {})
    PROVE  Channel' /\ Exchanges'
<1> DEFINE acc == ToSet(accepted)
           done == acked \cup refused
<1>1. /\ pendingWrite = None /\ s2c = <<>> /\ outboundQueue = <<>>
    BY DEF OnceBefore, Channel
<1>2. \A k \in DOMAIN in : ~Back(in[k])
    BY DEF SrvResend, Packet, Back
<1>3. Segment(<<>>, Outgoing, 0) /\ Segment(<<>>, s2c, 0) /\ Segment(<<>>, Written, 0)
    BY EmptySegment
<1>4. /\ Bundle(Outgoing, s2c, sentKeys, Released, srvIds, srvGot, acc, done)
      /\ Idle(Outgoing, s2c, sentKeys, srvIds)
      /\ Records(Written, pubrelKeys, Released, srvIds, scenario.budget.crash)
    BY DEF OnceBefore, Exchanges
<1>5. <<>> \in Seq(ToServer)
    BY EmptySeq
<1> HIDE DEF acc, done
<1>6. Bundle(<<>>, <<>>, sentKeys, Released, srvIds, srvGot, acc, done)
    BY <1>3, <1>4, DropBundle
<1>7. Idle(<<>>, <<>>, sentKeys, srvIds)
    BY <1>3, <1>4, IdleSegment
<1>8. Bundle(<<>>, in, sentKeys, Released, srvIds, srvGot, acc, done)
    BY <1>2, <1>6, QuietIn
<1>9. Idle(<<>>, in, sentKeys, srvIds)
    BY <1>2, <1>7 DEF Idle, Back, IsRec
<1>10. Refusals(<<>>, in, srvIds, V5)
    BY <1>2 DEF Refusals, Back, IsRec
<1>11. Records(<<>>, pubrelKeys, Released, srvIds, scenario.budget.crash)
    <2>1. srvIds \subseteq srvIds
        OBVIOUS
    <2> QED BY <1>3, <1>4, <2>1, RecordsSegment
<1>12. CASE /\ UNCHANGED sessionVars /\ connected' = TRUE /\ c2s' = <<>> /\ s2c' = in
            /\ UNCHANGED pendingWrite
    <2>1. Outgoing' = <<>> /\ Written' = <<>>
        BY <1>1, <1>12, NothingQueued DEF OnceBefore, StoreInv
    <2>2. UNCHANGED <<sentKeys, pubrelKeys, outboundMsgs>>
        BY <1>12 DEF sessionVars
    <2>3. Released' = Released
        BY <2>2, SamePhases DEF OnceBefore
    <2>4. Solo(<<>>, in, sentKeys, Released, srvGot)
        BY <1>2 DEF Solo, Back, IsComp
    <2>5. Channel'
        BY <1>1, <1>12 DEF Channel
    <2>6. /\ V5' = V5 /\ CleanSession' = CleanSession /\ ToSet(accepted)' = ToSet(accepted)
          /\ UNCHANGED <<srvIds, srvGot, acked, refused, scenario>>
        BY DEF Elsewhere, V5, CleanSession, ToSet
    <2>7. \A m \in acked \cap Msgs2 : srvGot[m] = 1
        BY DEF OnceBefore, Exchanges
    <2> QED BY <1>8, <1>9, <1>10, <1>11, <1>12, <2>1, <2>2, <2>3, <2>4, <2>5, <2>6, <2>7
            DEF Exchanges, acc, done
<1>13. CASE \E outcome \in RetryOutcomes : \E f \in Attempts(TRUE, outcome) :
               RetryLoop(f, TRUE, outcome, <<>>, in, {})
    <2>1. PICK outcome \in RetryOutcomes : \E f \in Attempts(TRUE, outcome) :
             RetryLoop(f, TRUE, outcome, <<>>, in, {})
        BY <1>13
    <2>2. PICK f \in Attempts(TRUE, outcome) : RetryLoop(f, TRUE, outcome, <<>>, in, {})
        BY <2>1
    <2>3. outboundQueue' = <<>>
        BY <1>1
    <2>4. Bundle(<<>>, in, sentKeys, Released, srvIds, srvGot, ToSet(accepted), acked \cup refused)
        BY <1>8 DEF acc, done
    <2>5. CASE outcome = "failed"
        BY <1>5, <1>9, <1>11, <2>2, <2>3, <2>4, <2>5, RetryFailedOnce
    <2>6. CASE outcome # "failed"
        BY <1>2, <1>5, <1>9, <1>10, <1>11, <2>2, <2>3, <2>4, <2>6, RetryWrittenOnce
    <2> QED BY <2>5, <2>6
<1> QED BY <1>12, <1>13

(* A new session on both sides. *)
LEMMA ReconnectNewOnce ==
    ASSUME OnceBefore, ~connected, EmptySession, srvIds' = {}, connected' = TRUE,
           c2s' = <<>>, s2c' = <<>>, UNCHANGED <<pendingWrite, outboundQueue>>,
           UNCHANGED <<srvGot, accepted, acked, refused, scenario>>
    PROVE  Channel' /\ Exchanges'
<1> DEFINE acc == ToSet(accepted)
           done == acked \cup refused
           sent2 == sentKeys'
<1>1. pendingWrite = None /\ outboundQueue = <<>>
    BY DEF OnceBefore, Channel
<1>2. Outgoing' = <<>> /\ Written' = <<>>
    BY <1>1, NothingQueued DEF OnceBefore, StoreInv
<1>3. Released' = {} /\ sent2 = [i \in Ids |-> None] /\ pubrelKeys' = {}
    BY EmptySessionPhases DEF EmptySession
<1>4. Bundle(Outgoing, s2c, sentKeys, Released, srvIds, srvGot, acc, done)
    BY DEF OnceBefore, Exchanges
<1> HIDE DEF sent2
<1>5. /\ Bundle(<<>>, <<>>, sent2, {}, {}, srvGot, acc, done)
      /\ Idle(<<>>, <<>>, sent2, {})
      /\ Solo(<<>>, <<>>, sent2, {}, srvGot)
    BY <1>3, <1>4, FreshStep
<1>6. Refusals(<<>>, <<>>, {}, V5) /\ Records(<<>>, {}, {}, {}, scenario.budget.crash)
    BY DEF Refusals, Records
<1>7. Channel'
    BY <1>1 DEF Channel
<1>8. V5' = V5 /\ CleanSession' = CleanSession /\ ToSet(accepted)' = ToSet(accepted)
    BY DEF V5, CleanSession, ToSet
<1>9. \A m \in acked \cap Msgs2 : srvGot[m] = 1
    BY DEF OnceBefore, Exchanges
<1> QED BY <1>2, <1>3, <1>5, <1>6, <1>7, <1>8, <1>9 DEF Exchanges, sent2

LEMMA ReconnectOnce ==
    ASSUME OnceBefore, NEW fresh \in BOOLEAN, Reconnect(fresh), UNCHANGED scenario
    PROVE  Channel' /\ Exchanges'
<1> DEFINE cleans == CleanSession \/ (fresh /\ AsyncAPI)
<1>1. /\ ~connected /\ outboundQueue' = outboundQueue
      /\ UNCHANGED <<accepted, acked, refused, srvGot>>
      /\ fresh => (CleanSession \/ Allowed("forget")) /\ srvIds' = {}
      /\ ~fresh => ~CleanSession /\ srvIds' = srvIds
    BY DEF Reconnect, appVars, serverVars
<1>2. CASE cleans
    <2>1. fresh
        BY <1>1, <1>2
    <2>2. /\ EmptySession /\ connected' = TRUE /\ c2s' = <<>> /\ s2c' = <<>>
          /\ UNCHANGED pendingWrite
        BY <1>2, <2>1 DEF Reconnect
    <2> QED BY <1>1, <2>1, <2>2, ReconnectNewOnce
<1>3. CASE ~cleans
    <2>1. ~fresh /\ ~CleanSession
        <3>1. ~CleanSession
            BY <1>3
        <3>2. ASSUME fresh PROVE FALSE
            <4>1. Allowed("forget") /\ ~AsyncAPI
                BY <1>1, <1>3, <3>1, <3>2
            <4>2. scenario.budget.forget # 0
                BY <4>1 DEF OnceBefore, Spared, Allowed
            <4> QED BY <3>1, <4>1, <4>2 DEF OnceBefore, Undisturbed
        <3> QED BY <3>1, <3>2
    <2>2. Elsewhere
        BY <1>1, <2>1 DEF Elsewhere
    <2>3. \/ /\ UNCHANGED sessionVars /\ connected' = TRUE /\ c2s' = <<>> /\ s2c' = SrvResend
             /\ UNCHANGED pendingWrite
          \/ \E outcome \in RetryOutcomes : \E f \in Attempts(TRUE, outcome) :
                RetryLoop(f, TRUE, outcome, <<>>, SrvResend, {})
        BY <1>3, <2>1 DEF Reconnect
    <2> QED BY <1>1, <2>1, <2>2, <2>3, ReconnectOldOnce
<1> QED BY <1>2, <1>3

-----------------------------------------------------------------------------
(* Being killed and started again                                           *)

LEMMA SentPrefix ==
    ASSUME StateOK
    PROVE  Segment(c2s, Outgoing, 0) /\ Segment(c2s, Written, 0)
<1>1. /\ c2s \in Seq(ToServer) /\ pendingWrite \in ToServer \cup {None}
      /\ Written \in Seq(ToServer) /\ Queued \in Seq(ToServer)
    BY OutgoingFacts DEF StateOK
<1>2. <<>> \in Seq(ToServer)
    BY EmptySeq
<1>3. Segment(c2s, Written, 0)
    <2>1. CASE pendingWrite = None
        BY <1>1, <2>1, SelfSegment DEF Written
    <2>2. CASE pendingWrite # None
        <3>1. <<pendingWrite>> \in Seq(ToServer) /\ Written = c2s \o <<pendingWrite>>
            BY <1>1, <2>2, AppendIsConcat DEF Written
        <3>2. Segment(<<>>, <<pendingWrite>>, 0)
            BY EmptySegment
        <3>3. Segment(c2s \o <<>>, c2s \o <<pendingWrite>>, 0)
            BY <1>1, <1>2, <3>1, <3>2, ConcatPrefix
        <3> QED BY <1>1, <3>1, <3>3, ConcatEmptySeq
    <2> QED BY <2>1, <2>2
<1>4. Segment(Written, Outgoing, 0)
    <2>1. Segment(<<>>, Queued, 0)
        BY EmptySegment
    <2>2. Segment(Written \o <<>>, Written \o Queued, 0)
        BY <1>1, <1>2, <2>1, ConcatPrefix
    <2> QED BY <1>1, <2>2, ConcatEmptySeq DEF Outgoing
<1>5. \A k \in DOMAIN c2s : k \in Int /\ k + 0 = k
    BY <1>1, SeqFacts
<1> QED BY <1>3, <1>4, <1>5 DEF Segment

(* The PUBREL records that pubrel names are those of QoS 2 messages in the  *)
(* store sent; the others are orphans.                                      *)
Orphans(sent, pubrel) ==
    /\ pubrel \subseteq pubrelKeys
    /\ \A i \in pubrel : sent[i] \in Msgs2
    /\ \A i \in pubrelKeys \ pubrel : sent[i] = None

LEMMA RestoreOnce ==
    ASSUME OnceBefore, scenario.budget.crash # 0,
           UNCHANGED <<c2s, srvIds, srvGot, accepted, scenario>>,
           NEW sent \in SentRecords, NEW rcvd \in [SrvIds -> SrvMsgs2 \cup {None}],
           Restore(sent, pubrelKeys, rcvd),
           NEW in, NEW rel, NEW pubrel, Orphans(sent, pubrel),
           Bundle(Outgoing, in, sent, rel, srvIds, srvGot, ToSet(accepted), (acked \cup refused)'),
           ~CleanSession => Idle(Outgoing, in, sent, srvIds),
           Records(Written, pubrel, rel, srvIds, scenario.budget.crash),
           \A m \in acked' \cap Msgs2 : srvGot[m] = 1
    PROVE  Channel' /\ Exchanges'
<1> DEFINE acc == ToSet(accepted)
           done == (acked \cup refused)'
<1>1. StateOK /\ c2s \in Seq(ToServer) /\ pubrelKeys \in SUBSET Ids
    BY DEF OnceBefore, StoreInv, StateOK
<1>2. /\ Released' = {i \in pubrelKeys : sent[i] \in Msgs2}
      /\ sentKeys' = sent /\ pubrelKeys' = {i \in pubrelKeys : sent[i] # None}
      /\ connected' = FALSE /\ pendingWrite' = None /\ s2c' = <<>> /\ outboundQueue' = <<>>
    BY <1>1, RestorePhases
<1>3. Released' = pubrel /\ pubrelKeys' = pubrel
    <2>1. None \notin Msgs2
        BY NoneFacts DEF Msgs
    <2> QED BY <1>2, <2>1 DEF Orphans
<1>4. Outgoing' = c2s /\ Written' = c2s
    BY <1>2, NothingQueued DEF OnceBefore, StoreInv
<1>5. Segment(c2s, Outgoing, 0) /\ Segment(c2s, Written, 0) /\ Segment(<<>>, in, 0)
    BY <1>1, SentPrefix, EmptySegment
<1> HIDE DEF acc, done
<1>6. Bundle(Outgoing, in, sent, rel, srvIds, srvGot, acc, done)
    BY DEF acc, done
<1>7. Bundle(c2s, <<>>, sent, rel, srvIds, srvGot, acc, done)
    BY <1>5, <1>6, DropBundle
<1>8. ~CleanSession => Idle(c2s, <<>>, sent, srvIds)
    BY <1>5, IdleSegment
<1>9. rel \cap pubrel = pubrel
    BY DEF Records
<1>10. \A k \in DOMAIN c2s : \E l \in DOMAIN Written : Written[l] = c2s[k]
    BY <1>5 DEF Segment
<1>11. Bundle(c2s, <<>>, sent, rel \cap pubrel, srvIds, srvGot, acc, done)
    BY <1>7, <1>10, RestoreStep
<1>12. Refusals(c2s, <<>>, srvIds, V5) /\ Records(c2s, pubrel, pubrel, srvIds, scenario.budget.crash)
    BY DEF Refusals, Records
<1>13. V5' = V5 /\ CleanSession' = CleanSession /\ ToSet(accepted)' = ToSet(accepted)
    BY DEF V5, CleanSession, ToSet
<1>14. Channel'
    BY <1>2 DEF Channel
<1> QED BY <1>2, <1>3, <1>4, <1>8, <1>9, <1>11, <1>12, <1>13, <1>14 DEF Exchanges, acc, done

(* Started on records of sent messages that have not changed. *)
LEMMA RestartOnce ==
    ASSUME OnceBefore, scenario.budget.crash # 0,
           UNCHANGED <<c2s, srvIds, srvGot, accepted, acked, refused, scenario>>,
           NEW rcvd \in [SrvIds -> SrvMsgs2 \cup {None}], Restore(sentKeys, pubrelKeys, rcvd)
    PROVE  Channel' /\ Exchanges'
<1>1. /\ Bundle(Outgoing, s2c, sentKeys, Released, srvIds, srvGot, ToSet(accepted), acked \cup refused)
      /\ ~CleanSession => Idle(Outgoing, s2c, sentKeys, srvIds)
      /\ Records(Written, pubrelKeys, Released, srvIds, scenario.budget.crash)
      /\ \A m \in acked \cap Msgs2 : srvGot[m] = 1
    BY DEF OnceBefore, Exchanges
<1>2. sentKeys \in SentRecords /\ \A i \in Released : sentKeys[i] \in Msgs2
    BY ReleasedFacts DEF OnceBefore
<1>3. Orphans(sentKeys, pubrelKeys)
    BY <1>1, <1>2 DEF Orphans, Records
<1> QED BY <1>1, <1>2, <1>3, RestoreOnce

LEMMA CrashAllowed ==
    ASSUME Spared, Allowed("crash")
    PROVE  scenario.budget.crash # 0
BY DEF Spared, Allowed

LEMMA CrashOnce ==
    ASSUME OnceBefore, Crash, UNCHANGED scenario
    PROVE  Channel' /\ Exchanges'
<1>1. /\ Allowed("crash") /\ Restore(sentKeys, pubrelKeys, rcvdKeys)
      /\ UNCHANGED <<c2s, srvIds, srvGot, accepted, acked, refused>>
    BY DEF Crash, serverVars, appVars
<1>2. rcvdKeys \in [SrvIds -> SrvMsgs2 \cup {None}]
    BY DEF OnceBefore, StoreInv, StateOK
<1> QED BY <1>1, <1>2, CrashAllowed, RestartOnce DEF OnceBefore

LEMMA CrashInHandlerOnce ==
    ASSUME OnceBefore, NEW p, CrashInHandler(p), UNCHANGED scenario
    PROVE  Channel' /\ Exchanges'
<1>1. /\ scenario.budget.crash # 0 /\ connected /\ s2c # <<>> /\ p = Head(s2c)
      /\ UNCHANGED <<c2s, srvIds, srvGot, accepted>>
    BY CrashAllowed DEF CrashInHandler, serverVars, OnceBefore
<1>2. /\ rcvdKeys \in [SrvIds -> SrvMsgs2 \cup {None}] /\ sentKeys \in SentRecords
      /\ s2c \in Seq(ToClient)
    BY DEF OnceBefore, StoreInv, StateOK, SentRecords
<1>3. CASE /\ p.type = "PUBLISH" /\ p.m \in SrvMsgs2
           /\ Restore(sentKeys, pubrelKeys, [rcvdKeys EXCEPT ![p.id] = p.m])
           /\ UNCHANGED <<delivered, acked, refused>>
    <2>1. [rcvdKeys EXCEPT ![p.id] = p.m] \in [SrvIds -> SrvMsgs2 \cup {None}]
        BY <1>2, <1>3
    <2> QED BY <1>1, <1>3, <2>1, RestartOnce
<1>4. CASE /\ Restore(sentKeys, pubrelKeys, rcvdKeys)
           /\ UNCHANGED <<acked, refused>>
    BY <1>1, <1>2, <1>4, RestartOnce
<1>5. CASE /\ p.type \in {"PUBACK", "PUBCOMP"}
           /\ \E k \in Waiting(p.id, p.type) :
                 IF p.ok THEN acked' = acked \cup {outboundMsgs[k].m} /\ UNCHANGED refused
                 ELSE refused' = refused \cup {outboundMsgs[k].m} /\ UNCHANGED acked
           /\ Restore([sentKeys EXCEPT ![p.id] = None], pubrelKeys, rcvdKeys)
    <2>1. PICK k \in Waiting(p.id, p.type) :
                 IF p.ok THEN acked' = acked \cup {outboundMsgs[k].m} /\ UNCHANGED refused
                 ELSE refused' = refused \cup {outboundMsgs[k].m} /\ UNCHANGED acked
        BY <1>5
    <2> DEFINE sent2 == [sentKeys EXCEPT ![p.id] = None]
               m == outboundMsgs[k].m
    <2>2. /\ p.id \in Ids
          /\ Bundle(Outgoing, Tail(s2c), sent2, Released \ {p.id}, srvIds, srvGot,
                    ToSet(accepted), acked \cup refused \cup {m})
          /\ Idle(Outgoing, Tail(s2c), sent2, srvIds)
          /\ Records(Written, pubrelKeys \ {p.id}, Released \ {p.id}, srvIds, scenario.budget.crash)
          /\ m \in Msgs2 /\ p.type # "PUBREC" => srvGot[m] = 1
        BY <1>1, <1>5, Answered
    <2>3. (acked \cup refused)' = acked \cup refused \cup {m}
        BY <2>1
    <2>4. \A x \in acked' \cap Msgs2 : srvGot[x] = 1
        <3>1. acked' \subseteq acked \cup {m}
            BY <2>1
        <3> QED BY <1>5, <2>2, <3>1 DEF OnceBefore, Exchanges
    <2>5. sent2 \in SentRecords /\ sent2[p.id] = None /\ \A i \in Ids : i # p.id => sent2[i] = sentKeys[i]
        BY <1>2, <2>2 DEF SentRecords
    <2>6. Restore(sent2, pubrelKeys, rcvdKeys)
        BY <1>5
    <2> HIDE DEF sent2, m
    <2>7. Orphans(sent2, pubrelKeys \ {p.id})
        <3>1. \A i \in Released : i \in Ids /\ sentKeys[i] \in Msgs2
            BY ReleasedFacts DEF OnceBefore
        <3>2. pubrelKeys \ {p.id} \subseteq Released \ {p.id}
            BY <1>1, <2>2 DEF Records
        <3> QED BY <2>5, <3>1, <3>2 DEF Orphans
    <2> QED BY <1>1, <1>2, <2>2, <2>3, <2>4, <2>5, <2>6, <2>7, RestoreOnce
<1> QED BY <1>3, <1>4, <1>5 DEF CrashInHandler

-----------------------------------------------------------------------------
(* The invariant                                                            *)

(* The budget b2 spends nothing that b does not have. *)
Frugal(b, b2) ==
    \A kind \in {"loss", "crash", "partial", "drop", "retry", "forget"} : b[kind] = 0 => b2[kind] = 0

LEMMA SpendFrugal ==
    ASSUME NEW b \in Budgets, NEW kind \in {"loss", "crash", "partial", "drop", "retry", "forget"},
           b[kind] > 0
    PROVE  Frugal(b, Spend(b, kind))
<1>1. b[kind] # 0
    OBVIOUS
<1> QED BY <1>1, SpendType DEF Frugal

LEMMA SpendOnFrugal ==
    ASSUME NEW outcome \in Outcomes, NEW b \in Budgets, b["partial"] = budget["partial"]
    PROVE  Frugal(b, SpendOn(b, outcome))
<1>1. CASE outcome = "partial"
    <2>1. b["partial"] > 0
        BY <1>1 DEF Outcomes, Allowed
    <2> QED BY <1>1, <2>1, SpendFrugal DEF SpendOn
<1>2. CASE outcome # "partial"
    BY <1>2 DEF SpendOn, Frugal
<1> QED BY <1>1, <1>2

LEMMA WriteAvailableFrugal ==
    ASSUME budget \in Budgets, WriteAvailable
    PROVE  Frugal(budget, budget')
<1>1. PICK o \in Outcomes :
         \/ budget' = SpendOn(budget, o)
         \/ Allowed("drop") /\ budget' = Spend(SpendOn(budget, o), "drop")
    BY WriteAvailableSpends
<1> DEFINE b == SpendOn(budget, o)
<1>2. b \in Budgets /\ b["drop"] = budget["drop"] /\ Frugal(budget, b)
    BY SpendOnType, SpendOnFrugal
<1>3. Allowed("drop") => b["drop"] > 0
    BY <1>2 DEF Allowed
<1>4. budget' = b \/ (Allowed("drop") /\ budget' = Spend(b, "drop"))
    BY <1>1
<1> HIDE DEF b
<1>5. CASE budget' = b
    BY <1>2, <1>5
<1>6. CASE Allowed("drop") /\ budget' = Spend(b, "drop")
    <2>1. Frugal(b, budget')
        BY <1>2, <1>3, <1>6, SpendFrugal
    <2> QED BY <1>2, <2>1 DEF Frugal
<1> QED BY <1>4, <1>5, <1>6

LEMMA SpendOnRetryFrugal ==
    ASSUME NEW outcome \in RetryOutcomes, NEW b \in Budgets,
           b["partial"] = budget["partial"], b["loss"] = budget["loss"]
    PROVE  Frugal(b, SpendOnRetry(b, outcome))
<1>1. CASE outcome = "failed"
    <2>1. b["loss"] > 0
        BY <1>1 DEF RetryOutcomes, Outcomes, Allowed
    <2> QED BY <1>1, <2>1, SpendFrugal DEF SpendOnRetry
<1>2. CASE outcome # "failed"
    <2>1. outcome \in Outcomes
        BY <1>2 DEF RetryOutcomes
    <2> QED BY <1>2, <2>1, SpendOnFrugal DEF SpendOnRetry
<1> QED BY <1>1, <1>2

LEMMA SendAckFrugal ==
    ASSUME budget \in Budgets, NEW type, NEW id, SendAck(type, id)
    PROVE  Frugal(budget, budget')
<1>1. CASE budget' = budget
    BY <1>1 DEF Frugal
<1>2. CASE \E outcome \in Outcomes : budget' = SpendOn(budget, outcome)
    BY <1>2, SpendOnFrugal
<1> QED BY <1>1, <1>2 DEF SendAck

LEMMA SparedStep ==
    ASSUME StateOK, Spared, [Next]_vars
    PROVE  Spared' /\ scenario' = scenario
<1>1. scenario' = scenario
    BY DEF Next, ClientStep, ServerStep, Connect, Event, vars
<1>2. budget \in Budgets
    BY DEF StateOK
<1>3. CASE budget' = budget
    BY <1>1, <1>3 DEF Spared
<1>4. CASE \E outcome \in Outcomes : budget' = SpendOn(budget, outcome)
    BY <1>1, <1>2, <1>4, SpendOnFrugal DEF Spared, Frugal
<1>5. CASE \E type, id : SendAck(type, id)
    BY <1>1, <1>2, <1>5, SendAckFrugal DEF Spared, Frugal
<1>6. CASE Allowed("loss") /\ budget' = Spend(budget, "loss")
    BY <1>1, <1>2, <1>6, SpendFrugal DEF Spared, Frugal, Allowed
<1>7. CASE Allowed("crash") /\ budget' = Spend(budget, "crash")
    BY <1>1, <1>2, <1>7, SpendFrugal DEF Spared, Frugal, Allowed
<1>8. CASE Retry
    <2>1. PICK outcome \in RetryOutcomes : budget' = SpendOnRetry(Spend(budget, "retry"), outcome)
        BY <1>8 DEF Retry
    <2>2. Allowed("retry")
        BY <1>8 DEF Retry
    <2> DEFINE b == Spend(budget, "retry")
    <2>3. Frugal(budget, b) /\ b \in Budgets /\ b["partial"] = budget["partial"] /\ b["loss"] = budget["loss"]
        BY <1>2, <2>2, SpendFrugal, SpendType DEF Allowed
    <2> HIDE DEF b
    <2>4. Frugal(b, budget')
        BY <2>1, <2>3, SpendOnRetryFrugal DEF b
    <2> QED BY <1>1, <2>3, <2>4 DEF Spared, Frugal
<1>9. ASSUME NEW fresh \in BOOLEAN, Reconnect(fresh) PROVE Spared'
    <2> DEFINE b == IF fresh /\ ~CleanSession THEN Spend(budget, "forget") ELSE budget
    <2>1. /\ fresh => CleanSession \/ Allowed("forget")
          /\ budget' = b \/ \E outcome \in RetryOutcomes : budget' = SpendOnRetry(b, outcome)
        BY <1>9 DEF Reconnect
    <2>2. Frugal(budget, b) /\ b \in Budgets /\ b["partial"] = budget["partial"] /\ b["loss"] = budget["loss"]
        <3>1. CASE fresh /\ ~CleanSession
            BY <1>2, <2>1, <3>1, SpendFrugal, SpendType DEF Allowed
        <3>2. CASE ~(fresh /\ ~CleanSession)
            BY <1>2, <3>2 DEF Frugal
        <3> QED BY <3>1, <3>2
    <2> HIDE DEF b
    <2>3. Frugal(b, budget')
        <3>1. CASE budget' = b
            BY <3>1 DEF Frugal
        <3>2. CASE \E outcome \in RetryOutcomes : budget' = SpendOnRetry(b, outcome)
            BY <2>2, <3>2, SpendOnRetryFrugal
        <3> QED BY <2>1, <3>1, <3>2
    <2> QED BY <1>1, <2>2, <2>3 DEF Spared, Frugal
<1>10. CASE ClientStep
    <2>1. ASSUME NEW p, HandlePublish(p) PROVE Spared'
        BY <1>5, <2>1 DEF HandlePublish, HandlePublishQoS1, HandlePublishQoS2
    <2>2. ASSUME NEW p, NEW type, HandleFinalAck(p, type) PROVE Spared'
        BY <1>3, <2>2 DEF HandleFinalAck
    <2>3. ASSUME NEW p, HandlePubrec(p) PROVE Spared'
        BY <1>3, <1>5, <2>3 DEF HandlePubrec, PubrecRefuses, PubrecReleases
    <2>4. ASSUME NEW p, HandlePubrel(p) PROVE Spared'
        BY <1>5, <2>4 DEF HandlePubrel
    <2>5. CASE WriteAvailable
        <3>1. Frugal(budget, budget')
            BY <1>2, <2>5, WriteAvailableFrugal
        <3> QED BY <1>1, <3>1 DEF Spared, Frugal
    <2> QED BY <1>10, <2>1, <2>2, <2>3, <2>4, <2>5 DEF ClientStep, HandlePuback, HandlePubcomp
<1>11. CASE ServerStep
    BY <1>3, <1>11 DEF ServerStep, SrvPublish, SrvPubrel, SrvFinalAck, SrvPubrec
<1>12. CASE Event
    <2>1. ASSUME NEW m, Publish(m) PROVE Spared'
        BY <1>4, <2>1 DEF Publish
    <2>2. ASSUME NEW m, SrvSend(m) PROVE Spared'
        BY <1>3, <2>2 DEF SrvSend
    <2>3. CASE ConnectionLost
        BY <1>6, <2>3 DEF ConnectionLost
    <2>4. CASE Crash
        BY <1>7, <2>4 DEF Crash
    <2>5. ASSUME NEW p, CrashInHandler(p) PROVE Spared'
        BY <1>7, <2>5 DEF CrashInHandler
    <2> QED BY <1>8, <1>12, <2>1, <2>2, <2>3, <2>4, <2>5 DEF Event
<1>13. CASE UNCHANGED vars
    BY <1>3, <1>13 DEF vars
<1> QED BY <1>1, <1>9, <1>10, <1>11, <1>12, <1>13 DEF Next, Connect

LEMMA PhasesStep ==
    ASSUME StoreInv, Phases, [Next]_vars
    PROVE  Phases'
<1>1. CASE UNCHANGED outboundMsgs
    BY <1>1, SamePhases
<1>2. CASE EmptySession
    BY <1>2, EmptySessionPhases
<1>3. ASSUME NEW f, NEW regardless, NEW outcome, NEW wire, NEW incoming, NEW now,
             RetryLoop(f, regardless, outcome, wire, incoming, now)
      PROVE  Phases'
    <2>1. EmptySession \/ UNCHANGED outboundMsgs
        BY <1>3 DEF RetryLoop
    <2> QED BY <1>1, <1>2, <2>1
<1>4. ASSUME NEW k \in DOMAIN outboundMsgs, NEW ok, EndExchange(k, ok) PROVE Phases'
    BY <1>4, EndExchangePhases
<1>5. ASSUME NEW sent \in SentRecords, NEW rcvd \in [SrvIds -> SrvMsgs2 \cup {None}],
             Restore(sent, pubrelKeys, rcvd)
      PROVE  Phases'
    <2>1. pubrelKeys \in SUBSET Ids
        BY DEF StoreInv, StateOK
    <2> QED BY <1>5, <2>1, RestorePhases
<1>6. rcvdKeys \in [SrvIds -> SrvMsgs2 \cup {None}] /\ sentKeys \in SentRecords
    BY DEF StoreInv, StateOK, SentRecords
<1>7. CASE ClientStep
    <2>1. ASSUME NEW p, HandlePublish(p) PROVE Phases'
        BY <1>1, <2>1 DEF HandlePublish
    <2>2. ASSUME NEW p, NEW type, HandleFinalAck(p, type) PROVE Phases'
        BY <1>1, <1>4, <2>2 DEF HandleFinalAck, Waiting
    <2>3. ASSUME NEW p, HandlePubrec(p) PROVE Phases'
        <3>1. CASE PubrecRefuses(p)
            BY <1>4, <3>1 DEF PubrecRefuses, Waiting
        <3>2. CASE PubrecReleases(p)
            BY <3>2, PubrecReleasesPhases
        <3> QED BY <2>3, <3>1, <3>2 DEF HandlePubrec
    <2>4. ASSUME NEW p, HandlePubrel(p) PROVE Phases'
        BY <1>1, <2>4 DEF HandlePubrel
    <2>5. CASE WriteAvailable
        BY <1>1, <2>5 DEF WriteAvailable
    <2> QED BY <1>7, <2>1, <2>2, <2>3, <2>4, <2>5 DEF ClientStep, HandlePuback, HandlePubcomp
<1>8. CASE ServerStep
    BY <1>1, <1>8 DEF ServerStep, SrvPublish, SrvPubrel, SrvFinalAck, SrvPubrec, clientVars
<1>9. CASE Connect
    <2>1. PICK fresh \in BOOLEAN : Reconnect(fresh)
        BY <1>9 DEF Connect
    <2>2. \/ EmptySession \/ UNCHANGED sessionVars
          \/ \E outcome, f, wire, incoming, now : RetryLoop(f, TRUE, outcome, wire, incoming, now)
        BY <2>1 DEF Reconnect
    <2> QED BY <1>1, <1>2, <1>3, <2>2 DEF sessionVars
<1>10. CASE Event
    <2>1. ASSUME NEW m \in Msgs, Publish(m) PROVE Phases'
        BY <2>1, PublishPhases
    <2>2. ASSUME NEW m, SrvSend(m) PROVE Phases'
        BY <1>1, <2>2 DEF SrvSend, clientVars
    <2>3. CASE ConnectionLost
        BY <1>1, <1>2, <2>3 DEF ConnectionLost, sessionVars
    <2>4. CASE Retry
        BY <1>3, <2>4 DEF Retry
    <2>5. CASE Crash
        BY <1>5, <1>6, <2>5 DEF Crash
    <2>6. ASSUME NEW p, CrashInHandler(p) PROVE Phases'
        <3>1. /\ p.m \in SrvMsgs2 => [rcvdKeys EXCEPT ![p.id] = p.m] \in [SrvIds -> SrvMsgs2 \cup {None}]
              /\ [sentKeys EXCEPT ![p.id] = None] \in SentRecords
            BY <1>6 DEF SentRecords
        <3> QED BY <1>5, <1>6, <2>6, <3>1 DEF CrashInHandler
    <2> QED BY <1>10, <2>1, <2>2, <2>3, <2>4, <2>5, <2>6 DEF Event
<1>11. CASE UNCHANGED vars
    BY <1>1, <1>11 DEF vars, clientVars
<1> QED BY <1>7, <1>8, <1>9, <1>10, <1>11 DEF Next

LEMMA StutterOnce ==
    ASSUME OnceBefore, UNCHANGED vars
    PROVE  Channel' /\ Exchanges'
<1>1. /\ UNCHANGED <<connected, outboundMsgs, outboundQueue, sentKeys, pubrelKeys, pendingWrite, c2s, s2c>>
      /\ UNCHANGED <<srvIds, accepted, acked, refused, srvGot, scenario>>
    BY DEF vars, clientVars, storeVars, netVars, serverVars, appVars
<1>2. /\ Outgoing' = Outgoing /\ Written' = Written /\ Released' = Released
      /\ V5' = V5 /\ CleanSession' = CleanSession /\ ToSet(accepted)' = ToSet(accepted)
    BY <1>1 DEF Outgoing, Written, Queued, Released, V5, CleanSession, ToSet
<1> QED BY <1>1, <1>2 DEF OnceBefore, Channel, Exchanges

LEMMA OnceStep == StoreInv /\ OnceInv /\ [Next]_vars => OnceInv'
<1> SUFFICES ASSUME StoreInv, OnceInv, [Next]_vars PROVE OnceInv'
    OBVIOUS
<1>1. StoreInv'
    BY StoreStep
<1>2. Spared' /\ UNCHANGED scenario
    BY SparedStep DEF OnceInv, StoreInv
<1>3. Phases'
    BY PhasesStep DEF OnceInv
<1>4. Undisturbed' = Undisturbed
    BY <1>2 DEF Undisturbed, V5, CleanSession, AsyncAPI
<1> SUFFICES ASSUME Undisturbed PROVE Channel' /\ Exchanges'
    BY <1>2, <1>3, <1>4 DEF OnceInv
<1>5. OnceBefore
    BY <1>1 DEF OnceBefore, OnceInv
<1>6. CASE ClientStep
    BY <1>2, <1>5, <1>6, HandlePublishOnce, FinalAckOnce, HandlePubrecOnce, HandlePubrelOnce,
       WriteAvailableOnce DEF ClientStep, HandlePuback, HandlePubcomp
<1>7. CASE \E m \in Msgs : Publish(m) BY <1>2, <1>5, <1>7, PublishOnce
<1>8. CASE ConnectionLost BY <1>2, <1>5, <1>8, ConnectionLostOnce
<1>9. CASE Retry BY <1>2, <1>5, <1>9, RetryOnce
<1>10. CASE Connect BY <1>2, <1>5, <1>10, ReconnectOnce DEF Connect
<1>11. CASE Crash BY <1>2, <1>5, <1>11, CrashOnce
<1>12. CASE \E p \in InNet : CrashInHandler(p) BY <1>2, <1>5, <1>12, CrashInHandlerOnce
<1>13. CASE ServerStep \/ \E m \in SrvMsgs : SrvSend(m) BY <1>2, <1>5, <1>13, ServerOnce
<1>14. CASE UNCHANGED vars BY <1>5, <1>14, StutterOnce
<1> QED BY <1>6, <1>7, <1>8, <1>9, <1>10, <1>11, <1>12, <1>13, <1>14 DEF Next, Event

LEMMA OnceInit == Init => OnceInv
<1> SUFFICES ASSUME Init PROVE OnceInv
    OBVIOUS
<1>1. /\ Outgoing = <<>> /\ Written = <<>>
    <2>1. StateOK
        BY InitType
    <2> QED BY <2>1, OutgoingFacts DEF Init
<1>2. /\ s2c = <<>> /\ sentKeys = [i \in Ids |-> None] /\ srvIds = {} /\ acked = {} /\ refused = {}
      /\ pubrelKeys = {} /\ Released = {} /\ ToSet(accepted) = {}
    BY DEF Init, Released, ToSet
<1>3. \A m \in Msgs2 : srvGot[m] = 0
    BY DEF Init, Msgs
<1>4. None \notin Msgs /\ None \notin Msgs2
    BY NoneFacts DEF Msgs
<1>5. Spared /\ Phases /\ Channel
    BY DEF Init, Spared, Phases, Channel
<1>6. Taken(srvGot, {}) /\ Wire(<<>>, {}, srvGot, {})
    BY <1>3 DEF Taken, Wire
<1>7. Owned(sentKeys, {}, {}) /\ Mine(<<>>, sentKeys)
    BY <1>2, <1>4 DEF Owned, Mine
<1>8. Open(<<>>, <<>>, sentKeys, {}, {}, srvGot) /\ Sealed(<<>>, <<>>, sentKeys, {}, {}, srvGot)
    BY <1>2, <1>4 DEF Open, Sealed
<1>9. /\ Idle(<<>>, <<>>, sentKeys, {}) /\ Refusals(<<>>, <<>>, {}, V5)
      /\ Solo(<<>>, <<>>, sentKeys, {}, srvGot)
      /\ Records(<<>>, {}, {}, {}, scenario.budget.crash)
    BY DEF Idle, Refusals, Solo, Records
<1>10. Exchanges
    BY <1>1, <1>2, <1>6, <1>7, <1>8, <1>9 DEF Exchanges, Bundle
<1> QED BY <1>5, <1>10 DEF OnceInv

(* A QoS 2 message the client publishes is taken by the server at most      *)
(* once, and once when its exchange is over with success, for any number of *)
(* messages, ids, losses, kills, partial writes, retries and reconnects,    *)
(* within what Undisturbed says of their combination.                       *)
THEOREM ExactlyOnce == Spec => []ExactlyOnceOut
<1>1. Init => StoreInv /\ OnceInv
    BY StoreInit, OnceInit
<1>2. StoreInv /\ OnceInv /\ [Next]_vars => StoreInv' /\ OnceInv'
    BY StoreStep, OnceStep
<1>3. OnceInv => ExactlyOnceOut
    <2> SUFFICES ASSUME OnceInv, Undisturbed, NEW m \in Msgs2
                 PROVE  srvGot[m] <= 1 /\ (m \in acked => srvGot[m] = 1)
        BY DEF ExactlyOnceOut, AlwaysOnce
    <2>1. srvGot[m] \in {0, 1}
        BY DEF OnceInv, Exchanges, Bundle, Taken
    <2>2. m \in acked => srvGot[m] = 1
        BY DEF OnceInv, Exchanges
    <2>3. srvGot[m] <= 1
        BY <2>1
    <2> QED BY <2>2, <2>3
<1> QED BY <1>1, <1>2, <1>3, PTL DEF Spec
-----------------------------------------------------------------------------
(* With packets written whole a connection carries every message in flight.  *)

SentInv == StoreInv /\ Spared /\ AllSentOnConnect

(* A retry on connect that is not interrupted goes through the list.        *)
LEMMA RetryLoopSends ==
    ASSUME outboundMsgs \in Seq(OutEntry), NEW regardless, NEW outcome,
           NEW f \in Attempts(regardless, outcome), NEW wire, NEW incoming, NEW now,
           RetryLoop(f, regardless, outcome, wire, incoming, now), connected'
    PROVE  /\ outcome # "failed" /\ UNCHANGED outboundMsgs
           /\ now \subseteq sentNow'
           /\ outcome = "complete" /\ regardless = TRUE =>
                 \A k \in DOMAIN outboundMsgs : outboundMsgs[k].m \in sentNow'
<1>1. /\ outcome # "failed"
      /\ sentNow' = now \cup {outboundMsgs[f[k]].m : k \in DOMAIN f}
    BY DEF RetryLoop, CloseSocket, Transmit
<1>2. UNCHANGED outboundMsgs
    BY <1>1 DEF RetryLoop
<1>3. ASSUME outcome = "complete", regardless = TRUE, NEW k \in DOMAIN outboundMsgs
      PROVE  outboundMsgs[k].m \in sentNow'
    <2>1. DOMAIN outboundMsgs = 1 .. Len(outboundMsgs) /\ Len(outboundMsgs) \in Nat
        BY SeqFacts
    <2>2. PICK n \in DOMAIN outboundMsgs :
             f = [j \in 1 .. n |-> j] /\ Len(f) = Len(outboundMsgs)
        BY <1>3 DEF Attempts
    <2>3. n \in Nat /\ f \in [1 .. n -> Nat]
        BY <2>1, <2>2
    <2>4. Len(f) = n
        BY <2>3, SeqOfFunction
    <2>5. k \in DOMAIN f /\ f[k] = k
        BY <2>1, <2>2, <2>4
    <2> QED BY <1>1, <2>5
<1> QED BY <1>1, <1>2, <1>3

LEMMA ReconnectSends ==
    ASSUME SentInv, scenario.budget.partial = 0, NEW fresh, Reconnect(fresh), connected'
    PROVE  \A k \in DOMAIN outboundMsgs' : outboundMsgs'[k].m \in sentNow'
<1>1. outboundMsgs \in Seq(OutEntry)
    BY DEF SentInv, StoreInv, StateOK
<1>2. CASE outboundMsgs' = <<>>
    BY <1>2
<1>3. CASE \E incoming : \E outcome \in RetryOutcomes : \E f \in Attempts(TRUE, outcome) :
              RetryLoop(f, TRUE, outcome, <<>>, incoming, {})
    <2>1. PICK incoming : \E outcome \in RetryOutcomes : \E f \in Attempts(TRUE, outcome) :
              RetryLoop(f, TRUE, outcome, <<>>, incoming, {})
        BY <1>3
    <2>2. PICK outcome \in RetryOutcomes : \E f \in Attempts(TRUE, outcome) :
              RetryLoop(f, TRUE, outcome, <<>>, incoming, {})
        BY <2>1
    <2>3. PICK f \in Attempts(TRUE, outcome) : RetryLoop(f, TRUE, outcome, <<>>, incoming, {})
        BY <2>2
    <2>4. outcome # "failed"
        BY <1>1, <2>3, RetryLoopSends
    <2>5. outcome = "complete"
        BY <2>4, CompleteOutcome DEF RetryOutcomes, SentInv
    <2> QED BY <1>1, <2>3, <2>5, RetryLoopSends
<1>4. \/ EmptySession
      \/ outboundMsgs = <<>> /\ UNCHANGED sessionVars
      \/ \E incoming : \E outcome \in RetryOutcomes : \E f \in Attempts(TRUE, outcome) :
              RetryLoop(f, TRUE, outcome, <<>>, incoming, {})
    BY DEF Reconnect
<1> QED BY <1>2, <1>3, <1>4 DEF EmptySession, sessionVars

LEMMA RetrySends ==
    ASSUME SentInv, scenario.budget.partial = 0, Retry, connected'
    PROVE  \A k \in DOMAIN outboundMsgs' : outboundMsgs'[k].m \in sentNow'
<1>1. outboundMsgs \in Seq(OutEntry) /\ connected
    BY DEF SentInv, StoreInv, StateOK, Retry
<1>2. PICK outcome \in RetryOutcomes : \E f \in Attempts(connect_sent < connect_count, outcome) :
          RetryLoop(f, connect_sent < connect_count, outcome, c2s, s2c, sentNow)
    BY DEF Retry
<1>3. UNCHANGED outboundMsgs /\ sentNow \subseteq sentNow'
    BY <1>1, <1>2, RetryLoopSends
<1> QED BY <1>1, <1>3 DEF SentInv, AllSentOnConnect

LEMMA SentStep == SentInv /\ [Next]_vars => SentInv'
<1> SUFFICES ASSUME SentInv, [Next]_vars PROVE SentInv'
    OBVIOUS
<1>1. StoreInv' /\ Spared' /\ scenario' = scenario
    BY StoreStep, SparedStep DEF SentInv, StoreInv
<1> SUFFICES ASSUME scenario.budget.partial = 0, connected'
             PROVE  \A k \in DOMAIN outboundMsgs' : outboundMsgs'[k].m \in sentNow'
    BY <1>1 DEF SentInv, AllSentOnConnect
<1>2. outboundMsgs \in Seq(OutEntry) /\ \A k \in DOMAIN outboundMsgs : outboundMsgs[k] \in OutEntry
    BY SeqFacts DEF SentInv, StoreInv, StateOK
<1>3. CASE UNCHANGED <<connected, outboundMsgs, sentNow>>
    BY <1>3 DEF SentInv, AllSentOnConnect
<1>4. ASSUME NEW k \in DOMAIN outboundMsgs, NEW ok, EndExchange(k, ok), UNCHANGED <<connected, sentNow>>
      PROVE  \A j \in DOMAIN outboundMsgs' : outboundMsgs'[j].m \in sentNow'
    <2>1. outboundMsgs' = RemoveAt(outboundMsgs, k)
        BY <1>4 DEF EndExchange
    <2>2. \A j \in DOMAIN outboundMsgs' : \E l \in DOMAIN outboundMsgs : outboundMsgs'[j] = outboundMsgs[l]
        <3>1. /\ DOMAIN outboundMsgs' = 1 .. (Len(outboundMsgs) - 1)
              /\ \A j \in 1 .. (Len(outboundMsgs) - 1) :
                    outboundMsgs'[j] = IF j < k THEN outboundMsgs[j] ELSE outboundMsgs[j + 1]
            BY <1>2, <2>1, RemoveAtFacts
        <3>2. DOMAIN outboundMsgs = 1 .. Len(outboundMsgs) /\ Len(outboundMsgs) \in Nat
            BY <1>2, SeqFacts
        <3> QED BY <3>1, <3>2
    <2> QED BY <1>4, <2>2 DEF SentInv, AllSentOnConnect
<1>5. ASSUME NEW p, PubrecReleases(p), UNCHANGED <<connected, sentNow>>
      PROVE  \A j \in DOMAIN outboundMsgs' : outboundMsgs'[j].m \in sentNow'
    <2>1. /\ DOMAIN outboundMsgs' = DOMAIN outboundMsgs
          /\ \A k \in DOMAIN outboundMsgs : outboundMsgs'[k].m = outboundMsgs[k].m
        BY <1>2, <1>5 DEF PubrecReleases, OutEntry
    <2> QED BY <1>5, <2>1 DEF SentInv, AllSentOnConnect
<1>6. ASSUME NEW m \in Msgs, Publish(m)
      PROVE  \A j \in DOMAIN outboundMsgs' : outboundMsgs'[j].m \in sentNow'
    <2> DEFINE e == [id |-> AssignMsgId(msgID, OutIds), m |-> m, next |-> FirstAck(m)]
    <2>1. connected /\ outboundMsgs' = Append(outboundMsgs, e) /\ sentNow' = sentNow \cup {m}
        BY <1>6 DEF Publish
    <2>2. \A j \in DOMAIN outboundMsgs' :
              \/ j \in DOMAIN outboundMsgs /\ outboundMsgs'[j] = outboundMsgs[j]
              \/ outboundMsgs'[j] = e
        BY <1>2, <2>1
    <2> QED BY <2>1, <2>2 DEF SentInv, AllSentOnConnect
<1>7. CASE ClientStep
    <2>1. ASSUME NEW p, NEW type, HandleFinalAck(p, type)
          PROVE  \A j \in DOMAIN outboundMsgs' : outboundMsgs'[j].m \in sentNow'
        BY <1>3, <1>4, <2>1 DEF HandleFinalAck, Waiting
    <2>2. ASSUME NEW p, HandlePubrec(p)
          PROVE  \A j \in DOMAIN outboundMsgs' : outboundMsgs'[j].m \in sentNow'
        BY <1>4, <1>5, <2>2 DEF HandlePubrec, PubrecRefuses, Waiting
    <2>3. CASE \E p : HandlePublish(p) \/ HandlePubrel(p)
        BY <1>3, <2>3 DEF HandlePublish, HandlePubrel
    <2>4. CASE WriteAvailable
        BY <1>3, <2>4 DEF WriteAvailable
    <2> QED BY <1>7, <2>1, <2>2, <2>3, <2>4 DEF ClientStep, HandlePuback, HandlePubcomp
<1>8. CASE ServerStep
    BY <1>3, <1>8 DEF ServerStep, SrvPublish, SrvPubrel, SrvFinalAck, SrvPubrec, clientVars
<1>9. CASE Connect
    BY <1>9, ReconnectSends DEF Connect
<1>10. CASE Event
    <2>1. CASE \E m \in SrvMsgs : SrvSend(m)
        BY <1>3, <2>1 DEF SrvSend, clientVars
    <2>2. ~(ConnectionLost \/ Crash \/ \E p : CrashInHandler(p))
        BY DEF ConnectionLost, Crash, CrashInHandler, Restore, CloseSocket
    <2> QED BY <1>6, <1>10, <2>1, <2>2, RetrySends DEF Event
<1>11. CASE UNCHANGED vars
    BY <1>3, <1>11 DEF vars, clientVars
<1> QED BY <1>7, <1>8, <1>9, <1>10, <1>11 DEF Next

(* As long as the socket takes packets whole, every message in flight has   *)
(* been written on the connection there is, for any number of losses,       *)
(* kills, retries and reconnects.                                           *)
THEOREM SentOnConnect == Spec => []AllSentOnConnect
<1>1. Init => SentInv
    <2> SUFFICES ASSUME Init PROVE SentInv
        OBVIOUS
    <2>1. StoreInv
        BY StoreInit
    <2> QED BY <2>1 DEF Init, SentInv, Spared, AllSentOnConnect
<1> QED BY <1>1, SentStep, PTL DEF Spec, SentInv
-----------------------------------------------------------------------------
(* The order of publication.  As long as the messages published span at most *)
(* half of the ids, the ids of the list go up from some id b, round the end  *)
(* if need be, and the gap behind the last of them is the largest: a restart *)
(* finds it, and turns the list back to where it began.                      *)

InOrder(out, acc) ==
    \A k, l \in DOMAIN out : k < l =>
        \E a, b \in DOMAIN acc : a < b /\ acc[a] = out[k].m /\ acc[b] = out[l].m
AllAccepted(out, acc) == \A k \in DOMAIN out : \E a \in DOMAIN acc : acc[a] = out[k].m

(* How far the id i is from b. *)
Off(b, i) == IF i > b THEN i - b ELSE i - b + MaxMsgId

(* The list has n ids after b at most, and the last id given out is the n-th. *)
NumberedFrom(b, n, out, last) ==
    /\ IF n = 0 THEN last = b ELSE last \in Ids /\ Off(b, last) = n
    /\ \A k \in DOMAIN out : Off(b, out[k].id) <= n
    /\ \A k, l \in DOMAIN out : k < l => Off(b, out[k].id) < Off(b, out[l].id)
Numbered(out, acc, last) ==
    \E b \in 0 .. MaxMsgId, n \in 0 .. Len(acc) : NumberedFrom(b, n, out, last)

OrderInv ==
    scenario.budget.crash <= 1 /\ 2 * Len(accepted) <= MaxMsgId =>
        /\ budget.crash <= 1
        /\ InOrder(outboundMsgs, accepted) /\ AllAccepted(outboundMsgs, accepted)
        /\ budget.crash # 0 => Numbered(outboundMsgs, accepted, msgID)

Climbs(b, s) == \A k, l \in DOMAIN s : k < l => Off(b, s[k].id) < Off(b, s[l].id)

(* Ids on the same side of b, and on both sides. *)
LEMMA OffSame ==
    ASSUME NEW x \in Ids, NEW y \in Ids, NEW b \in 0 .. MaxMsgId, NEW n \in Nat,
           Off(b, x) <= n, Off(b, y) <= n, x > b <=> y > b
    PROVE  x - y <= n - 1 /\ (x < y => Off(b, x) < Off(b, y))
BY MaxMsgIdAssumption DEF Off, Ids

LEMMA OffOpposite ==
    ASSUME NEW x \in Ids, NEW y \in Ids, NEW b \in 0 .. MaxMsgId, NEW n \in Nat,
           Off(b, x) <= n, Off(b, y) <= n, x > b, ~(y > b)
    PROVE  /\ x - y >= MaxMsgId - n + 1
           /\ MaxMsgId - x + y <= n - 1
           /\ Off(b, x) < Off(b, y)
BY MaxMsgIdAssumption DEF Off, Ids

LEMMA EntryIds ==
    ASSUME NEW s \in Seq(OutEntry)
    PROVE  /\ Len(s) \in Nat /\ DOMAIN s = 1 .. Len(s)
           /\ \A k \in DOMAIN s : s[k].id \in Ids
<1>1. Len(s) \in Nat /\ DOMAIN s = 1 .. Len(s) /\ \A k \in DOMAIN s : s[k] \in OutEntry
    BY SeqFacts
<1>2. \A k \in DOMAIN s : s[k].id \in Ids
    BY <1>1 DEF OutEntry
<1> QED BY <1>1, <1>2

LEMMA IdsAreInt == \A i \in Ids : i \in Int
BY MaxMsgIdAssumption DEF Ids

LEMMA OffIsInt ==
    ASSUME NEW b \in 0 .. MaxMsgId, NEW i \in Int
    PROVE  Off(b, i) \in Int
BY MaxMsgIdAssumption DEF Off

(* Two gaps that cannot be confused. *)
LEMMA GapSizes ==
    ASSUME NEW n \in Nat, n + n <= MaxMsgId, NEW x \in Int, NEW y \in Int,
           x <= n - 1, y >= MaxMsgId - n + 1
    PROVE  x < y
BY MaxMsgIdAssumption

(* A list in the order of ids that do not wrap is left as it is ...         *)
LEMMA WrapNothing ==
    ASSUME NEW s \in Seq(OutEntry), NEW b \in 0 .. MaxMsgId, NEW n \in Nat, n + n <= MaxMsgId,
           \A k, l \in DOMAIN s : k < l => s[k].id < s[l].id,
           \A k \in DOMAIN s : Off(b, s[k].id) <= n,
           \A k, l \in DOMAIN s : s[k].id > b <=> s[l].id > b
    PROVE  WrapMsgID(s) = s /\ Climbs(b, s)
<1>1. Len(s) \in Nat /\ DOMAIN s = 1 .. Len(s) /\ \A k \in DOMAIN s : s[k].id \in Ids
    BY EntryIds
<1>2. ASSUME NEW k \in WrapPoints(s) PROVE FALSE
    <2>1. k \in 2 .. Len(s) /\ s[k].id - s[k - 1].id > MaxMsgId - s[Len(s)].id + s[1].id
        BY DEF WrapPoints, Gap
    <2>2. k \in DOMAIN s /\ k - 1 \in DOMAIN s /\ 1 \in DOMAIN s /\ Len(s) \in DOMAIN s
        BY <1>1, <2>1
    <2> DEFINE v == s[k].id  w == s[k - 1].id  x == s[Len(s)].id  y == s[1].id
    <2>3. v \in Ids /\ w \in Ids /\ x \in Ids /\ y \in Ids
        BY <1>1, <2>2
    <2>4. v - w <= n - 1 /\ x - y <= n - 1
        <3>1. /\ Off(b, v) <= n /\ Off(b, w) <= n /\ Off(b, x) <= n /\ Off(b, y) <= n
              /\ (v > b <=> w > b) /\ (x > b <=> y > b)
            BY <2>2
        <3> HIDE DEF v, w, x, y
        <3> QED BY <2>3, <3>1, OffSame
    <2>5. v - w > MaxMsgId - x + y
        BY <2>1
    <2> HIDE DEF v, w, x, y
    <2> QED BY <2>3, <2>4, <2>5, MaxMsgIdAssumption DEF Ids
<1>3. WrapMsgID(s) = s
    BY <1>2 DEF WrapMsgID
<1>4. Climbs(b, s)
    BY <1>1, OffSame DEF Climbs
<1> QED BY <1>3, <1>4

(* ... and one that does is turned to begin behind the largest gap.         *)
LEMMA WrapAtGap ==
    ASSUME NEW s \in Seq(OutEntry), NEW b \in 0 .. MaxMsgId, NEW n \in Nat, n + n <= MaxMsgId,
           \A k, l \in DOMAIN s : k < l => s[k].id < s[l].id,
           \A k \in DOMAIN s : Off(b, s[k].id) <= n,
           NEW h \in DOMAIN s, s[h].id > b, NEW g \in DOMAIN s, ~(s[g].id > b)
    PROVE  \E k \in 2 .. Len(s) : WrapMsgID(s) = Rotate(s, k) /\ Climbs(b, Rotate(s, k))
<1>1. Len(s) \in Nat /\ DOMAIN s = 1 .. Len(s) /\ \A k \in DOMAIN s : s[k].id \in Ids
    BY EntryIds
<1>0. Len(s) \in Nat /\ DOMAIN s = 1 .. Len(s)
    BY <1>1
<1>i. \A k \in DOMAIN s : s[k].id \in Int
    BY <1>1, IdsAreInt
<1> DEFINE High == {k \in DOMAIN s : s[k].id > b}
<1>2. High \in SUBSET Nat /\ High # {}
    BY <1>1
<1>3. PICK k \in High : \A l \in High : k <= l
    BY <1>2, LeastNatural
<1>4. \A l \in DOMAIN s : l < k => ~(s[l].id > b)
    <2> SUFFICES ASSUME NEW l \in DOMAIN s, l < k, s[l].id > b PROVE FALSE
        OBVIOUS
    <2>1. l \in High /\ k \in Nat /\ l \in Nat
        BY <1>1, <1>3
    <2> QED BY <1>3, <2>1
<1>5. \A l \in DOMAIN s : l >= k => s[l].id > b
    <2> SUFFICES ASSUME NEW l \in DOMAIN s, l >= k PROVE s[l].id > b
        OBVIOUS
    <2>1. k \in DOMAIN s /\ s[k].id > b
        BY <1>3
    <2>2. k = l \/ k < l
        BY <1>1, <2>1
    <2>3. k = l \/ s[k].id < s[l].id
        BY <2>1, <2>2
    <2>4. s[k].id \in Int /\ s[l].id \in Int
        BY <1>i, <2>1
    <2> QED BY <2>1, <2>3, <2>4
<1>6. k \in 2 .. Len(s)
    <2>1. k \in 1 .. Len(s) /\ g \in 1 .. Len(s)
        BY <1>1, <1>3
    <2>2. ~(g >= k)
        BY <1>5
    <2> QED BY <2>1, <2>2
<1> HIDE DEF High
<1>7. \A l \in 2 .. Len(s) : l \in DOMAIN s /\ l - 1 \in DOMAIN s
    BY <1>1
<1>8. \A l \in 2 .. Len(s) : Gap(s, l) \in Int
    BY <1>i, <1>7 DEF Gap
<1>9. \A l \in 2 .. Len(s) : l # k => Gap(s, l) <= n - 1
    <2> SUFFICES ASSUME NEW l \in 2 .. Len(s), l # k PROVE Gap(s, l) <= n - 1
        OBVIOUS
    <2>1. l \in DOMAIN s /\ l - 1 \in DOMAIN s
        BY <1>7
    <2>2. (l < k /\ l - 1 < k) \/ (l >= k /\ l - 1 >= k)
        BY <1>0, <1>6
    <2>3. s[l].id > b <=> s[l - 1].id > b
        BY <1>4, <1>5, <2>1, <2>2
    <2>4. s[l].id \in Ids /\ s[l - 1].id \in Ids /\ Off(b, s[l].id) <= n /\ Off(b, s[l - 1].id) <= n
        BY <1>1, <2>1
    <2> QED BY <2>3, <2>4, OffSame DEF Gap
<1>10. /\ Gap(s, k) >= MaxMsgId - n + 1
       /\ MaxMsgId - s[Len(s)].id + s[1].id <= n - 1
       /\ MaxMsgId - s[Len(s)].id + s[1].id \in Int
    <2>1. /\ k \in DOMAIN s /\ k - 1 \in DOMAIN s /\ 1 \in DOMAIN s /\ Len(s) \in DOMAIN s
          /\ k - 1 < k /\ 1 < k /\ k >= k /\ Len(s) >= k
        BY <1>1, <1>6
    <2> DEFINE v == s[k].id  w == s[k - 1].id  x == s[Len(s)].id  y == s[1].id
    <2>2. v \in Ids /\ w \in Ids /\ x \in Ids /\ y \in Ids
        BY <1>1, <2>1
    <2>3. v > b /\ ~(w > b) /\ x > b /\ ~(y > b)
        BY <1>4, <1>5, <2>1
    <2>4. Off(b, v) <= n /\ Off(b, w) <= n /\ Off(b, x) <= n /\ Off(b, y) <= n
        BY <2>1
    <2>5. Gap(s, k) = v - w
        BY DEF Gap
    <2> HIDE DEF v, w, x, y
    <2>6. v - w >= MaxMsgId - n + 1 /\ MaxMsgId - x + y <= n - 1
        BY <2>2, <2>3, <2>4, OffOpposite
    <2>7. MaxMsgId - x + y \in Int
        BY <2>2, MaxMsgIdAssumption DEF Ids
    <2> QED BY <2>5, <2>6, <2>7 DEF x, y
<1>11. k \in WrapPoints(s)
    <2>1. Gap(s, k) > MaxMsgId - s[Len(s)].id + s[1].id
        BY <1>6, <1>8, <1>10, GapSizes
    <2>2. \A l \in 2 .. Len(s) : l # k => Gap(s, l) < Gap(s, k)
        BY <1>6, <1>8, <1>9, <1>10, GapSizes
    <2>3. \A l \in 2 .. Len(s) : Gap(s, l) <= Gap(s, k)
        <3> TAKE l \in 2 .. Len(s)
        <3>1. Gap(s, l) \in Int /\ Gap(s, k) \in Int
            BY <1>6, <1>8
        <3> QED BY <2>2, <3>1
    <2>4. \A l \in 2 .. k - 1 : l \in 2 .. Len(s) /\ l # k
        BY <1>1, <1>6
    <2> QED BY <1>6, <2>1, <2>2, <2>3, <2>4 DEF WrapPoints
<1>12. \A l \in WrapPoints(s) : l = k
    <2> SUFFICES ASSUME NEW l \in WrapPoints(s), l # k PROVE FALSE
        OBVIOUS
    <2>1. l \in 2 .. Len(s) /\ Gap(s, k) <= Gap(s, l)
        BY <1>6 DEF WrapPoints
    <2>2. Gap(s, l) < Gap(s, k) /\ Gap(s, l) \in Int /\ Gap(s, k) \in Int
        BY <1>6, <1>8, <1>9, <1>10, <2>1, GapSizes
    <2> QED BY <2>1, <2>2
<1>13. WrapMsgID(s) = Rotate(s, k)
    BY <1>11, <1>12 DEF WrapMsgID
<1> DEFINE at(j) == IF j + k - 1 <= Len(s) THEN j + k - 1 ELSE j + k - 1 - Len(s)
<1>14. \A j \in DOMAIN s : at(j) \in DOMAIN s /\ Rotate(s, k)[j] = s[at(j)]
    <2> TAKE j \in DOMAIN s
    <2>1. at(j) \in DOMAIN s
        BY <1>0, <1>6
    <2>2. Rotate(s, k)[j] = s[at(j)]
        BY DEF Rotate
    <2> QED BY <2>1, <2>2
<1>15. DOMAIN Rotate(s, k) = DOMAIN s
    BY DEF Rotate
<1>17. ASSUME NEW j \in 1 .. Len(s), NEW l \in 1 .. Len(s), j < l
       PROVE  \/ at(j) >= k /\ at(l) < k
              \/ at(j) < at(l) /\ at(j) < k /\ at(l) < k
              \/ at(j) < at(l) /\ at(j) >= k /\ at(l) >= k
    <2>1. Len(s) \in Nat /\ k \in 2 .. Len(s)
        BY <1>0, <1>6
    <2>2. CASE j + k - 1 <= Len(s) /\ l + k - 1 <= Len(s)
        BY <1>17, <2>1, <2>2
    <2>3. CASE j + k - 1 <= Len(s) /\ ~(l + k - 1 <= Len(s))
        BY <1>17, <2>1, <2>3
    <2>4. CASE ~(j + k - 1 <= Len(s)) /\ ~(l + k - 1 <= Len(s))
        <3>1. at(j) = j + k - 1 - Len(s) /\ at(l) = l + k - 1 - Len(s)
            BY <2>4
        <3>2. /\ j + k - 1 - Len(s) < k /\ l + k - 1 - Len(s) < k
              /\ j + k - 1 - Len(s) < l + k - 1 - Len(s)
            BY <1>17, <2>1
        <3> QED BY <3>1, <3>2
    <2>5. j + k - 1 <= Len(s) \/ ~(l + k - 1 <= Len(s))
        BY <1>17, <2>1
    <2> QED BY <2>2, <2>3, <2>4, <2>5
<1> HIDE DEF at
<1>16. Climbs(b, Rotate(s, k))
    <2> SUFFICES ASSUME NEW j \in DOMAIN s, NEW l \in DOMAIN s, j < l
                 PROVE  Off(b, Rotate(s, k)[j].id) < Off(b, Rotate(s, k)[l].id)
        BY <1>15 DEF Climbs
    <2>1. /\ at(j) \in DOMAIN s /\ at(l) \in DOMAIN s
          /\ Rotate(s, k)[j] = s[at(j)] /\ Rotate(s, k)[l] = s[at(l)]
        BY <1>14
    <2>2. \/ at(j) >= k /\ at(l) < k
          \/ at(j) < at(l) /\ at(j) < k /\ at(l) < k
          \/ at(j) < at(l) /\ at(j) >= k /\ at(l) >= k
        BY <1>0, <1>17
    <2>3. /\ s[at(j)].id \in Ids /\ s[at(l)].id \in Ids
          /\ Off(b, s[at(j)].id) <= n /\ Off(b, s[at(l)].id) <= n
        BY <1>1, <2>1
    <2>4. CASE at(j) >= k /\ at(l) < k
        BY <1>4, <1>5, <2>1, <2>3, <2>4, OffOpposite
    <2>5. CASE at(j) < at(l) /\ (s[at(j)].id > b <=> s[at(l)].id > b)
        BY <2>1, <2>3, <2>5, OffSame
    <2> QED BY <1>4, <1>5, <2>1, <2>2, <2>4, <2>5
<1> QED BY <1>6, <1>13, <1>16

(* A restart puts the list in its order again.                              *)
LEMMA RestoredOrder ==
    ASSUME StoreInv, InOrder(outboundMsgs, accepted), Numbered(outboundMsgs, accepted, msgID),
           2 * Len(accepted) <= MaxMsgId,
           NEW sent \in SentRecords, \A i \in Ids : sent[i] \in {sentKeys[i], None},
           NEW pubrel, NEW s \in InIdOrder(Restored(sent, pubrel))
    PROVE  InOrder(WrapMsgID(s), accepted)
<1>1. s \in Seq(OutEntry) /\ Matches(s, sent)
    BY RestoredMatches
<1>2. \A k, l \in DOMAIN s : k < l => s[k].id < s[l].id
    BY DEF InIdOrder
<1>3. PICK b \in 0 .. MaxMsgId, n \in 0 .. Len(accepted) : NumberedFrom(b, n, outboundMsgs, msgID)
    BY DEF Numbered
<1>4. n \in Nat /\ n + n <= MaxMsgId
    <2>1. Len(accepted) \in Nat
        BY SeqFacts DEF StoreInv, StateOK
    <2> QED BY <2>1, MaxMsgIdAssumption
<1>5. /\ outboundMsgs \in Seq(OutEntry)
      /\ DOMAIN outboundMsgs = 1 .. Len(outboundMsgs) /\ Len(outboundMsgs) \in Nat
      /\ \A k \in DOMAIN outboundMsgs : outboundMsgs[k].id \in Ids
    BY EntryIds DEF StoreInv, StateOK
<1>6. \A e \in OutEntry : e.id \in Ids /\ e.m # None
    BY NoneFacts DEF OutEntry
<1>7. ASSUME NEW k \in DOMAIN s
      PROVE  \E p \in DOMAIN outboundMsgs :
                outboundMsgs[p].id = s[k].id /\ outboundMsgs[p].m = s[k].m
    <2>1. s[k].id \in Ids /\ sent[s[k].id] = s[k].m /\ s[k].m # None
        BY <1>1, <1>6, SeqFacts DEF Matches
    <2>2. sentKeys[s[k].id] = s[k].m
        BY <2>1
    <2>3. PICK p \in DOMAIN outboundMsgs : outboundMsgs[p].id = s[k].id
        BY <2>1, <2>2 DEF StoreInv, Matches
    <2>4. outboundMsgs[p].m = s[k].m
        BY <2>2, <2>3 DEF StoreInv, Matches
    <2> QED BY <2>3, <2>4
<1>8. \A k \in DOMAIN s : Off(b, s[k].id) <= n
    BY <1>3, <1>7 DEF NumberedFrom
<1>9. /\ Climbs(b, WrapMsgID(s))
      /\ \A j \in DOMAIN WrapMsgID(s) : \E k \in DOMAIN s : WrapMsgID(s)[j] = s[k]
    <2>1. CASE \A k, l \in DOMAIN s : s[k].id > b <=> s[l].id > b
        BY <1>1, <1>2, <1>4, <1>8, <2>1, WrapNothing
    <2>2. CASE ~(\A k, l \in DOMAIN s : s[k].id > b <=> s[l].id > b)
        <3>1. PICK h \in DOMAIN s, g \in DOMAIN s : s[h].id > b /\ ~(s[g].id > b)
            BY <2>2
        <3>2. PICK k \in 2 .. Len(s) : WrapMsgID(s) = Rotate(s, k) /\ Climbs(b, Rotate(s, k))
            BY <1>1, <1>2, <1>4, <1>8, <3>1, WrapAtGap
        <3>3. \A j \in DOMAIN Rotate(s, k) : \E l \in DOMAIN s : Rotate(s, k)[j] = s[l]
            <4>1. DOMAIN s = 1 .. Len(s) /\ Len(s) \in Nat
                BY <1>1, SeqFacts
            <4> SUFFICES ASSUME NEW j \in 1 .. Len(s)
                         PROVE  \E l \in 1 .. Len(s) : Rotate(s, k)[j] = s[l]
                BY <4>1 DEF Rotate
            <4>2. CASE j + k - 1 <= Len(s)
                <5>1. j + k - 1 \in 1 .. Len(s)
                    BY <4>1, <4>2
                <5>2. Rotate(s, k)[j] = s[j + k - 1]
                    BY <4>1, <4>2 DEF Rotate
                <5> QED BY <5>1, <5>2
            <4>3. CASE ~(j + k - 1 <= Len(s))
                <5>1. j + k - 1 - Len(s) \in 1 .. Len(s)
                    BY <4>1, <4>3
                <5>2. Rotate(s, k)[j] = s[j + k - 1 - Len(s)]
                    BY <4>1, <4>3 DEF Rotate
                <5> QED BY <5>1, <5>2
            <4> QED BY <4>2, <4>3
        <3> QED BY <3>2, <3>3
    <2> QED BY <2>1, <2>2
<1> SUFFICES ASSUME NEW j \in DOMAIN WrapMsgID(s), NEW l \in DOMAIN WrapMsgID(s), j < l
             PROVE  \E x, y \in DOMAIN accepted :
                       x < y /\ accepted[x] = WrapMsgID(s)[j].m /\ accepted[y] = WrapMsgID(s)[l].m
    BY DEF InOrder
<1>10. Off(b, WrapMsgID(s)[j].id) < Off(b, WrapMsgID(s)[l].id)
    BY <1>9 DEF Climbs
<1>11. PICK p \in DOMAIN outboundMsgs :
          outboundMsgs[p].id = WrapMsgID(s)[j].id /\ outboundMsgs[p].m = WrapMsgID(s)[j].m
    BY <1>7, <1>9
<1>12. PICK q \in DOMAIN outboundMsgs :
          outboundMsgs[q].id = WrapMsgID(s)[l].id /\ outboundMsgs[q].m = WrapMsgID(s)[l].m
    BY <1>7, <1>9
<1>13. p < q
    <2>1. p \in Nat /\ q \in Nat
        BY <1>5
    <2>2. Off(b, outboundMsgs[p].id) < Off(b, outboundMsgs[q].id)
        BY <1>10, <1>11, <1>12
    <2>3. Off(b, outboundMsgs[p].id) \in Int /\ Off(b, outboundMsgs[q].id) \in Int
        <3>1. outboundMsgs[p].id \in Int /\ outboundMsgs[q].id \in Int
            BY <1>5, IdsAreInt
        <3> QED BY <3>1, OffIsInt
    <2>4. q < p => Off(b, outboundMsgs[q].id) < Off(b, outboundMsgs[p].id)
        BY <1>3 DEF NumberedFrom
    <2> QED BY <2>1, <2>2, <2>3, <2>4
<1> QED BY <1>11, <1>12, <1>13 DEF InOrder

LEMMA RestoredAccepted ==
    ASSUME StoreInv, AllAccepted(outboundMsgs, accepted),
           NEW sent \in SentRecords, \A i \in Ids : sent[i] \in {sentKeys[i], None},
           NEW pubrel, NEW s \in InIdOrder(Restored(sent, pubrel))
    PROVE  AllAccepted(WrapMsgID(s), accepted)
<1>1. WrapMsgID(s) \in Seq(OutEntry) /\ Matches(WrapMsgID(s), sent)
    BY RestoredMatches, WrapMatches
<1> SUFFICES ASSUME NEW k \in DOMAIN WrapMsgID(s)
             PROVE  \E a \in DOMAIN accepted : accepted[a] = WrapMsgID(s)[k].m
    BY DEF AllAccepted
<1> DEFINE e == WrapMsgID(s)[k]
<1>2. \A g \in OutEntry : g.id \in Ids /\ g.m # None
    BY NoneFacts DEF OutEntry
<1>3. e.id \in Ids /\ sent[e.id] = e.m /\ e.m # None
    BY <1>1, <1>2, SeqFacts DEF Matches
<1>4. sentKeys[e.id] = e.m
    BY <1>3
<1>5. PICK p \in DOMAIN outboundMsgs : outboundMsgs[p].id = e.id
    BY <1>3, <1>4 DEF StoreInv, Matches
<1>6. outboundMsgs[p].m = e.m
    BY <1>4, <1>5 DEF StoreInv, Matches
<1> QED BY <1>6 DEF AllAccepted

(* A list of which some messages are left.                                  *)
LEMMA OrderThinned ==
    ASSUME NEW out, NEW out2, NEW f \in [DOMAIN out2 -> DOMAIN out],
           \A k, l \in DOMAIN out2 : k < l => f[k] < f[l],
           \A k \in DOMAIN out2 : out2[k].id = out[f[k]].id /\ out2[k].m = out[f[k]].m,
           NEW acc, NEW last
    PROVE  /\ InOrder(out, acc) => InOrder(out2, acc)
           /\ AllAccepted(out, acc) => AllAccepted(out2, acc)
           /\ Numbered(out, acc, last) => Numbered(out2, acc, last)
<1>1. InOrder(out, acc) => InOrder(out2, acc)
    BY DEF InOrder
<1>2. AllAccepted(out, acc) => AllAccepted(out2, acc)
    BY DEF AllAccepted
<1>3. ASSUME Numbered(out, acc, last) PROVE Numbered(out2, acc, last)
    <2>1. PICK b \in 0 .. MaxMsgId, n \in 0 .. Len(acc) : NumberedFrom(b, n, out, last)
        BY <1>3 DEF Numbered
    <2>2. \A k \in DOMAIN out2 : f[k] \in DOMAIN out
        OBVIOUS
    <2>3. NumberedFrom(b, n, out2, last)
        BY <2>1, <2>2 DEF NumberedFrom
    <2> QED BY <2>3 DEF Numbered
<1> QED BY <1>1, <1>2, <1>3

OrderLeaves == accepted' = accepted /\ scenario' = scenario /\ budget'.crash = budget.crash

LEMMA ThinnedStep ==
    ASSUME OrderInv, OrderLeaves, msgID' = msgID,
           NEW f \in [DOMAIN outboundMsgs' -> DOMAIN outboundMsgs],
           \A k, l \in DOMAIN outboundMsgs' : k < l => f[k] < f[l],
           \A k \in DOMAIN outboundMsgs' : /\ outboundMsgs'[k].id = outboundMsgs[f[k]].id
                                           /\ outboundMsgs'[k].m = outboundMsgs[f[k]].m
    PROVE  OrderInv'
<1>1. \A acc, last :
          /\ InOrder(outboundMsgs, acc) => InOrder(outboundMsgs', acc)
          /\ AllAccepted(outboundMsgs, acc) => AllAccepted(outboundMsgs', acc)
          /\ Numbered(outboundMsgs, acc, last) => Numbered(outboundMsgs', acc, last)
    BY OrderThinned
<1> QED BY <1>1 DEF OrderInv, OrderLeaves

LEMMA SameStep ==
    ASSUME StoreInv, OrderInv, OrderLeaves, msgID' = msgID,
           DOMAIN outboundMsgs' = DOMAIN outboundMsgs,
           \A k \in DOMAIN outboundMsgs : /\ outboundMsgs'[k].id = outboundMsgs[k].id
                                          /\ outboundMsgs'[k].m = outboundMsgs[k].m
    PROVE  OrderInv'
<1> DEFINE f == [k \in DOMAIN outboundMsgs' |-> k]
<1>1. f \in [DOMAIN outboundMsgs' -> DOMAIN outboundMsgs] /\ \A k \in DOMAIN outboundMsgs' : f[k] = k
    OBVIOUS
<1> HIDE DEF f
<1> QED BY <1>1, ThinnedStep

LEMMA RemovedStep ==
    ASSUME StoreInv, OrderInv, OrderLeaves, msgID' = msgID,
           NEW i \in DOMAIN outboundMsgs, outboundMsgs' = RemoveAt(outboundMsgs, i)
    PROVE  OrderInv'
<1> DEFINE f == [j \in DOMAIN outboundMsgs' |-> IF j < i THEN j ELSE j + 1]
<1>1. outboundMsgs \in Seq(OutEntry)
    BY DEF StoreInv, StateOK
<1>2. DOMAIN outboundMsgs = 1 .. Len(outboundMsgs) /\ Len(outboundMsgs) \in Nat
    BY <1>1, SeqFacts
<1>3. /\ DOMAIN outboundMsgs' = 1 .. (Len(outboundMsgs) - 1)
      /\ \A j \in 1 .. (Len(outboundMsgs) - 1) :
            outboundMsgs'[j] = IF j < i THEN outboundMsgs[j] ELSE outboundMsgs[j + 1]
    BY <1>1, RemoveAtFacts
<1>4. f \in [DOMAIN outboundMsgs' -> DOMAIN outboundMsgs]
    BY <1>2, <1>3
<1>5. \A k, l \in DOMAIN outboundMsgs' : k < l => f[k] < f[l]
    BY <1>2, <1>3
<1>6. \A k \in DOMAIN outboundMsgs' : outboundMsgs'[k] = outboundMsgs[f[k]]
    BY <1>3
<1> HIDE DEF f
<1> QED BY <1>4, <1>5, <1>6, ThinnedStep

LEMMA EmptiedStep ==
    ASSUME StoreInv, OrderInv, OrderLeaves, EmptySession
    PROVE  OrderInv'
<1>1. outboundMsgs' = <<>> /\ msgID' = 0
    BY DEF EmptySession
<1>2. Len(accepted) \in Nat
    BY SeqFacts DEF StoreInv, StateOK
<1>3. 0 \in 0 .. MaxMsgId /\ 0 \in 0 .. Len(accepted)
    BY <1>2, MaxMsgIdAssumption
<1>4. NumberedFrom(0, 0, <<>>, 0)
    BY DEF NumberedFrom
<1>5. Numbered(<<>>, accepted, 0)
    BY <1>3, <1>4 DEF Numbered
<1>6. InOrder(<<>>, accepted) /\ AllAccepted(<<>>, accepted)
    BY DEF InOrder, AllAccepted
<1> QED BY <1>1, <1>5, <1>6 DEF OrderInv, OrderLeaves

(* The first id after those in use is the next one. *)
LEMMA NextId ==
    ASSUME NEW start \in 0 .. MaxMsgId, NEW used, NEW i, i = Tried(start, 1),
           i \notin used, AssignMsgId(start, used) # 0
    PROVE  AssignMsgId(start, used) = i
<1>1. 1 \in Ids /\ i # start
    BY MaxMsgIdAssumption DEF Ids, Tried
<1>2. 1 \in Stops(start, used)
    BY <1>1 DEF Stops
<1>3. \A l \in Stops(start, used) : l \in Nat /\ 1 <= l
    BY MaxMsgIdAssumption DEF Stops, Ids
<1>4. \A k \in Stops(start, used) :
          (\A l \in Stops(start, used) : k <= l) <=> k = 1
    BY <1>2, <1>3
<1>5. (CHOOSE k \in Stops(start, used) : \A l \in Stops(start, used) : k <= l) = 1
    BY <1>2, <1>4
<1> QED BY <1>2, <1>5 DEF AssignMsgId

LEMMA OffNext ==
    ASSUME NEW b \in 0 .. MaxMsgId, NEW n \in Nat, n + 1 <= MaxMsgId, NEW last \in 0 .. MaxMsgId,
           IF n = 0 THEN last = b ELSE last \in Ids /\ Off(b, last) = n
    PROVE  Tried(last, 1) \in Ids /\ Off(b, Tried(last, 1)) = n + 1
<1>1. CASE n = 0
    BY <1>1, MaxMsgIdAssumption DEF Off, Tried, Ids
<1>2. CASE n # 0
    <2>1. last \in 1 .. MaxMsgId /\ Off(b, last) = n
        BY <1>2 DEF Ids
    <2>2. CASE last = MaxMsgId
        BY <2>1, <2>2, MaxMsgIdAssumption DEF Off, Tried, Ids
    <2>3. CASE last # MaxMsgId
        BY <2>1, <2>3, MaxMsgIdAssumption DEF Off, Tried, Ids
    <2> QED BY <2>2, <2>3
<1> QED BY <1>1, <1>2

LEMMA PublishOrder ==
    ASSUME StoreInv, OrderInv, NEW m \in Msgs, Publish(m),
           scenario' = scenario, budget'.crash = budget.crash
    PROVE  OrderInv'
<1> DEFINE id == AssignMsgId(msgID, OutIds)
           e == [id |-> id, m |-> m, next |-> FirstAck(m)]
           n1 == Len(outboundMsgs) + 1
<1>1. /\ id # 0 /\ msgID' = id
      /\ outboundMsgs' = Append(outboundMsgs, e)
      /\ accepted' = Append(accepted, m)
    BY DEF Publish
<1>2. /\ outboundMsgs \in Seq(OutEntry) /\ accepted \in Seq(Msgs) /\ msgID \in 0 .. MaxMsgId
      /\ Len(accepted) \in Nat /\ DOMAIN accepted = 1 .. Len(accepted)
      /\ Len(outboundMsgs) \in Nat /\ DOMAIN outboundMsgs = 1 .. Len(outboundMsgs)
    BY SeqFacts DEF StoreInv, StateOK
<1> HIDE DEF id
<1>3. /\ DOMAIN outboundMsgs' = 1 .. n1 /\ outboundMsgs'[n1] = e
      /\ \A k \in DOMAIN outboundMsgs : outboundMsgs'[k] = outboundMsgs[k]
    BY <1>1, <1>2
<1>4. /\ Len(accepted') = Len(accepted) + 1
      /\ DOMAIN accepted' = 1 .. (Len(accepted) + 1)
      /\ accepted'[Len(accepted) + 1] = m
      /\ \A k \in DOMAIN accepted : accepted'[k] = accepted[k]
    BY <1>1, <1>2
<1> SUFFICES ASSUME scenario.budget.crash <= 1, 2 * Len(accepted') <= MaxMsgId
             PROVE  /\ budget.crash <= 1
                    /\ InOrder(outboundMsgs', accepted') /\ AllAccepted(outboundMsgs', accepted')
                    /\ budget.crash # 0 => Numbered(outboundMsgs', accepted', msgID')
    BY DEF OrderInv
<1>5. 2 * (Len(accepted) + 1) <= MaxMsgId
    BY <1>4
<1>6. 2 * Len(accepted) <= MaxMsgId /\ Len(accepted) + 1 <= MaxMsgId
    BY <1>2, <1>5, MaxMsgIdAssumption
<1>7. /\ budget.crash <= 1
      /\ InOrder(outboundMsgs, accepted) /\ AllAccepted(outboundMsgs, accepted)
      /\ budget.crash # 0 => Numbered(outboundMsgs, accepted, msgID)
    BY <1>6 DEF OrderInv
<1>8. \A k \in DOMAIN outboundMsgs' : k = n1 \/ k \in DOMAIN outboundMsgs
    BY <1>2, <1>3
<1>9. \A a \in DOMAIN accepted : a \in DOMAIN accepted' /\ a < Len(accepted) + 1
    BY <1>2, <1>4
<1>10. Len(accepted) + 1 \in DOMAIN accepted'
    BY <1>2, <1>4
<1>11. AllAccepted(outboundMsgs', accepted')
    <2> SUFFICES ASSUME NEW k \in DOMAIN outboundMsgs'
                 PROVE  \E a \in DOMAIN accepted' : accepted'[a] = outboundMsgs'[k].m
        BY DEF AllAccepted
    <2>1. CASE k = n1
        BY <1>3, <1>4, <1>10, <2>1
    <2>2. CASE k \in DOMAIN outboundMsgs
        BY <1>3, <1>4, <1>7, <1>9, <2>2 DEF AllAccepted
    <2> QED BY <1>8, <2>1, <2>2
<1>12. InOrder(outboundMsgs', accepted')
    <2> SUFFICES ASSUME NEW k \in DOMAIN outboundMsgs', NEW l \in DOMAIN outboundMsgs', k < l
                 PROVE  \E a, b \in DOMAIN accepted' :
                           a < b /\ accepted'[a] = outboundMsgs'[k].m /\ accepted'[b] = outboundMsgs'[l].m
        BY DEF InOrder
    <2>1. k \in DOMAIN outboundMsgs
        BY <1>2, <1>3
    <2>2. CASE l = n1
        <3>1. PICK a \in DOMAIN accepted : accepted[a] = outboundMsgs[k].m
            BY <1>7, <2>1 DEF AllAccepted
        <3> QED BY <1>3, <1>4, <1>9, <1>10, <2>1, <2>2, <3>1
    <2>3. CASE l \in DOMAIN outboundMsgs
        <3>1. PICK a \in DOMAIN accepted, b \in DOMAIN accepted :
                 a < b /\ accepted[a] = outboundMsgs[k].m /\ accepted[b] = outboundMsgs[l].m
            BY <1>7, <2>1, <2>3 DEF InOrder
        <3> QED BY <1>3, <1>4, <1>9, <2>1, <2>3, <3>1
    <2> QED BY <1>8, <2>2, <2>3
<1>13. ASSUME budget.crash # 0 PROVE Numbered(outboundMsgs', accepted', msgID')
    <2>1. PICK b \in 0 .. MaxMsgId, n \in 0 .. Len(accepted) :
             NumberedFrom(b, n, outboundMsgs, msgID)
        BY <1>7, <1>13 DEF Numbered
    <2>2. n \in Nat /\ n + 1 <= MaxMsgId /\ n + 1 \in 0 .. Len(accepted') /\ n + 1 # 0
        BY <1>2, <1>4, <1>6, MaxMsgIdAssumption
    <2>3. Tried(msgID, 1) \in Ids /\ Off(b, Tried(msgID, 1)) = n + 1
        BY <1>2, <2>1, <2>2, OffNext DEF NumberedFrom
    <2>4. \A k \in DOMAIN outboundMsgs : outboundMsgs[k].id \in Ids
        BY <1>2, EntryIds
    <2>5. \A k \in DOMAIN outboundMsgs : Off(b, outboundMsgs[k].id) <= n
                                         /\ Off(b, outboundMsgs[k].id) \in Int
        BY <2>1, <2>4, IdsAreInt, OffIsInt DEF NumberedFrom
    <2>6. Tried(msgID, 1) \notin OutIds
        <3> SUFFICES ASSUME NEW k \in DOMAIN outboundMsgs, outboundMsgs[k].id = Tried(msgID, 1)
                     PROVE  FALSE
            BY DEF OutIds
        <3>1. Off(b, outboundMsgs[k].id) = n + 1 /\ Off(b, outboundMsgs[k].id) <= n
            BY <2>3, <2>5
        <3> QED BY <2>2, <3>1
    <2>7. id = Tried(msgID, 1)
        BY <1>1, <1>2, <2>6, NextId DEF id
    <2>8. id \in Ids /\ Off(b, id) = n + 1
        BY <2>3, <2>7
    <2>9. \A k \in DOMAIN outboundMsgs : Off(b, outboundMsgs[k].id) < n + 1
        <3> TAKE k \in DOMAIN outboundMsgs
        <3>1. Off(b, outboundMsgs[k].id) <= n /\ Off(b, outboundMsgs[k].id) \in Int
            BY <2>5
        <3> QED BY <2>2, <3>1
    <2>10. \A k \in DOMAIN outboundMsgs' : Off(b, outboundMsgs'[k].id) <= n + 1
        <3> TAKE k \in DOMAIN outboundMsgs'
        <3>1. CASE k = n1
            BY <1>3, <2>2, <2>8, <3>1
        <3>2. CASE k \in DOMAIN outboundMsgs
            <4>1. Off(b, outboundMsgs[k].id) < n + 1 /\ Off(b, outboundMsgs[k].id) \in Int
                BY <2>5, <2>9, <3>2
            <4>2. Off(b, outboundMsgs[k].id) <= n + 1
                BY <2>2, <4>1
            <4> QED BY <1>3, <3>2, <4>2
        <3> QED BY <1>8, <3>1, <3>2
    <2>11. \A k, l \in DOMAIN outboundMsgs' : k < l =>
               Off(b, outboundMsgs'[k].id) < Off(b, outboundMsgs'[l].id)
        <3> SUFFICES ASSUME NEW k \in DOMAIN outboundMsgs', NEW l \in DOMAIN outboundMsgs', k < l
                     PROVE  Off(b, outboundMsgs'[k].id) < Off(b, outboundMsgs'[l].id)
            OBVIOUS
        <3>1. k \in DOMAIN outboundMsgs
            BY <1>2, <1>3
        <3>2. CASE l = n1
            BY <1>3, <2>8, <2>9, <3>1, <3>2
        <3>3. CASE l \in DOMAIN outboundMsgs
            BY <1>3, <2>1, <3>1, <3>3 DEF NumberedFrom
        <3> QED BY <1>8, <3>2, <3>3
    <2>12. NumberedFrom(b, n + 1, outboundMsgs', msgID')
        BY <1>1, <2>2, <2>8, <2>10, <2>11 DEF NumberedFrom
    <2> QED BY <2>2, <2>12 DEF Numbered
<1> QED BY <1>7, <1>11, <1>12, <1>13

LEMMA RestartOrder ==
    ASSUME StoreInv, OrderInv, accepted' = accepted, scenario' = scenario,
           Allowed("crash"), budget' = Spend(budget, "crash"),
           NEW sent \in SentRecords, \A i \in Ids : sent[i] \in {sentKeys[i], None},
           NEW pubrel, NEW rcvd, Restore(sent, pubrel, rcvd)
    PROVE  OrderInv'
<1>1. PICK s \in InIdOrder(Restored(sent, pubrel)) : outboundMsgs' = WrapMsgID(s)
    BY DEF Restore
<1>2. budget.crash \in Nat /\ budget.crash > 0 /\ budget'.crash = budget.crash - 1
    BY DEF Allowed, Spend, StoreInv, StateOK, Budgets
<1> SUFFICES ASSUME scenario.budget.crash <= 1, 2 * Len(accepted) <= MaxMsgId
             PROVE  /\ budget'.crash <= 1
                    /\ InOrder(outboundMsgs', accepted) /\ AllAccepted(outboundMsgs', accepted)
                    /\ budget'.crash # 0 => Numbered(outboundMsgs', accepted, msgID')
    BY DEF OrderInv
<1>3. /\ budget.crash <= 1
      /\ InOrder(outboundMsgs, accepted) /\ AllAccepted(outboundMsgs, accepted)
      /\ Numbered(outboundMsgs, accepted, msgID)
    BY <1>2 DEF OrderInv
<1>4. budget'.crash = 0
    BY <1>2, <1>3
<1>5. InOrder(outboundMsgs', accepted) /\ AllAccepted(outboundMsgs', accepted)
    BY <1>1, <1>3, RestoredOrder, RestoredAccepted
<1> QED BY <1>4, <1>5

(* Only a kill counts as one.                                               *)
Unspent(b) == b.crash = budget.crash

LEMMA CrashUnspent ==
    ASSUME StateOK, ClientStep \/ ServerStep \/ Connect \/ Retry \/ ConnectionLost
                      \/ (\E m : Publish(m)) \/ (\E m : SrvSend(m)) \/ UNCHANGED vars
    PROVE  Unspent(budget')
<1>2. budget \in Budgets
    BY DEF StateOK
<1>3. CASE budget' = budget
    BY <1>3 DEF Unspent
<1>4. ASSUME NEW b \in Budgets, NEW kind \in {"loss", "partial", "drop", "retry", "forget"},
             b[kind] > 0
      PROVE  Spend(b, kind).crash = b.crash /\ Spend(b, kind) \in Budgets
    BY <1>4, SpendType
<1>5. ASSUME NEW b \in Budgets, NEW outcome \in Outcomes, b["partial"] = budget["partial"]
      PROVE  SpendOn(b, outcome).crash = b.crash
    <2>1. outcome = "partial" => b["partial"] > 0
        BY <1>5 DEF Outcomes, Allowed
    <2> QED BY <1>4, <2>1 DEF SpendOn
<1>6. ASSUME NEW b \in Budgets, NEW outcome \in RetryOutcomes, b["partial"] = budget["partial"],
             b["loss"] = budget["loss"]
      PROVE  SpendOnRetry(b, outcome).crash = b.crash
    <2>1. CASE outcome = "failed"
        <3>1. b["loss"] > 0
            BY <1>6, <2>1 DEF RetryOutcomes, Outcomes, Allowed
        <3> QED BY <1>4, <2>1, <3>1 DEF SpendOnRetry
    <2>2. CASE outcome # "failed"
        <3>1. outcome \in Outcomes
            BY <2>2 DEF RetryOutcomes
        <3> QED BY <1>5, <1>6, <2>2, <3>1 DEF SpendOnRetry
    <2> QED BY <2>1, <2>2
<1>7. CASE \E outcome \in Outcomes : budget' = SpendOn(budget, outcome)
    BY <1>2, <1>5, <1>7 DEF Unspent
<1>8. CASE \E type, id : SendAck(type, id)
    BY <1>3, <1>7, <1>8 DEF SendAck
<1>9. CASE ConnectionLost
    BY <1>2, <1>4, <1>9 DEF ConnectionLost, Allowed, Unspent
<1>10. CASE Retry
    <2> DEFINE b == Spend(budget, "retry")
    <2>1. PICK outcome \in RetryOutcomes : budget' = SpendOnRetry(b, outcome)
        BY <1>10 DEF Retry
    <2>2. budget["retry"] > 0
        BY <1>10 DEF Retry, Allowed
    <2>3. b \in Budgets /\ b["partial"] = budget["partial"] /\ b["loss"] = budget["loss"]
        BY <1>2, <2>2, SpendType
    <2>4. b.crash = budget.crash
        BY <1>2, <1>4, <2>2
    <2> HIDE DEF b
    <2> QED BY <1>6, <2>1, <2>3, <2>4 DEF Unspent
<1>11. ASSUME NEW fresh \in BOOLEAN, Reconnect(fresh) PROVE Unspent(budget')
    <2> DEFINE b == IF fresh /\ ~CleanSession THEN Spend(budget, "forget") ELSE budget
    <2>1. /\ fresh => CleanSession \/ Allowed("forget")
          /\ budget' = b \/ \E outcome \in RetryOutcomes : budget' = SpendOnRetry(b, outcome)
        BY <1>11 DEF Reconnect
    <2>2. /\ b \in Budgets /\ b["partial"] = budget["partial"] /\ b["loss"] = budget["loss"]
          /\ b.crash = budget.crash
        BY <1>2, <1>4, <2>1, SpendType DEF Allowed
    <2> HIDE DEF b
    <2>3. CASE budget' = b
        BY <2>2, <2>3 DEF Unspent
    <2>4. CASE \E outcome \in RetryOutcomes : budget' = SpendOnRetry(b, outcome)
        BY <1>6, <2>2, <2>4 DEF Unspent
    <2> QED BY <2>1, <2>3, <2>4
<1>12. CASE ClientStep
    <2>1. ASSUME NEW p, HandlePublish(p) PROVE Unspent(budget')
        BY <1>8, <2>1 DEF HandlePublish, HandlePublishQoS1, HandlePublishQoS2
    <2>2. ASSUME NEW p, NEW type, HandleFinalAck(p, type) PROVE Unspent(budget')
        BY <1>3, <2>2 DEF HandleFinalAck
    <2>3. ASSUME NEW p, HandlePubrec(p) PROVE Unspent(budget')
        BY <1>3, <1>8, <2>3 DEF HandlePubrec, PubrecRefuses, PubrecReleases
    <2>4. ASSUME NEW p, HandlePubrel(p) PROVE Unspent(budget')
        BY <1>8, <2>4 DEF HandlePubrel
    <2>5. CASE WriteAvailable
        <3>1. PICK o \in Outcomes :
                 \/ budget' = SpendOn(budget, o)
                 \/ Allowed("drop") /\ budget' = Spend(SpendOn(budget, o), "drop")
            BY <2>5, WriteAvailableSpends
        <3> DEFINE b == SpendOn(budget, o)
        <3>2. b \in Budgets /\ b["drop"] = budget["drop"] /\ b.crash = budget.crash
            BY <1>2, <1>5, SpendOnType
        <3>3. budget' = b \/ (Allowed("drop") /\ budget' = Spend(b, "drop"))
            BY <3>1
        <3> HIDE DEF b
        <3> QED BY <1>4, <3>2, <3>3 DEF Unspent, Allowed
    <2> QED BY <1>12, <2>1, <2>2, <2>3, <2>4, <2>5 DEF ClientStep, HandlePuback, HandlePubcomp
<1>13. CASE ServerStep
    BY <1>3, <1>13 DEF ServerStep, SrvPublish, SrvPubrel, SrvFinalAck, SrvPubrec
<1>14. ASSUME NEW m, Publish(m) \/ SrvSend(m) PROVE Unspent(budget')
    BY <1>3, <1>7, <1>14 DEF Publish, SrvSend
<1>15. CASE UNCHANGED vars
    BY <1>3, <1>15 DEF vars
<1> QED BY <1>9, <1>10, <1>11, <1>12, <1>13, <1>14, <1>15 DEF Connect

(* Nothing that the order is about changes. *)
LEMMA IdleStep ==
    ASSUME StoreInv, OrderInv, OrderLeaves, UNCHANGED <<msgID, outboundMsgs>>
    PROVE  OrderInv'
BY SameStep

LEMMA LoopOrder ==
    ASSUME StoreInv, OrderInv, OrderLeaves, NEW f, NEW regardless, NEW outcome, NEW wire,
           NEW incoming, NEW now, RetryLoop(f, regardless, outcome, wire, incoming, now)
    PROVE  OrderInv'
<1>1. EmptySession \/ UNCHANGED <<msgID, outboundMsgs>>
    BY DEF RetryLoop
<1> QED BY <1>1, EmptiedStep, IdleStep

LEMMA HandlerOrder ==
    ASSUME StoreInv, OrderInv, OrderLeaves, ClientStep
    PROVE  OrderInv'
<1>1. ASSUME NEW p, HandlePublish(p) \/ HandlePubrel(p) PROVE OrderInv'
    BY <1>1, IdleStep DEF HandlePublish, HandlePubrel
<1>2. ASSUME NEW k \in DOMAIN outboundMsgs, NEW ok, EndExchange(k, ok), msgID' = msgID
      PROVE  OrderInv'
    BY <1>2, RemovedStep DEF EndExchange
<1>3. ASSUME NEW p, NEW type, HandleFinalAck(p, type) PROVE OrderInv'
    BY <1>2, <1>3, IdleStep DEF HandleFinalAck, Waiting
<1>4. ASSUME NEW p, HandlePubrec(p) PROVE OrderInv'
    <2>1. msgID' = msgID
        BY <1>4 DEF HandlePubrec
    <2>2. CASE PubrecRefuses(p)
        BY <1>2, <2>1, <2>2 DEF PubrecRefuses, Waiting
    <2>3. CASE PubrecReleases(p)
        <3>1. \A k \in DOMAIN outboundMsgs : outboundMsgs[k] \in OutEntry
            BY SeqFacts DEF StoreInv, StateOK
        <3>2. /\ DOMAIN outboundMsgs' = DOMAIN outboundMsgs
              /\ \A k \in DOMAIN outboundMsgs : /\ outboundMsgs'[k].id = outboundMsgs[k].id
                                                /\ outboundMsgs'[k].m = outboundMsgs[k].m
            BY <2>3, <3>1 DEF PubrecReleases, OutEntry
        <3> QED BY <2>1, <3>2, SameStep
    <2> QED BY <1>4, <2>2, <2>3 DEF HandlePubrec
<1>5. CASE WriteAvailable
    BY <1>5, IdleStep DEF WriteAvailable
<1> QED BY <1>1, <1>3, <1>4, <1>5 DEF ClientStep, HandlePuback, HandlePubcomp

LEMMA ConnectOrder ==
    ASSUME StoreInv, OrderInv, OrderLeaves, Connect \/ Retry \/ ConnectionLost
    PROVE  OrderInv'
<1>1. CASE Connect
    <2>1. PICK fresh \in BOOLEAN : Reconnect(fresh)
        BY <1>1 DEF Connect
    <2>2. \/ EmptySession \/ UNCHANGED sessionVars
          \/ \E outcome, f, wire, incoming, now : RetryLoop(f, TRUE, outcome, wire, incoming, now)
        BY <2>1 DEF Reconnect
    <2> QED BY <2>2, EmptiedStep, IdleStep, LoopOrder DEF sessionVars
<1>2. CASE Retry
    BY <1>2, LoopOrder DEF Retry
<1>3. CASE ConnectionLost
    BY <1>3, EmptiedStep, IdleStep DEF ConnectionLost, sessionVars
<1> QED BY <1>1, <1>2, <1>3

LEMMA CrashOrder ==
    ASSUME StoreInv, OrderInv, scenario' = scenario, Crash \/ \E p : CrashInHandler(p)
    PROVE  OrderInv'
<1>1. sentKeys \in SentRecords
    BY DEF StoreInv, StateOK, SentRecords
<1>2. ASSUME NEW i PROVE [sentKeys EXCEPT ![i] = None] \in SentRecords
    BY <1>1 DEF SentRecords
<1>3. /\ accepted' = accepted
      /\ Allowed("crash") /\ budget' = Spend(budget, "crash")
    BY DEF Crash, CrashInHandler, appVars
<1>4. ASSUME NEW rcvd, Restore(sentKeys, pubrelKeys, rcvd) PROVE OrderInv'
    BY <1>1, <1>3, <1>4, RestartOrder
<1>5. ASSUME NEW i, NEW rcvd, Restore([sentKeys EXCEPT ![i] = None], pubrelKeys, rcvd)
      PROVE  OrderInv'
    <2> DEFINE sent == [sentKeys EXCEPT ![i] = None]
    <2>1. sent \in SentRecords /\ \A j \in Ids : sent[j] \in {sentKeys[j], None}
        BY <1>1, <1>2 DEF SentRecords
    <2>2. Restore(sent, pubrelKeys, rcvd)
        BY <1>5
    <2> HIDE DEF sent
    <2> QED BY <1>3, <2>1, <2>2, RestartOrder
<1> QED BY <1>4, <1>5 DEF Crash, CrashInHandler

LEMMA OrderStep == StoreInv /\ OrderInv /\ [Next]_vars => OrderInv'
<1> SUFFICES ASSUME StoreInv, OrderInv, [Next]_vars PROVE OrderInv'
    OBVIOUS
<1>1. scenario' = scenario /\ StateOK
    BY DEF Next, ClientStep, ServerStep, Connect, Event, vars, StoreInv
<1>2. ASSUME accepted' = accepted, Unspent(budget') PROVE OrderLeaves
    BY <1>1, <1>2 DEF OrderLeaves, Unspent
<1>3. CASE ClientStep
    <2>1. accepted' = accepted
        BY <1>3 DEF ClientStep, HandlePublish, HandlePuback, HandlePubcomp, HandleFinalAck,
           HandlePubrec, HandlePubrel, WriteAvailable, appVars
    <2> QED BY <1>1, <1>2, <1>3, <2>1, CrashUnspent, HandlerOrder
<1>4. CASE Connect \/ Retry \/ ConnectionLost
    <2>1. accepted' = accepted
        BY <1>4 DEF Connect, Reconnect, Retry, ConnectionLost, appVars
    <2> QED BY <1>1, <1>2, <1>4, <2>1, CrashUnspent, ConnectOrder
<1>5. CASE ServerStep \/ \E m \in SrvMsgs : SrvSend(m)
    <2>1. accepted' = accepted /\ UNCHANGED <<msgID, outboundMsgs>>
        BY <1>5 DEF ServerStep, SrvPublish, SrvPubrel, SrvFinalAck, SrvPubrec, SrvSend,
           clientVars, appVars
    <2> QED BY <1>1, <1>2, <1>5, <2>1, CrashUnspent, IdleStep
<1>6. ASSUME NEW m \in Msgs, Publish(m) PROVE OrderInv'
    <2>1. Unspent(budget')
        BY <1>1, <1>6, CrashUnspent
    <2> QED BY <1>1, <1>6, <2>1, PublishOrder DEF Unspent
<1>7. CASE Crash \/ \E p : CrashInHandler(p)
    BY <1>1, <1>7, CrashOrder
<1>8. CASE UNCHANGED vars
    <2>1. accepted' = accepted /\ UNCHANGED <<msgID, outboundMsgs>>
        BY <1>8 DEF vars, clientVars, appVars
    <2> QED BY <1>1, <1>2, <1>8, <2>1, CrashUnspent, IdleStep
<1> QED BY <1>3, <1>4, <1>5, <1>6, <1>7, <1>8 DEF Next, Event

LEMMA OrderInit == Init => OrderInv
<1> SUFFICES ASSUME Init PROVE OrderInv
    OBVIOUS
<1>1. /\ outboundMsgs = <<>> /\ accepted = <<>> /\ budget = scenario.budget /\ msgID = scenario.start
    BY DEF Init
<1>2. msgID \in 0 .. MaxMsgId
    BY InitType DEF StateOK
<1>3. Len(accepted) = 0 /\ 0 \in 0 .. Len(accepted)
    BY <1>1
<1>4. NumberedFrom(msgID, 0, outboundMsgs, msgID)
    BY <1>1 DEF NumberedFrom
<1>5. Numbered(outboundMsgs, accepted, msgID)
    BY <1>2, <1>3, <1>4 DEF Numbered
<1>6. InOrder(outboundMsgs, accepted) /\ AllAccepted(outboundMsgs, accepted)
    BY <1>1 DEF InOrder, AllAccepted
<1> QED BY <1>1, <1>5, <1>6 DEF OrderInv

(* The in-flight list is in the order in which the application published,   *)
(* across the wrap of the ids and a restart that rebuilds the list from the *)
(* gaps between them, for any number of ids and messages: up to half of the *)
(* ids between the messages, and one restart.                               *)
THEOREM PublicationOrder == Spec => []InPublicationOrder
<1>1. Init => StoreInv /\ OrderInv
    BY StoreInit, OrderInit
<1>2. StoreInv /\ OrderInv /\ [Next]_vars => StoreInv' /\ OrderInv'
    BY StoreStep, OrderStep
<1>3. OrderInv => InPublicationOrder
    BY DEF OrderInv, InPublicationOrder, InOrder
<1> QED BY <1>1, <1>2, <1>3, PTL DEF Spec
=============================================================================
