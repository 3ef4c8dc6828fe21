-------------------------- MODULE SessionInProofs --------------------------
(***************************************************************************)
(* What the client promises for the messages of the server: no QoS 2       *)
(* message is delivered twice, and none that the server considers done is  *)
(* missing.  And that both directions implement Delivery.                  *)
(***************************************************************************)
EXTENDS SessionProofs

-----------------------------------------------------------------------------
(***************************************************************************)
(* QoS 2 messages from the server are delivered at most once.  A message   *)
(* has one id wherever it is: in the server's session, in a PUBLISH on its *)
(* way or among the messages that wait for PUBREL.  The server gives the   *)
(* id to another message only after the PUBREL, so when a PUBREL arrives   *)
(* the message of its id is not the one of a later PUBLISH.                *)
(***************************************************************************)
IsPublish(p) == p.type = "PUBLISH"
Srv == {srvOut[k] : k \in DOMAIN srvOut}
Gone == CleanSession /\ ~connected

(* Message m has id i: for the server, on its way, or in the client's list. *)
At(in, srv, inb, i, m) ==
    \/ \E e \in srv : e.id = i /\ e.m = m
    \/ \E k \in DOMAIN in : IsPublish(in[k]) /\ in[k].id = i /\ in[k].m = m
    \/ inb[i] = m

Distinct(out) ==
    \A k, l \in DOMAIN out : out[k].id = out[l].id \/ out[k].m = out[l].m => k = l

Placed(in, srv, inb, dl, sent) ==
    /\ \A e \in srv : e.m \in SrvMsgs1 <=> e.next = "PUBACK"
    /\ \A i, j \in SrvIds, m \in SrvMsgs :
          At(in, srv, inb, i, m) /\ At(in, srv, inb, j, m) => i = j
    /\ \A i \in SrvIds, m \in SrvMsgs : At(in, srv, inb, i, m) => m \in sent
    /\ \A m \in SrvMsgs2 : dl[m] # 0 => m \in sent
    /\ \A k, l \in DOMAIN in :
          IsPublish(in[k]) /\ IsPublish(in[l]) /\ in[k].m = in[l].m => k = l

(* After a PUBREL its id is used for a message the client has not got, and  *)
(* before a PUBREL that the server will send again there is a PUBLISH.      *)
Fresh(in, inb, dl) ==
    \A j, l \in DOMAIN in :
        j < l /\ IsRel(in[j]) /\ IsPublish(in[l]) /\ in[j].id = in[l].id /\ in[l].m \in SrvMsgs2 =>
            dl[in[l].m] = 0 /\ inb[in[l].id] # in[l].m
Follows(in, srv) ==
    \A e \in srv, j \in DOMAIN in :
        e.next = "PUBREC" /\ IsRel(in[j]) /\ in[j].id = e.id =>
            \E l \in DOMAIN in : j < l /\ IsPublish(in[l]) /\ in[l].id = e.id /\ in[l].m = e.m

(* MQTT 3: what has been delivered is released everywhere. *)
Over(in, srv, inb, m) ==
    /\ \A e \in srv : e.m = m => e.next # "PUBREC"
    /\ \A k \in DOMAIN in : IsPublish(in[k]) => in[k].m # m
    /\ \A i \in SrvIds : inb[i] # m

(* MQTT 5: what has been delivered and may come again is in the list. *)
Known(in, srv, inb, m) ==
    /\ \A e \in srv : e.m = m /\ e.next = "PUBREC" => inb[e.id] # None
    /\ \A k \in DOMAIN in : IsPublish(in[k]) /\ in[k].m = m => inb[in[k].id] # None

Once(in, srv, inb, dl, v5, inside, gone) ==
    \A m \in SrvMsgs2 :
        /\ v5 \/ ~inside => dl[m] \in {0, 1}
        /\ ~v5 /\ ~inside /\ dl[m] # 0 => Over(in, srv, inb, m)
        /\ v5 /\ ~gone /\ dl[m] # 0 => Known(in, srv, inb, m)

Inbound(in, srv, inb, dl, sent, v5, inside, gone) ==
    /\ Placed(in, srv, inb, dl, sent)
    /\ Fresh(in, inb, dl) /\ Follows(in, srv)
    /\ Once(in, srv, inb, dl, v5, inside, gone)

InOnce ==
    /\ rcvdKeys = inboundMsgs
    /\ ~connected => s2c = <<>>
    /\ Distinct(srvOut)
    /\ Inbound(s2c, Srv, inboundMsgs, delivered, srvSent, V5, scenario.inside, Gone)

(* Of the packets in, those that continue an exchange are left from d on. *)
Left(in2, in, d) ==
    /\ \A k \in DOMAIN in2 : Forth(in2[k]) => k + d \in DOMAIN in /\ in2[k] = in[k + d]
    /\ \A k \in DOMAIN in2, l \in DOMAIN in :
          Forth(in2[k]) /\ Forth(in[l]) /\ k + d < l =>
              l - d \in DOMAIN in2 /\ in2[l - d] = in[l]

LEMMA LeftTail ==
    ASSUME NEW in \in Seq(ToClient), in # <<>>
    PROVE  Left(Tail(in), in, 1)
<1>1. Len(in) \in Nat \ {0} /\ DOMAIN in = 1 .. Len(in)
    BY EmptySeq, SeqFacts
<1>2. /\ Tail(in) \in Seq(ToClient) /\ Len(Tail(in)) = Len(in) - 1
      /\ \A i \in 1 .. Len(Tail(in)) : Tail(in)[i] = in[i + 1]
    BY HeadTailProperties
<1> DEFINE t == Tail(in)
<1>3. DOMAIN t = 1 .. (Len(in) - 1) /\ \A i \in 1 .. (Len(in) - 1) : t[i] = in[i + 1]
    BY <1>1, <1>2, SeqFacts
<1> HIDE DEF t
<1>4. \A k \in DOMAIN t : k + 1 \in DOMAIN in /\ t[k] = in[k + 1]
    BY <1>1, <1>3
<1>5. ASSUME NEW k \in DOMAIN t, NEW l \in DOMAIN in, k + 1 < l
      PROVE  l - 1 \in DOMAIN t /\ t[l - 1] = in[l]
    <2>1. l - 1 \in 1 .. (Len(in) - 1) /\ (l - 1) + 1 = l
        BY <1>1, <1>3, <1>5
    <2> QED BY <1>3, <2>1
<1> QED BY <1>4, <1>5 DEF Left, t

LEMMA LeftSame ==
    ASSUME NEW in \in Seq(ToClient)
    PROVE  Left(in, in, 0)
<1>1. DOMAIN in = 1 .. Len(in) /\ Len(in) \in Nat
    BY SeqFacts
<1>2. \A k \in DOMAIN in : k + 0 = k /\ k - 0 = k
    BY <1>1
<1> QED BY <1>2 DEF Left

LEMMA LeftNone ==
    ASSUME NEW in
    PROVE  Left(<<>>, in, 0)
BY DEF Left

LEMMA LeftAppend ==
    ASSUME NEW in \in Seq(ToClient), NEW q \in ToClient, ~Forth(q)
    PROVE  Left(Append(in, q), in, 0)
<1>1. /\ DOMAIN in = 1 .. Len(in) /\ Len(in) \in Nat
      /\ DOMAIN Append(in, q) = 1 .. (Len(in) + 1)
      /\ Append(in, q)[Len(in) + 1] = q
      /\ \A k \in DOMAIN in : Append(in, q)[k] = in[k]
    BY SeqFacts, AppendFacts
<1> DEFINE u == Append(in, q)
<1> HIDE DEF u
<1>2. \A k \in DOMAIN u : k = Len(in) + 1 \/ k \in DOMAIN in
    BY <1>1 DEF u
<1>3. \A k \in DOMAIN in : k + 0 = k /\ k - 0 = k /\ k \in DOMAIN u
    BY <1>1 DEF u
<1>4. \A k \in DOMAIN u : Forth(u[k]) => k \in DOMAIN in /\ u[k] = in[k]
    BY <1>1, <1>2 DEF u
<1>5. \A k \in DOMAIN in : u[k] = in[k]
    BY <1>1 DEF u
<1> QED BY <1>3, <1>4, <1>5 DEF Left, u

(* What a PUBLISH and a PUBREL on their way look like. *)
LEMMA InPackets ==
    ASSUME NEW in \in Seq(ToClient)
    PROVE  /\ \A k \in DOMAIN in : k \in Int
           /\ \A k \in DOMAIN in : IsPublish(in[k]) =>
                 Forth(in[k]) /\ ~IsRel(in[k]) /\ in[k].id \in SrvIds /\ in[k].m \in SrvMsgs
           /\ \A k \in DOMAIN in : IsRel(in[k]) => Forth(in[k]) /\ in[k].id \in SrvIds
<1>1. DOMAIN in = 1 .. Len(in) /\ Len(in) \in Nat /\ \A k \in DOMAIN in : in[k] \in ToClient
    BY SeqFacts
<1> QED BY <1>1, ToClientFields DEF IsPublish, IsRel, Forth

LEMMA PublishesLeft ==
    ASSUME NEW in2, NEW in, NEW d \in Int, Left(in2, in, d), NEW k \in DOMAIN in2, IsPublish(in2[k])
    PROVE  k + d \in DOMAIN in /\ in[k + d] = in2[k]
BY DEF Left, Forth, IsPublish

(* Of what is known before a step, that much is left after it. *)
Thinned(inb2, inb) == \A i \in SrvIds : inb2[i] # None => inb2[i] = inb[i]
SameQoS2(dl2, dl) == \A m \in SrvMsgs2 : dl2[m] = dl[m]
Publishes(in2, in) == \A k \in DOMAIN in2 : IsPublish(in2[k]) => \E l \in DOMAIN in : in[l] = in2[k]
GotIsSent(dl, sent) == \A m \in SrvMsgs2 : dl[m] # 0 => m \in sent
Expects(srv2, srv) == \A e \in srv2 : e.next = "PUBREC" => e \in srv

(* Messages are in fewer places. *)
LEMMA PlacedFewer ==
    ASSUME NEW in \in Seq(ToClient), NEW in2 \in Seq(ToClient), NEW d \in Int, Left(in2, in, d),
           NEW srv, NEW srv2, srv2 \subseteq srv,
           NEW inb, NEW inb2, Thinned(inb2, inb),
           NEW dl, NEW dl2, NEW sent, GotIsSent(dl2, sent),
           Placed(in, srv, inb, dl, sent)
    PROVE  Placed(in2, srv2, inb2, dl2, sent)
<1>1. \A i \in SrvIds, m \in SrvMsgs : At(in2, srv2, inb2, i, m) => At(in, srv, inb, i, m)
    BY PublishesLeft, NoneFacts DEF At, Thinned
<1>2. ASSUME NEW k \in DOMAIN in2, NEW l \in DOMAIN in2,
             IsPublish(in2[k]), IsPublish(in2[l]), in2[k].m = in2[l].m
      PROVE  k = l
    <2>1. k + d \in DOMAIN in /\ in[k + d] = in2[k] /\ l + d \in DOMAIN in /\ in[l + d] = in2[l]
        BY <1>2, PublishesLeft
    <2>2. k + d = l + d
        BY <1>2, <2>1 DEF Placed
    <2>3. k \in Int /\ l \in Int
        BY InPackets
    <2> QED BY <2>2, <2>3
<1>3. \A e \in srv2 : e.m \in SrvMsgs1 <=> e.next = "PUBACK"
    BY DEF Placed
<1>4. \A i, j \in SrvIds, m \in SrvMsgs :
         At(in2, srv2, inb2, i, m) /\ At(in2, srv2, inb2, j, m) => i = j
    BY <1>1 DEF Placed
<1>5. \A i \in SrvIds, m \in SrvMsgs : At(in2, srv2, inb2, i, m) => m \in sent
    BY <1>1 DEF Placed
<1> QED BY <1>2, <1>3, <1>4, <1>5 DEF Placed, GotIsSent

LEMMA FreshFewer ==
    ASSUME NEW in \in Seq(ToClient), NEW in2 \in Seq(ToClient), NEW d \in Int, Left(in2, in, d),
           NEW inb, NEW inb2, Thinned(inb2, inb),
           NEW dl, NEW dl2, SameQoS2(dl2, dl),
           Fresh(in, inb, dl)
    PROVE  Fresh(in2, inb2, dl2)
<1> SUFFICES ASSUME NEW j \in DOMAIN in2, NEW l \in DOMAIN in2, j < l, IsRel(in2[j]),
                    IsPublish(in2[l]), in2[j].id = in2[l].id, in2[l].m \in SrvMsgs2
             PROVE  dl2[in2[l].m] = 0 /\ inb2[in2[l].id] # in2[l].m
    BY DEF Fresh
<1>1. j \in Int /\ l \in Int /\ in2[l].id \in SrvIds
    BY InPackets
<1>2. /\ j + d \in DOMAIN in /\ in[j + d] = in2[j]
      /\ l + d \in DOMAIN in /\ in[l + d] = in2[l]
    BY DEF Left, Forth, IsPublish, IsRel
<1>3. PICK j2 \in DOMAIN in, l2 \in DOMAIN in : j2 < l2 /\ in[j2] = in2[j] /\ in[l2] = in2[l]
    BY <1>1, <1>2
<1>4. dl[in2[l].m] = 0 /\ inb[in2[l].id] # in2[l].m
    <2>1. /\ j2 < l2 /\ IsRel(in[j2]) /\ IsPublish(in[l2]) /\ in[j2].id = in[l2].id
          /\ in[l2].m \in SrvMsgs2
        BY <1>3
    <2>2. dl[in[l2].m] = 0 /\ inb[in[l2].id] # in[l2].m
        BY <2>1 DEF Fresh
    <2> QED BY <1>3, <2>2
<1>5. in2[l].m # None
    BY NoneFacts DEF SrvMsgs
<1> QED BY <1>1, <1>4, <1>5 DEF Thinned, SameQoS2

LEMMA FollowsFewer ==
    ASSUME NEW in \in Seq(ToClient), NEW in2 \in Seq(ToClient), NEW d \in Int, Left(in2, in, d),
           NEW srv, NEW srv2, Expects(srv2, srv),
           Follows(in, srv)
    PROVE  Follows(in2, srv2)
<1> SUFFICES ASSUME NEW e \in srv2, NEW j \in DOMAIN in2, e.next = "PUBREC", IsRel(in2[j]),
                    in2[j].id = e.id
             PROVE  \E l \in DOMAIN in2 : j < l /\ IsPublish(in2[l]) /\ in2[l].id = e.id /\ in2[l].m = e.m
    BY DEF Follows
<1>0. e \in srv
    BY DEF Expects
<1>1. j + d \in DOMAIN in /\ in[j + d] = in2[j] /\ Forth(in2[j])
    BY DEF Left, Forth, IsRel
<1>2. PICK l \in DOMAIN in : j + d < l /\ IsPublish(in[l]) /\ in[l].id = e.id /\ in[l].m = e.m
    BY <1>0, <1>1 DEF Follows
<1>3. l - d \in DOMAIN in2 /\ in2[l - d] = in[l]
    BY <1>1, <1>2 DEF Left, Forth, IsPublish
<1>4. j < l - d
    <2>1. j \in Int /\ l \in Int
        BY InPackets
    <2> QED BY <1>2, <2>1
<1> QED BY <1>2, <1>3, <1>4

LEMMA OnceFewer ==
    ASSUME NEW in, NEW in2, Publishes(in2, in),
           NEW srv, NEW srv2, Expects(srv2, srv),
           NEW inb, NEW inb2, Thinned(inb2, inb),
           NEW dl, NEW dl2, SameQoS2(dl2, dl),
           NEW v5, NEW inside, NEW gone, NEW gone2,
           \/ gone2
           \/ ~gone /\ inb2 = inb
           \/ srv2 = {} /\ in2 = <<>>,
           Once(in, srv, inb, dl, v5, inside, gone)
    PROVE  Once(in2, srv2, inb2, dl2, v5, inside, gone2)
<1> SUFFICES ASSUME NEW m \in SrvMsgs2
             PROVE  /\ v5 \/ ~inside => dl2[m] \in {0, 1}
                    /\ ~v5 /\ ~inside /\ dl2[m] # 0 => Over(in2, srv2, inb2, m)
                    /\ v5 /\ ~gone2 /\ dl2[m] # 0 => Known(in2, srv2, inb2, m)
    BY DEF Once
<1>1. m # None
    BY NoneFacts DEF SrvMsgs
<1>2. dl2[m] = dl[m]
    BY DEF SameQoS2
<1>3. Over(in, srv, inb, m) => Over(in2, srv2, inb2, m)
    BY <1>1 DEF Over, Thinned, Expects, Publishes
<1>4. ~gone /\ inb2 = inb /\ Known(in, srv, inb, m) => Known(in2, srv2, inb2, m)
    BY DEF Known, Expects, Publishes
<1>5. srv2 = {} /\ in2 = <<>> => Known(in2, srv2, inb2, m)
    BY DEF Known
<1> QED BY <1>2, <1>3, <1>4, <1>5 DEF Once

(* A step after which the messages of the server are in fewer places. *)
LEMMA InKept ==
    ASSUME StateOK, StateOK', InOnce, UNCHANGED <<scenario, srvSent>>,
           NEW d \in Int, Left(s2c', s2c, d), ~connected' => s2c' = <<>>,
           Distinct(srvOut'), Srv' \subseteq Srv,
           rcvdKeys' = inboundMsgs',
           inboundMsgs' = inboundMsgs \/ inboundMsgs' = [i \in SrvIds |-> None],
           \/ CleanSession /\ ~connected'
           \/ (connected' => connected) /\ inboundMsgs' = inboundMsgs
           \/ Srv' = {} /\ s2c' = <<>>,
           GotIsSent(delivered', srvSent),
           \/ SameQoS2(delivered', delivered)
           \/ ~V5 /\ scenario.inside /\ s2c' = <<>>
    PROVE  InOnce'
<1>1. s2c \in Seq(ToClient) /\ s2c' \in Seq(ToClient)
    BY DEF StateOK
<1>2. V5' = V5 /\ CleanSession' = CleanSession
    BY DEF V5, CleanSession
<1>3. Thinned(inboundMsgs', inboundMsgs)
    BY DEF Thinned
<1>4. /\ Placed(s2c, Srv, inboundMsgs, delivered, srvSent)
      /\ Fresh(s2c, inboundMsgs, delivered) /\ Follows(s2c, Srv)
      /\ Once(s2c, Srv, inboundMsgs, delivered, V5, scenario.inside, Gone)
    BY DEF InOnce, Inbound
<1> DEFINE in2 == s2c'
           srv2 == Srv'
           inb2 == inboundMsgs'
           dl2 == delivered'
           gone2 == Gone'
<1>5. /\ in2 \in Seq(ToClient) /\ Left(in2, s2c, d) /\ srv2 \subseteq Srv
      /\ Thinned(inb2, inboundMsgs)
      /\ GotIsSent(dl2, srvSent)
      /\ gone2 \/ (~Gone /\ inb2 = inboundMsgs) \/ (srv2 = {} /\ in2 = <<>>)
      /\ \/ SameQoS2(dl2, delivered)
         \/ ~V5 /\ scenario.inside /\ in2 = <<>>
    BY <1>1, <1>2, <1>3 DEF Gone
<1> HIDE DEF in2, srv2, inb2, dl2, gone2
<1>6. Placed(in2, srv2, inb2, dl2, srvSent)
    BY <1>1, <1>4, <1>5, PlacedFewer
<1>7. Fresh(in2, inb2, dl2)
    <2>1. CASE SameQoS2(dl2, delivered)
        BY <1>1, <1>4, <1>5, <2>1, FreshFewer
    <2>2. CASE in2 = <<>>
        BY <2>2 DEF Fresh
    <2> QED BY <1>5, <2>1, <2>2
<1>8. Follows(in2, srv2)
    <2>1. Expects(srv2, Srv)
        BY <1>5 DEF Expects
    <2> QED BY <1>1, <1>4, <1>5, <2>1, FollowsFewer
<1>9. Once(in2, srv2, inb2, dl2, V5, scenario.inside, gone2)
    <2>1. CASE SameQoS2(dl2, delivered)
        <3>1. Publishes(in2, s2c)
            BY <1>5, PublishesLeft DEF Publishes
        <3>2. Expects(srv2, Srv)
            BY <1>5 DEF Expects
        <3> QED BY <1>4, <1>5, <2>1, <3>1, <3>2, OnceFewer
    <2>2. CASE ~V5 /\ scenario.inside
        BY <2>2 DEF Once
    <2> QED BY <1>5, <2>1, <2>2
<1> QED BY <1>2, <1>6, <1>7, <1>8, <1>9 DEF InOnce, Inbound, in2, srv2, inb2, dl2, gone2

Sets(f, g, i, v) == f = [g EXCEPT ![i] = v]
Counts(dl2, dl, m) == dl2 = [dl EXCEPT ![m] = AtMost2(@)]

InTypes(in, srv, inb, dl) ==
    /\ in \in Seq(ToClient) /\ in # <<>>
    /\ srv \in SUBSET SrvEntry
    /\ inb \in [SrvIds -> SrvMsgs2 \cup {None}]
    /\ dl \in [SrvMsgs -> 0 .. 2]

(* A QoS 2 PUBLISH has been read: its message takes its place in the list,  *)
(* an MQTT 5 client delivers it unless the place was taken.                 *)
LEMMA TakeIn ==
    ASSUME NEW in, NEW srv, NEW inb, NEW dl, InTypes(in, srv, inb, dl),
           NEW p, p = Head(in), IsPublish(p), p.m \in SrvMsgs2,
           NEW sent, NEW v5, NEW inside, NEW gone, ~gone,
           Inbound(in, srv, inb, dl, sent, v5, inside, gone),
           NEW inb2, Sets(inb2, inb, p.id, p.m), NEW dl2, Counts(dl2, dl, p.m)
    PROVE  /\ Inbound(Tail(in), srv, inb2, dl, sent, v5, inside, gone)
           /\ v5 /\ inb[p.id] = None =>
                 Inbound(Tail(in), srv, inb2, dl2, sent, v5, inside, gone)
<1>0. /\ in \in Seq(ToClient) /\ in # <<>> /\ srv \in SUBSET SrvEntry
      /\ inb \in [SrvIds -> SrvMsgs2 \cup {None}] /\ dl \in [SrvMsgs -> 0 .. 2]
      /\ Placed(in, srv, inb, dl, sent) /\ Fresh(in, inb, dl) /\ Follows(in, srv)
      /\ Once(in, srv, inb, dl, v5, inside, gone)
    BY DEF InTypes, Inbound
<1> USE <1>0
<1> DEFINE in2 == Tail(in)
<1>1. in2 \in Seq(ToClient) /\ Left(in2, in, 1)
    BY HeadTailProperties, LeftTail
<1>2. 1 \in DOMAIN in /\ in[1] = p /\ Segment(in2, in, 1) /\ DOMAIN in2 \subseteq Nat \ {0}
    BY TailSegment
<1> HIDE DEF in2
<1>3. p.id \in SrvIds /\ p.m \in SrvMsgs /\ p.m # None
    BY <1>2, InPackets, NoneFacts
<1>4. \A i \in SrvIds : inb2[i] = IF i = p.id THEN p.m ELSE inb[i]
    BY <1>3 DEF Sets
<1>5. \A k \in DOMAIN in2 : k + 1 \in DOMAIN in /\ in[k + 1] = in2[k] /\ k + 1 # 1
    BY <1>2 DEF Segment
<1>6. \A k \in DOMAIN in2 : IsPublish(in2[k]) => in2[k].m # p.m
    BY <1>2, <1>5 DEF Placed
<1>7. At(in, srv, inb, p.id, p.m)
    BY <1>2 DEF At
<1>8. p.m \in sent
    BY <1>3, <1>7 DEF Placed
<1>9. \A i \in SrvIds, m \in SrvMsgs : At(in2, srv, inb2, i, m) => At(in, srv, inb, i, m)
    BY <1>4, <1>5, <1>7 DEF At
<1>10. ASSUME NEW k \in DOMAIN in2, NEW l \in DOMAIN in2,
              IsPublish(in2[k]), IsPublish(in2[l]), in2[k].m = in2[l].m
       PROVE  k = l
    <2>1. k + 1 = l + 1
        BY <1>5, <1>10 DEF Placed
    <2> QED BY <1>1, <2>1, InPackets
<1>11. Placed(in2, srv, inb2, dl, sent)
    BY <1>9, <1>10 DEF Placed
<1>12. Fresh(in2, inb2, dl)
    <2> SUFFICES ASSUME NEW j \in DOMAIN in2, NEW l \in DOMAIN in2, j < l, IsRel(in2[j]),
                        IsPublish(in2[l]), in2[j].id = in2[l].id, in2[l].m \in SrvMsgs2
                 PROVE  dl[in2[l].m] = 0 /\ inb2[in2[l].id] # in2[l].m
        BY DEF Fresh
    <2>1. PICK j2 \in DOMAIN in, l2 \in DOMAIN in : j2 < l2 /\ in[j2] = in2[j] /\ in[l2] = in2[l]
        <3>1. j + 1 < l + 1
            BY <1>1, InPackets
        <3> QED BY <1>5, <3>1
    <2>2. dl[in[l2].m] = 0 /\ inb[in[l2].id] # in[l2].m
        BY <2>1 DEF Fresh
    <2>3. in2[l].id \in SrvIds /\ in2[l].m # p.m
        BY <1>1, <1>6, InPackets
    <2> QED BY <1>4, <2>1, <2>2, <2>3
<1>13. Follows(in2, srv)
    <2>1. Expects(srv, srv)
        BY DEF Expects
    <2> QED BY <1>1, <2>1, FollowsFewer
<1>14. ASSUME NEW m \in SrvMsgs2, Over(in, srv, inb, m)
       PROVE  m # p.m /\ Over(in2, srv, inb2, m)
    <2>1. m # p.m
        BY <1>2, <1>14 DEF Over
    <2> QED BY <1>4, <1>5, <1>14, <2>1 DEF Over
<1>15. ASSUME NEW m \in SrvMsgs2, Known(in, srv, inb, m)
       PROVE  Known(in2, srv, inb2, m)
    <2>1. \A k \in DOMAIN in2 : IsPublish(in2[k]) => in2[k].id \in SrvIds
        BY <1>1, InPackets
    <2>2. \A e \in srv : e.id \in SrvIds
        BY DEF SrvEntry
    <2> QED BY <1>3, <1>4, <1>5, <1>15, <2>1, <2>2 DEF Known
<1>16. Once(in2, srv, inb2, dl, v5, inside, gone)
    BY <1>14, <1>15 DEF Once
<1>17. ASSUME v5, inb[p.id] = None
       PROVE  /\ Placed(in2, srv, inb2, dl2, sent) /\ Fresh(in2, inb2, dl2)
              /\ Once(in2, srv, inb2, dl2, v5, inside, gone)
    <2>1. ~Known(in, srv, inb, p.m)
        BY <1>2, <1>17 DEF Known
    <2>2. dl[p.m] = 0
        BY <1>17, <2>1 DEF Once
    <2>3. \A m \in SrvMsgs2 : dl2[m] = IF m = p.m THEN 1 ELSE dl[m]
        BY <1>17, <2>2 DEF AtMost2, SrvMsgs, Counts
    <2>4. Placed(in2, srv, inb2, dl2, sent)
        BY <1>8, <1>11, <2>3 DEF Placed
    <2>5. Fresh(in2, inb2, dl2)
        BY <1>6, <1>12, <2>3 DEF Fresh
    <2>6. Known(in2, srv, inb2, p.m)
        <3>1. ASSUME NEW e \in srv, e.m = p.m
              PROVE  e.id = p.id
            <4>1. At(in, srv, inb, e.id, p.m) /\ e.id \in SrvIds
                BY <3>1 DEF At, SrvEntry
            <4> QED BY <1>3, <1>7, <4>1 DEF Placed
        <3>2. \A k \in DOMAIN in2 : IsPublish(in2[k]) => in2[k].m # p.m
            BY <1>6
        <3> QED BY <1>3, <1>4, <3>1, <3>2 DEF Known
    <2>7. \A m \in SrvMsgs2 : m # p.m => dl2[m] = dl[m]
        BY <2>3
    <2>8. dl2[p.m] = 1
        BY <2>3
    <2> QED BY <1>16, <1>17, <2>4, <2>5, <2>6, <2>7, <2>8 DEF Once
<1> QED BY <1>11, <1>12, <1>13, <1>16, <1>17 DEF in2, Inbound

(* A PUBREL has been read: the message of its id leaves the list, an MQTT 3  *)
(* client delivers it.                                                       *)
LEMMA ReleaseIn ==
    ASSUME NEW in, NEW srv, NEW inb, NEW dl, InTypes(in, srv, inb, dl),
           NEW p, p = Head(in), IsRel(p), inb[p.id] # None,
           NEW sent, NEW v5, NEW inside, NEW gone, ~gone,
           Inbound(in, srv, inb, dl, sent, v5, inside, gone),
           NEW inb2, Sets(inb2, inb, p.id, None),
           NEW dl2, v5 => dl2 = dl, ~v5 => Counts(dl2, dl, inb[p.id])
    PROVE  Inbound(Tail(in), srv, inb2, dl2, sent, v5, inside, gone)
<1>0. /\ in \in Seq(ToClient) /\ in # <<>> /\ srv \in SUBSET SrvEntry
      /\ inb \in [SrvIds -> SrvMsgs2 \cup {None}] /\ dl \in [SrvMsgs -> 0 .. 2]
      /\ Placed(in, srv, inb, dl, sent) /\ Fresh(in, inb, dl) /\ Follows(in, srv)
      /\ Once(in, srv, inb, dl, v5, inside, gone)
    BY DEF InTypes, Inbound
<1> USE <1>0
<1> DEFINE in2 == Tail(in)
           x == inb[p.id]
<1>1. in2 \in Seq(ToClient) /\ Left(in2, in, 1)
    BY HeadTailProperties, LeftTail
<1>2. 1 \in DOMAIN in /\ in[1] = p /\ Segment(in2, in, 1) /\ DOMAIN in2 \subseteq Nat \ {0}
    BY TailSegment
<1> HIDE DEF in2
<1>3. p.id \in SrvIds
    BY <1>2, InPackets
<1>4. x \in SrvMsgs2 /\ x \in SrvMsgs /\ At(in, srv, inb, p.id, x)
    BY <1>3 DEF At, SrvMsgs
<1>5. x \in sent /\ \A i \in SrvIds : inb2[i] = IF i = p.id THEN None ELSE inb[i]
    BY <1>3, <1>4 DEF Placed, Sets
<1>6. Thinned(inb2, inb)
    BY <1>5 DEF Thinned
<1>7. \A k \in DOMAIN in2 : k + 1 \in DOMAIN in /\ in[k + 1] = in2[k] /\ 1 < k + 1
    BY <1>2 DEF Segment
<1>8. Expects(srv, srv) /\ Publishes(in2, in)
    BY <1>7 DEF Expects, Publishes
<1>9. Follows(in2, srv)
    BY <1>1, <1>8, FollowsFewer
<1>10. \A m \in SrvMsgs2 : dl[m] # 0 => m \in sent
    BY DEF Placed
<1>11. GotIsSent(dl2, sent)
    BY <1>4, <1>5, <1>10 DEF SrvMsgs, GotIsSent, Counts
<1>12. Placed(in2, srv, inb2, dl2, sent)
    <2>1. srv \subseteq srv
        OBVIOUS
    <2> QED BY <1>1, <1>6, <1>11, <2>1, PlacedFewer
<1>13. SameQoS2(dl, dl)
    BY DEF SameQoS2
<1>14. Fresh(in2, inb2, dl)
    BY <1>1, <1>6, <1>13, FreshFewer
<1>15. \A k \in DOMAIN in2 : IsPublish(in2[k]) => in2[k].m # x
    <2> SUFFICES ASSUME NEW k \in DOMAIN in2, IsPublish(in2[k]), in2[k].m = x PROVE FALSE
        OBVIOUS
    <2>1. k + 1 \in DOMAIN in /\ in[k + 1] = in2[k] /\ 1 < k + 1 /\ in2[k].id \in SrvIds
        BY <1>1, <1>7, InPackets
    <2>2. At(in, srv, inb, in2[k].id, x)
        BY <2>1 DEF At
    <2>3. in2[k].id = p.id
        BY <1>3, <1>4, <2>1, <2>2 DEF Placed
    <2> QED BY <1>2, <1>4, <2>1, <2>3 DEF Fresh
<1>16. Fresh(in2, inb2, dl2)
    <2>1. \A m \in SrvMsgs2 : m # x => dl2[m] = dl[m]
        BY DEF SrvMsgs, Counts
    <2> QED BY <1>14, <1>15, <2>1 DEF Fresh
<1>17. \A e \in srv : e.m = x => e.next # "PUBREC"
    <2> SUFFICES ASSUME NEW e \in srv, e.m = x, e.next = "PUBREC" PROVE FALSE
        OBVIOUS
    <2>1. At(in, srv, inb, e.id, x) /\ e.id \in SrvIds
        BY DEF At, SrvEntry
    <2>2. e.id = p.id
        BY <1>3, <1>4, <2>1 DEF Placed
    <2>3. PICK l \in DOMAIN in : 1 < l /\ IsPublish(in[l]) /\ in[l].id = p.id /\ in[l].m = x
        BY <1>2, <2>2 DEF Follows
    <2> QED BY <1>2, <1>4, <2>3 DEF Fresh
<1>18. Over(in2, srv, inb2, x)
    <2>1. \A i \in SrvIds : inb2[i] # x
        <3>1. ASSUME NEW i \in SrvIds, inb[i] = x PROVE i = p.id
            <4>1. At(in, srv, inb, i, x)
                BY <3>1 DEF At
            <4> QED BY <1>3, <1>4, <4>1 DEF Placed
        <3> QED BY <1>5, <3>1
    <2> QED BY <1>15, <1>17, <2>1 DEF Over
<1>19. ASSUME NEW m \in SrvMsgs2, Over(in, srv, inb, m)
       PROVE  Over(in2, srv, inb2, m) /\ m # x
    <2>1. m # None
        BY NoneFacts DEF SrvMsgs
    <2> QED BY <1>3, <1>6, <1>8, <1>19, <2>1 DEF Over, Thinned, Publishes
<1>20. ASSUME NEW m \in SrvMsgs2, Known(in, srv, inb, m), dl[m] # 0
       PROVE  Known(in2, srv, inb2, m)
    <2>1. ASSUME NEW e \in srv, e.m = m, e.next = "PUBREC"
          PROVE  e.id # p.id
        <3> SUFFICES ASSUME e.id = p.id PROVE FALSE
            OBVIOUS
        <3>1. PICK l \in DOMAIN in : 1 < l /\ IsPublish(in[l]) /\ in[l].id = p.id /\ in[l].m = m
            BY <1>2, <2>1 DEF Follows
        <3> QED BY <1>2, <1>20, <3>1 DEF Fresh
    <2>2. ASSUME NEW k \in DOMAIN in2, IsPublish(in2[k]), in2[k].m = m
          PROVE  in2[k].id # p.id
        <3>1. k + 1 \in DOMAIN in /\ in[k + 1] = in2[k] /\ 1 < k + 1
            BY <1>7
        <3> QED BY <1>2, <1>20, <2>2, <3>1 DEF Fresh
    <2>3. \A e \in srv : e.id \in SrvIds
        BY DEF SrvEntry
    <2>4. \A k \in DOMAIN in2 : IsPublish(in2[k]) => in2[k].id \in SrvIds
        BY <1>1, InPackets
    <2> QED BY <1>5, <1>7, <1>20, <2>1, <2>2, <2>3, <2>4 DEF Known
<1>21. Once(in2, srv, inb2, dl2, v5, inside, gone)
    <2>1. CASE v5
        <3>1. dl2 = dl
            BY <2>1
        <3> QED BY <1>20, <2>1, <3>1 DEF Once
    <2>2. CASE ~v5
        <3>1. ~inside => dl[x] = 0
            BY <1>4, <1>19, <2>2 DEF Once
        <3>2. \A m \in SrvMsgs2 : m # x => dl2[m] = dl[m]
            BY DEF SrvMsgs, Counts
        <3>3. ~inside => dl2[x] = 1
            BY <1>4, <2>2, <3>1 DEF AtMost2, Counts
        <3> QED BY <1>18, <1>19, <2>2, <3>2, <3>3 DEF Once
    <2> QED BY <2>1, <2>2
<1> QED BY <1>9, <1>12, <1>16, <1>21 DEF in2, Inbound

(* The packet q is added at n, or nothing is. *)
Grows(in2, in, q, n) ==
    /\ \A k \in DOMAIN in : k < n /\ k \in DOMAIN in2 /\ in2[k] = in[k]
    /\ \A k \in DOMAIN in2 : k \in DOMAIN in \/ (k = n /\ in2[k] = q)

LEMMA ReplyGrows ==
    ASSUME StateOK, InOnce, NEW q \in ToClient, SrvReply(q)
    PROVE  /\ Grows(s2c', s2c, q, Len(s2c) + 1)
           /\ Len(s2c) + 1 \in Int
           /\ ~Forth(q) => Left(s2c', s2c, 0)
           /\ connected => Len(s2c) + 1 \in DOMAIN s2c'
           /\ ~connected => s2c' = <<>>
<1>1. s2c \in Seq(ToClient) /\ (~connected => s2c = <<>>)
    BY DEF StateOK, InOnce
<1>2. /\ DOMAIN s2c = 1 .. Len(s2c) /\ Len(s2c) \in Nat
      /\ DOMAIN Append(s2c, q) = 1 .. (Len(s2c) + 1)
      /\ Append(s2c, q)[Len(s2c) + 1] = q
      /\ \A k \in DOMAIN s2c : Append(s2c, q)[k] = s2c[k]
    BY <1>1, SeqFacts, AppendFacts
<1>3. CASE connected
    <2> DEFINE u == Append(s2c, q)
    <2>1. s2c' = u
        BY <1>3 DEF SrvReply
    <2> HIDE DEF u
    <2>2. /\ \A k \in DOMAIN s2c : k < Len(s2c) + 1 /\ k \in DOMAIN u
          /\ \A k \in DOMAIN u : k \in DOMAIN s2c \/ k = Len(s2c) + 1
          /\ Len(s2c) + 1 \in DOMAIN u
        BY <1>2 DEF u
    <2>3. Grows(u, s2c, q, Len(s2c) + 1)
        BY <1>2, <2>2 DEF Grows, u
    <2>4. ~Forth(q) => Left(u, s2c, 0)
        BY <1>1, LeftAppend DEF u
    <2> QED BY <1>2, <1>3, <2>1, <2>2, <2>3, <2>4
<1>4. CASE ~connected
    <2>1. s2c' = s2c /\ s2c = <<>>
        BY <1>1, <1>4 DEF SrvReply
    <2> QED BY <1>2, <1>4, <2>1, LeftNone DEF Grows
<1> QED BY <1>3, <1>4

(* The server sends m for the first time, under an id it does not use. *)
LEMMA SendIn ==
    ASSUME NEW in \in Seq(ToClient), NEW in2, NEW m \in SrvMsgs, NEW i \in SrvIds,
           NEW n, Grows(in2, in, Packet("PUBLISH", i, m), n), n \in DOMAIN in2,
           NEW srv \in SUBSET SrvEntry, NEW e, e.id = i, e.m = m,
           e.next = IF m \in SrvMsgs2 THEN "PUBREC" ELSE "PUBACK",
           NEW inb, NEW dl, NEW sent, m \notin sent,
           NEW v5, NEW inside, NEW gone,
           Inbound(in, srv, inb, dl, sent, v5, inside, gone)
    PROVE  Inbound(in2, srv \cup {e}, inb, dl, sent \cup {m}, v5, inside, gone)
<1>0. /\ Placed(in, srv, inb, dl, sent) /\ Fresh(in, inb, dl) /\ Follows(in, srv)
      /\ Once(in, srv, inb, dl, v5, inside, gone)
    BY DEF Inbound
<1> USE <1>0
<1> DEFINE q == Packet("PUBLISH", i, m)
           srv2 == srv \cup {e}
           sent2 == sent \cup {m}
<1>1. q.type = "PUBLISH" /\ q.id = i /\ q.m = m
    BY DEF Packet
<1>2. /\ \A k \in DOMAIN in : k < n /\ k \in DOMAIN in2 /\ in2[k] = in[k]
      /\ \A k \in DOMAIN in2 : k \in DOMAIN in \/ (k = n /\ in2[k] = q)
    BY DEF Grows
<1>3. n \notin DOMAIN in /\ in2[n] = q
    BY <1>2
<1> HIDE DEF q, srv2, sent2
<1>4. \A j \in SrvIds, x \in SrvMsgs :
         At(in2, srv2, inb, j, x) => At(in, srv, inb, j, x) \/ (j = i /\ x = m)
    BY <1>1, <1>2 DEF At, srv2
<1>5. \A j \in SrvIds : ~At(in, srv, inb, j, m)
    BY DEF Placed
<1>6. \A k \in DOMAIN in : IsPublish(in[k]) => in[k].m # m
    <2> SUFFICES ASSUME NEW k \in DOMAIN in, IsPublish(in[k]), in[k].m = m PROVE FALSE
        OBVIOUS
    <2>1. in[k].id \in SrvIds
        BY InPackets
    <2>2. At(in, srv, inb, in[k].id, m)
        BY DEF At
    <2> QED BY <1>5, <2>1, <2>2
<1>7. \A f \in srv : f.m # m
    <2> SUFFICES ASSUME NEW f \in srv, f.m = m PROVE FALSE
        OBVIOUS
    <2>1. f.id \in SrvIds
        BY DEF SrvEntry
    <2>2. At(in, srv, inb, f.id, m)
        BY DEF At
    <2> QED BY <1>5, <2>1, <2>2
<1>8. \A j \in SrvIds : inb[j] # m
    BY <1>5 DEF At
<1>9. m \in SrvMsgs2 => dl[m] = 0
    BY DEF Placed
<1>10. Placed(in2, srv2, inb, dl, sent2)
    <2>1. \A f \in srv2 : f.m \in SrvMsgs1 <=> f.next = "PUBACK"
        <3>1. m \in SrvMsgs1 <=> m \notin SrvMsgs2
            BY SessionAssumption DEF SrvMsgs
        <3> QED BY <3>1 DEF srv2, Placed
    <2>2. \A j, h \in SrvIds, x \in SrvMsgs :
             At(in2, srv2, inb, j, x) /\ At(in2, srv2, inb, h, x) => j = h
        BY <1>4, <1>5 DEF Placed
    <2>3. \A j \in SrvIds, x \in SrvMsgs : At(in2, srv2, inb, j, x) => x \in sent2
        BY <1>4 DEF Placed, sent2
    <2>4. \A x \in SrvMsgs2 : dl[x] # 0 => x \in sent2
        BY DEF Placed, sent2
    <2>5. \A k, l \in DOMAIN in2 :
             IsPublish(in2[k]) /\ IsPublish(in2[l]) /\ in2[k].m = in2[l].m => k = l
        BY <1>1, <1>2, <1>6 DEF Placed
    <2> QED BY <2>1, <2>2, <2>3, <2>4, <2>5 DEF Placed
<1>11. Fresh(in2, inb, dl)
    <2> SUFFICES ASSUME NEW j \in DOMAIN in2, NEW l \in DOMAIN in2, j < l, IsRel(in2[j]),
                        IsPublish(in2[l]), in2[j].id = in2[l].id, in2[l].m \in SrvMsgs2
                 PROVE  dl[in2[l].m] = 0 /\ inb[in2[l].id] # in2[l].m
        BY DEF Fresh
    <2>1. CASE l \notin DOMAIN in
        BY <1>1, <1>2, <1>8, <1>9, <2>1
    <2>2. CASE l \in DOMAIN in
        <3>1. j \in DOMAIN in
            BY <1>1, <1>2 DEF IsRel
        <3> QED BY <1>2, <2>2, <3>1 DEF Fresh
    <2> QED BY <2>1, <2>2
<1>12. Follows(in2, srv2)
    <2> SUFFICES ASSUME NEW f \in srv2, NEW j \in DOMAIN in2, f.next = "PUBREC", IsRel(in2[j]),
                        in2[j].id = f.id
                 PROVE  \E l \in DOMAIN in2 : j < l /\ IsPublish(in2[l]) /\ in2[l].id = f.id /\ in2[l].m = f.m
        BY DEF Follows
    <2>1. j \in DOMAIN in /\ in2[j] = in[j] /\ j < n
        BY <1>1, <1>2 DEF IsRel
    <2>2. CASE f \in srv
        <3>1. PICK l \in DOMAIN in : j < l /\ IsPublish(in[l]) /\ in[l].id = f.id /\ in[l].m = f.m
            BY <2>1, <2>2 DEF Follows
        <3> QED BY <1>2, <3>1
    <2>3. CASE f \notin srv
        <3>1. f.id = i /\ f.m = m
            BY <2>3 DEF srv2
        <3>2. IsPublish(in2[n]) /\ in2[n].id = i /\ in2[n].m = m
            BY <1>1, <1>3 DEF IsPublish
        <3> QED BY <2>1, <3>1, <3>2
    <2> QED BY <2>2, <2>3
<1>13. Once(in2, srv2, inb, dl, v5, inside, gone)
    <2>1. \A x \in SrvMsgs2 : x # m /\ Over(in, srv, inb, x) => Over(in2, srv2, inb, x)
        BY <1>1, <1>2 DEF Over, srv2
    <2>2. \A x \in SrvMsgs2 : x # m /\ Known(in, srv, inb, x) => Known(in2, srv2, inb, x)
        BY <1>1, <1>2 DEF Known, srv2
    <2> QED BY <1>9, <2>1, <2>2 DEF Once
<1> QED BY <1>10, <1>11, <1>12, <1>13 DEF srv2, sent2, Inbound

(* The server has read a PUBREC with id i: it answers with a PUBREL, and no *)
(* message of this id waits for a PUBREC.                                   *)
Released2(srv2, srv, i) ==
    /\ \A f \in srv2 : \E e \in srv :
          /\ f.id = e.id /\ f.m = e.m
          /\ f = e \/ (e.next = "PUBREC" /\ f.next = "PUBCOMP")
    /\ \A f \in srv2 : f.id = i => f.next # "PUBREC"

LEMMA ReleasedIn ==
    ASSUME NEW in \in Seq(ToClient), NEW in2, NEW i,
           NEW n \in Int, Grows(in2, in, Packet("PUBREL", i, None), n),
           NEW srv, NEW srv2, Released2(srv2, srv, i),
           NEW inb, NEW dl, NEW sent, NEW v5, NEW inside, NEW gone,
           Inbound(in, srv, inb, dl, sent, v5, inside, gone)
    PROVE  Inbound(in2, srv2, inb, dl, sent, v5, inside, gone)
<1>0. /\ Placed(in, srv, inb, dl, sent) /\ Fresh(in, inb, dl) /\ Follows(in, srv)
      /\ Once(in, srv, inb, dl, v5, inside, gone)
    BY DEF Inbound
<1> USE <1>0
<1> DEFINE q == Packet("PUBREL", i, None)
<1>1. q.type = "PUBREL" /\ q.id = i
    BY DEF Packet
<1>2. /\ \A k \in DOMAIN in : k < n /\ k \in DOMAIN in2 /\ in2[k] = in[k]
      /\ \A k \in DOMAIN in2 : k \in DOMAIN in \/ (k = n /\ in2[k] = q)
    BY DEF Grows
<1> HIDE DEF q
<1>3. \A k \in DOMAIN in2 : IsPublish(in2[k]) => k \in DOMAIN in /\ in2[k] = in[k]
    BY <1>1, <1>2 DEF IsPublish
<1>4. Expects(srv2, srv)
    BY DEF Expects, Released2
<1>5. \A j \in SrvIds, x \in SrvMsgs : At(in2, srv2, inb, j, x) => At(in, srv, inb, j, x)
    BY <1>3 DEF At, Released2
<1>6. \A f \in srv2 : f.m \in SrvMsgs1 <=> f.next = "PUBACK"
    <2> SUFFICES ASSUME NEW f \in srv2 PROVE f.m \in SrvMsgs1 <=> f.next = "PUBACK"
        OBVIOUS
    <2>1. PICK e \in srv : f.m = e.m /\ (f = e \/ (e.next = "PUBREC" /\ f.next = "PUBCOMP"))
        BY DEF Released2
    <2> QED BY <2>1 DEF Placed
<1>7. Placed(in2, srv2, inb, dl, sent)
    BY <1>3, <1>5, <1>6 DEF Placed
<1>8. Fresh(in2, inb, dl)
    <2> SUFFICES ASSUME NEW j \in DOMAIN in2, NEW l \in DOMAIN in2, j < l, IsRel(in2[j]),
                        IsPublish(in2[l]), in2[j].id = in2[l].id, in2[l].m \in SrvMsgs2
                 PROVE  dl[in2[l].m] = 0 /\ inb[in2[l].id] # in2[l].m
        BY DEF Fresh
    <2>1. l \in DOMAIN in /\ in2[l] = in[l] /\ l < n /\ l \in Int
        BY <1>2, <1>3, InPackets
    <2>2. j \in DOMAIN in
        BY <1>2, <2>1
    <2> QED BY <1>2, <2>1, <2>2 DEF Fresh
<1>9. Follows(in2, srv2)
    <2> SUFFICES ASSUME NEW f \in srv2, NEW j \in DOMAIN in2, f.next = "PUBREC", IsRel(in2[j]),
                        in2[j].id = f.id
                 PROVE  \E l \in DOMAIN in2 : j < l /\ IsPublish(in2[l]) /\ in2[l].id = f.id /\ in2[l].m = f.m
        BY DEF Follows
    <2>1. f \in srv /\ f.id # i
        BY <1>4 DEF Expects, Released2
    <2>2. j \in DOMAIN in /\ in2[j] = in[j]
        BY <1>1, <1>2, <2>1
    <2>3. PICK l \in DOMAIN in : j < l /\ IsPublish(in[l]) /\ in[l].id = f.id /\ in[l].m = f.m
        BY <2>1, <2>2 DEF Follows
    <2> QED BY <1>2, <2>3
<1>10. Once(in2, srv2, inb, dl, v5, inside, gone)
    <2>1. Publishes(in2, in)
        BY <1>3 DEF Publishes
    <2>2. Thinned(inb, inb) /\ SameQoS2(dl, dl)
        BY DEF Thinned, SameQoS2
    <2>3. gone \/ (~gone /\ inb = inb) \/ (srv2 = {} /\ in2 = <<>>)
        OBVIOUS
    <2> QED BY <1>4, <2>1, <2>2, <2>3, OnceFewer
<1> QED BY <1>7, <1>8, <1>9, <1>10 DEF Inbound

(* What the server sends again on a new connection is what it keeps. *)
LEMMA ResumeIn ==
    ASSUME NEW out \in Seq(SrvEntry), Distinct(out), NEW srv, srv = {out[k] : k \in DOMAIN out},
           NEW in2 \in Seq(ToClient), DOMAIN in2 = DOMAIN out,
           \A k \in DOMAIN out : in2[k] =
              IF out[k].next = "PUBCOMP" THEN Packet("PUBREL", out[k].id, None)
              ELSE Packet("PUBLISH", out[k].id, out[k].m),
           NEW inb, NEW dl, NEW sent, NEW v5, NEW inside,
           NEW gone, Inbound(<<>>, srv, inb, dl, sent, v5, inside, gone)
    PROVE  Inbound(in2, srv, inb, dl, sent, v5, inside, gone)
<1>0. Placed(<<>>, srv, inb, dl, sent) /\ Once(<<>>, srv, inb, dl, v5, inside, gone)
    BY DEF Inbound
<1> USE <1>0
<1>1. \A k \in DOMAIN out : out[k] \in srv /\ out[k] \in SrvEntry
    BY SeqFacts
<1>2. \A k \in DOMAIN in2 : IsPublish(in2[k]) =>
         in2[k].id = out[k].id /\ in2[k].m = out[k].m /\ out[k].next # "PUBCOMP"
    BY DEF IsPublish, Packet
<1>3. \A k \in DOMAIN in2 : IsRel(in2[k]) => in2[k].id = out[k].id /\ out[k].next = "PUBCOMP"
    BY DEF IsRel, Packet
<1>4. \A k, l \in DOMAIN in2 : k # l => out[k].id # out[l].id /\ out[k].m # out[l].m
    BY DEF Distinct
<1>5. \A j \in SrvIds, x \in SrvMsgs : At(in2, srv, inb, j, x) => At(<<>>, srv, inb, j, x)
    BY <1>1, <1>2 DEF At
<1>6. \A k, l \in DOMAIN in2 : IsPublish(in2[k]) /\ IsPublish(in2[l]) /\ in2[k].m = in2[l].m => k = l
    BY <1>2, <1>4
<1>7. Placed(in2, srv, inb, dl, sent)
    BY <1>5, <1>6 DEF Placed
<1>8. \A j, l \in DOMAIN in2 : IsRel(in2[j]) /\ IsPublish(in2[l]) => in2[j].id # in2[l].id
    BY <1>2, <1>3, <1>4
<1>9. Fresh(in2, inb, dl)
    BY <1>8 DEF Fresh
<1>10. Follows(in2, srv)
    <2> SUFFICES ASSUME NEW k \in DOMAIN out, NEW j \in DOMAIN in2, out[k].next = "PUBREC",
                        IsRel(in2[j]), in2[j].id = out[k].id
                 PROVE  FALSE
        BY DEF Follows
    <2> QED BY <1>3, <1>4
<1>11. \A k \in DOMAIN in2 : IsPublish(in2[k]) /\ out[k].m \in SrvMsgs2 => out[k].next = "PUBREC"
    <2> SUFFICES ASSUME NEW k \in DOMAIN in2, IsPublish(in2[k]), out[k].m \in SrvMsgs2
                 PROVE  out[k].next = "PUBREC"
        OBVIOUS
    <2>1. out[k].next # "PUBCOMP" /\ out[k].next \in {"PUBACK", "PUBREC", "PUBCOMP"}
        BY <1>1, <1>2 DEF SrvEntry
    <2>2. out[k].m \notin SrvMsgs1
        BY SessionAssumption
    <2> QED BY <1>1, <2>1, <2>2 DEF Placed
<1>12. ASSUME NEW m \in SrvMsgs2, Over(<<>>, srv, inb, m) PROVE Over(in2, srv, inb, m)
    BY <1>1, <1>2, <1>11, <1>12 DEF Over
<1>13. ASSUME NEW m \in SrvMsgs2, Known(<<>>, srv, inb, m) PROVE Known(in2, srv, inb, m)
    BY <1>1, <1>2, <1>11, <1>13 DEF Known
<1> QED BY <1>7, <1>9, <1>10, <1>12, <1>13 DEF Once, Inbound

-----------------------------------------------------------------------------
(* One step at a time                                                       *)

InBefore == StateOK /\ StateOK' /\ InOnce /\ UNCHANGED scenario

LEMMA InBeforeFacts ==
    ASSUME InBefore
    PROVE  /\ StateOK /\ StateOK' /\ InOnce /\ UNCHANGED scenario
           /\ V5' = V5 /\ CleanSession' = CleanSession
           /\ s2c \in Seq(ToClient) /\ s2c' \in Seq(ToClient) /\ srvOut \in Seq(SrvEntry)
           /\ Srv \in SUBSET SrvEntry
           /\ inboundMsgs \in [SrvIds -> SrvMsgs2 \cup {None}]
           /\ delivered \in [SrvMsgs -> 0 .. 2]
           /\ rcvdKeys = inboundMsgs /\ Distinct(srvOut)
           /\ Inbound(s2c, Srv, inboundMsgs, delivered, srvSent, V5, scenario.inside, Gone)
           /\ GotIsSent(delivered, srvSent) /\ SameQoS2(delivered, delivered)
<1>1. srvOut \in Seq(SrvEntry)
    BY DEF InBefore, StateOK
<1>2. Srv \in SUBSET SrvEntry
    BY <1>1, SeqFacts DEF Srv
<1> QED BY <1>1, <1>2
        DEF InBefore, InOnce, StateOK, V5, CleanSession, GotIsSent, Inbound, Placed, SameQoS2

(* A packet that is none of the server's exchanges comes or goes. *)
LEMMA OtherIn ==
    ASSUME InBefore, UNCHANGED <<srvSent, srvOut, inboundMsgs, rcvdKeys, delivered, connected>>,
           NEW d \in Int, Left(s2c', s2c, d), connected \/ s2c' = <<>>
    PROVE  InOnce'
<1>1. Srv' = Srv
    BY DEF Srv
<1>2. Distinct(srvOut') /\ Srv' \subseteq Srv
    BY <1>1, InBeforeFacts
<1>3. SameQoS2(delivered', delivered) /\ GotIsSent(delivered', srvSent)
    BY InBeforeFacts
<1> QED BY <1>2, <1>3, InBeforeFacts, InKept

(* The connection ends. *)
LEMMA ClosedIn ==
    ASSUME InBefore, UNCHANGED <<srvSent, delivered>>, CloseSocket,
           UNCHANGED srvOut \/ srvOut' = <<>>,
           \/ UNCHANGED <<inboundMsgs, rcvdKeys>>
           \/ CleanSession /\ EmptySession
    PROVE  InOnce'
<1>1. connected' = FALSE /\ s2c' = <<>>
    BY DEF CloseSocket
<1>2. Distinct(srvOut') /\ Srv' \subseteq Srv
    BY InBeforeFacts DEF Srv, Distinct
<1>3. SameQoS2(delivered', delivered) /\ GotIsSent(delivered', srvSent)
    BY InBeforeFacts
<1>4. Left(s2c', s2c, 0)
    BY <1>1, LeftNone
<1>5. /\ rcvdKeys' = inboundMsgs'
      /\ inboundMsgs' = inboundMsgs \/ inboundMsgs' = [i \in SrvIds |-> None]
      /\ CleanSession \/ inboundMsgs' = inboundMsgs
    BY InBeforeFacts DEF EmptySession
<1> QED BY <1>1, <1>2, <1>3, <1>4, <1>5, InBeforeFacts, InKept

LEMMA ReadIn ==
    ASSUME InBefore, NEW p, NEW type, Receive(p, type)
    PROVE  /\ connected /\ s2c # <<>> /\ p = Head(s2c) /\ s2c' = Tail(s2c)
           /\ p.type = type /\ p \in ToClient /\ Left(s2c', s2c, 1) /\ ~Gone
<1>1. connected /\ s2c # <<>> /\ p = Head(s2c) /\ s2c' = Tail(s2c) /\ p.type = type
    BY DEF Receive
<1>2. p \in ToClient
    BY <1>1, InBeforeFacts, HeadTailProperties
<1> QED BY <1>1, <1>2, InBeforeFacts, LeftTail DEF Gone

(* What is known of the packets in holds when they are gone. *)
LEMMA DropIn ==
    ASSUME NEW in, NEW srv, NEW inb, NEW dl, NEW sent, NEW v5, NEW inside, NEW gone,
           Inbound(in, srv, inb, dl, sent, v5, inside, gone), NEW gone2, gone2 \/ ~gone
    PROVE  Inbound(<<>>, srv, inb, dl, sent, v5, inside, gone2)
<1>1. \A i \in SrvIds, m \in SrvMsgs : At(<<>>, srv, inb, i, m) => At(in, srv, inb, i, m)
    BY DEF At
<1>2. Thinned(inb, inb) /\ SameQoS2(dl, dl) /\ Expects(srv, srv)
    BY DEF Thinned, SameQoS2, Expects
<1>3. Publishes(<<>>, in)
    BY DEF Publishes
<1>4. Placed(<<>>, srv, inb, dl, sent)
    BY <1>1 DEF Placed, Inbound
<1>5. Fresh(<<>>, inb, dl) /\ Follows(<<>>, srv)
    BY DEF Fresh, Follows
<1>6. gone2 \/ (~gone /\ inb = inb) \/ (srv = {} /\ <<>> = <<>>)
    OBVIOUS
<1>7. Once(<<>>, srv, inb, dl, v5, inside, gone2)
    BY <1>2, <1>3, <1>6, OnceFewer DEF Inbound
<1> QED BY <1>4, <1>5, <1>7 DEF Inbound

LEMMA InOnceAfter ==
    ASSUME InBefore, UNCHANGED <<srvOut, srvSent, connected>>, rcvdKeys' = inboundMsgs', connected,
           NEW inb2, inboundMsgs' = inb2, NEW dl2, delivered' = dl2, NEW in2, s2c' = in2,
           Inbound(in2, Srv, inb2, dl2, srvSent, V5, scenario.inside, Gone)
    PROVE  InOnce'
<1>1. Srv' = Srv /\ Distinct(srvOut') /\ UNCHANGED scenario /\ V5' = V5 /\ Gone' = Gone
    BY InBeforeFacts DEF Srv, Gone
<1> QED BY <1>1 DEF InOnce

LEMMA HandlePublishIn ==
    ASSUME InBefore, NEW p, HandlePublish(p)
    PROVE  InOnce'
<1>1. /\ connected /\ s2c # <<>> /\ p = Head(s2c) /\ s2c' = Tail(s2c)
      /\ p.type = "PUBLISH" /\ p \in ToClient /\ Left(s2c', s2c, 1) /\ ~Gone
    BY ReadIn DEF HandlePublish
<1>2. p.id \in SrvIds /\ p.m \in SrvMsgs
    BY <1>1, ToClientFields
<1>3. UNCHANGED <<connected, srvOut, srvSent>>
    BY DEF HandlePublish, serverVars
<1>4. CASE HandlePublishQoS1(p)
    <2>1. /\ p.m \in SrvMsgs1 /\ UNCHANGED <<inboundMsgs, rcvdKeys>>
          /\ delivered' = [delivered EXCEPT ![p.m] = AtMost2(@)]
        BY <1>4 DEF HandlePublishQoS1, Deliver
    <2>2. SameQoS2(delivered', delivered)
        BY <2>1, InBeforeFacts, SessionAssumption DEF SameQoS2, SrvMsgs
    <2>3. GotIsSent(delivered', srvSent)
        BY <2>2, InBeforeFacts DEF GotIsSent, SameQoS2
    <2>4. Distinct(srvOut') /\ Srv' \subseteq Srv
        BY <1>3, InBeforeFacts DEF Srv
    <2>5. connected' /\ rcvdKeys' = inboundMsgs' /\ inboundMsgs' = inboundMsgs
        BY <1>1, <1>3, <2>1, InBeforeFacts
    <2> QED BY <1>1, <1>3, <2>2, <2>3, <2>4, <2>5, InBeforeFacts, InKept
<1>5. CASE HandlePublishQoS2(p)
    <2> DEFINE inb2 == [inboundMsgs EXCEPT ![p.id] = p.m]
               dl2 == [delivered EXCEPT ![p.m] = AtMost2(@)]
               in2 == Tail(s2c)
    <2>1. /\ p.m \in SrvMsgs2 /\ inboundMsgs' = inb2 /\ rcvdKeys' = inb2
          /\ IF V5 /\ inboundMsgs[p.id] = None THEN delivered' = dl2 ELSE delivered' = delivered
        BY <1>5, InBeforeFacts DEF HandlePublishQoS2, Deliver
    <2>2. IsPublish(p) /\ InTypes(s2c, Srv, inboundMsgs, delivered)
        BY <1>1, InBeforeFacts DEF IsPublish, InTypes
    <2>3. Sets(inb2, inboundMsgs, p.id, p.m) /\ Counts(dl2, delivered, p.m)
        BY DEF Sets, Counts
    <2> HIDE DEF inb2, dl2
    <2>4. /\ Inbound(in2, Srv, inb2, delivered, srvSent, V5, scenario.inside, Gone)
          /\ V5 /\ inboundMsgs[p.id] = None =>
                Inbound(in2, Srv, inb2, dl2, srvSent, V5, scenario.inside, Gone)
        BY <1>1, <2>1, <2>2, <2>3, InBeforeFacts, TakeIn
    <2> QED BY <1>1, <1>3, <2>1, <2>4, InOnceAfter
<1> QED BY <1>4, <1>5 DEF HandlePublish

LEMMA HandlePubrelIn ==
    ASSUME InBefore, NEW p, HandlePubrel(p)
    PROVE  InOnce'
<1>1. /\ connected /\ s2c # <<>> /\ p = Head(s2c) /\ s2c' = Tail(s2c)
      /\ p.type = "PUBREL" /\ p \in ToClient /\ Left(s2c', s2c, 1) /\ ~Gone
    BY ReadIn DEF HandlePubrel
<1>2. UNCHANGED <<connected, srvOut, srvSent>>
    BY DEF HandlePubrel, serverVars
<1>3. CASE ReleaseInbound(p.id)
    <2> DEFINE inb2 == [inboundMsgs EXCEPT ![p.id] = None]
               dl2 == IF V5 THEN delivered
                      ELSE [delivered EXCEPT ![inboundMsgs[p.id]] = AtMost2(@)]
               in2 == Tail(s2c)
    <2>1. inboundMsgs[p.id] # None /\ inboundMsgs' = inb2 /\ rcvdKeys' = inb2 /\ delivered' = dl2
        BY <1>3, InBeforeFacts DEF ReleaseInbound, Deliver
    <2>2. IsRel(p) /\ InTypes(s2c, Srv, inboundMsgs, delivered)
        BY <1>1, InBeforeFacts DEF IsRel, InTypes
    <2>3. /\ Sets(inb2, inboundMsgs, p.id, None)
          /\ V5 => dl2 = delivered
          /\ ~V5 => Counts(dl2, delivered, inboundMsgs[p.id])
        BY DEF Sets, Counts
    <2> HIDE DEF inb2, dl2
    <2>4. Inbound(in2, Srv, inb2, dl2, srvSent, V5, scenario.inside, Gone)
        BY <1>1, <2>1, <2>2, <2>3, InBeforeFacts, ReleaseIn
    <2> QED BY <1>1, <1>2, <2>1, <2>4, InOnceAfter
<1>4. CASE UNCHANGED <<delivered, rcvdKeys, inboundMsgs>>
    BY <1>1, <1>2, <1>4, OtherIn
<1> QED BY <1>3, <1>4 DEF HandlePubrel

LEMMA ClientStepIn ==
    ASSUME InBefore, ClientStep
    PROVE  InOnce'
<1>1. ASSUME NEW p, NEW type, HandleFinalAck(p, type) PROVE InOnce'
    <2>1. UNCHANGED <<srvSent, srvOut, inboundMsgs, rcvdKeys, delivered, connected>>
        BY <1>1 DEF HandleFinalAck, serverVars
    <2> QED BY <1>1, <2>1, ReadIn, OtherIn DEF HandleFinalAck
<1>2. ASSUME NEW p, HandlePubrec(p) PROVE InOnce'
    <2>1. UNCHANGED <<srvSent, srvOut, inboundMsgs, rcvdKeys, delivered, connected>>
        BY <1>2 DEF HandlePubrec, serverVars
    <2> QED BY <1>2, <2>1, ReadIn, OtherIn DEF HandlePubrec
<1>3. CASE WriteAvailable
    <2>1. UNCHANGED <<srvSent, srvOut, inboundMsgs, rcvdKeys, delivered, connected, s2c>> /\ connected
        BY <1>3 DEF WriteAvailable, serverVars, appVars
    <2> QED BY <2>1, InBeforeFacts, LeftSame, OtherIn
<1> QED BY <1>1, <1>2, <1>3, HandlePublishIn, HandlePubrelIn DEF ClientStep, HandlePuback, HandlePubcomp

LEMMA RemovedEntry ==
    ASSUME NEW out \in Seq(SrvEntry), Distinct(out), NEW k \in DOMAIN out
    PROVE  /\ Distinct(RemoveAt(out, k))
           /\ {RemoveAt(out, k)[j] : j \in DOMAIN RemoveAt(out, k)} =
                 {out[j] : j \in DOMAIN out} \ {out[k]}
<1> DEFINE r == RemoveAt(out, k)
<1>1. DOMAIN out = 1 .. Len(out) /\ Len(out) \in Nat
    BY SeqFacts
<1>2. /\ DOMAIN r = 1 .. (Len(out) - 1)
      /\ \A j \in DOMAIN r : r[j] = IF j < k THEN out[j] ELSE out[j + 1]
    BY RemoveAtFacts
<1> HIDE DEF r
<1> DEFINE From(j) == IF j < k THEN j ELSE j + 1
<1>3. \A j \in DOMAIN r : From(j) \in DOMAIN out /\ r[j] = out[From(j)] /\ From(j) # k
    BY <1>1, <1>2
<1>4. \A j, h \in DOMAIN r : From(j) = From(h) => j = h
    BY <1>1, <1>2
<1>5. \A j \in DOMAIN out : j # k => \E h \in DOMAIN r : From(h) = j
    <2> SUFFICES ASSUME NEW j \in DOMAIN out, j # k PROVE \E h \in DOMAIN r : From(h) = j
        OBVIOUS
    <2>1. CASE j < k
        <3>1. j \in DOMAIN r /\ From(j) = j
            BY <1>1, <1>2, <2>1
        <3> QED BY <3>1
    <2>2. CASE ~(j < k)
        <3>1. j - 1 \in DOMAIN r /\ From(j - 1) = j
            BY <1>1, <1>2, <2>2
        <3> QED BY <3>1
    <2> QED BY <2>1, <2>2
<1> HIDE DEF From
<1>6. Distinct(r)
    BY <1>3, <1>4 DEF Distinct
<1>7. \A j \in DOMAIN out : j # k => out[j] # out[k]
    BY DEF Distinct
<1>8. {r[j] : j \in DOMAIN r} \subseteq {out[j] : j \in DOMAIN out} \ {out[k]}
    BY <1>3, <1>7
<1>9. {out[j] : j \in DOMAIN out} \ {out[k]} \subseteq {r[j] : j \in DOMAIN r}
    BY <1>3, <1>5
<1> QED BY <1>6, <1>8, <1>9 DEF r

(* What SrvPubrec makes of the server's exchanges. *)
LEMMA PubrecEntries ==
    ASSUME InBefore, NEW p, SrvPubrec(p)
    PROVE  Distinct(srvOut') /\ Released2(Srv', Srv, p.id)
<1>1. srvOut \in Seq(SrvEntry) /\ Distinct(srvOut) /\ \A k \in DOMAIN srvOut : srvOut[k] \in SrvEntry
    BY InBeforeFacts, SeqFacts
<1>2. /\ DOMAIN srvOut' = DOMAIN srvOut
      /\ \A k \in DOMAIN srvOut : srvOut'[k] =
            IF srvOut[k].id = p.id /\ srvOut[k].next = "PUBREC"
            THEN [srvOut[k] EXCEPT !.next = "PUBCOMP"] ELSE srvOut[k]
    BY DEF SrvPubrec, SrvWaiting
<1>3. \A k \in DOMAIN srvOut :
         /\ srvOut'[k].id = srvOut[k].id /\ srvOut'[k].m = srvOut[k].m
         /\ srvOut'[k] = srvOut[k] \/ (srvOut[k].next = "PUBREC" /\ srvOut'[k].next = "PUBCOMP")
         /\ srvOut'[k].id = p.id => srvOut'[k].next # "PUBREC"
    BY <1>1, <1>2 DEF SrvEntry
<1>4. Distinct(srvOut')
    BY <1>1, <1>2, <1>3 DEF Distinct
<1>5. Released2(Srv', Srv, p.id)
    BY <1>2, <1>3 DEF Released2, Srv
<1> QED BY <1>4, <1>5

(* What the server answers to a PUBLISH and a PUBREL. *)
LEMMA SrvPublishReplies ==
    ASSUME StateOK, NEW p, SrvPublish(p)
    PROVE  \E q \in ToClient : SrvReply(q) /\ ~Forth(q)
<1>1. p \in ToServer /\ p.type = "PUBLISH"
    BY SrvReceiveType DEF SrvPublish
<1>2. p.id \in Ids
    BY <1>1, ToServerFields
<1> DEFINE q1 == Packet("PUBACK", p.id, None)
           q2 == [Packet("PUBACK", p.id, None) EXCEPT !.ok = FALSE]
           q3 == Packet("PUBREC", p.id, None)
           q4 == PubrecError(p.id)
<1>3. /\ q1 \in ToClient /\ ~Forth(q1) /\ q2 \in ToClient /\ ~Forth(q2)
      /\ q3 \in ToClient /\ ~Forth(q3) /\ q4 \in ToClient /\ ~Forth(q4)
    <2>1. q1 \in ToClient /\ q2 \in ToClient /\ q3 \in ToClient /\ q4 \in ToClient
        BY <1>2 DEF Packet, PubrecError, ToClient
    <2>2. q1.type = "PUBACK" /\ q3.type = "PUBREC" /\ q4.type = "PUBREC"
        BY DEF Packet, PubrecError
    <2>3. q2.type = "PUBACK"
        <3> DEFINE a == Packet("PUBACK", p.id, None)
        <3>1. a = [type |-> "PUBACK", id |-> p.id, m |-> None, ok |-> TRUE]
            BY DEF Packet
        <3> HIDE DEF a
        <3>2. [a EXCEPT !.ok = FALSE].type = a.type
            BY <3>1
        <3> QED BY <3>1, <3>2 DEF a
    <2> HIDE DEF q1, q2, q3, q4
    <2> QED BY <2>1, <2>2, <2>3 DEF Forth
<1>4. SrvReply(q1) \/ SrvReply(q2) \/ SrvReply(q3) \/ SrvReply(q4)
    BY DEF SrvPublish, SrvPublishQoS1, SrvPublishQoS2
<1> HIDE DEF q1, q2, q3, q4
<1> QED BY <1>3, <1>4

LEMMA SrvPubrelReplies ==
    ASSUME StateOK, NEW p, SrvPubrel(p)
    PROVE  \E q \in ToClient : SrvReply(q) /\ ~Forth(q)
<1>1. p \in ToServer /\ p.type = "PUBREL"
    BY SrvReceiveType DEF SrvPubrel
<1>2. p.id \in Ids
    BY <1>1, ToServerFields
<1> DEFINE q == Packet("PUBCOMP", p.id, None)
<1>3. q \in ToClient /\ ~Forth(q)
    BY <1>2 DEF Packet, ToClient, Forth
<1>4. SrvReply(q)
    BY DEF SrvPubrel
<1> HIDE DEF q
<1> QED BY <1>3, <1>4

LEMMA ServerStepIn ==
    ASSUME InBefore, ServerStep
    PROVE  InOnce'
<1>1. ASSUME NEW q \in ToClient, SrvReply(q), ~Forth(q),
             UNCHANGED <<srvSent, srvOut, inboundMsgs, rcvdKeys, delivered, connected>>
      PROVE  InOnce'
    <2>1. Left(s2c', s2c, 0) /\ (connected \/ s2c' = <<>>)
        BY <1>1, InBeforeFacts, ReplyGrows
    <2> QED BY <1>1, <2>1, OtherIn
<1>2. ASSUME NEW p, SrvPublish(p) PROVE InOnce'
    <2>1. UNCHANGED <<srvSent, srvOut, inboundMsgs, rcvdKeys, delivered, connected>>
        BY <1>2 DEF SrvPublish, clientVars, storeVars
    <2> QED BY <1>1, <1>2, <2>1, InBeforeFacts, SrvPublishReplies
<1>3. ASSUME NEW p, SrvPubrel(p) PROVE InOnce'
    <2>1. UNCHANGED <<srvSent, srvOut, inboundMsgs, rcvdKeys, delivered, connected>>
        BY <1>3 DEF SrvPubrel, clientVars, storeVars, appVars
    <2> QED BY <1>1, <1>3, <2>1, InBeforeFacts, SrvPubrelReplies
<1>4. ASSUME NEW p, SrvFinalAck(p) PROVE InOnce'
    <2>1. UNCHANGED <<srvSent, inboundMsgs, rcvdKeys, delivered, connected, s2c>>
        BY <1>4 DEF SrvFinalAck, clientVars, storeVars
    <2>2. Distinct(srvOut') /\ Srv' \subseteq Srv
        <3>1. ASSUME NEW k \in DOMAIN srvOut, srvOut' = RemoveAt(srvOut, k)
              PROVE  Distinct(srvOut') /\ Srv' \subseteq Srv
            <4> DEFINE r == RemoveAt(srvOut, k)
            <4>1. /\ Distinct(r)
                  /\ {r[j] : j \in DOMAIN r} = {srvOut[j] : j \in DOMAIN srvOut} \ {srvOut[k]}
                BY <3>1, InBeforeFacts, RemovedEntry
            <4> HIDE DEF r
            <4>2. srvOut' = r
                BY <3>1 DEF r
            <4>3. Srv' = {r[j] : j \in DOMAIN r}
                BY <4>2 DEF Srv
            <4> QED BY <4>1, <4>2, <4>3 DEF Srv
        <3>2. CASE srvOut' = srvOut
            BY <3>2, InBeforeFacts DEF Srv
        <3> QED BY <1>4, <3>1, <3>2 DEF SrvFinalAck, SrvWaiting
    <2>3. Left(s2c', s2c, 0) /\ (~connected' => s2c' = <<>>) /\ rcvdKeys' = inboundMsgs'
        BY <2>1, InBeforeFacts, LeftSame DEF InOnce
    <2> QED BY <2>1, <2>2, <2>3, InBeforeFacts, InKept
<1>5. ASSUME NEW p, SrvPubrec(p) PROVE InOnce'
    <2>1. UNCHANGED <<srvSent, inboundMsgs, rcvdKeys, delivered, connected>>
        BY <1>5 DEF SrvPubrec, clientVars, storeVars, appVars
    <2>2. p \in ToServer /\ p.type = "PUBREC"
        BY <1>5, InBeforeFacts, SrvReceiveType DEF SrvPubrec
    <2>3. p.id \in SrvIds
        BY <2>2, ToServerFields
    <2> DEFINE q == Packet("PUBREL", p.id, None)
               n == Len(s2c) + 1
    <2>4. q \in ToClient /\ SrvReply(q)
        BY <1>5, <2>3 DEF Packet, ToClient, SrvPubrec
    <2> HIDE DEF q, n
    <2>5. Grows(s2c', s2c, q, n) /\ n \in Int /\ (~connected => s2c' = <<>>)
        BY <2>4, InBeforeFacts, ReplyGrows DEF n
    <2>6. Distinct(srvOut') /\ Released2(Srv', Srv, p.id)
        BY <1>5, PubrecEntries
    <2> DEFINE in2 == s2c'
               srv2 == Srv'
    <2>7. Grows(in2, s2c, Packet("PUBREL", p.id, None), n) /\ n \in Int /\ Released2(srv2, Srv, p.id)
        BY <2>5, <2>6 DEF q
    <2> HIDE DEF in2, srv2
    <2>8. Inbound(in2, srv2, inboundMsgs, delivered, srvSent, V5, scenario.inside, Gone)
        BY <2>7, InBeforeFacts, ReleasedIn
    <2>9. Gone' = Gone /\ V5' = V5 /\ UNCHANGED scenario
        BY <2>1, InBeforeFacts DEF Gone
    <2> QED BY <2>1, <2>5, <2>6, <2>8, <2>9, InBeforeFacts DEF InOnce, in2, srv2
<1> QED BY <1>2, <1>3, <1>4, <1>5 DEF ServerStep

LEMMA SrvSendIn ==
    ASSUME InBefore, NEW m \in SrvMsgs, SrvSend(m)
    PROVE  InOnce'
<1>1. /\ connected /\ m \notin srvSent /\ srvSent' = srvSent \cup {m}
      /\ UNCHANGED <<inboundMsgs, rcvdKeys, delivered, connected>>
    BY DEF SrvSend, clientVars, storeVars
<1>2. PICK i \in SrvIds :
         /\ \A k \in DOMAIN srvOut : srvOut[k].id # i
         /\ srvOut' = Append(srvOut,
               [id |-> i, m |-> m, next |-> IF m \in SrvMsgs2 THEN "PUBREC" ELSE "PUBACK"])
         /\ SrvReply(Packet("PUBLISH", i, m))
    BY DEF SrvSend
<1> DEFINE e == [id |-> i, m |-> m, next |-> IF m \in SrvMsgs2 THEN "PUBREC" ELSE "PUBACK"]
           q == Packet("PUBLISH", i, m)
           n == Len(s2c) + 1
<1>3. e \in SrvEntry /\ e.id = i /\ e.m = m /\ e.next = IF m \in SrvMsgs2 THEN "PUBREC" ELSE "PUBACK"
    BY DEF SrvEntry
<1>4. q \in ToClient /\ SrvReply(q) /\ srvOut' = Append(srvOut, e)
    BY <1>2 DEF Packet, ToClient
<1> HIDE DEF e, q, n
<1>5. Grows(s2c', s2c, q, n) /\ n \in DOMAIN s2c'
    BY <1>1, <1>4, InBeforeFacts, ReplyGrows DEF n
<1>6. \A f \in Srv : f.m # m
    <2> SUFFICES ASSUME NEW f \in Srv, f.m = m PROVE FALSE
        OBVIOUS
    <2>1. f.id \in SrvIds /\ At(s2c, Srv, inboundMsgs, f.id, m)
        BY InBeforeFacts DEF At, SrvEntry
    <2> QED BY <1>1, <2>1, InBeforeFacts DEF Inbound, Placed
<1>7. Distinct(srvOut') /\ Srv' = Srv \cup {e}
    <2> DEFINE out2 == srvOut'
    <2>1. /\ DOMAIN srvOut = 1 .. Len(srvOut) /\ Len(srvOut) \in Nat
          /\ DOMAIN out2 = 1 .. (Len(srvOut) + 1) /\ out2[Len(srvOut) + 1] = e
          /\ \A k \in DOMAIN srvOut : out2[k] = srvOut[k]
        BY <1>3, <1>4, InBeforeFacts, SeqFacts, AppendFacts
    <2> HIDE DEF out2
    <2>2. \A k \in DOMAIN out2 : k \in DOMAIN srvOut \/ k = Len(srvOut) + 1
        BY <2>1
    <2>3. DOMAIN srvOut \subseteq DOMAIN out2 /\ Len(srvOut) + 1 \in DOMAIN out2
        BY <2>1
    <2>4. \A k \in DOMAIN srvOut : srvOut[k].id # i /\ srvOut[k].m # m
        BY <1>2, <1>6 DEF Srv
    <2>5. Distinct(out2)
        BY <1>3, <2>1, <2>2, <2>4, InBeforeFacts DEF Distinct
    <2>6. {out2[k] : k \in DOMAIN out2} = {srvOut[k] : k \in DOMAIN srvOut} \cup {e}
        BY <2>1, <2>2, <2>3
    <2> QED BY <2>5, <2>6 DEF out2, Srv
<1> DEFINE in2 == s2c'
<1>8. Grows(in2, s2c, Packet("PUBLISH", i, m), n) /\ n \in DOMAIN in2 /\ n \in Int
    <2>1. Len(s2c) \in Nat
        BY InBeforeFacts, SeqFacts
    <2> QED BY <1>5, <2>1 DEF q, n
<1> HIDE DEF in2
<1>9. Inbound(in2, Srv \cup {e}, inboundMsgs, delivered, srvSent \cup {m}, V5, scenario.inside, Gone)
    BY <1>1, <1>3, <1>8, InBeforeFacts, SendIn
<1>10. Gone' = Gone /\ V5' = V5 /\ UNCHANGED scenario
    BY <1>1, InBeforeFacts DEF Gone
<1> QED BY <1>1, <1>7, <1>9, <1>10, InBeforeFacts DEF InOnce, in2

(* What a retry does to what is known of the server's messages. *)
LEMMA LoopIn ==
    ASSUME NEW f, NEW regardless, NEW outcome, NEW wire, NEW incoming, NEW now,
           RetryLoop(f, regardless, outcome, wire, incoming, now)
    PROVE  \/ /\ CloseSocket
              /\ UNCHANGED <<inboundMsgs, rcvdKeys>> \/ (CleanSession /\ EmptySession)
           \/ connected' = TRUE /\ s2c' = incoming /\ UNCHANGED <<inboundMsgs, rcvdKeys>>
BY DEF RetryLoop, Transmit, CleansOnClose

LEMMA RetryIn ==
    ASSUME InBefore, Retry
    PROVE  InOnce'
<1>1. connected /\ UNCHANGED <<srvSent, srvOut, delivered>>
    BY DEF Retry, serverVars, appVars
<1> DEFINE Goes == connected' = TRUE /\ s2c' = s2c /\ UNCHANGED <<inboundMsgs, rcvdKeys>>
           Ends == CloseSocket /\ (UNCHANGED <<inboundMsgs, rcvdKeys>> \/ (CleanSession /\ EmptySession))
<1>2. Goes \/ Ends
    BY LoopIn DEF Retry
<1>3. ASSUME Goes PROVE InOnce'
    <2>1. connected' = connected
        BY <1>1, <1>3, InBeforeFacts DEF StateOK
    <2> QED BY <1>1, <1>3, <2>1, InBeforeFacts, LeftSame, OtherIn
<1>4. ASSUME Ends PROVE InOnce'
    <2>1. UNCHANGED <<srvSent, delivered>> /\ UNCHANGED srvOut
        BY <1>1
    <2> QED BY <1>4, <2>1, ClosedIn
<1> HIDE DEF Goes, Ends
<1> QED BY <1>2, <1>3, <1>4

LEMMA ReconnectIn ==
    ASSUME InBefore, NEW fresh \in BOOLEAN, Reconnect(fresh)
    PROVE  InOnce'
<1>1. /\ ~connected /\ UNCHANGED <<srvSent, delivered>> /\ s2c = <<>>
      /\ fresh => srvOut' = <<>>
      /\ ~fresh => srvOut' = srvOut /\ ~CleanSession
    BY InBeforeFacts DEF Reconnect, serverVars, appVars, InOnce
<1> DEFINE incoming == IF fresh THEN <<>> ELSE SrvResend
<1>2. \/ /\ CloseSocket
         /\ UNCHANGED <<inboundMsgs, rcvdKeys>> \/ (CleanSession /\ EmptySession)
      \/ /\ connected' = TRUE /\ s2c' = incoming
         /\ UNCHANGED <<inboundMsgs, rcvdKeys>> \/ (fresh /\ EmptySession)
    <2>1. ASSUME CleanSession \/ (fresh /\ AsyncAPI), EmptySession, connected' = TRUE, s2c' = incoming
          PROVE  /\ connected' = TRUE /\ s2c' = incoming
                 /\ UNCHANGED <<inboundMsgs, rcvdKeys>> \/ (fresh /\ EmptySession)
        BY <1>1, <2>1
    <2>2. ASSUME UNCHANGED sessionVars
          PROVE  UNCHANGED <<inboundMsgs, rcvdKeys>>
        BY <2>2 DEF sessionVars
    <2>3. ASSUME NEW f, NEW outcome, RetryLoop(f, TRUE, outcome, <<>>, incoming, {})
          PROVE  \/ /\ CloseSocket
                    /\ UNCHANGED <<inboundMsgs, rcvdKeys>> \/ (CleanSession /\ EmptySession)
                 \/ connected' = TRUE /\ s2c' = incoming /\ UNCHANGED <<inboundMsgs, rcvdKeys>>
        <3> DEFINE yes == TRUE
                   nothing == <<>>
                   none == {}
        <3>1. RetryLoop(f, yes, outcome, nothing, incoming, none)
            BY <2>3
        <3> HIDE DEF yes, nothing, none, incoming
        <3> QED BY <3>1, LoopIn
    <2> QED BY <2>1, <2>2, <2>3 DEF Reconnect
<1>3. CASE /\ CloseSocket
           /\ UNCHANGED <<inboundMsgs, rcvdKeys>> \/ (CleanSession /\ EmptySession)
    BY <1>1, <1>3, ClosedIn
<1>4. CASE fresh /\ connected' = TRUE /\ s2c' = incoming
    <2>1. UNCHANGED <<inboundMsgs, rcvdKeys>> \/ EmptySession
        BY <1>2
    <2>2. s2c' = <<>> /\ srvOut' = <<>>
        BY <1>1, <1>4
    <2>3. Srv' = {} /\ Distinct(srvOut')
        BY <2>2 DEF Srv, Distinct
    <2>4. Srv' \subseteq Srv /\ Left(s2c', s2c, 0)
        BY <2>2, <2>3, LeftNone
    <2>5. /\ rcvdKeys' = inboundMsgs'
          /\ inboundMsgs' = inboundMsgs \/ inboundMsgs' = [i \in SrvIds |-> None]
        BY <2>1, InBeforeFacts DEF EmptySession
    <2>6. SameQoS2(delivered', delivered) /\ GotIsSent(delivered', srvSent)
        BY <1>1, InBeforeFacts
    <2> QED BY <1>1, <2>2, <2>3, <2>4, <2>5, <2>6, InBeforeFacts, InKept
<1>5. CASE ~fresh /\ connected' = TRUE /\ s2c' = incoming
    <2>1. UNCHANGED <<inboundMsgs, rcvdKeys, srvOut, srvSent, delivered>> /\ ~CleanSession
        BY <1>1, <1>2, <1>5, InBeforeFacts DEF CloseSocket
    <2> DEFINE in2 == SrvResend
    <2>2. /\ s2c' = in2 /\ DOMAIN in2 = DOMAIN srvOut
          /\ \A k \in DOMAIN srvOut : in2[k] =
                IF srvOut[k].next = "PUBCOMP" THEN Packet("PUBREL", srvOut[k].id, None)
                ELSE Packet("PUBLISH", srvOut[k].id, srvOut[k].m)
        BY <1>5 DEF SrvResend
    <2> HIDE DEF in2
    <2>3. in2 \in Seq(ToClient)
        BY <2>2, InBeforeFacts
    <2>4. Inbound(<<>>, Srv, inboundMsgs, delivered, srvSent, V5, scenario.inside, Gone)
        BY <1>1, InBeforeFacts
    <2>5. Srv = {srvOut[k] : k \in DOMAIN srvOut}
        BY DEF Srv
    <2>6. Inbound(in2, Srv, inboundMsgs, delivered, srvSent, V5, scenario.inside, Gone)
        BY <2>2, <2>3, <2>4, <2>5, InBeforeFacts, ResumeIn
    <2>7. Gone' = Gone /\ V5' = V5 /\ Srv' = Srv /\ UNCHANGED scenario
        BY <2>1, InBeforeFacts DEF Gone, Srv
    <2> QED BY <1>5, <2>1, <2>2, <2>6, <2>7, InBeforeFacts DEF InOnce
<1> QED BY <1>2, <1>3, <1>4, <1>5

(* The program is killed: what is in transit to it is lost. *)
LEMMA CrashIn ==
    ASSUME InBefore, Crash
    PROVE  InOnce'
<1>1. /\ CloseSocket /\ UNCHANGED <<srvSent, delivered, srvOut, inboundMsgs, rcvdKeys>>
    BY InBeforeFacts DEF Crash, Restore, RestoredInbound, serverVars, appVars
<1> QED BY <1>1, ClosedIn

LEMMA CrashInHandlerIn ==
    ASSUME InBefore, NEW p, CrashInHandler(p)
    PROVE  InOnce'
<1>1. /\ connected /\ s2c # <<>> /\ p = Head(s2c) /\ scenario.inside /\ ~Gone
      /\ UNCHANGED <<srvSent, srvOut>> /\ p \in ToClient
    <2>1. connected /\ s2c # <<>> /\ p = Head(s2c)
        BY DEF CrashInHandler
    <2>2. p \in ToClient
        BY <2>1, InBeforeFacts, HeadTailProperties
    <2> QED BY <2>1, <2>2 DEF CrashInHandler, Gone, serverVars
<1>2. CASE /\ p.type = "PUBLISH" /\ p.m \in SrvMsgs2
           /\ Restore(sentKeys, pubrelKeys, [rcvdKeys EXCEPT ![p.id] = p.m])
           /\ UNCHANGED delivered
    <2> DEFINE inb2 == [inboundMsgs EXCEPT ![p.id] = p.m]
               gone2 == Gone'
    <2>1. CloseSocket /\ inboundMsgs' = inb2 /\ rcvdKeys' = inb2
        BY <1>2, InBeforeFacts DEF Restore, RestoredInbound
    <2>2. IsPublish(p) /\ InTypes(s2c, Srv, inboundMsgs, delivered)
        BY <1>1, <1>2, InBeforeFacts DEF IsPublish, InTypes
    <2>3. Sets(inb2, inboundMsgs, p.id, p.m) /\ Counts([delivered EXCEPT ![p.m] = AtMost2(@)], delivered, p.m)
        BY DEF Sets, Counts
    <2> HIDE DEF inb2, gone2
    <2>4. Inbound(Tail(s2c), Srv, inb2, delivered, srvSent, V5, scenario.inside, Gone)
        BY <1>1, <1>2, <2>2, <2>3, InBeforeFacts, TakeIn
    <2>5. Inbound(<<>>, Srv, inb2, delivered, srvSent, V5, scenario.inside, gone2)
        <3>1. gone2 \/ ~Gone
            BY <1>1
        <3> QED BY <2>4, <3>1, DropIn
    <2>6. V5' = V5 /\ Srv' = Srv /\ UNCHANGED scenario /\ s2c' = <<>> /\ connected' = FALSE
        BY <1>1, <2>1, InBeforeFacts DEF Srv, CloseSocket
    <2> QED BY <1>1, <1>2, <2>1, <2>5, <2>6, InBeforeFacts DEF InOnce, gone2
<1>3. CASE /\ p.type = "PUBREL" /\ ~V5 /\ inboundMsgs[p.id] # None
           /\ Deliver(inboundMsgs[p.id])
           /\ Restore(sentKeys, pubrelKeys, rcvdKeys)
    <2>1. CloseSocket /\ UNCHANGED <<inboundMsgs, rcvdKeys>>
        BY <1>3, InBeforeFacts DEF Restore, RestoredInbound
    <2>2. connected' = FALSE /\ s2c' = <<>>
        BY <2>1 DEF CloseSocket
    <2>3. Distinct(srvOut') /\ Srv' \subseteq Srv /\ Left(s2c', s2c, 0)
        BY <1>1, <2>2, InBeforeFacts, LeftNone DEF Srv
    <2> DEFINE x == inboundMsgs[p.id]
    <2>4. p.id \in SrvIds /\ x \in SrvMsgs2
        BY <1>1, <1>3, ToClientFields, InBeforeFacts
    <2>5. At(s2c, Srv, inboundMsgs, p.id, x)
        BY DEF At
    <2>6. x \in srvSent
        BY <2>4, <2>5, InBeforeFacts DEF Inbound, Placed, SrvMsgs
    <2>7. delivered' = [delivered EXCEPT ![x] = AtMost2(@)]
        BY <1>3 DEF Deliver
    <2> HIDE DEF x
    <2>8. GotIsSent(delivered', srvSent)
        BY <2>6, <2>7, InBeforeFacts DEF GotIsSent, SrvMsgs
    <2> QED BY <1>1, <1>3, <2>1, <2>2, <2>3, <2>8, InBeforeFacts, InKept
<1>4. CASE Restore([sentKeys EXCEPT ![p.id] = None], pubrelKeys, rcvdKeys) /\ UNCHANGED delivered
    <2>1. CloseSocket /\ UNCHANGED <<inboundMsgs, rcvdKeys>>
        BY <1>4, InBeforeFacts DEF Restore, RestoredInbound
    <2> QED BY <1>1, <1>4, <2>1, ClosedIn
<1> QED BY <1>2, <1>3, <1>4 DEF CrashInHandler

LEMMA InOnceStep ==
    ASSUME StateOK, InOnce, [Next]_vars
    PROVE  InOnce'
<1>1. InBefore
    <2>1. StateOK'
        BY TypeStep
    <2>2. UNCHANGED scenario
        BY DEF Next, ClientStep, ServerStep, Connect, Event, vars
    <2> QED BY <2>1, <2>2 DEF InBefore
<1>2. CASE ConnectionLost
    <2>1. /\ CloseSocket /\ UNCHANGED <<srvSent, srvOut, delivered>>
          /\ UNCHANGED <<inboundMsgs, rcvdKeys>> \/ (CleanSession /\ EmptySession)
        BY <1>2 DEF ConnectionLost, serverVars, appVars, sessionVars, CleansOnClose
    <2> QED BY <1>1, <2>1, ClosedIn
<1>3. ASSUME NEW m \in Msgs, Publish(m) PROVE InOnce'
    <2>1. UNCHANGED <<srvSent, srvOut, inboundMsgs, rcvdKeys, delivered, connected, s2c>> /\ connected
        BY <1>3 DEF Publish, serverVars
    <2> QED BY <1>1, <2>1, InBeforeFacts, LeftSame, OtherIn
<1>4. CASE UNCHANGED vars
    BY <1>4 DEF vars, clientVars, storeVars, netVars, serverVars, appVars, InOnce, Srv, Gone,
                V5, CleanSession
<1>5. CASE \E m \in SrvMsgs : SrvSend(m)
    BY <1>1, <1>5, SrvSendIn
<1> QED BY <1>1, <1>2, <1>3, <1>4, <1>5, ClientStepIn, ServerStepIn, RetryIn, ReconnectIn,
           CrashIn, CrashInHandlerIn DEF Next, Event, Connect

LEMMA InOnceInit == Init => InOnce
<1> SUFFICES ASSUME Init PROVE InOnce
    OBVIOUS
<1>1. /\ rcvdKeys = inboundMsgs /\ s2c = <<>> /\ srvOut = <<>> /\ srvSent = {}
      /\ \A i \in SrvIds : inboundMsgs[i] = None
      /\ \A m \in SrvMsgs : delivered[m] = 0
    BY DEF Init
<1>2. Srv = {} /\ Distinct(srvOut)
    BY <1>1 DEF Srv, Distinct
<1>3. \A i \in SrvIds, m \in SrvMsgs : ~At(s2c, Srv, inboundMsgs, i, m)
    BY <1>1, <1>2, NoneFacts DEF At
<1>4. \A m \in SrvMsgs2 : delivered[m] = 0
    BY <1>1 DEF SrvMsgs
<1>5. Placed(s2c, Srv, inboundMsgs, delivered, srvSent)
    BY <1>1, <1>2, <1>3, <1>4 DEF Placed
<1>6. Fresh(s2c, inboundMsgs, delivered) /\ Follows(s2c, Srv)
    BY <1>1, <1>2 DEF Fresh, Follows
<1>7. Once(s2c, Srv, inboundMsgs, delivered, V5, scenario.inside, Gone)
    BY <1>4 DEF Once
<1> QED BY <1>1, <1>2, <1>5, <1>6, <1>7 DEF InOnce, Inbound

LEMMA InOnceInvariance == Spec => [](StateOK /\ InOnce)
<1>1. Init => StateOK /\ InOnce
    BY InitType, InOnceInit
<1>2. StateOK /\ InOnce /\ [Next]_vars => (StateOK /\ InOnce)'
    BY TypeStep, InOnceStep
<1> QED BY <1>1, <1>2, PTL DEF Spec

(* A QoS 2 message from the server is passed to the application at most     *)
(* once, through repetitions, losses, kills and sessions that are lost, by  *)
(* clients of MQTT 3 and 5.                                                 *)
THEOREM DeliveredAtMostOnce == Spec => []AtMostOnceIn
<1>1. InOnce => AtMostOnceIn
    BY DEF InOnce, Inbound, Once, AtMostOnceIn
<1> QED BY <1>1, InOnceInvariance, PTL
-----------------------------------------------------------------------------
(***************************************************************************)
(* A message the server is done with has been delivered.  An exchange the  *)
(* server has begun has one packet on the way: its PUBLISH or PUBREL to    *)
(* the client, or the client's answer; and an answer that ends it is given *)
(* only when the message has been delivered.  The order of the packets     *)
(* does not matter.                                                        *)
(***************************************************************************)
Lone(in, out) ==
    /\ \A k, l \in DOMAIN in : k # l /\ Forth(in[k]) /\ Forth(in[l]) => in[k].id # in[l].id
    /\ \A k, l \in DOMAIN out : k # l /\ Back(out[k]) /\ Back(out[l]) => out[k].id # out[l].id
    /\ \A k \in DOMAIN in, l \in DOMAIN out : Forth(in[k]) /\ Back(out[l]) => in[k].id # out[l].id

(* The exchange a packet of the server belongs to. *)
Asked(p, srv) ==
    \E e \in srv : /\ e.id = p.id
                   /\ IsPublish(p) => e.m = p.m /\ e.next # "PUBCOMP"
                   /\ IsRel(p) => e.next = "PUBCOMP"

(* What the client's answer p promises.  Gone is what a clean session has   *)
(* lost with the connection.                                                *)
Promised(p, e, inb, dl, gone) ==
    /\ e.id = p.id /\ e.next = p.type
    /\ IsRec(p) => gone \/ inb[e.id] = e.m
    /\ ~IsRec(p) => dl[e.m] # 0 /\ inb[e.id] = None
Kept(p, srv, inb, dl, gone) == \E e \in srv : Promised(p, e, inb, dl, gone)

Tokens(in, out, srv, inb, dl, gone) ==
    /\ \A k \in DOMAIN in : Forth(in[k]) => Asked(in[k], srv)
    /\ \A k \in DOMAIN out : Back(out[k]) => Kept(out[k], srv, inb, dl, gone)

(* What the client holds belongs to an exchange, and an MQTT 5 client has   *)
(* delivered it.  What is to be released is delivered or held.              *)
Held(srv, inb, dl, v5, gone) ==
    /\ \A i \in SrvIds : inb[i] # None =>
          /\ \E e \in srv : e.id = i /\ e.m = inb[i]
          /\ v5 => dl[inb[i]] # 0
    /\ \A e \in srv : e.next = "PUBCOMP" => gone \/ dl[e.m] # 0 \/ inb[e.id] = e.m

Paired(in, out, srv, inb, dl, v5, gone) ==
    /\ Lone(in, out)
    /\ Tokens(in, out, srv, inb, dl, gone)
    /\ Held(srv, inb, dl, v5, gone)

(* What is known of the server's exchanges and the client's places. *)
Places(srv, inb) ==
    /\ srv \in SUBSET SrvEntry
    /\ \A e, f \in srv : e.id = f.id => e = f
    /\ \A e \in srv : e.m \in SrvMsgs1 <=> e.next = "PUBACK"
    /\ inb \in [SrvIds -> SrvMsgs2 \cup {None}]
Stays(gone, gone2) == gone => gone2

(* Where acknowledgements queued for a connection are not lost with it, an  *)
(* MQTT 5 client is not killed before it delivers, and MQTTClient does not  *)
(* go on with a session that the server has lost.                           *)
Tame ==
    /\ ~V5 \/ ~scenario.inside
    /\ scenario.budget.partial = 0 \/ scenario.budget.loss = 0
    /\ scenario.budget.forget = 0 \/ AsyncAPI \/ CleanSession

InDone == Tame =>
    /\ Channel
    /\ Paired(s2c, Outgoing, Srv, inboundMsgs, delivered, V5, Gone)
    /\ \A m \in srvDone : delivered[m] # 0

(* Packets go, and what is left is at a distance of d. *)
Drops(in2, in, d) ==
    \A k \in DOMAIN in2 : k \in Int /\ (Forth(in2[k]) => k + d \in DOMAIN in /\ in2[k] = in[k + d])
Unread(out2, out, d) ==
    \A k \in DOMAIN out2 : k \in Int /\ (Back(out2[k]) => k + d \in DOMAIN out /\ out2[k] = out[k + d])
GotMore(dl2, dl) == \A m \in SrvMsgs : dl[m] # 0 => dl2[m] # 0

Forgets(inb2, inb, gone, gone2) ==
    \/ inb2 = inb /\ (gone => gone2)
    \/ gone2 /\ \A i \in SrvIds : inb2[i] = None

LEMMA LoneFewer ==
    ASSUME NEW in, NEW in2, NEW d \in Int, Drops(in2, in, d),
           NEW out, NEW out2, NEW c \in Int, Unread(out2, out, c), Lone(in, out)
    PROVE  Lone(in2, out2)
<1>0. /\ \A k \in DOMAIN in2 : k \in Int
      /\ \A k \in DOMAIN out2 : k \in Int
    BY DEF Drops, Unread
<1>1. \A k, l \in DOMAIN in2 : k # l => k + d # l + d
    BY <1>0, ShiftFacts
<1>2. \A k, l \in DOMAIN out2 : k # l => k + c # l + c
    BY <1>0, ShiftFacts
<1>3. \A k, l \in DOMAIN in2 : k # l /\ Forth(in2[k]) /\ Forth(in2[l]) => in2[k].id # in2[l].id
    BY <1>1 DEF Drops, Lone
<1>4. \A k, l \in DOMAIN out2 : k # l /\ Back(out2[k]) /\ Back(out2[l]) => out2[k].id # out2[l].id
    BY <1>2 DEF Unread, Lone
<1>5. \A k \in DOMAIN in2, l \in DOMAIN out2 : Forth(in2[k]) /\ Back(out2[l]) => in2[k].id # out2[l].id
    BY DEF Drops, Unread, Lone
<1> QED BY <1>3, <1>4, <1>5 DEF Lone

(* Packets go, the connection ends, messages are delivered: nothing that    *)
(* was promised is taken back.                                              *)
LEMMA PairedFewer ==
    ASSUME NEW in, NEW in2, NEW d \in Int, Drops(in2, in, d),
           NEW out, NEW out2, NEW c \in Int, Unread(out2, out, c),
           NEW srv, NEW inb, Places(srv, inb), NEW inb2, NEW dl, NEW dl2, GotMore(dl2, dl),
           NEW v5, NEW gone, NEW gone2, Forgets(inb2, inb, gone, gone2),
           Paired(in, out, srv, inb, dl, v5, gone)
    PROVE  Paired(in2, out2, srv, inb2, dl2, v5, gone2)
<1>1. Lone(in2, out2)
    BY LoneFewer DEF Paired
<1>2. \A e \in srv : e.id \in SrvIds /\ e.m \in SrvMsgs
    BY DEF Places, SrvEntry
<1>3. \A i \in SrvIds : inb[i] # None => inb[i] \in SrvMsgs
    BY DEF Places, SrvMsgs
<1>4. ASSUME NEW p, Kept(p, srv, inb, dl, gone) PROVE Kept(p, srv, inb2, dl2, gone2)
    <2>1. PICK e \in srv : Promised(p, e, inb, dl, gone)
        BY <1>4 DEF Kept
    <2>2. Promised(p, e, inb2, dl2, gone2)
        BY <1>2, <2>1 DEF Promised, GotMore, Forgets
    <2> QED BY <2>2 DEF Kept
<1>5. Tokens(in2, out2, srv, inb2, dl2, gone2)
    <2>1. ASSUME NEW k \in DOMAIN in2, Forth(in2[k]) PROVE Asked(in2[k], srv)
        <3>1. PICK l \in DOMAIN in : in[l] = in2[k]
            BY <2>1 DEF Drops
        <3> QED BY <2>1, <3>1 DEF Paired, Tokens
    <2>2. ASSUME NEW k \in DOMAIN out2, Back(out2[k]) PROVE Kept(out2[k], srv, inb2, dl2, gone2)
        <3>1. PICK l \in DOMAIN out : out[l] = out2[k]
            BY <2>2 DEF Unread
        <3>2. Kept(out[l], srv, inb, dl, gone)
            BY <2>2, <3>1 DEF Paired, Tokens
        <3> QED BY <1>4, <3>1, <3>2
    <2> QED BY <2>1, <2>2 DEF Tokens
<1>6. Held(srv, inb, dl, v5, gone)
    BY DEF Paired
<1>7. \A i \in SrvIds : inb2[i] # None => /\ \E e \in srv : e.id = i /\ e.m = inb2[i]
                                          /\ v5 => dl2[inb2[i]] # 0
    BY <1>3, <1>6 DEF Held, GotMore, Forgets
<1>8. \A e \in srv : e.next = "PUBCOMP" => gone2 \/ dl2[e.m] # 0 \/ inb2[e.id] = e.m
    BY <1>2, <1>6 DEF Held, GotMore, Forgets
<1> QED BY <1>1, <1>5, <1>7, <1>8 DEF Paired, Held

(* No packet on the way belongs to the exchange of id i. *)
Free(in, out, i) ==
    /\ \A k \in DOMAIN in : Forth(in[k]) => in[k].id # i
    /\ \A k \in DOMAIN out : Back(out[k]) => out[k].id # i
Puts(f, g, i, v) == \A j \in SrvIds : f[j] = IF j = i THEN v ELSE g[j]
FirstRead(in2, in, p) ==
    /\ 1 \in DOMAIN in /\ in[1] = p
    /\ \A k \in DOMAIN in2 : k \in Int /\ k + 1 # 1 /\ k + 1 \in DOMAIN in /\ in2[k] = in[k + 1]

(* The client answers. *)
LEMMA AnswerPaired ==
    ASSUME NEW in, NEW out, NEW q, Free(in, out, q.id), NEW out2, NEW n, Grows(out2, out, q, n),
           NEW srv, NEW inb, NEW dl, NEW v5, NEW gone, Kept(q, srv, inb, dl, gone),
           Paired(in, out, srv, inb, dl, v5, gone)
    PROVE  Paired(in, out2, srv, inb, dl, v5, gone)
<1>1. Lone(in, out) /\ Tokens(in, out, srv, inb, dl, gone)
    BY DEF Paired
<1>2. \A k \in DOMAIN out2 : (k \in DOMAIN out /\ out2[k] = out[k]) \/ (k = n /\ out2[k] = q)
    BY DEF Grows
<1>3. \A k, l \in DOMAIN out2 : k # l /\ Back(out2[k]) /\ Back(out2[l]) => out2[k].id # out2[l].id
    BY <1>1, <1>2 DEF Lone, Free
<1>4. \A k \in DOMAIN in, l \in DOMAIN out2 : Forth(in[k]) /\ Back(out2[l]) => in[k].id # out2[l].id
    BY <1>1, <1>2 DEF Lone, Free
<1>5. Lone(in, out2)
    BY <1>1, <1>3, <1>4 DEF Lone
<1>6. Tokens(in, out2, srv, inb, dl, gone)
    BY <1>1, <1>2 DEF Tokens
<1> QED BY <1>5, <1>6 DEF Paired

(* The server sends. *)
LEMMA AskPaired ==
    ASSUME NEW in, NEW out, NEW q, Free(in, out, q.id), NEW in2, NEW n, Grows(in2, in, q, n),
           NEW srv, NEW inb, NEW dl, NEW v5, NEW gone, Asked(q, srv),
           Paired(in, out, srv, inb, dl, v5, gone)
    PROVE  Paired(in2, out, srv, inb, dl, v5, gone)
<1>1. Lone(in, out) /\ Tokens(in, out, srv, inb, dl, gone)
    BY DEF Paired
<1>2. \A k \in DOMAIN in2 : (k \in DOMAIN in /\ in2[k] = in[k]) \/ (k = n /\ in2[k] = q)
    BY DEF Grows
<1>3. \A k, l \in DOMAIN in2 : k # l /\ Forth(in2[k]) /\ Forth(in2[l]) => in2[k].id # in2[l].id
    BY <1>1, <1>2 DEF Lone, Free
<1>4. \A k \in DOMAIN in2, l \in DOMAIN out : Forth(in2[k]) /\ Back(out[l]) => in2[k].id # out[l].id
    BY <1>1, <1>2 DEF Lone, Free
<1>5. Lone(in2, out)
    BY <1>1, <1>3, <1>4 DEF Lone
<1>6. Tokens(in2, out, srv, inb, dl, gone)
    BY <1>1, <1>2 DEF Tokens
<1> QED BY <1>5, <1>6 DEF Paired

LEMMA TakenFree ==
    ASSUME NEW in, NEW out, NEW in2, NEW p, Forth(p), FirstRead(in2, in, p), Lone(in, out)
    PROVE  Lone(in2, out) /\ Free(in2, out, p.id)
<1>2. \A k, l \in DOMAIN in2 : k # l => k + 1 # l + 1
    BY ShiftFacts DEF FirstRead
<1>3. \A k, l \in DOMAIN in2 : k # l /\ Forth(in2[k]) /\ Forth(in2[l]) => in2[k].id # in2[l].id
    BY <1>2 DEF FirstRead, Lone
<1>4. \A k \in DOMAIN in2, l \in DOMAIN out : Forth(in2[k]) /\ Back(out[l]) => in2[k].id # out[l].id
    BY DEF FirstRead, Lone
<1>5. \A k \in DOMAIN in2 : Forth(in2[k]) => in2[k].id # p.id
    BY DEF FirstRead, Lone
<1>6. \A l \in DOMAIN out : Back(out[l]) => out[l].id # p.id
    BY DEF FirstRead, Lone
<1> QED BY <1>3, <1>4, <1>5, <1>6 DEF Lone, Free

LEMMA AnsweredFree ==
    ASSUME NEW in, NEW out, NEW out2, NEW p, Back(p), FirstRead(out2, out, p), Lone(in, out)
    PROVE  Lone(in, out2) /\ Free(in, out2, p.id)
<1>2. \A k, l \in DOMAIN out2 : k # l => k + 1 # l + 1
    BY ShiftFacts DEF FirstRead
<1>3. \A k, l \in DOMAIN out2 : k # l /\ Back(out2[k]) /\ Back(out2[l]) => out2[k].id # out2[l].id
    BY <1>2 DEF FirstRead, Lone
<1>4. \A k \in DOMAIN in, l \in DOMAIN out2 : Forth(in[k]) /\ Back(out2[l]) => in[k].id # out2[l].id
    BY DEF FirstRead, Lone
<1>5. \A k \in DOMAIN out2 : Back(out2[k]) => out2[k].id # p.id
    BY DEF FirstRead, Lone
<1>6. \A l \in DOMAIN in : Forth(in[l]) => in[l].id # p.id
    BY DEF FirstRead, Lone
<1> QED BY <1>3, <1>4, <1>5, <1>6 DEF Lone, Free

(* What a handler may do to the place of id i leaves the promises about     *)
(* other ids alone.                                                         *)
LEMMA OthersKept ==
    ASSUME NEW p, NEW srv, NEW inb, Places(srv, inb), NEW inb2, NEW i, NEW v, Puts(inb2, inb, i, v),
           p.id # i, NEW dl, NEW dl2, GotMore(dl2, dl), NEW gone, NEW gone2, Stays(gone, gone2),
           Kept(p, srv, inb, dl, gone)
    PROVE  Kept(p, srv, inb2, dl2, gone2)
<1>1. PICK e \in srv : Promised(p, e, inb, dl, gone)
    BY DEF Kept
<1>2. e.id \in SrvIds /\ e.m \in SrvMsgs
    BY DEF Places, SrvEntry
<1>3. Promised(p, e, inb2, dl2, gone2)
    BY <1>1, <1>2 DEF Promised, GotMore, Puts, Stays
<1> QED BY <1>3 DEF Kept

(* A packet with id i is read, and the place of id i gets v. *)
LEMMA PutsTokens ==
    ASSUME NEW in, NEW out, NEW in2, NEW p, Forth(p), FirstRead(in2, in, p), Lone(in, out),
           NEW srv, NEW inb, Places(srv, inb), NEW inb2, NEW v, Puts(inb2, inb, p.id, v),
           NEW dl, NEW dl2, GotMore(dl2, dl), NEW gone, NEW gone2, Stays(gone, gone2),
           Tokens(in, out, srv, inb, dl, gone)
    PROVE  /\ Lone(in2, out) /\ Free(in2, out, p.id)
           /\ Tokens(in2, out, srv, inb2, dl2, gone2)
           /\ Asked(p, srv)
<1>1. Lone(in2, out) /\ Free(in2, out, p.id)
    BY TakenFree
<1>2. \A k \in DOMAIN in2 : Forth(in2[k]) => Asked(in2[k], srv)
    BY DEF FirstRead, Tokens
<1>3. \A k \in DOMAIN out : Back(out[k]) => Kept(out[k], srv, inb2, dl2, gone2)
    BY <1>1, OthersKept DEF Tokens, Free
<1>4. Asked(p, srv)
    BY DEF FirstRead, Tokens
<1> QED BY <1>1, <1>2, <1>3, <1>4 DEF Tokens

(* An MQTT 5 client delivers a message that comes first, an MQTT 3 client   *)
(* one that is released.                                                    *)
GotFirst(v5, inb, dl2, p) == v5 /\ inb[p.id] = None => dl2[p.m] # 0
GotLast(v5, inb, dl2, p)  == ~v5 /\ inb[p.id] # None => dl2[inb[p.id]] # 0

(* What the answer that ends the exchange of id i needs. *)
Acknowledged(srv, inb, dl, i) ==
    \E e \in srv : e.id = i /\ e.next = "PUBACK" /\ dl[e.m] # 0 /\ inb[e.id] = None
Completed(srv, inb, dl, i) ==
    \E e \in srv : e.id = i /\ e.next = "PUBCOMP" /\ dl[e.m] # 0 /\ inb[e.id] = None

(* A QoS 2 PUBLISH has been read: its message is in its place.  An MQTT 5   *)
(* client has delivered it, now or when it came first.                      *)
LEMMA HoldPaired ==
    ASSUME NEW in, NEW out, NEW in2, NEW p, IsPublish(p), p.m \in SrvMsgs2, FirstRead(in2, in, p),
           NEW srv, NEW inb, Places(srv, inb), NEW inb2, Puts(inb2, inb, p.id, p.m), p.id \in SrvIds,
           NEW dl, NEW dl2, GotMore(dl2, dl),
           NEW v5, GotFirst(v5, inb, dl2, p),
           NEW gone, NEW gone2, Stays(gone, gone2),
           Paired(in, out, srv, inb, dl, v5, gone)
    PROVE  /\ Paired(in2, out, srv, inb2, dl2, v5, gone2)
           /\ Free(in2, out, p.id)
           /\ \E e \in srv : e.id = p.id /\ e.next = "PUBREC" /\ inb2[e.id] = e.m
<1>0. Lone(in, out) /\ Tokens(in, out, srv, inb, dl, gone) /\ Held(srv, inb, dl, v5, gone) /\ Forth(p)
    BY DEF Paired, Forth, IsPublish
<1>1. /\ Lone(in2, out) /\ Free(in2, out, p.id)
      /\ Tokens(in2, out, srv, inb2, dl2, gone2) /\ Asked(p, srv)
    BY <1>0, PutsTokens
<1>2. PICK e \in srv : e.id = p.id /\ e.m = p.m /\ e.next # "PUBCOMP"
    BY <1>1 DEF Asked
<1>3. e.next = "PUBREC"
    BY <1>2, SessionAssumption DEF Places, SrvEntry
<1>4. inb2[p.id] = p.m /\ \A j \in SrvIds : j # p.id => inb2[j] = inb[j]
    BY DEF Puts
<1>5. v5 => dl2[p.m] # 0
    <2> SUFFICES ASSUME v5, inb[p.id] # None PROVE dl2[p.m] # 0
        BY DEF GotFirst
    <2>1. PICK f \in srv : f.id = p.id /\ f.m = inb[p.id]
        BY <1>0 DEF Held
    <2>2. f = e
        BY <1>2, <2>1 DEF Places
    <2>3. dl[p.m] # 0
        BY <1>0, <1>2, <2>1, <2>2 DEF Held
    <2> QED BY <2>3 DEF GotMore, SrvMsgs
<1>6. \A j \in SrvIds : inb2[j] # None => /\ \E f \in srv : f.id = j /\ f.m = inb2[j]
                                          /\ v5 => dl2[inb2[j]] # 0
    <2> SUFFICES ASSUME NEW j \in SrvIds, inb2[j] # None
                 PROVE  /\ \E f \in srv : f.id = j /\ f.m = inb2[j]
                        /\ v5 => dl2[inb2[j]] # 0
        OBVIOUS
    <2>1. CASE j = p.id
        BY <1>2, <1>4, <1>5, <2>1
    <2>2. CASE j # p.id
        <3>1. inb2[j] = inb[j] /\ inb[j] \in SrvMsgs
            BY <1>4, <2>2 DEF Places, SrvMsgs
        <3> QED BY <1>0, <3>1 DEF Held, GotMore
    <2> QED BY <2>1, <2>2
<1>7. \A f \in srv : f.next = "PUBCOMP" => gone2 \/ dl2[f.m] # 0 \/ inb2[f.id] = f.m
    <2> SUFFICES ASSUME NEW f \in srv, f.next = "PUBCOMP"
                 PROVE  gone2 \/ dl2[f.m] # 0 \/ inb2[f.id] = f.m
        OBVIOUS
    <2>1. f.id # p.id /\ f.id \in SrvIds /\ f.m \in SrvMsgs
        BY <1>2 DEF Places, SrvEntry
    <2> QED BY <1>0, <1>4, <2>1 DEF Held, GotMore, Stays
<1>8. Held(srv, inb2, dl2, v5, gone2)
    BY <1>6, <1>7 DEF Held
<1> QED BY <1>1, <1>2, <1>3, <1>4, <1>8 DEF Paired

(* A QoS 1 PUBLISH has been read and delivered. *)
LEMMA DeliverPaired ==
    ASSUME NEW in, NEW out, NEW in2, NEW p, IsPublish(p), p.m \in SrvMsgs1, FirstRead(in2, in, p),
           NEW srv, NEW inb, Places(srv, inb), p.id \in SrvIds,
           NEW dl, NEW dl2, GotMore(dl2, dl), dl2[p.m] # 0,
           NEW v5, NEW gone,
           Paired(in, out, srv, inb, dl, v5, gone)
    PROVE  /\ Paired(in2, out, srv, inb, dl2, v5, gone)
           /\ Free(in2, out, p.id)
           /\ Acknowledged(srv, inb, dl2, p.id)
<1>0. Lone(in, out) /\ Tokens(in, out, srv, inb, dl, gone) /\ Held(srv, inb, dl, v5, gone) /\ Forth(p)
    BY DEF Paired, Forth, IsPublish
<1> DEFINE v == inb[p.id]
<1>1. Puts(inb, inb, p.id, v) /\ Stays(gone, gone)
    BY DEF Puts, Stays
<1> HIDE DEF v
<1>2. /\ Lone(in2, out) /\ Free(in2, out, p.id)
      /\ Tokens(in2, out, srv, inb, dl2, gone) /\ Asked(p, srv)
    BY <1>0, <1>1, PutsTokens
<1>3. PICK e \in srv : e.id = p.id /\ e.m = p.m
    BY <1>2 DEF Asked
<1>4. inb[p.id] = None
    <2> SUFFICES ASSUME inb[p.id] # None PROVE FALSE
        OBVIOUS
    <2>1. PICK f \in srv : f.id = p.id /\ f.m = inb[p.id]
        BY <1>0 DEF Held
    <2>2. f = e /\ inb[p.id] \in SrvMsgs2
        BY <1>3, <2>1 DEF Places
    <2> QED BY <1>3, <2>1, <2>2, SessionAssumption
<1>5. \A j \in SrvIds : inb[j] # None => inb[j] \in SrvMsgs
    BY DEF Places, SrvMsgs
<1>6. \A f \in srv : f.m \in SrvMsgs
    BY DEF Places, SrvEntry
<1>7. Held(srv, inb, dl2, v5, gone)
    BY <1>0, <1>5, <1>6 DEF Held, GotMore
<1>8. e.next = "PUBACK" /\ dl2[e.m] # 0
    BY <1>3 DEF Places
<1> QED BY <1>2, <1>3, <1>4, <1>7, <1>8 DEF Paired, Acknowledged

(* A PUBREL has been read: its message, if it is still held, is delivered   *)
(* unless it was.                                                           *)
LEMMA LetGoPaired ==
    ASSUME NEW in, NEW out, NEW in2, NEW p, IsRel(p), FirstRead(in2, in, p),
           NEW srv, NEW inb, Places(srv, inb), NEW inb2, Puts(inb2, inb, p.id, None), p.id \in SrvIds,
           NEW dl, NEW dl2, GotMore(dl2, dl),
           NEW v5, GotLast(v5, inb, dl2, p),
           NEW gone, ~gone,
           Paired(in, out, srv, inb, dl, v5, gone)
    PROVE  /\ Paired(in2, out, srv, inb2, dl2, v5, gone)
           /\ Free(in2, out, p.id)
           /\ Completed(srv, inb2, dl2, p.id)
<1>0. Lone(in, out) /\ Tokens(in, out, srv, inb, dl, gone) /\ Held(srv, inb, dl, v5, gone) /\ Forth(p)
    BY DEF Paired, Forth, IsRel
<1>1. /\ Lone(in2, out) /\ Free(in2, out, p.id)
      /\ Tokens(in2, out, srv, inb2, dl2, gone) /\ Asked(p, srv)
    <2>1. Stays(gone, gone)
        BY DEF Stays
    <2> QED BY <1>0, <2>1, PutsTokens
<1>2. PICK e \in srv : e.id = p.id /\ e.next = "PUBCOMP"
    BY <1>1 DEF Asked
<1>3. inb2[p.id] = None /\ \A j \in SrvIds : j # p.id => inb2[j] = inb[j]
    BY DEF Puts
<1>4. e.m \in SrvMsgs /\ \A f \in srv : f.m \in SrvMsgs /\ f.id \in SrvIds
    BY DEF Places, SrvEntry
<1>5. dl2[e.m] # 0
    <2>1. CASE inb[p.id] = None
        <3>1. dl[e.m] # 0
            <4>1. inb[e.id] # e.m
                BY <1>2, <1>4, <2>1, NoneFacts
            <4> QED BY <1>0, <1>2, <4>1 DEF Held
        <3> QED BY <1>4, <3>1 DEF GotMore
    <2>2. CASE inb[p.id] # None
        <3>1. PICK f \in srv : f.id = p.id /\ f.m = inb[p.id]
            BY <1>0, <2>2 DEF Held
        <3>2. e.m = inb[p.id]
            BY <1>2, <3>1 DEF Places
        <3>3. v5 => dl[e.m] # 0
            BY <1>0, <2>2, <3>2 DEF Held
        <3> QED BY <1>4, <2>2, <3>2, <3>3 DEF GotMore, GotLast
    <2> QED BY <2>1, <2>2
<1>6. \A j \in SrvIds : inb2[j] # None => /\ \E f \in srv : f.id = j /\ f.m = inb2[j]
                                          /\ v5 => dl2[inb2[j]] # 0
    <2> SUFFICES ASSUME NEW j \in SrvIds, inb2[j] # None
                 PROVE  /\ \E f \in srv : f.id = j /\ f.m = inb2[j]
                        /\ v5 => dl2[inb2[j]] # 0
        OBVIOUS
    <2>1. j # p.id /\ inb2[j] = inb[j] /\ inb[j] \in SrvMsgs
        BY <1>3 DEF Places, SrvMsgs
    <2> QED BY <1>0, <2>1 DEF Held, GotMore
<1>7. \A f \in srv : f.next = "PUBCOMP" => gone \/ dl2[f.m] # 0 \/ inb2[f.id] = f.m
    <2> SUFFICES ASSUME NEW f \in srv, f.next = "PUBCOMP"
                 PROVE  gone \/ dl2[f.m] # 0 \/ inb2[f.id] = f.m
        OBVIOUS
    <2>1. CASE f = e
        BY <1>5, <2>1
    <2>2. CASE f # e
        <3>1. f.id # p.id /\ f.id \in SrvIds /\ f.m \in SrvMsgs
            BY <1>2, <1>4, <2>2 DEF Places
        <3> QED BY <1>0, <1>3, <3>1 DEF Held, GotMore
    <2> QED BY <2>1, <2>2
<1>8. Held(srv, inb2, dl2, v5, gone)
    BY <1>6, <1>7 DEF Held
<1> QED BY <1>1, <1>2, <1>3, <1>5, <1>8 DEF Paired, Completed

(* The server reads the answer that ends an exchange. *)
LEMMA FinalPaired ==
    ASSUME NEW in, NEW out, NEW out2, NEW p, Back(p), ~IsRec(p), FirstRead(out2, out, p),
           NEW srv, NEW inb, Places(srv, inb), NEW srv2, NEW dl, NEW v5, NEW gone,
           Paired(in, out, srv, inb, dl, v5, gone),
           NEW e, e \in srv, e.id = p.id, srv2 = srv \ {e}
    PROVE  Paired(in, out2, srv2, inb, dl, v5, gone) /\ dl[e.m] # 0
<1>0. Lone(in, out) /\ Tokens(in, out, srv, inb, dl, gone) /\ Held(srv, inb, dl, v5, gone)
    BY DEF Paired
<1>1. Lone(in, out2) /\ Free(in, out2, p.id)
    BY <1>0, AnsweredFree
<1>2. Kept(p, srv, inb, dl, gone)
    BY <1>0 DEF FirstRead, Tokens
<1>3. Promised(p, e, inb, dl, gone)
    BY <1>2 DEF Kept, Promised, Places
<1>4. dl[e.m] # 0 /\ inb[e.id] = None
    BY <1>3 DEF Promised
<1>5. \A f \in srv : f.id # p.id => f \in srv2
    OBVIOUS
<1>6. \A k \in DOMAIN in : Forth(in[k]) => Asked(in[k], srv2)
    BY <1>0, <1>1, <1>5 DEF Tokens, Asked, Free
<1>7. \A k \in DOMAIN out2 : Back(out2[k]) => Kept(out2[k], srv2, inb, dl, gone)
    <2> SUFFICES ASSUME NEW k \in DOMAIN out2, Back(out2[k]) PROVE Kept(out2[k], srv2, inb, dl, gone)
        OBVIOUS
    <2>1. PICK l \in DOMAIN out : out2[k] = out[l]
        BY DEF FirstRead
    <2>2. Kept(out2[k], srv, inb, dl, gone) /\ out2[k].id # p.id
        BY <1>0, <1>1, <2>1 DEF Tokens, Free
    <2>3. PICK f \in srv : Promised(out2[k], f, inb, dl, gone)
        BY <2>2 DEF Kept
    <2>4. f \in srv2
        BY <1>5, <2>2, <2>3 DEF Promised
    <2> QED BY <2>3, <2>4 DEF Kept
<1>8. \A i \in SrvIds : inb[i] # None => /\ \E f \in srv2 : f.id = i /\ f.m = inb[i]
                                         /\ v5 => dl[inb[i]] # 0
    BY <1>0, <1>4, <1>5 DEF Held
<1>9. Held(srv2, inb, dl, v5, gone)
    BY <1>0, <1>8 DEF Held
<1> QED BY <1>1, <1>4, <1>6, <1>7, <1>9 DEF Paired, Tokens

(* The exchange of id i waits for PUBCOMP now. *)
Advanced(srv2, srv, i) ==
    /\ \A f \in srv : f.id # i => f \in srv2
    /\ \A f \in srv2 : f.id # i => f \in srv
    /\ \A e \in srv : e.id = i => \E f \in srv2 : f.id = i /\ f.m = e.m /\ f.next = "PUBCOMP"
    /\ \A f \in srv2 : f.id = i => \E e \in srv : e.id = i /\ e.m = f.m

(* The server reads a PUBREC. *)
LEMMA RecPaired ==
    ASSUME NEW in, NEW out, NEW out2, NEW p, Back(p), IsRec(p), FirstRead(out2, out, p),
           NEW srv, NEW inb, Places(srv, inb), NEW srv2, Advanced(srv2, srv, p.id),
           NEW dl, NEW v5, NEW gone, Paired(in, out, srv, inb, dl, v5, gone),
           NEW q, IsRel(q), q.id = p.id
    PROVE  Paired(in, out2, srv2, inb, dl, v5, gone) /\ Free(in, out2, q.id) /\ Asked(q, srv2)
<1>0. Lone(in, out) /\ Tokens(in, out, srv, inb, dl, gone) /\ Held(srv, inb, dl, v5, gone)
    BY DEF Paired
<1>1. Lone(in, out2) /\ Free(in, out2, p.id)
    BY <1>0, AnsweredFree
<1>2. Kept(p, srv, inb, dl, gone)
    BY <1>0 DEF FirstRead, Tokens
<1>3. PICK e \in srv : Promised(p, e, inb, dl, gone)
    BY <1>2 DEF Kept
<1>4. e.id = p.id /\ (gone \/ inb[e.id] = e.m)
    BY <1>3 DEF Promised
<1>5. \A k \in DOMAIN in : Forth(in[k]) => Asked(in[k], srv2)
    BY <1>0, <1>1 DEF Tokens, Asked, Free, Advanced
<1>6. \A k \in DOMAIN out2 : Back(out2[k]) => Kept(out2[k], srv2, inb, dl, gone)
    <2> SUFFICES ASSUME NEW k \in DOMAIN out2, Back(out2[k]) PROVE Kept(out2[k], srv2, inb, dl, gone)
        OBVIOUS
    <2>1. PICK l \in DOMAIN out : out2[k] = out[l]
        BY DEF FirstRead
    <2>2. Kept(out2[k], srv, inb, dl, gone) /\ out2[k].id # p.id
        BY <1>0, <1>1, <2>1 DEF Tokens, Free
    <2>3. PICK f \in srv : Promised(out2[k], f, inb, dl, gone)
        BY <2>2 DEF Kept
    <2>4. f \in srv2
        BY <2>2, <2>3 DEF Promised, Advanced
    <2> QED BY <2>3, <2>4 DEF Kept
<1>7. \A i \in SrvIds : inb[i] # None => /\ \E f \in srv2 : f.id = i /\ f.m = inb[i]
                                         /\ v5 => dl[inb[i]] # 0
    <2> SUFFICES ASSUME NEW i \in SrvIds, inb[i] # None
                 PROVE  \E f \in srv2 : f.id = i /\ f.m = inb[i]
        BY <1>0 DEF Held
    <2>1. PICK f \in srv : f.id = i /\ f.m = inb[i]
        BY <1>0 DEF Held
    <2> QED BY <2>1 DEF Advanced
<1>8. \A f \in srv2 : f.next = "PUBCOMP" => gone \/ dl[f.m] # 0 \/ inb[f.id] = f.m
    <2> SUFFICES ASSUME NEW f \in srv2, f.next = "PUBCOMP"
                 PROVE  gone \/ dl[f.m] # 0 \/ inb[f.id] = f.m
        OBVIOUS
    <2>1. CASE f.id # p.id
        BY <1>0, <2>1 DEF Held, Advanced
    <2>2. CASE f.id = p.id
        <3>1. PICK g \in srv : g.id = p.id /\ g.m = f.m
            BY <2>2 DEF Advanced
        <3>2. g = e
            BY <1>4, <3>1 DEF Places
        <3> QED BY <1>4, <2>2, <3>1, <3>2
    <2> QED BY <2>1, <2>2
<1>9. Asked(q, srv2)
    <2>1. \E f \in srv2 : f.id = p.id /\ f.next = "PUBCOMP"
        BY <1>4 DEF Advanced
    <2> QED BY <2>1 DEF Asked, IsPublish, IsRel
<1> QED BY <1>1, <1>5, <1>6, <1>7, <1>8, <1>9 DEF Paired, Tokens, Held

(* The server begins an exchange. *)
LEMMA SendPaired ==
    ASSUME NEW in, NEW out, NEW srv, NEW inb, NEW dl, NEW v5, NEW gone,
           Paired(in, out, srv, inb, dl, v5, gone),
           NEW e, e.next # "PUBCOMP", \A f \in srv : f.id # e.id, NEW srv2, srv2 = srv \cup {e},
           NEW q, IsPublish(q), q.id = e.id, q.m = e.m
    PROVE  Paired(in, out, srv2, inb, dl, v5, gone) /\ Free(in, out, q.id) /\ Asked(q, srv2)
<1>0. Lone(in, out) /\ Tokens(in, out, srv, inb, dl, gone) /\ Held(srv, inb, dl, v5, gone)
    BY DEF Paired
<1>1. Free(in, out, q.id)
    BY <1>0 DEF Tokens, Asked, Kept, Promised, Free
<1>2. srv \subseteq srv2 /\ e \in srv2
    OBVIOUS
<1>3. Tokens(in, out, srv2, inb, dl, gone)
    BY <1>0, <1>2 DEF Tokens, Asked, Kept
<1>4. Held(srv2, inb, dl, v5, gone)
    BY <1>0, <1>2 DEF Held
<1>5. Asked(q, srv2)
    BY <1>2 DEF Asked, IsPublish, IsRel
<1> QED BY <1>0, <1>1, <1>3, <1>4, <1>5 DEF Paired

(* Nothing the client has written answers the server. *)
Silent(out) == \A k \in DOMAIN out : ~Back(out[k])

(* A new connection to the session the server has kept. *)
LEMMA ResumePaired ==
    ASSUME NEW in, NEW out, NEW out2, Silent(out2),
           NEW entries, Distinct(entries), NEW srv, srv = {entries[k] : k \in DOMAIN entries},
           NEW in2, DOMAIN in2 = DOMAIN entries,
           \A k \in DOMAIN entries : in2[k] =
              IF entries[k].next = "PUBCOMP" THEN Packet("PUBREL", entries[k].id, None)
              ELSE Packet("PUBLISH", entries[k].id, entries[k].m),
           NEW inb, NEW dl, NEW v5, NEW gone,
           Paired(in, out, srv, inb, dl, v5, gone)
    PROVE  Paired(in2, out2, srv, inb, dl, v5, gone)
<1>1. \A k \in DOMAIN in2 : in2[k].id = entries[k].id /\ Asked(in2[k], srv)
    <2> SUFFICES ASSUME NEW k \in DOMAIN in2 PROVE in2[k].id = entries[k].id /\ Asked(in2[k], srv)
        OBVIOUS
    <2>1. entries[k] \in srv
        OBVIOUS
    <2>2. CASE entries[k].next = "PUBCOMP"
        <3>1. in2[k].type = "PUBREL" /\ in2[k].id = entries[k].id
            BY <2>2 DEF Packet
        <3> QED BY <2>1, <2>2, <3>1 DEF Asked, IsPublish, IsRel
    <2>3. CASE entries[k].next # "PUBCOMP"
        <3>1. in2[k].type = "PUBLISH" /\ in2[k].id = entries[k].id /\ in2[k].m = entries[k].m
            BY <2>3 DEF Packet
        <3> QED BY <2>1, <2>3, <3>1 DEF Asked, IsPublish, IsRel
    <2> QED BY <2>2, <2>3
<1>2. \A k, l \in DOMAIN in2 : k # l => in2[k].id # in2[l].id
    BY <1>1 DEF Distinct
<1>3. Lone(in2, out2)
    BY <1>2 DEF Lone, Silent
<1>4. Tokens(in2, out2, srv, inb, dl, gone)
    BY <1>1 DEF Tokens, Silent
<1> QED BY <1>3, <1>4 DEF Paired

(* A new session on both sides. *)
LEMMA FreshPaired ==
    ASSUME NEW in, in = <<>>, NEW out, Silent(out), NEW srv, srv = {},
           NEW inb, \A i \in SrvIds : inb[i] = None, NEW dl, NEW v5, NEW gone
    PROVE  Paired(in, out, srv, inb, dl, v5, gone)
BY DEF Paired, Lone, Tokens, Held, Silent

-----------------------------------------------------------------------------
(* What goes and what stays                                                 *)

LEMMA LeftDrops ==
    ASSUME NEW in2 \in Seq(ToClient), NEW in, NEW d, Left(in2, in, d)
    PROVE  Drops(in2, in, d)
BY InPackets DEF Left, Drops

LEMMA TailRead ==
    ASSUME NEW T, NEW s \in Seq(T), s # <<>>
    PROVE  FirstRead(Tail(s), s, Head(s))
<1>1. /\ 1 \in DOMAIN s /\ s[1] = Head(s)
      /\ Segment(Tail(s), s, 1) /\ DOMAIN Tail(s) \subseteq Nat \ {0}
    BY TailSegment
<1> DEFINE t == Tail(s)
           h == Head(s)
<1>2. 1 \in DOMAIN s /\ s[1] = h /\ Segment(t, s, 1) /\ DOMAIN t \subseteq Nat \ {0}
    BY <1>1
<1> HIDE DEF t, h
<1>3. \A k \in Nat \ {0} : k + 1 # 1
    OBVIOUS
<1>4. FirstRead(t, s, h)
    BY <1>2, <1>3 DEF FirstRead, Segment
<1> QED BY <1>4 DEF t, h

LEMMA SegmentUnread ==
    ASSUME NEW out2, NEW out, NEW c, Segment(out2, out, c)
    PROVE  Unread(out2, out, c)
BY DEF Segment, Unread

LEMMA SegmentRead ==
    ASSUME NEW out2, NEW out, Segment(out2, out, 1), DOMAIN out2 \subseteq Nat \ {0},
           NEW p, 1 \in DOMAIN out, out[1] = p
    PROVE  FirstRead(out2, out, p)
<1>1. \A k \in Nat \ {0} : k + 1 # 1
    OBVIOUS
<1> QED BY <1>1 DEF Segment, FirstRead

LEMMA SilentUnread ==
    ASSUME NEW out2 \in Seq(ToServer), Silent(out2), NEW out
    PROVE  Unread(out2, out, 0)
<1>1. \A k \in DOMAIN out2 : k \in Int
    BY SeqFacts
<1> QED BY <1>1 DEF Unread, Silent

LEMMA ConcatUnread ==
    ASSUME NEW out \in Seq(ToServer), NEW ps \in Seq(ToServer), Silent(ps)
    PROVE  Unread(out \o ps, out, 0)
<1> DEFINE u == out \o ps
<1>1. \A k \in DOMAIN u : /\ k \in Int
                          /\ \/ k \in DOMAIN out /\ u[k] = out[k]
                             \/ k - Len(out) \in DOMAIN ps /\ u[k] = ps[k - Len(out)]
    BY ConcatParts
<1> HIDE DEF u
<1>2. \A k \in DOMAIN u : k \in Int /\ k + 0 = k
    BY <1>1
<1>3. \A k \in DOMAIN u : Back(u[k]) => k \in DOMAIN out /\ u[k] = out[k]
    BY <1>1 DEF Silent
<1>4. Unread(u, out, 0)
    BY <1>2, <1>3 DEF Unread
<1> QED BY <1>4 DEF u

LEMMA AppendUnread ==
    ASSUME NEW out \in Seq(ToServer), NEW q \in ToServer, ~Back(q)
    PROVE  Unread(Append(out, q), out, 0)
<1>1. <<q>> \in Seq(ToServer) /\ Append(out, q) = out \o <<q>>
    BY AppendIsConcat
<1>2. Silent(<<q>>)
    BY DEF Silent
<1> QED BY <1>1, <1>2, ConcatUnread

LEMMA AppendGrows ==
    ASSUME NEW out \in Seq(ToServer), NEW q \in ToServer
    PROVE  Grows(Append(out, q), out, q, Len(out) + 1)
<1>1. /\ DOMAIN out = 1 .. Len(out) /\ Len(out) \in Nat
      /\ DOMAIN Append(out, q) = 1 .. (Len(out) + 1)
      /\ Append(out, q)[Len(out) + 1] = q
      /\ \A k \in DOMAIN out : Append(out, q)[k] = out[k]
    BY SeqFacts, AppendFacts
<1> DEFINE u == Append(out, q)
           n == Len(out) + 1
<1>2. /\ \A k \in DOMAIN out : k < n /\ k \in DOMAIN u
      /\ \A k \in DOMAIN u : k \in DOMAIN out \/ k = n
    BY <1>1
<1>3. u[n] = q /\ \A k \in DOMAIN out : u[k] = out[k]
    BY <1>1
<1> HIDE DEF u, n
<1>4. Grows(u, out, q, n)
    BY <1>2, <1>3 DEF Grows
<1> QED BY <1>4 DEF u, n

-----------------------------------------------------------------------------
(* One step at a time                                                       *)

InDoneBefore == InBefore /\ Spared /\ Tame /\ InDone

LEMMA InDoneFacts ==
    ASSUME InDoneBefore
    PROVE  /\ InBefore /\ StateOK /\ StateOK' /\ Spared /\ Tame /\ UNCHANGED scenario
           /\ V5' = V5 /\ CleanSession' = CleanSession /\ Tame'
           /\ Channel /\ Paired(s2c, Outgoing, Srv, inboundMsgs, delivered, V5, Gone)
           /\ Places(Srv, inboundMsgs) /\ Distinct(srvOut) /\ srvOut \in Seq(SrvEntry)
           /\ \A m \in srvDone : m \in SrvMsgs /\ delivered[m] # 0
           /\ s2c \in Seq(ToClient) /\ s2c' \in Seq(ToClient)
           /\ Outgoing \in Seq(ToServer) /\ c2s \in Seq(ToServer)
           /\ delivered \in [SrvMsgs -> 0 .. 2]
           /\ inboundMsgs \in [SrvIds -> SrvMsgs2 \cup {None}]
           /\ InOnce /\ rcvdKeys = inboundMsgs
<1>1. InBefore /\ Spared /\ Tame /\ InDone
    BY DEF InDoneBefore
<1>2. /\ StateOK /\ StateOK' /\ InOnce /\ UNCHANGED scenario
      /\ V5' = V5 /\ CleanSession' = CleanSession
      /\ s2c \in Seq(ToClient) /\ s2c' \in Seq(ToClient) /\ srvOut \in Seq(SrvEntry)
      /\ Srv \in SUBSET SrvEntry
      /\ inboundMsgs \in [SrvIds -> SrvMsgs2 \cup {None}]
      /\ delivered \in [SrvMsgs -> 0 .. 2]
      /\ rcvdKeys = inboundMsgs /\ Distinct(srvOut)
      /\ Inbound(s2c, Srv, inboundMsgs, delivered, srvSent, V5, scenario.inside, Gone)
    BY <1>1, InBeforeFacts
<1>3. \A e, f \in Srv : e.id = f.id => e = f
    BY <1>2 DEF Srv, Distinct
<1>4. \A e \in Srv : e.m \in SrvMsgs1 <=> e.next = "PUBACK"
    BY <1>2 DEF Inbound, Placed
<1>5. Places(Srv, inboundMsgs)
    BY <1>2, <1>3, <1>4 DEF Places
<1>6. Outgoing \in Seq(ToServer)
    BY <1>2, OutgoingFacts
<1>7. Tame'
    BY <1>1, <1>2 DEF Tame, V5, AsyncAPI, CleanSession
<1>8. /\ Channel /\ Paired(s2c, Outgoing, Srv, inboundMsgs, delivered, V5, Gone)
      /\ \A m \in srvDone : delivered[m] # 0
    BY <1>1 DEF InDone
<1>9. srvDone \subseteq SrvMsgs /\ c2s \in Seq(ToServer)
    BY <1>2 DEF StateOK
<1> QED BY <1>1, <1>2, <1>5, <1>6, <1>7, <1>8, <1>9

LEMMA DoneAfter ==
    ASSUME InDoneBefore, Channel', UNCHANGED srvDone, GotMore(delivered', delivered),
           NEW in2, s2c' = in2, NEW out2, Outgoing' = out2, NEW srv2, Srv' = srv2,
           NEW inb2, inboundMsgs' = inb2, NEW dl2, delivered' = dl2, NEW gone2, Gone' = gone2,
           Paired(in2, out2, srv2, inb2, dl2, V5, gone2)
    PROVE  InDone'
<1>1. \A m \in srvDone' : delivered'[m] # 0
    BY InDoneFacts DEF GotMore
<1>2. V5' = V5
    BY InDoneFacts
<1> QED BY <1>1, <1>2 DEF InDone

(* Packets go, the connection ends, messages are delivered. *)
LEMMA FewerDone ==
    ASSUME InDoneBefore, Channel', UNCHANGED <<srvDone, srvOut>>, GotMore(delivered', delivered),
           NEW d \in Int, Drops(s2c', s2c, d), NEW c \in Int, Unread(Outgoing', Outgoing, c),
           Forgets(inboundMsgs', inboundMsgs, Gone, Gone')
    PROVE  InDone'
<1> DEFINE in2 == s2c'
           out2 == Outgoing'
           inb2 == inboundMsgs'
           dl2 == delivered'
           gone2 == Gone'
<1>1. /\ Drops(in2, s2c, d) /\ Unread(out2, Outgoing, c) /\ GotMore(dl2, delivered)
      /\ Forgets(inb2, inboundMsgs, Gone, gone2)
    OBVIOUS
<1>2. Srv' = Srv
    BY DEF Srv
<1> HIDE DEF in2, out2, inb2, dl2, gone2
<1>3. Paired(in2, out2, Srv, inb2, dl2, V5, gone2)
    BY <1>1, InDoneFacts, PairedFewer
<1> QED BY <1>2, <1>3, DoneAfter DEF in2, out2, inb2, dl2, gone2

LEMMA NothingForgotten ==
    ASSUME UNCHANGED <<inboundMsgs, delivered>>, UNCHANGED scenario, connected' => connected \/ ~CleanSession
    PROVE  Forgets(inboundMsgs', inboundMsgs, Gone, Gone') /\ GotMore(delivered', delivered)
BY DEF Forgets, Gone, CleanSession, GotMore

(* A handler sends its answer. *)
LEMMA AnsweredDone ==
    ASSUME InDoneBefore, connected, UNCHANGED <<connected, srvOut, srvDone>>,
           NEW type \in {"PUBACK", "PUBREC", "PUBCOMP"}, NEW id \in SrvIds, SendAck(type, id),
           GotMore(delivered', delivered),
           NEW in2, s2c' = in2, NEW inb2, inboundMsgs' = inb2, NEW dl2, delivered' = dl2,
           Paired(in2, Outgoing, Srv, inb2, dl2, V5, Gone), Free(in2, Outgoing, id),
           Kept(Packet(type, id, None), Srv, inb2, dl2, Gone)
    PROVE  InDone'
<1> DEFINE q == Packet(type, id, None)
           out2 == Outgoing'
           n == Len(Outgoing) + 1
<1>1. [type |-> type, id |-> id] \in Acks
    BY DEF Acks
<1>2. q \in ToServer /\ out2 = Append(Outgoing, q)
    BY <1>1, InDoneFacts, SendAckOutgoing
<1>3. q.id = id
    BY DEF Packet
<1> HIDE DEF q, out2, n
<1>4. Grows(out2, Outgoing, q, n)
    BY <1>2, InDoneFacts, AppendGrows DEF n
<1>5. Channel'
    BY InDoneFacts, SendAckChannel
<1>6. Free(in2, Outgoing, q.id) /\ Kept(q, Srv, inb2, dl2, Gone)
    BY <1>3 DEF q
<1>7. Paired(in2, out2, Srv, inb2, dl2, V5, Gone)
    BY <1>4, <1>6, AnswerPaired
<1>8. Srv' = Srv /\ Gone' = Gone
    BY InDoneFacts DEF Srv, Gone, CleanSession
<1> QED BY <1>5, <1>7, <1>8, DoneAfter DEF out2

LEMMA ReadDone ==
    ASSUME InDoneBefore, NEW p, NEW type, Receive(p, type)
    PROVE  /\ connected /\ p.type = type /\ p \in ToClient /\ ~Gone
           /\ FirstRead(s2c', s2c, p) /\ Drops(s2c', s2c, 1)
<1>1. /\ connected /\ s2c # <<>> /\ p = Head(s2c) /\ s2c' = Tail(s2c)
      /\ p.type = type /\ p \in ToClient /\ Left(s2c', s2c, 1) /\ ~Gone
    BY InDoneFacts, ReadIn
<1>2. FirstRead(s2c', s2c, p)
    BY <1>1, InDoneFacts, TailRead
<1>3. Drops(s2c', s2c, 1)
    BY <1>1, InDoneFacts, LeftDrops
<1> QED BY <1>1, <1>2, <1>3

LEMMA Delivered ==
    ASSUME delivered \in [SrvMsgs -> 0 .. 2], NEW m \in SrvMsgs, Deliver(m)
    PROVE  GotMore(delivered', delivered) /\ delivered'[m] # 0
<1>1. delivered' = [delivered EXCEPT ![m] = AtMost2(@)]
    BY DEF Deliver
<1>2. AtMost2(delivered[m]) # 0
    BY DEF AtMost2
<1>3. delivered'[m] # 0 /\ \A x \in SrvMsgs : x # m => delivered'[x] = delivered[x]
    BY <1>1, <1>2
<1> QED BY <1>3 DEF GotMore

LEMMA HandlePublishDone ==
    ASSUME InDoneBefore, NEW p, HandlePublish(p)
    PROVE  InDone'
<1>1. /\ connected /\ p.type = "PUBLISH" /\ p \in ToClient /\ ~Gone /\ FirstRead(s2c', s2c, p)
    BY ReadDone DEF HandlePublish
<1>2. p.id \in SrvIds /\ p.m \in SrvMsgs /\ IsPublish(p)
    BY <1>1, ToClientFields DEF IsPublish
<1>3. UNCHANGED <<connected, srvOut, srvDone>>
    BY DEF HandlePublish, serverVars
<1> DEFINE in2 == s2c'
           inb2 == inboundMsgs'
           dl2 == delivered'
<1>4. FirstRead(in2, s2c, p)
    BY <1>1
<1>5. Stays(Gone, Gone)
    BY DEF Stays
<1>6. CASE HandlePublishQoS1(p)
    <2>1. p.m \in SrvMsgs1 /\ UNCHANGED inboundMsgs /\ SendAck("PUBACK", p.id)
        BY <1>6 DEF HandlePublishQoS1
    <2>2. GotMore(dl2, delivered) /\ dl2[p.m] # 0
        BY <1>2, <1>6, InDoneFacts, Delivered DEF HandlePublishQoS1
    <2>3. inb2 = inboundMsgs
        BY <2>1
    <2>4. GotMore(delivered', delivered)
        BY <2>2
    <2> HIDE DEF in2, inb2, dl2
    <2>5. /\ Paired(in2, Outgoing, Srv, inboundMsgs, dl2, V5, Gone)
          /\ Free(in2, Outgoing, p.id)
          /\ Acknowledged(Srv, inboundMsgs, dl2, p.id)
        <3> DEFINE out == Outgoing
                   srv == Srv
                   v5 == V5
                   gone == Gone
        <3>1. /\ IsPublish(p) /\ p.m \in SrvMsgs1 /\ p.id \in SrvIds /\ FirstRead(in2, s2c, p)
              /\ Places(srv, inboundMsgs) /\ GotMore(dl2, delivered) /\ dl2[p.m] # 0
              /\ Paired(s2c, out, srv, inboundMsgs, delivered, v5, gone)
            BY <1>2, <1>4, <2>1, <2>2, InDoneFacts
        <3> HIDE DEF out, srv, v5, gone
        <3>2. /\ Paired(in2, out, srv, inboundMsgs, dl2, v5, gone)
              /\ Free(in2, out, p.id)
              /\ Acknowledged(srv, inboundMsgs, dl2, p.id)
            BY <3>1, DeliverPaired
        <3> QED BY <3>2 DEF out, srv, v5, gone
    <2>6. Kept(Packet("PUBACK", p.id, None), Srv, inb2, dl2, Gone)
        <3> DEFINE q == Packet("PUBACK", p.id, None)
        <3>1. q.type = "PUBACK" /\ q.id = p.id
            BY DEF Packet
        <3> HIDE DEF q
        <3>2. Kept(q, Srv, inb2, dl2, Gone)
            BY <2>3, <2>5, <3>1 DEF Kept, Promised, IsRec, Acknowledged
        <3> QED BY <3>2 DEF q
    <2>7. s2c' = in2 /\ inboundMsgs' = inb2 /\ delivered' = dl2
        BY DEF in2, inb2, dl2
    <2> DEFINE type == "PUBACK"
    <2>8. type \in {"PUBACK", "PUBREC", "PUBCOMP"} /\ SendAck(type, p.id) /\ Kept(Packet(type, p.id, None), Srv, inb2, dl2, Gone)
        BY <2>1, <2>6
    <2> HIDE DEF type
    <2> QED BY <1>1, <1>2, <1>3, <2>3, <2>4, <2>5, <2>7, <2>8, AnsweredDone
<1>7. CASE HandlePublishQoS2(p)
    <2>1. /\ p.m \in SrvMsgs2 /\ SendAck("PUBREC", p.id)
          /\ inboundMsgs' = [inboundMsgs EXCEPT ![p.id] = p.m]
          /\ IF V5 /\ inboundMsgs[p.id] = None THEN Deliver(p.m) ELSE UNCHANGED delivered
        BY <1>7 DEF HandlePublishQoS2
    <2>2. Puts(inb2, inboundMsgs, p.id, p.m)
        BY <1>2, <2>1, InDoneFacts DEF Puts
    <2>3. GotMore(dl2, delivered) /\ (V5 /\ inboundMsgs[p.id] = None => dl2[p.m] # 0)
        <3>1. CASE V5 /\ inboundMsgs[p.id] = None
            BY <1>2, <2>1, <3>1, InDoneFacts, Delivered
        <3>2. CASE ~(V5 /\ inboundMsgs[p.id] = None)
            BY <2>1, <3>2 DEF GotMore
        <3> QED BY <3>1, <3>2
    <2>4. GotMore(delivered', delivered)
        BY <2>3
    <2> HIDE DEF in2, inb2, dl2
    <2>5. /\ Paired(in2, Outgoing, Srv, inb2, dl2, V5, Gone)
          /\ Free(in2, Outgoing, p.id)
          /\ \E e \in Srv : e.id = p.id /\ e.next = "PUBREC" /\ inb2[e.id] = e.m
        <3> DEFINE out == Outgoing
                   srv == Srv
                   v5 == V5
                   gone == Gone
        <3>1. /\ IsPublish(p) /\ p.m \in SrvMsgs2 /\ p.id \in SrvIds /\ FirstRead(in2, s2c, p)
              /\ Places(srv, inboundMsgs) /\ Puts(inb2, inboundMsgs, p.id, p.m)
              /\ GotMore(dl2, delivered) /\ GotFirst(v5, inboundMsgs, dl2, p)
              /\ Stays(gone, gone) /\ Paired(s2c, out, srv, inboundMsgs, delivered, v5, gone)
            BY <1>2, <1>4, <1>5, <2>1, <2>2, <2>3, InDoneFacts DEF GotFirst
        <3> HIDE DEF out, srv, v5, gone
        <3>2. /\ Paired(in2, out, srv, inb2, dl2, v5, gone)
              /\ Free(in2, out, p.id)
              /\ \E e \in srv : e.id = p.id /\ e.next = "PUBREC" /\ inb2[e.id] = e.m
            BY <3>1, HoldPaired
        <3> QED BY <3>2 DEF out, srv, v5, gone
    <2>6. Kept(Packet("PUBREC", p.id, None), Srv, inb2, dl2, Gone)
        <3> DEFINE q == Packet("PUBREC", p.id, None)
        <3>1. q.type = "PUBREC" /\ q.id = p.id
            BY DEF Packet
        <3> HIDE DEF q
        <3>2. Kept(q, Srv, inb2, dl2, Gone)
            BY <2>5, <3>1 DEF Kept, Promised, IsRec
        <3> QED BY <3>2 DEF q
    <2>7. s2c' = in2 /\ inboundMsgs' = inb2 /\ delivered' = dl2
        BY DEF in2, inb2, dl2
    <2> DEFINE type == "PUBREC"
    <2>8. type \in {"PUBACK", "PUBREC", "PUBCOMP"} /\ SendAck(type, p.id) /\ Kept(Packet(type, p.id, None), Srv, inb2, dl2, Gone)
        BY <2>1, <2>6
    <2> HIDE DEF type
    <2> QED BY <1>1, <1>2, <1>3, <2>4, <2>5, <2>7, <2>8, AnsweredDone
<1> QED BY <1>6, <1>7 DEF HandlePublish

LEMMA HandlePubrelDone ==
    ASSUME InDoneBefore, NEW p, HandlePubrel(p)
    PROVE  InDone'
<1>1. /\ connected /\ p.type = "PUBREL" /\ p \in ToClient /\ ~Gone /\ FirstRead(s2c', s2c, p)
    BY ReadDone DEF HandlePubrel
<1>2. p.id \in SrvIds /\ IsRel(p)
    BY <1>1, ToClientFields DEF IsRel
<1>3. UNCHANGED <<connected, srvOut, srvDone>> /\ SendAck("PUBCOMP", p.id)
    BY DEF HandlePubrel, serverVars
<1> DEFINE in2 == s2c'
           inb2 == inboundMsgs'
           dl2 == delivered'
<1>4. FirstRead(in2, s2c, p)
    BY <1>1
<1>5. Puts(inb2, inboundMsgs, p.id, None)
    <2>1. CASE ReleaseInbound(p.id)
        BY <1>2, <2>1, InDoneFacts DEF ReleaseInbound, Puts
    <2>2. CASE inboundMsgs[p.id] = None /\ UNCHANGED inboundMsgs
        BY <2>2 DEF Puts
    <2> QED BY <2>1, <2>2 DEF HandlePubrel
<1>6. /\ GotMore(dl2, delivered)
      /\ ~V5 /\ inboundMsgs[p.id] # None => dl2[inboundMsgs[p.id]] # 0
    <2>1. CASE ReleaseInbound(p.id) /\ ~V5
        <3>1. inboundMsgs[p.id] \in SrvMsgs /\ Deliver(inboundMsgs[p.id])
            BY <1>2, <2>1, InDoneFacts DEF ReleaseInbound, SrvMsgs
        <3> QED BY <3>1, InDoneFacts, Delivered
    <2>2. CASE ReleaseInbound(p.id) /\ V5
        BY <2>2 DEF ReleaseInbound, GotMore
    <2>3. CASE inboundMsgs[p.id] = None /\ UNCHANGED delivered
        BY <2>3 DEF GotMore
    <2> QED BY <2>1, <2>2, <2>3 DEF HandlePubrel
<1>7. GotMore(delivered', delivered)
    BY <1>6
<1> HIDE DEF in2, inb2, dl2
<1>8. /\ Paired(in2, Outgoing, Srv, inb2, dl2, V5, Gone)
      /\ Free(in2, Outgoing, p.id)
      /\ Completed(Srv, inb2, dl2, p.id)
    <2> DEFINE out == Outgoing
               srv == Srv
               v5 == V5
               gone == Gone
    <2>1. /\ IsRel(p) /\ p.id \in SrvIds /\ FirstRead(in2, s2c, p)
          /\ Places(srv, inboundMsgs) /\ Puts(inb2, inboundMsgs, p.id, None)
          /\ GotMore(dl2, delivered) /\ GotLast(v5, inboundMsgs, dl2, p)
          /\ ~gone /\ Paired(s2c, out, srv, inboundMsgs, delivered, v5, gone)
        BY <1>1, <1>2, <1>4, <1>5, <1>6, InDoneFacts DEF GotLast
    <2> HIDE DEF out, srv, v5, gone
    <2>2. /\ Paired(in2, out, srv, inb2, dl2, v5, gone)
          /\ Free(in2, out, p.id)
          /\ Completed(srv, inb2, dl2, p.id)
        BY <2>1, LetGoPaired
    <2> QED BY <2>2 DEF out, srv, v5, gone
<1>9. Kept(Packet("PUBCOMP", p.id, None), Srv, inb2, dl2, Gone)
    <2> DEFINE q == Packet("PUBCOMP", p.id, None)
    <2>1. q.type = "PUBCOMP" /\ q.id = p.id
        BY DEF Packet
    <2> HIDE DEF q
    <2>2. Kept(q, Srv, inb2, dl2, Gone)
        BY <1>8, <2>1 DEF Kept, Promised, IsRec, Completed
    <2> QED BY <2>2 DEF q
<1>10. s2c' = in2 /\ inboundMsgs' = inb2 /\ delivered' = dl2
    BY DEF in2, inb2, dl2
<1> DEFINE type == "PUBCOMP"
<1>11. type \in {"PUBACK", "PUBREC", "PUBCOMP"} /\ SendAck(type, p.id) /\ Kept(Packet(type, p.id, None), Srv, inb2, dl2, Gone)
    BY <1>3, <1>9
<1> HIDE DEF type
<1> QED BY <1>1, <1>2, <1>3, <1>7, <1>8, <1>10, <1>11, AnsweredDone

LEMMA SameUnread ==
    ASSUME NEW out \in Seq(ToServer)
    PROVE  Unread(out, out, 0)
BY SelfSegment, SegmentUnread

LEMMA SameOutgoing ==
    ASSUME InDoneBefore, UNCHANGED <<c2s, pendingWrite, outboundQueue>>
    PROVE  Outgoing' = Outgoing /\ Unread(Outgoing', Outgoing, 0)
<1>1. Outgoing' = Outgoing
    BY DEF Outgoing, Written, Queued
<1> QED BY <1>1, InDoneFacts, SameUnread

(* The client reads a packet that is not of the server's exchanges. *)
LEMMA OtherReadDone ==
    ASSUME InDoneBefore, NEW p, NEW type, Receive(p, type),
           UNCHANGED <<connected, srvOut, srvDone, inboundMsgs, delivered>>,
           Channel', Unread(Outgoing', Outgoing, 0)
    PROVE  InDone'
<1>1. Drops(s2c', s2c, 1)
    BY ReadDone
<1>2. Forgets(inboundMsgs', inboundMsgs, Gone, Gone') /\ GotMore(delivered', delivered)
    BY InDoneFacts, NothingForgotten
<1> QED BY <1>1, <1>2, FewerDone

LEMMA HandleFinalAckDone ==
    ASSUME InDoneBefore, NEW p, NEW type, HandleFinalAck(p, type)
    PROVE  InDone'
<1>1. /\ Receive(p, type)
      /\ UNCHANGED <<connected, srvOut, srvDone, inboundMsgs, delivered>>
      /\ UNCHANGED <<c2s, pendingWrite, outboundQueue>>
    BY DEF HandleFinalAck, serverVars
<1>2. Channel'
    <2>1. connected
        BY <1>1 DEF Receive
    <2> QED BY <1>1, <2>1, InDoneFacts DEF Channel
<1> QED BY <1>1, <1>2, SameOutgoing, OtherReadDone

LEMMA HandlePubrecDone ==
    ASSUME InDoneBefore, NEW p, HandlePubrec(p)
    PROVE  InDone'
<1>1. /\ Receive(p, "PUBREC") /\ connected
      /\ UNCHANGED <<connected, srvOut, srvDone, inboundMsgs, delivered>>
    BY DEF HandlePubrec, Receive, serverVars
<1> DEFINE type == "PUBREC"
<1>2. Receive(p, type)
    BY <1>1
<1>3. p \in ToClient /\ p.type = "PUBREC"
    BY <1>1, ReadDone
<1> HIDE DEF type
<1>4. CASE PubrecRefuses(p)
    <2>1. UNCHANGED <<c2s, pendingWrite, outboundQueue>>
        BY <1>4 DEF PubrecRefuses
    <2>2. Channel'
        BY <1>1, <2>1, InDoneFacts DEF Channel
    <2> QED BY <1>1, <1>2, <2>1, <2>2, SameOutgoing, OtherReadDone
<1>5. CASE PubrecReleases(p)
    <2> DEFINE q == Packet("PUBREL", p.id, None)
    <2>1. SendAck("PUBREL", p.id)
        BY <1>5 DEF PubrecReleases
    <2>2. [type |-> "PUBREL", id |-> p.id] \in Acks
        <3>1. p.id \in Ids
            BY <1>3, ToClientFields
        <3> QED BY <3>1 DEF Acks
    <2>3. q \in ToServer /\ Outgoing' = Append(Outgoing, q)
        BY <2>1, <2>2, InDoneFacts, SendAckOutgoing
    <2>4. ~Back(q)
        BY DEF Back, Packet
    <2> HIDE DEF q
    <2>5. Unread(Outgoing', Outgoing, 0)
        BY <2>3, <2>4, InDoneFacts, AppendUnread
    <2>6. Channel'
        BY <1>1, <2>1, InDoneFacts, SendAckChannel
    <2> QED BY <1>1, <1>2, <2>5, <2>6, OtherReadDone
<1> QED BY <1>4, <1>5 DEF HandlePubrec

(* What the client sends of its own accord. *)
LEMMA SentDone ==
    ASSUME InDoneBefore, UNCHANGED <<connected, s2c, srvOut, srvDone, inboundMsgs, delivered>>,
           Channel', Unread(Outgoing', Outgoing, 0)
    PROVE  InDone'
<1>1. Drops(s2c', s2c, 0)
    BY InDoneFacts, LeftSame, LeftDrops
<1>2. Forgets(inboundMsgs', inboundMsgs, Gone, Gone') /\ GotMore(delivered', delivered)
    BY InDoneFacts, NothingForgotten
<1> QED BY <1>1, <1>2, FewerDone

(* A partial write is finished. *)
LEMMA WriteAvailableOutgoing ==
    ASSUME StateOK, StateOK', WriteAvailable
    PROVE  Segment(Outgoing', Outgoing, 0)
<1>1. PICK n \in 0 .. Len(outboundQueue), outcome \in Outcomes :
         LET acks == [k \in 1 .. n |-> Packet(outboundQueue[k].type, outboundQueue[k].id, None)]
         IN  Transmit(c2s, <<pendingWrite>> \o acks, outcome)
    BY DEF WriteAvailable
<1> DEFINE acks == [k \in 1 .. n |-> Packet(outboundQueue[k].type, outboundQueue[k].id, None)]
<1>2. Transmit(c2s, <<pendingWrite>> \o acks, outcome)
    BY <1>1
<1>3. pendingWrite # None /\ outboundQueue' = <<>>
    BY DEF WriteAvailable
<1>4. c2s \in Seq(ToServer) /\ pendingWrite \in ToServer
    BY <1>3 DEF StateOK
<1>5. /\ Written \in Seq(ToServer) /\ Queued \in Seq(ToServer) /\ Outgoing \in Seq(ToServer)
      /\ Len(Queued) = Len(outboundQueue)
    BY <1>4, OutgoingFacts
<1>6. acks \in Seq(ToServer) /\ Segment(acks, Queued, 0)
    <2>1. DOMAIN Queued = 1 .. Len(outboundQueue) /\ Len(outboundQueue) \in Nat
          /\ \A k \in DOMAIN Queued : Queued[k] \in ToServer
        BY <1>5, SeqFacts
    <2>2. \A k \in 1 .. n : k \in Int /\ k + 0 = k /\ k \in DOMAIN Queued
        BY <2>1
    <2>3. DOMAIN outboundQueue = DOMAIN Queued
        BY DEF Queued
    <2>4. \A k \in DOMAIN Queued :
             Queued[k] = Packet(outboundQueue[k].type, outboundQueue[k].id, None)
        BY <2>3 DEF Queued
    <2>5. \A k \in 1 .. n : acks[k] = Queued[k]
        BY <2>2, <2>4
    <2>6. acks \in [1 .. n -> ToServer]
        BY <2>1, <2>2, <2>4
    <2>7. acks \in Seq(ToServer) /\ DOMAIN acks = 1 .. n
        BY <2>6, SeqOfFunction
    <2> HIDE DEF acks
    <2> QED BY <2>2, <2>5, <2>7 DEF Segment
<1> HIDE DEF acks
<1>7. Written' = Written \o acks
    <2>1. <<pendingWrite>> \in Seq(ToServer) /\ <<pendingWrite>> # <<>>
        BY <1>4
    <2>2. <<pendingWrite>> \o acks \in Seq(ToServer) /\ <<pendingWrite>> \o acks # <<>>
        BY <1>6, <2>1, ConcatProperties, ConcatEqualIffEmpty
    <2>3. Written' = c2s \o (<<pendingWrite>> \o acks)
        BY <1>2, <1>4, <2>2, TransmitWritten
    <2>4. (c2s \o <<pendingWrite>>) \o acks = c2s \o (<<pendingWrite>> \o acks)
        BY <1>4, <1>6, <2>1, ConcatAssociative
    <2>5. Written = c2s \o <<pendingWrite>>
        BY <1>3, <1>4, AppendIsConcat DEF Written
    <2> QED BY <2>3, <2>4, <2>5
<1>8. Outgoing' = Written'
    BY <1>3, NothingQueued
<1> QED BY <1>5, <1>6, <1>7, <1>8, ConcatPrefix DEF Outgoing

LEMMA WriteAvailableDone ==
    ASSUME InDoneBefore, WriteAvailable
    PROVE  InDone'
<1>1. /\ connected /\ pendingWrite # None /\ outboundQueue' = <<>>
      /\ UNCHANGED <<connected, s2c, srvOut, srvDone, inboundMsgs, delivered>>
    BY DEF WriteAvailable, serverVars, appVars
<1>2. Channel'
    BY <1>1, InDoneFacts DEF Channel
<1>3. Segment(Outgoing', Outgoing, 0)
    BY InDoneFacts, WriteAvailableOutgoing
<1>4. Unread(Outgoing', Outgoing, 0)
    BY <1>3, SegmentUnread
<1> QED BY <1>1, <1>2, <1>4, SentDone

LEMMA PublishDone ==
    ASSUME InDoneBefore, NEW m \in Msgs, Publish(m)
    PROVE  InDone'
<1> DEFINE id == AssignMsgId(msgID, OutIds)
           p == Packet("PUBLISH", id, m)
<1>1. PICK outcome \in Outcomes : Transmit(c2s, <<p>>, outcome)
    BY DEF Publish
<1>2. /\ connected /\ pendingWrite = None
      /\ UNCHANGED <<connected, s2c, srvOut, srvDone, inboundMsgs, delivered, outboundQueue>>
    BY DEF Publish, serverVars
<1>3. id \in Ids
    BY AssignedIsFree, InDoneFacts DEF Publish, StateOK
<1>4. p \in ToServer /\ ~Back(p)
    BY <1>3, PublishIsPacket DEF Packet, Back
<1> HIDE DEF id, p
<1>5. outboundQueue' = <<>> /\ outboundQueue = <<>> /\ c2s \in Seq(ToServer)
    BY <1>2, InDoneFacts DEF Channel
<1>6. Outgoing = c2s
    BY <1>2, <1>5, InDoneFacts, OutgoingFacts
<1>7. Outgoing' = Append(Outgoing, p)
    <2>1. <<p>> \in Seq(ToServer) /\ <<p>> # <<>>
        BY <1>4
    <2>2. Written' = c2s \o <<p>>
        BY <1>1, <1>5, <2>1, TransmitWritten
    <2> QED BY <1>4, <1>5, <1>6, <2>2, InDoneFacts, NothingQueued, AppendIsConcat
<1>8. Channel'
    <2>1. ASSUME scenario.budget.partial = 0 PROVE pendingWrite' = None
        <3>1. outcome = "complete"
            BY <1>1, <2>1, InDoneFacts, CompleteOutcome
        <3> QED BY <1>1, <3>1 DEF Transmit
    <2> QED BY <1>2, <1>5, <2>1, InDoneFacts DEF Channel
<1>9. Unread(Outgoing', Outgoing, 0)
    BY <1>4, <1>7, InDoneFacts, AppendUnread
<1> QED BY <1>2, <1>8, <1>9, SentDone

LEMMA ClientStepDone ==
    ASSUME InDoneBefore, ClientStep
    PROVE  InDone'
BY HandlePublishDone, HandlePubrelDone, HandlePubrecDone, HandleFinalAckDone, WriteAvailableDone
   DEF ClientStep, HandlePuback, HandlePubcomp

-----------------------------------------------------------------------------
(* The server's steps                                                       *)

LEMMA SrvReadDone ==
    ASSUME InDoneBefore, NEW p, NEW types, SrvReceive(p, types),
           UNCHANGED <<pendingWrite, outboundQueue>>
    PROVE  /\ p \in ToServer /\ p.type \in types
           /\ FirstRead(Outgoing', Outgoing, p) /\ Unread(Outgoing', Outgoing, 1)
<1>1. /\ p \in ToServer /\ p.type \in types
      /\ 1 \in DOMAIN Outgoing /\ Outgoing[1] = p
      /\ Segment(Outgoing', Outgoing, 1) /\ DOMAIN Outgoing' \subseteq Nat \ {0}
    BY InDoneFacts, SrvReceiveOutgoing
<1> DEFINE out2 == Outgoing'
<1>2. Segment(out2, Outgoing, 1) /\ DOMAIN out2 \subseteq Nat \ {0}
    BY <1>1
<1> HIDE DEF out2
<1>3. FirstRead(out2, Outgoing, p) /\ Unread(out2, Outgoing, 1)
    BY <1>1, <1>2, SegmentRead, SegmentUnread
<1> QED BY <1>1, <1>3 DEF out2

LEMMA ServerChannel ==
    ASSUME InDoneBefore, UNCHANGED <<connected, pendingWrite, outboundQueue>>,
           ~connected => s2c' = <<>>
    PROVE  Channel'
BY InDoneFacts DEF Channel

(* The server answers a packet of the client's exchanges. *)
LEMMA ServerAnswersDone ==
    ASSUME InDoneBefore, NEW p, NEW types, SrvReceive(p, types), NEW q \in ToClient, SrvReply(q), ~Forth(q),
           UNCHANGED <<connected, pendingWrite, outboundQueue, srvOut, srvDone, inboundMsgs, delivered>>
    PROVE  InDone'
<1>1. Unread(Outgoing', Outgoing, 1)
    BY SrvReadDone
<1>2. Left(s2c', s2c, 0) /\ (~connected => s2c' = <<>>)
    BY InDoneFacts, ReplyGrows
<1>3. Drops(s2c', s2c, 0)
    BY <1>2, InDoneFacts, LeftDrops
<1>4. Channel'
    BY <1>2, ServerChannel
<1>5. Forgets(inboundMsgs', inboundMsgs, Gone, Gone') /\ GotMore(delivered', delivered)
    BY InDoneFacts, NothingForgotten
<1> QED BY <1>1, <1>3, <1>4, <1>5, FewerDone

LEMMA SrvPublishDone ==
    ASSUME InDoneBefore, NEW p, SrvPublish(p)
    PROVE  InDone'
<1>1. /\ SrvReceive(p, {"PUBLISH"})
      /\ UNCHANGED <<connected, pendingWrite, outboundQueue, srvOut, srvDone, inboundMsgs, delivered>>
    BY DEF SrvPublish, clientVars
<1>2. PICK q \in ToClient : SrvReply(q) /\ ~Forth(q)
    BY InDoneFacts, SrvPublishReplies
<1> DEFINE types == {"PUBLISH"}
<1>3. SrvReceive(p, types)
    BY <1>1
<1> HIDE DEF types
<1> QED BY <1>1, <1>2, <1>3, ServerAnswersDone

LEMMA SrvPubrelDone ==
    ASSUME InDoneBefore, NEW p, SrvPubrel(p)
    PROVE  InDone'
<1>1. /\ SrvReceive(p, {"PUBREL"})
      /\ UNCHANGED <<connected, pendingWrite, outboundQueue, srvOut, srvDone, inboundMsgs, delivered>>
    BY DEF SrvPubrel, clientVars, appVars
<1>2. PICK q \in ToClient : SrvReply(q) /\ ~Forth(q)
    BY InDoneFacts, SrvPubrelReplies
<1> DEFINE types == {"PUBREL"}
<1>3. SrvReceive(p, types)
    BY <1>1
<1> HIDE DEF types
<1> QED BY <1>1, <1>2, <1>3, ServerAnswersDone

LEMMA SrvFinalAckDone ==
    ASSUME InDoneBefore, NEW p, SrvFinalAck(p)
    PROVE  InDone'
<1>1. /\ SrvReceive(p, {"PUBACK", "PUBCOMP"})
      /\ UNCHANGED <<connected, pendingWrite, outboundQueue, s2c, inboundMsgs, delivered>>
    BY DEF SrvFinalAck, clientVars
<1> DEFINE types == {"PUBACK", "PUBCOMP"}
<1>2. SrvReceive(p, types)
    BY <1>1
<1>3. p.type \in types /\ FirstRead(Outgoing', Outgoing, p) /\ Unread(Outgoing', Outgoing, 1)
    <2> HIDE DEF types
    <2> QED BY <1>1, <1>2, SrvReadDone
<1>4. Back(p) /\ ~IsRec(p)
    BY <1>3 DEF Back, IsRec
<1> HIDE DEF types
<1>5. Channel'
    <2>1. ~connected => s2c' = <<>>
        BY <1>1, InDoneFacts DEF Channel
    <2> QED BY <1>1, <2>1, ServerChannel
<1>6. CASE UNCHANGED <<srvOut, srvDone>>
    <2>1. Drops(s2c', s2c, 0)
        BY <1>1, InDoneFacts, LeftSame, LeftDrops
    <2>2. Forgets(inboundMsgs', inboundMsgs, Gone, Gone') /\ GotMore(delivered', delivered)
        BY <1>1, InDoneFacts, NothingForgotten
    <2> QED BY <1>3, <1>5, <1>6, <2>1, <2>2, FewerDone
<1>7. ASSUME NEW k \in SrvWaiting(p.id, p.type), srvOut' = RemoveAt(srvOut, k),
             srvDone' = srvDone \cup {srvOut[k].m}
      PROVE  InDone'
    <2> DEFINE e == srvOut[k]
               out2 == Outgoing'
               srv2 == Srv'
               out == Outgoing
               srv == Srv
               v5 == V5
               gone == Gone
    <2>1. k \in DOMAIN srvOut /\ e \in srv /\ e.id = p.id
        BY <1>7 DEF SrvWaiting, Srv
    <2>2. srv2 = srv \ {e}
        <3> DEFINE r == RemoveAt(srvOut, k)
        <3>1. {r[j] : j \in DOMAIN r} = {srvOut[j] : j \in DOMAIN srvOut} \ {srvOut[k]}
            BY <2>1, InDoneFacts, RemovedEntry
        <3> HIDE DEF r
        <3>2. srvOut' = r
            BY <1>7 DEF r
        <3>3. Srv' = {r[j] : j \in DOMAIN r}
            BY <3>2 DEF Srv
        <3> QED BY <3>1, <3>3 DEF Srv
    <2>3. /\ FirstRead(out2, out, p) /\ Places(srv, inboundMsgs)
          /\ Paired(s2c, out, srv, inboundMsgs, delivered, v5, gone)
        BY <1>3, InDoneFacts
    <2> HIDE DEF e, out2, srv2, out, srv, v5, gone
    <2>4. Paired(s2c, out2, srv2, inboundMsgs, delivered, v5, gone) /\ delivered[e.m] # 0
        BY <1>4, <2>1, <2>2, <2>3, FinalPaired
    <2>5. Gone' = Gone /\ V5' = V5
        BY <1>1, InDoneFacts DEF Gone
    <2>6. \A m \in srvDone' : delivered'[m] # 0
        BY <1>1, <1>7, <2>4, InDoneFacts DEF e
    <2> QED BY <1>1, <1>5, <2>4, <2>5, <2>6 DEF InDone, out2, srv2, v5, gone
<1> QED BY <1>6, <1>7 DEF SrvFinalAck

(* What SrvPubrec makes of the exchange that waits for the PUBREC. *)
LEMMA PubrecAdvances ==
    ASSUME InDoneBefore, NEW p, SrvPubrec(p), NEW e \in Srv, e.id = p.id, e.next = "PUBREC"
    PROVE  Advanced(Srv', Srv, p.id)
<1>1. \A k \in DOMAIN srvOut : srvOut[k] \in SrvEntry
    BY InDoneFacts, SeqFacts
<1>2. /\ DOMAIN srvOut' = DOMAIN srvOut
      /\ \A k \in DOMAIN srvOut : srvOut'[k] =
            IF srvOut[k].id = p.id /\ srvOut[k].next = "PUBREC"
            THEN [srvOut[k] EXCEPT !.next = "PUBCOMP"] ELSE srvOut[k]
    BY DEF SrvPubrec, SrvWaiting
<1>3. \A k \in DOMAIN srvOut : srvOut[k].id = p.id => srvOut[k].next = "PUBREC"
    BY InDoneFacts DEF Srv, Places
<1> DEFINE u == srvOut'
<1>4. /\ \A k \in DOMAIN srvOut : srvOut[k].id # p.id => u[k] = srvOut[k]
      /\ \A k \in DOMAIN srvOut : u[k].id = srvOut[k].id /\ u[k].m = srvOut[k].m
      /\ \A k \in DOMAIN srvOut : srvOut[k].id = p.id => u[k].next = "PUBCOMP"
    BY <1>1, <1>2, <1>3 DEF SrvEntry
<1>5. DOMAIN u = DOMAIN srvOut /\ Srv' = {u[k] : k \in DOMAIN u}
    BY <1>2 DEF Srv
<1> HIDE DEF u
<1> DEFINE srv2 == {u[k] : k \in DOMAIN u}
<1>6. Advanced(srv2, Srv, p.id)
    BY <1>4, <1>5 DEF Advanced, Srv
<1> QED BY <1>5, <1>6

LEMMA SrvPubrecDone ==
    ASSUME InDoneBefore, NEW p, SrvPubrec(p)
    PROVE  InDone'
<1>1. /\ SrvReceive(p, {"PUBREC"}) /\ SrvReply(Packet("PUBREL", p.id, None))
      /\ UNCHANGED <<connected, pendingWrite, outboundQueue, srvDone, inboundMsgs, delivered>>
    BY DEF SrvPubrec, clientVars, appVars
<1> DEFINE types == {"PUBREC"}
<1>2. SrvReceive(p, types)
    BY <1>1
<1>3. p \in ToServer /\ p.type = "PUBREC" /\ FirstRead(Outgoing', Outgoing, p)
    <2>1. p \in ToServer /\ p.type \in types /\ FirstRead(Outgoing', Outgoing, p)
        <3> HIDE DEF types
        <3> QED BY <1>1, <1>2, SrvReadDone
    <2> QED BY <2>1
<1>4. Back(p) /\ IsRec(p)
    BY <1>3 DEF Back, IsRec
<1> HIDE DEF types
<1>5. Kept(p, Srv, inboundMsgs, delivered, Gone)
    BY <1>3, <1>4, InDoneFacts DEF Paired, Tokens, FirstRead
<1>6. Advanced(Srv', Srv, p.id)
    <2>1. PICK e \in Srv : e.id = p.id /\ e.next = "PUBREC"
        BY <1>3, <1>5 DEF Kept, Promised
    <2> QED BY <2>1, PubrecAdvances
<1> DEFINE q == Packet("PUBREL", p.id, None)
           n == Len(s2c) + 1
           in2 == s2c'
           out2 == Outgoing'
           srv2 == Srv'
           out == Outgoing
           srv == Srv
           v5 == V5
           gone == Gone
<1>7. q \in ToClient /\ SrvReply(q) /\ IsRel(q) /\ q.id = p.id
    <2>1. p.id \in SrvIds
        BY <1>3, ToServerFields
    <2> QED BY <1>1, <2>1 DEF Packet, ToClient, IsRel
<1>8. /\ FirstRead(out2, out, p) /\ Places(srv, inboundMsgs) /\ Advanced(srv2, srv, p.id)
      /\ Paired(s2c, out, srv, inboundMsgs, delivered, v5, gone)
    BY <1>3, <1>6, InDoneFacts
<1>9. Gone' = Gone /\ V5' = V5
    BY <1>1, InDoneFacts DEF Gone
<1> HIDE DEF q, n, in2, out2, srv2, out, srv, v5, gone
<1>10. Grows(in2, s2c, q, n) /\ (~connected => s2c' = <<>>)
    BY <1>7, InDoneFacts, ReplyGrows DEF n, in2
<1>11. /\ Paired(s2c, out2, srv2, inboundMsgs, delivered, v5, gone)
       /\ Free(s2c, out2, q.id) /\ Asked(q, srv2)
    BY <1>4, <1>7, <1>8, RecPaired
<1>12. Paired(in2, out2, srv2, inboundMsgs, delivered, v5, gone)
    BY <1>10, <1>11, AskPaired
<1>13. Channel'
    BY <1>1, <1>10, ServerChannel
<1>14. \A m \in srvDone' : delivered'[m] # 0
    BY <1>1, InDoneFacts
<1> QED BY <1>1, <1>9, <1>12, <1>13, <1>14 DEF InDone, in2, out2, srv2, v5, gone

LEMMA ServerStepDone ==
    ASSUME InDoneBefore, ServerStep
    PROVE  InDone'
BY SrvPublishDone, SrvPubrelDone, SrvFinalAckDone, SrvPubrecDone DEF ServerStep

LEMMA AppendedEntry ==
    ASSUME NEW out \in Seq(SrvEntry), NEW e \in SrvEntry
    PROVE  {Append(out, e)[k] : k \in DOMAIN Append(out, e)} = {out[k] : k \in DOMAIN out} \cup {e}
<1> DEFINE u == Append(out, e)
<1>1. /\ DOMAIN out = 1 .. Len(out) /\ Len(out) \in Nat
      /\ DOMAIN u = 1 .. (Len(out) + 1) /\ u[Len(out) + 1] = e
      /\ \A k \in DOMAIN out : u[k] = out[k]
    BY SeqFacts, AppendFacts
<1> HIDE DEF u
<1>2. /\ \A k \in DOMAIN u : k \in DOMAIN out \/ k = Len(out) + 1
      /\ DOMAIN out \subseteq DOMAIN u /\ Len(out) + 1 \in DOMAIN u
    BY <1>1
<1>3. {u[k] : k \in DOMAIN u} = {out[k] : k \in DOMAIN out} \cup {e}
    BY <1>1, <1>2
<1> QED BY <1>3 DEF u

LEMMA SrvSendDone ==
    ASSUME InDoneBefore, NEW m \in SrvMsgs, SrvSend(m)
    PROVE  InDone'
<1>1. /\ connected
      /\ UNCHANGED <<connected, pendingWrite, outboundQueue, c2s, srvDone, inboundMsgs, delivered>>
    BY DEF SrvSend, clientVars
<1>2. PICK i \in SrvIds :
         /\ \A k \in DOMAIN srvOut : srvOut[k].id # i
         /\ srvOut' = Append(srvOut,
               [id |-> i, m |-> m, next |-> IF m \in SrvMsgs2 THEN "PUBREC" ELSE "PUBACK"])
         /\ SrvReply(Packet("PUBLISH", i, m))
    BY DEF SrvSend
<1> DEFINE e == [id |-> i, m |-> m, next |-> IF m \in SrvMsgs2 THEN "PUBREC" ELSE "PUBACK"]
           q == Packet("PUBLISH", i, m)
           n == Len(s2c) + 1
           in2 == s2c'
           srv2 == Srv'
           out == Outgoing
           srv == Srv
           v5 == V5
           gone == Gone
<1>3. e \in SrvEntry /\ e.id = i /\ e.m = m /\ e.next # "PUBCOMP"
    BY DEF SrvEntry
<1>4. q \in ToClient /\ SrvReply(q) /\ srvOut' = Append(srvOut, e)
    BY <1>2 DEF Packet, ToClient
<1>5. IsPublish(q) /\ q.id = i /\ q.m = m
    BY DEF Packet, IsPublish
<1>6. \A f \in srv : f.id # i
    BY <1>2 DEF Srv
<1>7. Paired(s2c, out, srv, inboundMsgs, delivered, v5, gone)
    BY InDoneFacts
<1>8. Gone' = Gone /\ V5' = V5 /\ Outgoing' = Outgoing
    BY <1>1, InDoneFacts, SameOutgoing DEF Gone
<1> HIDE DEF e, q
<1>9. srv2 = srv \cup {e}
    <2> DEFINE u == Append(srvOut, e)
    <2>1. {u[k] : k \in DOMAIN u} = {srvOut[k] : k \in DOMAIN srvOut} \cup {e}
        BY <1>3, InDoneFacts, AppendedEntry
    <2>2. srvOut' = u
        BY <1>4
    <2> HIDE DEF u
    <2>3. Srv' = {u[k] : k \in DOMAIN u}
        BY <2>2 DEF Srv
    <2> QED BY <2>1, <2>3 DEF Srv
<1> HIDE DEF n, in2, srv2, out, srv, v5, gone
<1>10. Grows(in2, s2c, q, n)
    BY <1>4, InDoneFacts, ReplyGrows DEF n, in2
<1>11. /\ Paired(s2c, out, srv2, inboundMsgs, delivered, v5, gone)
       /\ Free(s2c, out, q.id) /\ Asked(q, srv2)
    <2>1. \A f \in srv : f.id # e.id
        BY <1>3, <1>6
    <2>2. q.id = e.id /\ q.m = e.m /\ e.next # "PUBCOMP"
        BY <1>3, <1>5
    <2> QED BY <1>5, <1>7, <1>9, <2>1, <2>2, SendPaired
<1>12. Paired(in2, out, srv2, inboundMsgs, delivered, v5, gone)
    BY <1>10, <1>11, AskPaired
<1>13. Channel'
    BY <1>1, ServerChannel
<1>14. \A x \in srvDone' : delivered'[x] # 0
    BY <1>1, InDoneFacts
<1> QED BY <1>1, <1>8, <1>12, <1>13, <1>14 DEF InDone, in2, out, srv2, v5, gone

-----------------------------------------------------------------------------
(* Losing the connection, retrying, reconnecting and being killed           *)

(* The socket is closed. *)
LEMMA ClosedDone ==
    ASSUME InDoneBefore, CloseSocket, UNCHANGED <<srvDone, srvOut>>, outboundQueue' = <<>>,
           GotMore(delivered', delivered), Unread(c2s', Outgoing, 0),
           inboundMsgs' = inboundMsgs \/ (CleanSession /\ EmptySession)
    PROVE  InDone'
<1>1. connected' = FALSE /\ pendingWrite' = None /\ s2c' = <<>>
    BY DEF CloseSocket
<1>2. Channel'
    BY <1>1 DEF Channel
<1>3. Outgoing' = c2s'
    BY <1>1, InDoneFacts, NothingQueued
<1>4. Unread(Outgoing', Outgoing, 0)
    BY <1>3
<1>5. Left(s2c', s2c, 0)
    BY <1>1, LeftNone
<1>6. Drops(s2c', s2c, 0)
    BY <1>5, InDoneFacts, LeftDrops
<1>7. Forgets(inboundMsgs', inboundMsgs, Gone, Gone')
    <2>1. CleanSession => Gone'
        BY <1>1, InDoneFacts DEF Gone
    <2> QED BY <2>1 DEF Forgets, Gone, EmptySession
<1> QED BY <1>2, <1>4, <1>6, <1>7, FewerDone

(* Where the connection may be lost, no write is partial. *)
LEMMA LossQuiet ==
    ASSUME InDoneBefore, Allowed("loss")
    PROVE  pendingWrite = None /\ outboundQueue = <<>> /\ Outgoing = c2s
<1>1. scenario.budget.loss # 0
    BY InDoneFacts DEF Spared, Allowed
<1>2. scenario.budget.partial = 0
    BY <1>1, InDoneFacts DEF Tame
<1>3. pendingWrite = None /\ outboundQueue = <<>>
    BY <1>2, InDoneFacts DEF Channel
<1> QED BY <1>3, OutgoingFacts, InDoneFacts

LEMMA ConnectionLostDone ==
    ASSUME InDoneBefore, ConnectionLost
    PROVE  InDone'
<1>1. /\ Allowed("loss") /\ CloseSocket /\ c2s' = c2s /\ outboundQueue' = outboundQueue
      /\ UNCHANGED <<srvDone, srvOut, delivered>>
      /\ inboundMsgs' = inboundMsgs \/ (CleanSession /\ EmptySession)
    BY DEF ConnectionLost, serverVars, appVars, sessionVars, CleansOnClose
<1>2. outboundQueue' = <<>> /\ Outgoing = c2s
    BY <1>1, LossQuiet
<1>3. Unread(c2s, c2s, 0)
    BY InDoneFacts, SameUnread
<1>4. Unread(c2s', Outgoing, 0) /\ GotMore(delivered', delivered)
    BY <1>1, <1>2, <1>3 DEF GotMore
<1> QED BY <1>1, <1>2, <1>4, ClosedDone

(* What a retry sends is of the client's own exchanges. *)
LEMMA RetrySilent ==
    ASSUME StateOK, NEW regardless, NEW outcome, NEW f \in Attempts(regardless, outcome), NEW ps,
           ps = [k \in DOMAIN f |-> RetryPacket(outboundMsgs[f[k]])]
    PROVE  /\ ps \in Seq(ToServer) /\ ps # <<>> /\ Silent(ps)
           /\ Front(ps) \in Seq(ToServer) /\ Silent(Front(ps))
<1>1. ps \in Seq(ToServer) /\ ps # <<>>
    BY RetryPackets DEF StateOK
<1>2. \A e : ~Back(RetryPacket(e))
    BY DEF RetryPacket, Packet, Back
<1>3. \A k \in DOMAIN ps : \E e : ps[k] = RetryPacket(e)
    OBVIOUS
<1>4. Silent(ps)
    BY <1>2, <1>3 DEF Silent
<1>5. Front(ps) \in Seq(ToServer) /\ \A k \in DOMAIN Front(ps) : k \in DOMAIN ps /\ Front(ps)[k] = ps[k]
    BY <1>1, FrontSegment
<1>6. Silent(Front(ps))
    BY <1>4, <1>5 DEF Silent
<1> QED BY <1>1, <1>4, <1>5, <1>6

(* It is written after what is on its way, or on a new connection. *)
LEMMA WroteUnread ==
    ASSUME NEW out \in Seq(ToServer), NEW wire, wire = out \/ wire = <<>>,
           NEW ps \in Seq(ToServer), Silent(ps)
    PROVE  Unread(wire \o ps, out, 0) /\ wire \in Seq(ToServer) /\ (wire = <<>> => Silent(wire \o ps))
<1>1. CASE wire = out /\ wire # <<>>
    BY <1>1, ConcatUnread
<1>2. CASE wire = <<>>
    <2>1. wire \o ps = ps /\ wire \in Seq(ToServer)
        BY <1>2, ConcatEmptySeq, EmptySeq
    <2>2. Unread(ps, out, 0)
        BY SilentUnread
    <2> QED BY <2>1, <2>2
<1> QED BY <1>1, <1>2

LEMMA RetryFailedDone ==
    ASSUME InDoneBefore, UNCHANGED <<srvDone, srvOut, delivered>>, outboundQueue' = <<>>,
           NEW regardless, NEW outcome, outcome = "failed", NEW f \in Attempts(regardless, outcome),
           NEW wire, wire = Outgoing \/ wire = <<>>, NEW incoming, NEW now,
           RetryLoop(f, regardless, outcome, wire, incoming, now)
    PROVE  InDone'
<1> DEFINE ps == [k \in DOMAIN f |-> RetryPacket(outboundMsgs[f[k]])]
           front == Front(ps)
<1>1. front \in Seq(ToServer) /\ Silent(front)
    BY InDoneFacts, RetrySilent
<1>2. CloseSocket /\ c2s' = wire \o front
    BY DEF RetryLoop, Transmit
<1>3. inboundMsgs' = inboundMsgs \/ (CleanSession /\ EmptySession)
    BY DEF RetryLoop, CleansOnClose
<1> HIDE DEF ps, front
<1>4. Unread(c2s', Outgoing, 0)
    BY <1>1, <1>2, InDoneFacts, WroteUnread
<1>5. GotMore(delivered', delivered)
    BY DEF GotMore
<1> QED BY <1>2, <1>3, <1>4, <1>5, ClosedDone

LEMMA RetryWrittenDone ==
    ASSUME InDoneBefore, outboundQueue' = <<>>,
           NEW regardless, NEW outcome \in RetryOutcomes, outcome # "failed",
           NEW f \in Attempts(regardless, outcome),
           NEW wire, wire = Outgoing \/ wire = <<>>, NEW incoming, NEW now,
           RetryLoop(f, regardless, outcome, wire, incoming, now)
    PROVE  /\ connected' = TRUE /\ s2c' = incoming /\ inboundMsgs' = inboundMsgs
           /\ Channel' /\ Unread(Outgoing', Outgoing, 0) /\ (wire = <<>> => Silent(Outgoing'))
<1> DEFINE ps == [k \in DOMAIN f |-> RetryPacket(outboundMsgs[f[k]])]
<1>1. ps \in Seq(ToServer) /\ ps # <<>> /\ Silent(ps)
    BY InDoneFacts, RetrySilent
<1>2. /\ Transmit(wire, ps, outcome) /\ connected' = TRUE /\ s2c' = incoming
      /\ inboundMsgs' = inboundMsgs
    BY DEF RetryLoop
<1> HIDE DEF ps
<1>3. /\ Unread(wire \o ps, Outgoing, 0) /\ wire \in Seq(ToServer)
      /\ wire = <<>> => Silent(wire \o ps)
    BY <1>1, InDoneFacts, WroteUnread
<1>4. Outgoing' = wire \o ps
    BY <1>1, <1>2, <1>3, InDoneFacts, TransmitWritten, NothingQueued
<1>5. Channel'
    <2>1. ASSUME scenario.budget.partial = 0 PROVE pendingWrite' = None
        <3>1. outcome = "complete"
            BY <2>1, InDoneFacts, CompleteOutcome DEF RetryOutcomes
        <3> QED BY <1>2, <3>1 DEF Transmit
    <2> QED BY <1>2, <2>1, InDoneFacts DEF Channel
<1> QED BY <1>2, <1>3, <1>4, <1>5

LEMMA RetryDone ==
    ASSUME InDoneBefore, Retry
    PROVE  InDone'
<1> DEFINE regardless == connect_sent < connect_count
<1>1. /\ connected /\ pendingWrite = None /\ outboundQueue' = outboundQueue
      /\ UNCHANGED <<srvDone, srvOut, delivered>>
    BY DEF Retry, serverVars, appVars
<1>2. PICK outcome \in RetryOutcomes : \E f \in Attempts(regardless, outcome) :
         RetryLoop(f, regardless, outcome, c2s, s2c, sentNow)
    BY DEF Retry
<1> HIDE DEF regardless
<1>3. PICK f \in Attempts(regardless, outcome) :
         RetryLoop(f, regardless, outcome, c2s, s2c, sentNow)
    BY <1>2
<1>4. outboundQueue' = <<>> /\ Outgoing = c2s
    BY <1>1, InDoneFacts, OutgoingFacts DEF Channel
<1>5. CASE outcome = "failed"
    BY <1>1, <1>3, <1>4, <1>5, RetryFailedDone
<1>6. CASE outcome # "failed"
    <2>1. /\ connected' = TRUE /\ s2c' = s2c /\ inboundMsgs' = inboundMsgs
          /\ Channel' /\ Unread(Outgoing', Outgoing, 0)
        BY <1>3, <1>4, <1>6, RetryWrittenDone
    <2>2. connected' = connected
        BY <1>1, <2>1, InDoneFacts DEF StateOK
    <2> QED BY <1>1, <2>1, <2>2, SentDone
<1> QED BY <1>5, <1>6

(* A new connection to the session the server has kept. *)
LEMMA ResumedDone ==
    ASSUME InDoneBefore, ~connected, ~CleanSession, connected' = TRUE, s2c' = SrvResend,
           UNCHANGED <<srvOut, srvDone, inboundMsgs, delivered>>,
           Channel', Silent(Outgoing')
    PROVE  InDone'
<1> DEFINE in2 == SrvResend
           out2 == Outgoing'
           out == Outgoing
           srv == Srv
           v5 == V5
           gone == Gone
<1>1. /\ DOMAIN in2 = DOMAIN srvOut
      /\ \A k \in DOMAIN srvOut : in2[k] =
            IF srvOut[k].next = "PUBCOMP" THEN Packet("PUBREL", srvOut[k].id, None)
            ELSE Packet("PUBLISH", srvOut[k].id, srvOut[k].m)
    BY DEF SrvResend
<1>2. /\ Silent(out2) /\ Distinct(srvOut) /\ srv = {srvOut[k] : k \in DOMAIN srvOut}
      /\ Paired(s2c, out, srv, inboundMsgs, delivered, v5, gone)
    BY InDoneFacts DEF Srv
<1>3. Gone' = gone /\ Srv' = srv /\ s2c' = in2
    BY InDoneFacts DEF Gone, Srv
<1> HIDE DEF in2, out2, out, srv, v5, gone
<1>4. Paired(in2, out2, srv, inboundMsgs, delivered, v5, gone)
    BY <1>1, <1>2, ResumePaired
<1>5. GotMore(delivered', delivered)
    BY DEF GotMore
<1>6. Paired(in2, out2, srv, inboundMsgs, delivered, V5, gone)
    BY <1>4 DEF v5
<1>7. Outgoing' = out2
    BY DEF out2
<1> QED BY <1>3, <1>5, <1>6, <1>7, DoneAfter

(* A new session on both sides. *)
LEMMA FreshDone ==
    ASSUME InDoneBefore, EmptySession, srvOut' = <<>>, s2c' = <<>>, Channel', Outgoing' = <<>>,
           UNCHANGED <<srvDone, delivered>>
    PROVE  InDone'
<1> DEFINE in2 == s2c'
           out2 == Outgoing'
           srv2 == Srv'
           inb2 == inboundMsgs'
           gone2 == Gone'
           dl2 == delivered'
           v5 == V5
<1>1. in2 = <<>> /\ Silent(out2) /\ srv2 = {} /\ \A i \in SrvIds : inb2[i] = None
    BY DEF Silent, Srv, EmptySession
<1>2. GotMore(delivered', delivered)
    BY DEF GotMore
<1> HIDE DEF in2, out2, srv2, inb2, gone2, dl2, v5
<1>3. Paired(in2, out2, srv2, inb2, dl2, v5, gone2)
    BY <1>1, FreshPaired
<1>4. Paired(in2, out2, srv2, inb2, dl2, V5, gone2)
    BY <1>3 DEF v5
<1> QED BY <1>2, <1>4, DoneAfter DEF in2, out2, srv2, inb2, gone2, dl2

LEMMA ReconnectDone ==
    ASSUME InDoneBefore, NEW fresh \in BOOLEAN, Reconnect(fresh)
    PROVE  InDone'
<1> DEFINE cleans == CleanSession \/ (fresh /\ AsyncAPI)
<1>1. /\ ~connected /\ outboundQueue' = outboundQueue
      /\ UNCHANGED <<srvDone, delivered>>
      /\ fresh => (CleanSession \/ Allowed("forget")) /\ srvOut' = <<>>
      /\ ~fresh => ~CleanSession /\ srvOut' = srvOut
    BY DEF Reconnect, appVars, serverVars
<1>2. pendingWrite = None /\ outboundQueue = <<>> /\ outboundQueue' = <<>>
    BY <1>1, InDoneFacts DEF Channel
<1>3. ASSUME connected' = TRUE, c2s' = <<>>, UNCHANGED pendingWrite PROVE Channel' /\ Outgoing' = <<>>
    <2>1. Channel'
        BY <1>2, <1>3 DEF Channel
    <2>2. pendingWrite' = None
        BY <1>2, <1>3
    <2> QED BY <1>2, <1>3, <2>1, <2>2, InDoneFacts, NothingQueued
<1>4. CASE cleans
    <2>1. fresh
        BY <1>1, <1>4
    <2>2. /\ EmptySession /\ connected' = TRUE /\ c2s' = <<>> /\ s2c' = <<>>
          /\ UNCHANGED pendingWrite
        BY <1>4, <2>1 DEF Reconnect
    <2> QED BY <1>1, <1>3, <2>1, <2>2, FreshDone
<1>5. CASE ~cleans
    <2>1. ~fresh /\ ~CleanSession
        <3>1. ~CleanSession
            BY <1>5
        <3>2. ASSUME fresh PROVE FALSE
            <4>1. Allowed("forget") /\ ~AsyncAPI
                BY <1>1, <1>5, <3>1, <3>2
            <4>2. scenario.budget.forget # 0
                BY <4>1, InDoneFacts DEF Spared, Allowed
            <4> QED BY <3>1, <4>1, <4>2, InDoneFacts DEF Tame
        <3> QED BY <3>1, <3>2
    <2>2. \/ UNCHANGED sessionVars /\ connected' = TRUE /\ c2s' = <<>> /\ s2c' = SrvResend
             /\ UNCHANGED pendingWrite
          \/ \E outcome \in RetryOutcomes : \E f \in Attempts(TRUE, outcome) :
                RetryLoop(f, TRUE, outcome, <<>>, SrvResend, {})
        BY <1>5, <2>1 DEF Reconnect
    <2>3. CASE UNCHANGED sessionVars /\ connected' = TRUE /\ c2s' = <<>> /\ s2c' = SrvResend
                 /\ UNCHANGED pendingWrite
        <3>1. Channel' /\ Silent(Outgoing') /\ inboundMsgs' = inboundMsgs
            BY <1>3, <2>3 DEF Silent, sessionVars
        <3> QED BY <1>1, <2>1, <2>3, <3>1, ResumedDone
    <2>4. CASE \E outcome \in RetryOutcomes : \E f \in Attempts(TRUE, outcome) :
                  RetryLoop(f, TRUE, outcome, <<>>, SrvResend, {})
        <3> DEFINE yes == TRUE
                   wire == <<>>
                   now == {}
                   incoming == SrvResend
        <3>1. PICK outcome \in RetryOutcomes : \E f \in Attempts(yes, outcome) :
                 RetryLoop(f, yes, outcome, wire, incoming, now)
            BY <2>4
        <3>2. wire = <<>>
            OBVIOUS
        <3>3. incoming = SrvResend
            OBVIOUS
        <3> HIDE DEF yes, wire, now, incoming
        <3>4. PICK f \in Attempts(yes, outcome) : RetryLoop(f, yes, outcome, wire, incoming, now)
            BY <3>1
        <3>5. CASE outcome = "failed"
            BY <1>1, <1>2, <2>1, <3>2, <3>4, <3>5, RetryFailedDone
        <3>6. CASE outcome # "failed"
            <4>1. /\ connected' = TRUE /\ s2c' = incoming /\ inboundMsgs' = inboundMsgs
                  /\ Channel' /\ (wire = <<>> => Silent(Outgoing'))
                BY <1>2, <3>2, <3>4, <3>6, RetryWrittenDone
            <4> QED BY <1>1, <2>1, <3>2, <3>3, <4>1, ResumedDone
        <3> QED BY <3>5, <3>6
    <2> QED BY <2>2, <2>3, <2>4
<1> QED BY <1>4, <1>5

LEMMA RestoreFacts ==
    ASSUME NEW sent, NEW pubrel, NEW rcvd, Restore(sent, pubrel, rcvd)
    PROVE  CloseSocket /\ inboundMsgs' = rcvd /\ outboundQueue' = <<>>
BY DEF Restore, RestoredInbound

LEMMA CrashDone ==
    ASSUME InDoneBefore, Crash
    PROVE  InDone'
<1>1. /\ CloseSocket /\ inboundMsgs' = rcvdKeys /\ outboundQueue' = <<>>
      /\ UNCHANGED <<c2s, srvDone, srvOut, delivered>>
    BY DEF Crash, Restore, RestoredInbound, serverVars, appVars
<1>2. Unread(c2s, Outgoing, 0)
    BY InDoneFacts, SentPrefix, SegmentUnread
<1>3. Unread(c2s', Outgoing, 0) /\ GotMore(delivered', delivered) /\ inboundMsgs' = inboundMsgs
    BY <1>1, <1>2, InDoneFacts DEF GotMore
<1> QED BY <1>1, <1>3, ClosedDone

LEMMA CrashInHandlerDone ==
    ASSUME InDoneBefore, NEW p, CrashInHandler(p)
    PROVE  InDone'
<1>1. /\ connected /\ s2c # <<>> /\ p = Head(s2c) /\ scenario.inside /\ ~Gone /\ p \in ToClient
      /\ UNCHANGED <<c2s, srvDone, srvOut>>
    <2>1. connected /\ s2c # <<>> /\ p = Head(s2c)
        BY DEF CrashInHandler
    <2>2. p \in ToClient
        BY <2>1, InDoneFacts, HeadTailProperties
    <2> QED BY <2>1, <2>2 DEF CrashInHandler, Gone, serverVars
<1>2. Unread(c2s', Outgoing, 0)
    <2>1. Unread(c2s, Outgoing, 0)
        BY InDoneFacts, SentPrefix, SegmentUnread
    <2> QED BY <1>1, <2>1
<1>3. CASE /\ p.type = "PUBLISH" /\ p.m \in SrvMsgs2
           /\ Restore(sentKeys, pubrelKeys, [rcvdKeys EXCEPT ![p.id] = p.m])
           /\ UNCHANGED delivered
    <2> DEFINE in2 == Tail(s2c)
               none == s2c'
               out == Outgoing
               out2 == Outgoing'
               srv == Srv
               inb2 == inboundMsgs'
               dl2 == delivered'
               v5 == V5
               gone == Gone
               gone2 == Gone'
    <2>1. /\ CloseSocket /\ inb2 = [inboundMsgs EXCEPT ![p.id] = p.m] /\ outboundQueue' = <<>>
        BY <1>3, InDoneFacts DEF Restore, RestoredInbound
    <2>2. p.id \in SrvIds /\ IsPublish(p)
        BY <1>1, <1>3, ToClientFields DEF IsPublish
    <2>3. Puts(inb2, inboundMsgs, p.id, p.m)
        BY <2>1, InDoneFacts DEF Puts
    <2>4. FirstRead(in2, s2c, p)
        BY <1>1, InDoneFacts, TailRead
    <2>5. ~v5
        BY <1>1, InDoneFacts DEF Tame
    <2>6. GotFirst(v5, inboundMsgs, dl2, p) /\ Stays(gone, gone2) /\ Stays(gone2, gone2)
        BY <1>1, <2>5 DEF GotFirst, Stays
    <2>7. GotMore(dl2, delivered) /\ GotMore(dl2, dl2)
        BY <1>3 DEF GotMore
    <2>8. /\ Places(srv, inboundMsgs) /\ Paired(s2c, out, srv, inboundMsgs, delivered, v5, gone)
        BY InDoneFacts
    <2>9. connected' = FALSE /\ pendingWrite' = None /\ none = <<>>
        BY <2>1 DEF CloseSocket
    <2>10. Channel'
        BY <2>1, <2>9 DEF Channel
    <2>11. out2 = c2s' /\ Srv' = srv
        BY <1>1, <2>1, <2>9, InDoneFacts, NothingQueued DEF Srv
    <2>12. Unread(out2, out, 0)
        BY <1>2, <2>11
    <2>13. Places(srv, inb2)
        <3>1. inb2 \in [SrvIds -> SrvMsgs2 \cup {None}]
            BY InDoneFacts DEF StateOK
        <3> QED BY <2>8, <3>1 DEF Places
    <2>14. none \in Seq(ToClient) /\ V5' = v5
        BY InDoneFacts
    <2> HIDE DEF in2, none, out, out2, srv, inb2, dl2, v5, gone, gone2
    <2>15. Paired(in2, out, srv, inb2, dl2, v5, gone2)
        BY <1>3, <2>2, <2>3, <2>4, <2>6, <2>7, <2>8, HoldPaired
    <2>16. Drops(none, in2, 0)
        BY <2>9 DEF Drops
    <2>17. Forgets(inb2, inb2, gone2, gone2)
        BY DEF Forgets
    <2>18. Paired(none, out2, srv, inb2, dl2, v5, gone2)
        BY <2>7, <2>12, <2>13, <2>15, <2>16, <2>17, PairedFewer
    <2>19. \A m \in srvDone' : delivered'[m] # 0
        BY <1>1, <1>3, InDoneFacts
    <2> QED BY <2>10, <2>11, <2>14, <2>18, <2>19 DEF InDone, none, out2, inb2, dl2, gone2
<1>4. CASE /\ p.type = "PUBREL" /\ ~V5 /\ inboundMsgs[p.id] # None
           /\ Deliver(inboundMsgs[p.id])
           /\ Restore(sentKeys, pubrelKeys, rcvdKeys)
    <2>1. CloseSocket /\ inboundMsgs' = inboundMsgs /\ outboundQueue' = <<>>
        BY <1>4, InDoneFacts, RestoreFacts
    <2> DEFINE x == inboundMsgs[p.id]
    <2>2. p.id \in SrvIds /\ x \in SrvMsgs
        BY <1>1, <1>4, ToClientFields, InDoneFacts DEF SrvMsgs
    <2>3. Deliver(x)
        BY <1>4
    <2> HIDE DEF x
    <2>4. GotMore(delivered', delivered)
        BY <2>2, <2>3, InDoneFacts, Delivered
    <2> QED BY <1>1, <1>2, <2>1, <2>4, ClosedDone
<1>5. CASE Restore([sentKeys EXCEPT ![p.id] = None], pubrelKeys, rcvdKeys) /\ UNCHANGED delivered
    <2> DEFINE sent == [sentKeys EXCEPT ![p.id] = None]
    <2>1. Restore(sent, pubrelKeys, rcvdKeys)
        BY <1>5
    <2> HIDE DEF sent
    <2>2. CloseSocket /\ inboundMsgs' = inboundMsgs /\ outboundQueue' = <<>>
        BY <2>1, InDoneFacts, RestoreFacts
    <2>3. GotMore(delivered', delivered)
        BY <1>5 DEF GotMore
    <2> QED BY <1>1, <1>2, <2>2, <2>3, ClosedDone
<1> QED BY <1>3, <1>4, <1>5 DEF CrashInHandler

-----------------------------------------------------------------------------
LEMMA InDoneStep ==
    ASSUME StateOK, InOnce, Spared, InDone, [Next]_vars
    PROVE  InDone'
<1>1. StateOK' /\ scenario' = scenario
    BY TypeStep, SparedStep
<1>2. CASE ~Tame
    <2>1. ~Tame'
        BY <1>1, <1>2 DEF Tame, V5, AsyncAPI, CleanSession
    <2> QED BY <2>1 DEF InDone
<1>3. CASE Tame
    <2>1. InDoneBefore
        BY <1>1, <1>3 DEF InDoneBefore, InBefore
    <2>2. CASE UNCHANGED vars
        <3>1. /\ V5' = V5 /\ Gone' = Gone /\ Srv' = Srv /\ Outgoing' = Outgoing
              /\ UNCHANGED <<s2c, inboundMsgs, delivered, srvDone, connected, pendingWrite,
                             outboundQueue, scenario>>
            BY <2>2 DEF vars, clientVars, storeVars, netVars, serverVars, appVars, V5, Gone, Srv,
                        CleanSession, Outgoing, Written, Queued
        <3> QED BY <2>1, <3>1, InDoneFacts DEF InDone, Channel
    <2> QED BY <2>1, <2>2, ClientStepDone, ServerStepDone, ReconnectDone, PublishDone, SrvSendDone,
               ConnectionLostDone, RetryDone, CrashDone, CrashInHandlerDone DEF Next, Connect, Event
<1> QED BY <1>2, <1>3

LEMMA InDoneInit == Init => InDone
<1> SUFFICES ASSUME Init PROVE InDone
    OBVIOUS
<1>1. StateOK
    BY InitType
<1>2. /\ s2c = <<>> /\ srvOut = <<>> /\ srvDone = {} /\ \A i \in SrvIds : inboundMsgs[i] = None
      /\ pendingWrite = None /\ outboundQueue = <<>> /\ c2s = <<>> /\ connected
    BY DEF Init
<1>3. Channel
    BY <1>2 DEF Channel
<1>4. Outgoing = <<>>
    BY <1>1, <1>2, OutgoingFacts
<1> DEFINE out == Outgoing
           srv == Srv
           v5 == V5
           gone == Gone
<1>5. Silent(out) /\ srv = {}
    BY <1>2, <1>4 DEF Silent, Srv
<1> HIDE DEF out, srv, v5, gone
<1>6. Paired(s2c, out, srv, inboundMsgs, delivered, v5, gone)
    BY <1>2, <1>5, FreshPaired
<1> QED BY <1>2, <1>3, <1>6 DEF InDone, out, srv, v5, gone

(* The client keeps what it promises for the messages of the server: no     *)
(* QoS 2 message is passed to the application twice, and none that the      *)
(* server has seen acknowledged to the end was never passed to it, for any  *)
(* number of messages and ids, through losses, kills, partial writes,       *)
(* retries and sessions that are lost, with the exceptions that             *)
(* DoneWasDelivered and AtMostOnceIn name.                                  *)
THEOREM NoMessageMissed == Spec => []ExactlyOnceIn
<1>1. Init => StateOK /\ InOnce /\ Spared /\ InDone
    BY InitType, InOnceInit, OnceInit, InDoneInit DEF OnceInv
<1>2. StateOK /\ InOnce /\ Spared /\ InDone /\ [Next]_vars => (StateOK /\ InOnce /\ Spared /\ InDone)'
    BY TypeStep, InOnceStep, SparedStep, InDoneStep
<1>3. StateOK /\ InOnce /\ InDone => ExactlyOnceIn
    <2> SUFFICES ASSUME StateOK, InOnce, InDone PROVE ExactlyOnceIn
        OBVIOUS
    <2>1. AtMostOnceIn
        BY DEF InOnce, Inbound, Once, AtMostOnceIn
    <2>2. DoneWasDelivered
        <3> SUFFICES ASSUME Tame, NEW m \in srvDone PROVE delivered[m] >= 1
            BY DEF DoneWasDelivered, Tame
        <3>1. delivered[m] \in 0 .. 2
            BY DEF StateOK
        <3>2. delivered[m] # 0
            BY DEF InDone
        <3> QED BY <3>1, <3>2
    <2> QED BY <2>1, <2>2 DEF ExactlyOnceIn
<1> QED BY <1>1, <1>2, <1>3, PTL DEF Spec

-----------------------------------------------------------------------------
(***************************************************************************)
(* The messages of the server are delivered as Delivery says, where a kill *)
(* does not hit the middle of a handler: what a step does to the messages  *)
(* sent, delivered and done is a step of Delivery.                         *)
(***************************************************************************)
InCalm == Tame /\ ~scenario.inside
InSame == UNCHANGED <<srvSent, delivered, srvDone>>

LEMMA SentFirst ==
    ASSUME InDoneBefore, NEW i \in SrvIds, NEW m \in SrvMsgs,
           At(s2c, Srv, inboundMsgs, i, m)
    PROVE  m \in srvSent
BY InDoneFacts DEF InOnce, Inbound, Placed

LEMMA TakeStep ==
    ASSUME InDoneBefore, InCalm, InOnce', NEW i \in SrvIds, NEW m \in SrvMsgs,
           At(s2c, Srv, inboundMsgs, i, m), Deliver(m), UNCHANGED <<srvSent, srvDone>>
    PROVE  In!Take(m)
<1>1. m \in srvSent
    BY SentFirst
<1>2. delivered' = [delivered EXCEPT ![m] = AtMost2(@)]
    BY DEF Deliver
<1>3. delivered[m] \in 0 .. 2 /\ delivered'[m] = AtMost2(delivered[m])
    BY <1>2, InDoneFacts
<1>4. ASSUME m \in SrvMsgs2 PROVE delivered[m] = 0 /\ m \notin srvDone
    <2>1. delivered'[m] \in {0, 1}
        <3>1. ~scenario'.inside
            BY InDoneFacts DEF InCalm
        <3> QED BY <1>4, <3>1 DEF InOnce, Inbound, Once
    <2>2. delivered[m] = 0
        BY <1>3, <2>1 DEF AtMost2
    <2> QED BY <2>2, InDoneFacts
<1>5. delivered' = [delivered EXCEPT ![m] = IF @ < 2 THEN @ + 1 ELSE 2]
    BY <1>2 DEF AtMost2
<1> QED BY <1>1, <1>4, <1>5 DEF In!Take

LEMMA ClientStepDelivers ==
    ASSUME InDoneBefore, InCalm, InOnce', ClientStep
    PROVE  (\E m \in SrvMsgs : In!Take(m)) \/ InSame
<1>1. ASSUME NEW p, HandlePublish(p) PROVE (\E m \in SrvMsgs : In!Take(m)) \/ InSame
    <2>1. Receive(p, "PUBLISH") /\ UNCHANGED <<srvSent, srvDone>>
        BY <1>1 DEF HandlePublish
    <2>2. p.type = "PUBLISH" /\ p \in ToClient /\ 1 \in DOMAIN s2c /\ s2c[1] = p
        BY <2>1, ReadDone DEF FirstRead
    <2>3. p.id \in SrvIds /\ p.m \in SrvMsgs
        BY <2>2, ToClientFields
    <2>4. At(s2c, Srv, inboundMsgs, p.id, p.m)
        BY <2>2 DEF At, IsPublish
    <2>5. Deliver(p.m) \/ delivered' = delivered
        BY <1>1 DEF HandlePublish, HandlePublishQoS1, HandlePublishQoS2
    <2> DEFINE m == p.m
    <2>6. m \in SrvMsgs /\ At(s2c, Srv, inboundMsgs, p.id, m) /\ (Deliver(m) \/ delivered' = delivered)
        BY <2>3, <2>4, <2>5
    <2> HIDE DEF m
    <2> QED BY <2>1, <2>3, <2>6, TakeStep DEF InSame
<1>2. ASSUME NEW p, HandlePubrel(p) PROVE (\E m \in SrvMsgs : In!Take(m)) \/ InSame
    <2>1. Receive(p, "PUBREL") /\ UNCHANGED <<srvSent, srvDone>>
        BY <1>2 DEF HandlePubrel
    <2>2. p.type = "PUBREL" /\ p \in ToClient
        BY <2>1, ReadDone
    <2>3. p.id \in SrvIds
        BY <2>2, ToClientFields
    <2> DEFINE m == inboundMsgs[p.id]
    <2>4. (m # None /\ Deliver(m)) \/ delivered' = delivered
        BY <1>2 DEF HandlePubrel, ReleaseInbound
    <2>5. At(s2c, Srv, inboundMsgs, p.id, m)
        BY DEF At
    <2>6. m # None => m \in SrvMsgs
        BY <2>3, InDoneFacts DEF SrvMsgs
    <2> HIDE DEF m
    <2> QED BY <2>1, <2>3, <2>4, <2>5, <2>6, TakeStep DEF InSame
<1>3. ASSUME NEW p, NEW type, HandleFinalAck(p, type) PROVE InSame
    BY <1>3 DEF HandleFinalAck, InSame
<1>4. ASSUME NEW p, HandlePubrec(p) PROVE InSame
    BY <1>4 DEF HandlePubrec, InSame
<1>5. CASE WriteAvailable
    BY <1>5 DEF WriteAvailable, appVars, InSame
<1> QED BY <1>1, <1>2, <1>3, <1>4, <1>5 DEF ClientStep, HandlePuback, HandlePubcomp

LEMMA ServerStepDelivers ==
    ASSUME InDoneBefore, InDone', ServerStep
    PROVE  (\E m \in SrvMsgs : In!Finish(m)) \/ InSame
<1>1. ASSUME NEW p, SrvFinalAck(p) PROVE (\E m \in SrvMsgs : In!Finish(m)) \/ InSame
    <2>1. UNCHANGED <<srvSent, delivered>>
        BY <1>1 DEF SrvFinalAck
    <2>2. CASE UNCHANGED srvDone
        BY <2>1, <2>2 DEF InSame
    <2>3. ASSUME NEW k \in SrvWaiting(p.id, p.type), srvDone' = srvDone \cup {srvOut[k].m}
          PROVE  \E m \in SrvMsgs : In!Finish(m)
        <3> DEFINE e == srvOut[k]
        <3>1. e \in Srv
            BY DEF SrvWaiting, Srv
        <3>2. e.id \in SrvIds /\ e.m \in SrvMsgs
            BY <3>1, InDoneFacts DEF Places, SrvEntry
        <3>3. At(s2c, Srv, inboundMsgs, e.id, e.m)
            BY <3>1 DEF At
        <3>4. srvDone' = srvDone \cup {e.m}
            BY <2>3
        <3> HIDE DEF e
        <3> DEFINE m == e.m
                   i == e.id
        <3>5. m \in SrvMsgs /\ i \in SrvIds /\ At(s2c, Srv, inboundMsgs, i, m)
              /\ srvDone' = srvDone \cup {m}
            BY <3>2, <3>3, <3>4
        <3> HIDE DEF m, i
        <3>6. m \in srvSent
            BY <3>5, SentFirst
        <3>7. delivered[m] > 0
            <4>1. delivered'[m] # 0
                BY <3>5, InDoneFacts DEF InDone
            <4>2. delivered[m] \in 0 .. 2 /\ delivered'[m] = delivered[m]
                BY <2>1, <3>5, InDoneFacts
            <4> QED BY <4>1, <4>2
        <3>8. In!Finish(m)
            BY <2>1, <3>5, <3>6, <3>7 DEF In!Finish
        <3> QED BY <3>5, <3>8
    <2> QED BY <1>1, <2>2, <2>3 DEF SrvFinalAck
<1>2. ASSUME NEW p, SrvPublish(p) PROVE InSame
    BY <1>2 DEF SrvPublish, InSame
<1>3. ASSUME NEW p, SrvPubrel(p) PROVE InSame
    BY <1>3 DEF SrvPubrel, appVars, InSame
<1>4. ASSUME NEW p, SrvPubrec(p) PROVE InSame
    BY <1>4 DEF SrvPubrec, appVars, InSame
<1> QED BY <1>1, <1>2, <1>3, <1>4 DEF ServerStep

LEMMA InDeliveryStep ==
    ASSUME StateOK, InOnce, Spared, InDone, InCalm, [Next]_vars
    PROVE  [In!Next]_In!vars
<1>1. /\ StateOK' /\ scenario' = scenario /\ InOnce' /\ InDone'
    BY TypeStep, InOnceStep, SparedStep, InDoneStep
<1>2. InDoneBefore
    BY <1>1 DEF InDoneBefore, InBefore, InCalm
<1> DEFINE Taken1 == \E m \in SrvMsgs : In!Take(m)
           Ended == \E m \in SrvMsgs : In!Finish(m)
           Began == \E m \in SrvMsgs : In!Accept(m)
<1>3. Taken1 \/ Ended \/ Began \/ InSame
    <2>1. CASE ClientStep
        BY <1>1, <1>2, <2>1, ClientStepDelivers
    <2>2. CASE ServerStep
        BY <1>1, <1>2, <2>2, ServerStepDelivers
    <2>3. ASSUME NEW m \in SrvMsgs, SrvSend(m) PROVE Began
        BY <2>3 DEF SrvSend, In!Accept
    <2>4. CASE UNCHANGED vars
        BY <2>4 DEF vars, appVars, InSame
    <2>5. CASE Connect
        BY <2>5 DEF Connect, Reconnect, appVars, InSame
    <2>6. ASSUME NEW m \in Msgs, Publish(m) PROVE InSame
        BY <2>6 DEF Publish, InSame
    <2>7. CASE ConnectionLost \/ Retry \/ Crash
        BY <2>7 DEF ConnectionLost, Retry, Crash, appVars, InSame
    <2>8. ASSUME NEW p, CrashInHandler(p) PROVE FALSE
        BY <2>8 DEF CrashInHandler, InCalm
    <2> HIDE DEF Taken1, Ended, Began
    <2> QED BY <2>1, <2>2, <2>3, <2>4, <2>5, <2>6, <2>7, <2>8 DEF Next, Event
<1>4. InSame => UNCHANGED In!vars
    BY DEF InSame, In!vars
<1>5. \A m : m \in SrvMsgs <=> m \in In!Messages
    BY DEF SrvMsgs, In!Messages
<1> QED BY <1>3, <1>4, <1>5 DEF In!Next

LEMMA InDeliveryInit == Init => In!Init
BY DEF Init, In!Init, In!Messages, SrvMsgs

(* Every step of client, server and environment either leaves the messages  *)
(* of the server as they are, or is one step of Delivery: the server takes  *)
(* charge of a message, the application of the client gets it, or the       *)
(* server learns that it did.  The exceptions are those of ExactlyOnceIn.   *)
THEOREM DeliversAsPromised == Spec /\ InCalm => InDelivery
<1>1. Init => StateOK /\ InOnce /\ Spared /\ InDone
    BY InitType, InOnceInit, OnceInit, InDoneInit DEF OnceInv
<1>2. StateOK /\ InOnce /\ Spared /\ InDone /\ InCalm /\ [Next]_vars
         => (StateOK /\ InOnce /\ Spared /\ InDone /\ InCalm)'
    <2> SUFFICES ASSUME StateOK, InOnce, Spared, InDone, InCalm, [Next]_vars
                 PROVE  (StateOK /\ InOnce /\ Spared /\ InDone /\ InCalm)'
        OBVIOUS
    <2>1. StateOK' /\ InOnce' /\ Spared' /\ InDone' /\ scenario' = scenario
        BY TypeStep, InOnceStep, SparedStep, InDoneStep
    <2>2. InCalm'
        BY <2>1 DEF InCalm, Tame, V5, AsyncAPI, CleanSession
    <2> QED BY <2>1, <2>2
<1>3. StateOK /\ InOnce /\ Spared /\ InDone /\ InCalm /\ [Next]_vars => [In!Next]_In!vars
    BY InDeliveryStep
<1> QED BY <1>1, <1>2, <1>3, InDeliveryInit, PTL DEF Spec, InDelivery, In!Spec

-----------------------------------------------------------------------------
(***************************************************************************)
(* The messages of the client are delivered as Delivery says.  A message   *)
(* of QoS 1 repeated on one connection is acknowledged repeatedly, and the *)
(* second PUBACK may come when its id, once round all ids, belongs to      *)
(* another message: hence no repetitions on a timer, or no QoS 1.          *)
(***************************************************************************)
OutCalm == Undisturbed /\ (scenario.budget.retry = 0 \/ Msgs1 = {})
OutSame == UNCHANGED <<accepted, srvGot, acked, refused>>

(* The server takes a message it has not taken before, if it is of QoS 2. *)
LEMMA SrvTakeStep ==
    ASSUME OnceBefore, NEW p \in ToServer, p.type = "PUBLISH",
           1 \in DOMAIN Outgoing, Outgoing[1] = p,
           p.m \in Msgs2 => p.id \notin srvIds,
           SrvTake(p.m), UNCHANGED <<accepted, acked, refused>>
    PROVE  p.m \in Msgs /\ Out!Take(p.m)
<1>1. p.m \in Msgs /\ p.m \in ToSet(accepted)
    BY ToServerFields DEF OnceBefore, Exchanges, Bundle, Wire
<1>2. ASSUME p.m \in Msgs2 PROVE srvGot[p.m] = 0 /\ p.m \notin acked
    <2>1. srvGot[p.m] \in {0, 1}
        BY <1>2 DEF OnceBefore, Exchanges, Bundle, Taken
    <2>2. IsPub(Outgoing[1])
        BY <1>2 DEF IsPub
    <2>3. srvGot[p.m] # 1
        BY <1>2, <2>2 DEF OnceBefore, Exchanges, Bundle, Wire
    <2>4. p.m \in acked => srvGot[p.m] = 1
        BY <1>2 DEF OnceBefore, Exchanges
    <2> QED BY <2>1, <2>3, <2>4
<1>3. srvGot' = [srvGot EXCEPT ![p.m] = IF @ < 2 THEN @ + 1 ELSE 2]
    BY DEF SrvTake, AtMost2
<1>4. ToSet(accepted)' = ToSet(accepted)
    BY DEF ToSet
<1> QED BY <1>1, <1>2, <1>3, <1>4 DEF Out!Take

LEMMA SrvPublishTakes ==
    ASSUME OnceBefore, NEW p, SrvPublish(p)
    PROVE  (\E m \in Msgs : Out!Take(m)) \/ OutSame
<1>1. SrvReceive(p, {"PUBLISH"}) /\ UNCHANGED <<pendingWrite, outboundQueue, accepted, acked, refused>>
    BY DEF SrvPublish, clientVars
<1>2. p \in ToServer /\ p.type = "PUBLISH" /\ 1 \in DOMAIN Outgoing /\ Outgoing[1] = p
    BY <1>1, SrvReceiveOutgoing DEF OnceBefore, StoreInv
<1>3. CASE UNCHANGED srvGot
    BY <1>1, <1>3 DEF OutSame
<1>4. CASE SrvTake(p.m) /\ (p.m \in Msgs2 => p.id \notin srvIds)
    <2>1. p.m \in Msgs /\ Out!Take(p.m)
        BY <1>1, <1>2, <1>4, SrvTakeStep
    <2> QED BY <2>1
<1>5. CASE SrvPublishQoS1(p)
    <2>1. p.m \notin Msgs2
        BY <1>5, SessionAssumption DEF SrvPublishQoS1
    <2>2. SrvTake(p.m) \/ UNCHANGED srvGot
        BY <1>5 DEF SrvPublishQoS1
    <2> QED BY <1>3, <1>4, <2>1, <2>2
<1>6. CASE SrvPublishQoS2(p)
    <2>1. (p.id \notin srvIds /\ SrvTake(p.m)) \/ UNCHANGED srvGot
        BY <1>6 DEF SrvPublishQoS2
    <2> QED BY <1>3, <1>4, <2>1
<1> QED BY <1>5, <1>6 DEF SrvPublish

(* A message whose last acknowledgement arrives has been accepted and not    *)
(* answered before, and a positive one is given only for a message taken.    *)
LEMMA AnswerIsDue ==
    ASSUME OnceBefore, OutCalm, connected, s2c # <<>>, NEW p, p = Head(s2c),
           NEW k \in Waiting(p.id, p.type),
           p.type \in {"PUBACK", "PUBCOMP"} \/ (p.type = "PUBREC" /\ ~p.ok),
           NEW m, m = outboundMsgs[k].m
    PROVE  /\ m \in Msgs /\ m \in ToSet(accepted) /\ m \notin acked /\ m \notin refused
           /\ p.ok /\ p.type # "PUBREC" => srvGot[m] > 0
<1>1. PICK sent2 : sent2 = [sentKeys EXCEPT ![p.id] = None]
    OBVIOUS
<1>2. /\ p.id \in Ids /\ sentKeys[p.id] = m /\ m \in Msgs /\ k \in DOMAIN outboundMsgs
      /\ m \in Msgs2 /\ p.type # "PUBREC" => srvGot[m] = 1
    BY <1>1, Answered
<1>3. m \in ToSet(accepted) /\ m \notin acked /\ m \notin refused
    BY <1>2 DEF OnceBefore, Exchanges, Bundle, Owned
<1>4. ASSUME m \notin Msgs2, p.ok PROVE srvGot[m] > 0
    <2>1. outboundMsgs[k].next = p.type /\ (outboundMsgs[k].next = "PUBACK" <=> m \notin Msgs2)
        BY <1>2, ReleasedFacts DEF OnceBefore, Waiting
    <2>2. p.type = "PUBACK"
        BY <1>4, <2>1
    <2>3. m \in Msgs1
        BY <1>2, <1>4 DEF Msgs
    <2>4. Solo(Outgoing, s2c, sentKeys, Released, srvGot)
        BY <2>3 DEF OutCalm, OnceBefore, Exchanges
    <2>5. 1 \in DOMAIN s2c /\ s2c[1] = p
        <3>1. s2c \in Seq(ToClient)
            BY DEF OnceBefore, StoreInv, StateOK
        <3> QED BY <3>1, TailSegment
    <2> QED BY <1>2, <1>4, <2>2, <2>4, <2>5 DEF Solo
<1> QED BY <1>2, <1>3, <1>4

(* So what the client learns by it is a step of Delivery. *)
LEMMA AnswerStep ==
    ASSUME OnceBefore, OutCalm, connected, s2c # <<>>, NEW p, p = Head(s2c),
           NEW k \in Waiting(p.id, p.type),
           p.type \in {"PUBACK", "PUBCOMP"} \/ (p.type = "PUBREC" /\ ~p.ok),
           NEW m, m = outboundMsgs[k].m,
           UNCHANGED <<accepted, srvGot>>,
           \/ p.ok /\ acked' = acked \cup {m} /\ refused' = refused
           \/ ~p.ok /\ refused' = refused \cup {m} /\ acked' = acked
    PROVE  m \in Msgs /\ (Out!Finish(m) \/ Out!Refuse(m))
<1>1. /\ m \in Msgs /\ m \in ToSet(accepted) /\ m \notin acked /\ m \notin refused
      /\ p.ok /\ p.type # "PUBREC" => srvGot[m] > 0
    BY AnswerIsDue
<1>2. ToSet(accepted)' = ToSet(accepted)
    BY DEF ToSet
<1>3. CASE p.ok /\ acked' = acked \cup {m} /\ refused' = refused
    <2>1. srvGot[m] > 0
        BY <1>1, <1>3
    <2> QED BY <1>1, <1>2, <1>3, <2>1 DEF Out!Finish
<1>4. CASE ~p.ok /\ refused' = refused \cup {m} /\ acked' = acked
    BY <1>1, <1>2, <1>4 DEF Out!Refuse
<1> QED BY <1>3, <1>4

OutAnswer == \E m \in Msgs : Out!Finish(m) \/ Out!Refuse(m)

LEMMA FinalAckAnswers ==
    ASSUME OnceBefore, OutCalm, NEW p, NEW type \in {"PUBACK", "PUBCOMP"}, HandleFinalAck(p, type)
    PROVE  OutAnswer \/ OutSame
<1>1. /\ connected /\ s2c # <<>> /\ p = Head(s2c) /\ p.type = type
      /\ UNCHANGED <<accepted, srvGot>>
    BY DEF HandleFinalAck, Receive
<1>2. ASSUME NEW k \in Waiting(p.id, type), EndExchange(k, p.ok) PROVE OutAnswer
    <2> DEFINE m == outboundMsgs[k].m
    <2>1. \/ p.ok /\ acked' = acked \cup {m} /\ refused' = refused
          \/ ~p.ok /\ refused' = refused \cup {m} /\ acked' = acked
        BY <1>2 DEF EndExchange
    <2>2. m = outboundMsgs[k].m
        OBVIOUS
    <2> HIDE DEF m
    <2>3. m \in Msgs /\ (Out!Finish(m) \/ Out!Refuse(m))
        BY <1>1, <2>1, <2>2, AnswerStep
    <2> QED BY <2>3 DEF OutAnswer
<1>3. CASE UNCHANGED <<acked, refused>>
    BY <1>1, <1>3 DEF OutSame
<1> QED BY <1>2, <1>3 DEF HandleFinalAck

LEMMA PubrecAnswers ==
    ASSUME OnceBefore, OutCalm, NEW p, HandlePubrec(p)
    PROVE  OutAnswer \/ OutSame
<1>1. /\ connected /\ s2c # <<>> /\ p = Head(s2c) /\ p.type = "PUBREC"
      /\ UNCHANGED <<accepted, srvGot>>
    BY DEF HandlePubrec, Receive
<1>2. ASSUME NEW k \in Waiting(p.id, "PUBREC"), ~p.ok, EndExchange(k, FALSE) PROVE OutAnswer
    <2> DEFINE m == outboundMsgs[k].m
    <2>1. refused' = refused \cup {m} /\ acked' = acked
        BY <1>2 DEF EndExchange
    <2>2. m = outboundMsgs[k].m
        OBVIOUS
    <2> HIDE DEF m
    <2>3. m \in Msgs /\ (Out!Finish(m) \/ Out!Refuse(m))
        BY <1>1, <1>2, <2>1, <2>2, AnswerStep
    <2> QED BY <2>3 DEF OutAnswer
<1>3. CASE PubrecReleases(p)
    BY <1>1, <1>3 DEF PubrecReleases, OutSame
<1> QED BY <1>2, <1>3 DEF HandlePubrec, PubrecRefuses

LEMMA CrashAnswers ==
    ASSUME OnceBefore, OutCalm, NEW p, CrashInHandler(p)
    PROVE  OutAnswer \/ OutSame
<1>1. /\ connected /\ s2c # <<>> /\ p = Head(s2c)
      /\ UNCHANGED <<accepted, srvGot>>
    BY DEF CrashInHandler
<1>2. CASE UNCHANGED <<acked, refused>>
    BY <1>1, <1>2 DEF OutSame
<1>3. ASSUME p.type \in {"PUBACK", "PUBCOMP"}, NEW k \in Waiting(p.id, p.type),
             IF p.ok THEN acked' = acked \cup {outboundMsgs[k].m} /\ UNCHANGED refused
             ELSE refused' = refused \cup {outboundMsgs[k].m} /\ UNCHANGED acked
      PROVE  OutAnswer
    <2> DEFINE m == outboundMsgs[k].m
    <2>1. \/ p.ok /\ acked' = acked \cup {m} /\ refused' = refused
          \/ ~p.ok /\ refused' = refused \cup {m} /\ acked' = acked
        BY <1>3
    <2>2. m = outboundMsgs[k].m
        OBVIOUS
    <2> HIDE DEF m
    <2>3. m \in Msgs /\ (Out!Finish(m) \/ Out!Refuse(m))
        BY <1>1, <1>3, <2>1, <2>2, AnswerStep
    <2> QED BY <2>3 DEF OutAnswer
<1> QED BY <1>2, <1>3 DEF CrashInHandler

LEMMA ClientStepAnswers ==
    ASSUME OnceBefore, OutCalm, ClientStep
    PROVE  OutAnswer \/ OutSame
<1>1. ASSUME NEW p, HandlePublish(p) PROVE OutSame
    BY <1>1 DEF HandlePublish, OutSame
<1>2. ASSUME NEW p, HandlePubrel(p) PROVE OutSame
    BY <1>2 DEF HandlePubrel, OutSame
<1>3. CASE WriteAvailable
    BY <1>3 DEF WriteAvailable, appVars, OutSame
<1> QED BY <1>1, <1>2, <1>3, FinalAckAnswers, PubrecAnswers
        DEF ClientStep, HandlePuback, HandlePubcomp

LEMMA OutDeliveryStep ==
    ASSUME StoreInv, OnceInv, OutCalm, [Next]_vars
    PROVE  [Out!Next]_Out!vars
<1>1. OnceBefore
    BY StoreStep DEF OnceBefore, OnceInv, OutCalm
<1> DEFINE Began == \E m \in Msgs : Out!Accept(m)
           Took == \E m \in Msgs : Out!Take(m)
<1>2. Began \/ Took \/ OutAnswer \/ OutSame
    <2>1. CASE ClientStep
        BY <1>1, <2>1, ClientStepAnswers
    <2>2. CASE ServerStep
        <3>1. ASSUME NEW p, SrvPublish(p) PROVE Took \/ OutSame
            BY <1>1, <3>1, SrvPublishTakes
        <3>2. ASSUME NEW p, SrvPubrel(p) \/ SrvFinalAck(p) \/ SrvPubrec(p) PROVE OutSame
            BY <3>2 DEF SrvPubrel, SrvFinalAck, SrvPubrec, appVars, OutSame
        <3> HIDE DEF Took
        <3> QED BY <2>2, <3>1, <3>2 DEF ServerStep
    <2>3. ASSUME NEW m \in Msgs, Publish(m) PROVE Began
        <3>1. ToSet(accepted)' = ToSet(accepted) \cup {m} /\ m \notin ToSet(accepted)
            BY <1>1, <2>3, PublishRecord DEF OnceBefore
        <3>2. UNCHANGED <<srvGot, acked, refused>>
            BY <2>3 DEF Publish
        <3> QED BY <3>1, <3>2 DEF Out!Accept
    <2>4. ASSUME NEW m \in SrvMsgs, SrvSend(m) PROVE OutSame
        BY <2>4 DEF SrvSend, OutSame
    <2>5. CASE UNCHANGED vars
        BY <2>5 DEF vars, appVars, OutSame
    <2>6. CASE Connect
        BY <2>6 DEF Connect, Reconnect, appVars, OutSame
    <2>7. CASE ConnectionLost \/ Retry \/ Crash
        BY <2>7 DEF ConnectionLost, Retry, Crash, appVars, OutSame
    <2>8. ASSUME NEW p, CrashInHandler(p) PROVE OutAnswer \/ OutSame
        BY <1>1, <2>8, CrashAnswers
    <2> HIDE DEF Began, Took
    <2> QED BY <2>1, <2>2, <2>3, <2>4, <2>5, <2>6, <2>7, <2>8 DEF Next, Event
<1>3. OutSame => UNCHANGED Out!vars
    BY DEF OutSame, Out!vars, ToSet
<1>4. \A m : m \in Msgs <=> m \in Out!Messages
    BY DEF Msgs, Out!Messages
<1> QED BY <1>2, <1>3, <1>4 DEF Out!Next, OutAnswer

LEMMA OutDeliveryInit == Init => Out!Init
<1> SUFFICES ASSUME Init PROVE Out!Init
    OBVIOUS
<1>1. ToSet(accepted) = {}
    BY DEF Init, ToSet
<1> QED BY <1>1 DEF Init, Out!Init, Out!Messages, Msgs

(* Every step of client, server and environment either leaves the messages  *)
(* of the client as they are, or is one step of Delivery: the client takes  *)
(* charge of a message, the server takes it, a QoS 2 message once only, or  *)
(* the client learns that it was taken or is not wanted.  This holds also   *)
(* when the program is killed in the middle of a handler.                   *)
THEOREM PublishesAsPromised == Spec /\ OutCalm => OutDelivery
<1>1. Init => StoreInv /\ OnceInv
    BY StoreInit, OnceInit
<1>2. StoreInv /\ OnceInv /\ OutCalm /\ [Next]_vars => (StoreInv /\ OnceInv /\ OutCalm)'
    <2> SUFFICES ASSUME StoreInv, OnceInv, OutCalm, [Next]_vars
                 PROVE  (StoreInv /\ OnceInv /\ OutCalm)'
        OBVIOUS
    <2>1. StoreInv' /\ OnceInv'
        BY StoreStep, OnceStep
    <2>2. scenario' = scenario
        BY SparedStep DEF OnceInv, StoreInv
    <2>3. OutCalm'
        BY <2>2 DEF OutCalm, Undisturbed, V5, AsyncAPI, CleanSession
    <2> QED BY <2>1, <2>3
<1>3. StoreInv /\ OnceInv /\ OutCalm /\ [Next]_vars => [Out!Next]_Out!vars
    BY OutDeliveryStep
<1> QED BY <1>1, <1>2, <1>3, OutDeliveryInit, PTL DEF Spec, OutDelivery, Out!Spec
=============================================================================
