--------------------------- MODULE SyncClientProofs ---------------------------
(***************************************************************************)
(* Proofs about the blocking API, for any clients, threads of the          *)
(* application, number of connections, calls and faults.                   *)
(***************************************************************************)
EXTENDS SyncClient, TLAPS

-----------------------------------------------------------------------------
(* Sequences                                                                *)

LEMMA AppendFacts ==
    ASSUME NEW T, NEW s \in Seq(T), NEW e \in T
    PROVE  /\ Append(s, e) \in Seq(T)
           /\ DOMAIN Append(s, e) = 1 .. (Len(s) + 1)
           /\ Append(s, e)[Len(s) + 1] = e
           /\ \A k \in DOMAIN s : Append(s, e)[k] = s[k]
OBVIOUS

Threads == Apps \cup Conns

-----------------------------------------------------------------------------
(* The inductive invariant                                                  *)

Waits(r) == r.pc \in {"check", "sem", "cycle", "woken"}
InCall(r) == Waits(r) \/ r.pc \in {"begin", "awaitRun", "drain", "stopping", "lost"}

Types ==
    /\ scenario \in Scenarios
    /\ client \in [Clients -> ClientRec]
    /\ net \in [Conns -> ConnRec]
    /\ th \in [Threads -> ThreadRec]
    /\ run \in RunRec
    /\ running \in BOOLEAN /\ tostop \in BOOLEAN
    /\ mutex \in {None, RunThread} \cup Threads
    /\ sync \in [Conns -> {"none", "waiting", "posted"}]
    /\ history \in HistoryRec

RunFlags ==
    /\ running <=> run.pc \in {"cycle", "handle", "lost"}
    /\ tostop => running
    /\ run.pc \in {"handle", "lost"} => run.sock \in Conns
    /\ run.rc = "error" => run.pack = None

(* A thread in a call works for a client, and is the only one that does.     *)
CallOK(r) ==
    /\ r.pc # "idle" => r.client \in Clients
    /\ InCall(r) \/ r.pc = "enter" <=> r.call # "none"
    /\ r.pc \in {"begin", "awaitRun"} => r.call = "connect"
    /\ Waits(r) => \/ r.call = "connect" /\ r.want \in {"CONNECT", "CONNACK"}
                   \/ r.call = "subscribe" /\ r.want = "SUBACK"
    /\ r.call \in {"none", "connect"} => r.id = 0
    /\ Waits(r) /\ r.call = "subscribe" => r.id # 0

AtCallback(r) == r.pc \in {"callback", "enter", "post"}

Calls ==
    /\ \A t \in Threads : CallOK(th[t])
    /\ \A t \in Apps : ~AtCallback(th[t])
    /\ \A t, u \in Threads : InCall(th[t]) /\ InCall(th[u]) /\ th[t].client = th[u].client => t = u

(* Who waits without releasing the mutex holds it. *)
HoldOK(t) ==
    /\ th[t].pc \in {"begin", "lost"} => mutex = t
    /\ mutex = t => th[t].pc \in {"begin", "woken", "drain", "lost"}
    /\ mutex = t /\ th[t].pc = "woken" => th[t].want = "SUBACK" /\ th[t].pack = None

Holds ==
    /\ \A t \in Threads : HoldOK(t)
    /\ run.pc = "lost" <=> mutex = RunThread

Live(l) == l.tcp \in {"connecting", "up", "broken"}

(* A client has one connection at most that is not closed, while it is       *)
(* connected or a connect is waiting for it.                                 *)
Connections ==
    /\ \A n \in Conns : net[n].client = None => net[n] = NoConn
    /\ \A n \in Conns : Live(net[n]) => net[n].client \in Clients /\ client[net[n].client].conn = n
    /\ \A n \in Conns : ~Live(net[n]) => net[n].asked = {} /\ net[n].in = <<>>
    /\ \A c \in Clients :
          /\ client[c].conn # 0 => Live(net[client[c].conn]) /\ net[client[c].conn].client = c
          /\ client[c].connected \/ client[c].connect_state \in {"TCP_IN_PROGRESS", "WAIT_FOR_CONNACK"}
                => client[c].conn # 0
    /\ \A t \in Threads : th[t].pc \in {"begin", "awaitRun"} =>
          ~client[th[t].client].connected /\ client[th[t].client].conn = 0
    /\ \A t \in Threads : Waits(th[t]) /\ th[t].call = "connect" =>
          /\ ~client[th[t].client].connected
          /\ client[th[t].client].conn # 0
          /\ client[th[t].client].conn = th[t].conn
    /\ \A c \in Clients : client[c].conn # 0 /\ ~client[c].connected =>
          \E t \in Threads : Waits(th[t]) /\ th[t].call = "connect" /\ th[t].client = c

LostConns == {history.lost[i] : i \in DOMAIN history.lost}

(* A connection is established while its client is connected by it, then     *)
(* about to be reported, then reported.                                      *)
Losses ==
    /\ LostOnce
    /\ \A n \in history.established : net[n].client # None
    /\ \A c \in Clients : client[c].connected <=> client[c].conn \in history.established
    /\ \A c \in Clients : client[c].conn \notin LostConns
    /\ \A t \in Threads : th[t].pc = "stopping" /\ th[t].report # 0 =>
          /\ th[t].report \in history.established \ LostConns
          /\ \A c \in Clients : client[c].conn # th[t].report
    /\ \A t, u \in Threads :
          /\ th[t].pc = "stopping" /\ th[u].pc = "stopping"
          /\ th[t].report = th[u].report /\ th[t].report # 0
          => t = u
    /\ \A t \in Threads : th[t].pc = "lost" => th[t].report \in Conns
    /\ \A n \in Conns \ LostConns : th[n] = NoCall

(* The answer p is to the request of a call. *)
Own(r, p) == p.type = r.want /\ p.conn = r.conn /\ p.id = r.id

RunHas(n) == run.pc = "handle" /\ run.sock = n /\ run.pack # None

(* A request on connection n has no answer that its call could look at. *)
Outstanding(n) == net[n].asked # {} \/ net[n].in # <<>> \/ RunHas(n)

(* The call t of client c is the one that waits for it. *)
AskedBy(c, n, t) ==
    /\ Waits(th[t]) /\ th[t].client = c /\ th[t].conn = n
    /\ th[t].want \in {"CONNACK", "SUBACK"}
    /\ client[c].pack = None
    /\ th[t].pc = "woken" => th[t].pack = None
    /\ net[n].asked \subseteq {th[t].id}
    /\ net[n].in # <<>> => Own(th[t], net[n].in[1])
    /\ RunHas(n) => Own(th[t], run.pack)

(* The call t of client c will find the answer in m->pack. *)
AnsweredTo(c, t) ==
    /\ Waits(th[t]) /\ th[t].pc # "cycle" /\ th[t].client = c
    /\ Own(th[t], client[c].pack)
    /\ th[t].pc = "woken" => th[t].pack = client[c].pack

(* A request is asked, answered, read and posted once, in this order, and its*)
(* call waits meanwhile.                                                     *)
Answered(c) ==
    /\ client[c].pack # None => \E t \in Threads : AnsweredTo(c, t)
    /\ \A t \in Threads : th[t].client = c /\ th[t].pc = "woken" /\ th[t].pack # None => Own(th[t], th[t].pack)
    /\ \A n \in Conns : client[c].conn = n =>
          /\ Outstanding(n) => \E t \in Threads : AskedBy(c, n, t)
          /\ net[n].asked # {} => net[n].in = <<>> /\ ~RunHas(n)
          /\ net[n].in # <<>> => ~RunHas(n) /\ Len(net[n].in) = 1

Answers == \A c \in Clients : Answered(c)

(* What the background thread has read came from a connection that was made. *)
Known == \A n \in Conns : RunHas(n) => net[n].client # None

(* While no answer came too late. *)
AnswersInTime ==
    /\ history.foreign => history.raced
    /\ ~history.raced => Answers

IInv ==
    /\ Types /\ RunFlags /\ Calls /\ Holds /\ Connections /\ Losses /\ Known /\ AnswersInTime

-----------------------------------------------------------------------------
(* Constants                                                                *)

LEMMA ConstFacts ==
    /\ None \notin Clients /\ None \notin Threads /\ None \notin Packets
    /\ None # RunThread /\ RunThread \notin Threads
    /\ 0 \notin Conns /\ Conns \subseteq Nat
    /\ \A t \in Apps : t \notin Conns
    /\ Packs = Packets \cup {None} /\ None \in Packs
    /\ Apps \subseteq Threads /\ Conns \subseteq Threads
BY SyncAssumption DEF Conns, Threads, Packs, RunThread

LEMMA ScenarioFacts ==
    ASSUME scenario \in Scenarios
    PROVE  /\ \A t \in Apps : scenario.owner[t] \in Clients \cup {None}
           /\ scenario.version \in 0 .. 5
BY SyncAssumption DEF Scenario

LEMMA RecordFacts ==
    /\ NoCall \in ThreadRec /\ NoRun \in RunRec /\ NoConn \in ConnRec /\ NewClient \in ClientRec
<1>1. None \in Packs
    BY ConstFacts
<1>2. NoCall \in ThreadRec
    BY <1>1 DEF NoCall, ThreadRec, Results
<1>3. NoRun \in RunRec
    BY <1>1 DEF NoRun, RunRec, Results
<1>4. NoConn \in ConnRec
    BY DEF NoConn, ConnRec
<1>5. NewClient \in ClientRec
    BY <1>1 DEF NewClient, ClientRec, Results
<1> QED BY <1>2, <1>3, <1>4, <1>5

LEMMA InitIInv == Init => IInv
<1> SUFFICES ASSUME Init PROVE IInv
    OBVIOUS
<1>1. Types
    <2>1. history \in HistoryRec
        BY DEF Init, HistoryRec
    <2> QED BY <2>1, RecordFacts, ConstFacts DEF Init, Types, Threads
<1>2. \A t \in Threads : th[t] = NoCall
    BY DEF Init, Threads
<1>3. RunFlags
    BY DEF Init, RunFlags, NoRun
<1>4. Calls
    BY <1>2, ConstFacts DEF Calls, CallOK, NoCall, InCall, Waits, AtCallback
<1>5. Holds
    <2>1. mutex = None /\ mutex \notin Threads /\ mutex # RunThread /\ run.pc = "none"
        BY ConstFacts DEF Init, NoRun
    <2>2. \A t \in Threads : th[t].pc = "idle"
        BY <1>2 DEF NoCall
    <2> QED BY <2>1, <2>2 DEF Holds, HoldOK
<1>6. Connections
    <2>1. \A t \in Threads : th[t].pc = "idle"
        BY <1>2 DEF NoCall
    <2>2. \A n \in Conns : net[n] = NoConn /\ ~Live(net[n]) /\ net[n].asked = {} /\ net[n].in = <<>>
        BY DEF Init, NoConn, Live
    <2>3. \A c \in Clients : /\ client[c].conn = 0 /\ ~client[c].connected
                             /\ client[c].connect_state = "NOT_IN_PROGRESS"
        BY DEF Init, NewClient
    <2> QED BY <2>1, <2>2, <2>3 DEF Connections, Waits
<1>7. Losses
    <2>1. LostConns = {} /\ LostOnce
        BY DEF Init, LostConns, LostOnce
    <2> QED BY <1>2, <2>1 DEF Init, Losses, NoCall, NewClient, Threads
<1>8. AnswersInTime
    <2>1. Answers
        <3>1. \A c \in Clients : client[c].pack = None /\ client[c].conn \notin Conns
            BY ConstFacts DEF Init, NewClient
        <3>2. \A t \in Threads : th[t].pc # "woken"
            BY <1>2 DEF NoCall
        <3> QED BY <3>1, <3>2 DEF Answers, Answered
    <2> QED BY <2>1 DEF Init, AnswersInTime
<1>9. Known
    BY DEF Init, NoRun, Known, RunHas
<1> QED BY <1>1, <1>3, <1>4, <1>5, <1>6, <1>7, <1>8, <1>9 DEF IInv

-----------------------------------------------------------------------------
(* Steps of one thread                                                      *)

(* Only thread t changes. *)
Moves(t) == \A u \in Threads \ {t} : th'[u] = th[u]

(* The clients keep their connections, which stay as live as they are. *)
SameLinks ==
    /\ \A c \in Clients : client'[c].conn = client[c].conn /\ client'[c].connected = client[c].connected
    /\ \A c \in Clients : client'[c].connect_state \in {"TCP_IN_PROGRESS", "WAIT_FOR_CONNACK"}
                              => client[c].conn # 0
    /\ \A n \in Conns : net'[n].client = net[n].client /\ (Live(net'[n]) <=> Live(net[n]))
    /\ \A n \in Conns : ~Live(net[n]) => net'[n] = net[n]
    /\ history'.lost = history.lost /\ history'.established = history.established

LEMMA CallsFrame ==
    ASSUME Calls, NEW t \in Threads, Moves(t), CallOK(th'[t]), t \in Apps => ~AtCallback(th'[t]),
           InCall(th'[t]) => \/ InCall(th[t]) /\ th'[t].client = th[t].client
                         \/ \A u \in Threads \ {t} : InCall(th[u]) => th[u].client # th'[t].client
    PROVE  Calls'
<1>1. \A u \in Threads \ {t} : CallOK(th'[u]) /\ (InCall(th'[u]) <=> InCall(th[u])) /\ th'[u].client = th[u].client
    BY DEF Moves, Calls, CallOK, InCall, Waits
<1>2. \A u \in Threads : CallOK(th'[u])
    BY <1>1
<1>4. \A u \in Apps : ~AtCallback(th'[u])
    BY ConstFacts DEF Moves, Calls
<1>3. ASSUME NEW u \in Threads, NEW v \in Threads,
             InCall(th'[u]), InCall(th'[v]), th'[u].client = th'[v].client
      PROVE  u = v
    BY <1>1, <1>3 DEF Calls
<1> QED BY <1>2, <1>3, <1>4 DEF Calls

LEMMA LinksFrame ==
    ASSUME Types, Types', Calls, Connections, Losses, SameLinks, NEW t \in Threads, Moves(t),
           th'[t].pc \in {"begin", "awaitRun"} =>
               ~client[th'[t].client].connected /\ client[th'[t].client].conn = 0,
           Waits(th'[t]) /\ th'[t].call = "connect" =>
               /\ ~client[th'[t].client].connected
               /\ client[th'[t].client].conn # 0
               /\ client[th'[t].client].conn = th'[t].conn,
           Waits(th[t]) /\ th[t].call = "connect" =>
               Waits(th'[t]) /\ th'[t].call = "connect" /\ th'[t].client = th[t].client,
           CallOK(th'[t]),
           th'[t].pc # "stopping" \/ th'[t] = th[t],
           th'[t].pc = "lost" => th'[t].report \in Conns,
           t \in Conns \ LostConns => th'[t] = NoCall
    PROVE  Connections' /\ Losses'
<1>1. \A u \in Threads \ {t} : th'[u] = th[u]
    BY DEF Moves
<1>2. \A u \in Threads : th'[u].pc # "idle" => th'[u].client \in Clients
    BY <1>1 DEF CallOK, Calls
<1>3. Connections'
    <2>1. /\ \A n \in Conns : net'[n].client = None => net'[n] = NoConn
          /\ \A n \in Conns : Live(net'[n]) => net'[n].client \in Clients /\ client'[net'[n].client].conn = n
          /\ \A n \in Conns : ~Live(net'[n]) => net'[n].asked = {} /\ net'[n].in = <<>>
        <3>1. \A n \in Conns : net[n].client = None => ~Live(net[n])
            BY ConstFacts DEF Connections
        <3> QED BY <3>1 DEF Connections, SameLinks
    <2>2. \A c \in Clients :
             /\ client'[c].conn # 0 => Live(net'[client'[c].conn]) /\ net'[client'[c].conn].client = c
             /\ client'[c].connected \/ client'[c].connect_state \in {"TCP_IN_PROGRESS", "WAIT_FOR_CONNACK"}
                   => client'[c].conn # 0
        <3>1. \A c \in Clients : client[c].conn \in Conns \cup {0}
            BY DEF Types, ClientRec
        <3> QED BY <3>1 DEF Connections, SameLinks
    <2>3. \A u \in Threads : th'[u].pc \in {"begin", "awaitRun"} =>
             ~client'[th'[u].client].connected /\ client'[th'[u].client].conn = 0
        BY <1>1, <1>2 DEF Connections, SameLinks
    <2>4. \A u \in Threads : Waits(th'[u]) /\ th'[u].call = "connect" =>
             /\ ~client'[th'[u].client].connected
             /\ client'[th'[u].client].conn # 0
             /\ client'[th'[u].client].conn = th'[u].conn
        <3>1. \A u \in Threads : Waits(th'[u]) => th'[u].client \in Clients
            BY <1>2 DEF Waits
        <3> QED BY <1>1, <3>1 DEF Connections, SameLinks
    <2>5. ASSUME NEW c \in Clients, client'[c].conn # 0, ~client'[c].connected
          PROVE  \E u \in Threads : Waits(th'[u]) /\ th'[u].call = "connect" /\ th'[u].client = c
        <3>1. PICK u \in Threads : Waits(th[u]) /\ th[u].call = "connect" /\ th[u].client = c
            BY <2>5 DEF Connections, SameLinks
        <3> QED BY <1>1, <3>1
    <2> QED BY <2>1, <2>2, <2>3, <2>4, <2>5 DEF Connections
<1>4. Losses'
    <2>1. LostConns' = LostConns /\ LostOnce'
        BY DEF Losses, LostConns, LostOnce, SameLinks
    <2>2. \A n \in history'.established : net'[n].client # None
        BY DEF Losses, SameLinks, Types, HistoryRec
    <2>3. \A c \in Clients : /\ client'[c].connected <=> client'[c].conn \in history'.established
                             /\ client'[c].conn \notin LostConns
        BY DEF Losses, SameLinks
    <2>4. \A u \in Threads : th'[u].pc = "stopping" => th'[u] = th[u]
        BY <1>1
    <2>5. \A u \in Threads : th'[u].pc = "stopping" /\ th'[u].report # 0 =>
             /\ th'[u].report \in history'.established \ LostConns
             /\ \A c \in Clients : client'[c].conn # th'[u].report
        BY <2>4 DEF Losses, SameLinks
    <2>6. \A u, v \in Threads :
             /\ th'[u].pc = "stopping" /\ th'[v].pc = "stopping"
             /\ th'[u].report = th'[v].report /\ th'[u].report # 0
             => u = v
        BY <2>4 DEF Losses
    <2>7. \A u \in Threads : th'[u].pc = "lost" => th'[u].report \in Conns
        BY <1>1 DEF Losses
    <2>8. \A n \in Conns \ LostConns : th'[n] = NoCall
        BY <1>1 DEF Losses, Threads
    <2> QED BY <2>1, <2>2, <2>3, <2>5, <2>6, <2>7, <2>8 DEF Losses
<1> QED BY <1>3, <1>4

Core == Types /\ RunFlags /\ Calls /\ Holds /\ Connections /\ Losses

LEMMA HoldsFrame ==
    ASSUME Holds, NEW t \in Threads, Moves(t), HoldOK(t)',
           mutex' = mutex \/ (mutex \in {None, t} /\ mutex' \in {None, t}),
           run'.pc = "lost" <=> run.pc = "lost"
    PROVE  Holds'
<1>1. ASSUME NEW u \in Threads, u # t
      PROVE  HoldOK(u)'
    <2>1. mutex' = u <=> mutex = u
        BY <1>1, ConstFacts
    <2>2. th'[u] = th[u]
        BY <1>1 DEF Moves
    <2> QED BY <2>1, <2>2 DEF Holds, HoldOK
<1>2. mutex' = RunThread <=> mutex = RunThread
    BY ConstFacts
<1> QED BY <1>1, <1>2 DEF Holds

(* A call goes on waiting. *)
LEMMA WaitFrame ==
    ASSUME Core, NEW t \in Threads, Moves(t), SameLinks, Types',
           Waits(th[t]), Waits(th'[t]), mutex # t,
           th'[t].client = th[t].client, th'[t].call = th[t].call,
           th'[t].conn = th[t].conn, th'[t].id = th[t].id,
           th'[t].want = th[t].want \/ (th[t].want = "CONNECT" /\ th'[t].want = "CONNACK"),
           UNCHANGED <<run, running, tostop, mutex>>
    PROVE  Core'
<1> USE DEF Core
<1>0. CallOK(th[t]) /\ InCall(th[t]) /\ InCall(th'[t])
    BY DEF Calls, InCall
<1>1. CallOK(th'[t]) /\ ~AtCallback(th'[t])
    BY <1>0 DEF CallOK, Waits, InCall, AtCallback
<1>2. Calls'
    BY <1>0, <1>1, CallsFrame
<1>3. HoldOK(t)'
    BY DEF HoldOK, Waits
<1>4. Holds'
    BY <1>3, HoldsFrame
<1>5. RunFlags'
    BY DEF RunFlags
<1>6. th[t] # NoCall /\ t \notin Conns \ LostConns
    <2>1. th[t] # NoCall
        BY DEF Waits, NoCall
    <2> QED BY <2>1 DEF Losses
<1>7. Connections' /\ Losses'
    <2>1. th'[t].pc \notin {"begin", "awaitRun", "stopping", "lost"}
        BY DEF Waits
    <2>2. Waits(th[t]) /\ th[t].call = "connect" =>
               /\ ~client[th[t].client].connected
               /\ client[th[t].client].conn # 0
               /\ client[th[t].client].conn = th[t].conn
        BY DEF Connections
    <2> QED BY <1>1, <1>6, <2>1, <2>2, LinksFrame
<1> QED BY <1>2, <1>4, <1>5, <1>7

(* Connections stay as they are when neither clients nor net change, or only *)
(* what is left out of SameLinks.                                            *)
LEMMA UnchangedLinks ==
    ASSUME Core, UNCHANGED <<client, net>>,
           history'.lost = history.lost, history'.established = history.established
    PROVE  SameLinks
BY DEF Core, Connections, SameLinks

LEMMA CheckCore == ASSUME Core, NEW t \in Threads, Check(t) PROVE Core'
<1> USE DEF Core
<1>1. Types'
    <2>1. th' \in [Threads -> ThreadRec]
        BY DEF Types, Check, ThreadRec
    <2>2. history' \in HistoryRec
        BY DEF Types, Check, HistoryRec
    <2> QED BY <2>1, <2>2 DEF Types, Check
<1>2. /\ th'[t].pc \in {"sem", "cycle"}
      /\ th'[t].client = th[t].client /\ th'[t].call = th[t].call
      /\ th'[t].conn = th[t].conn /\ th'[t].id = th[t].id /\ th'[t].want = th[t].want
    BY DEF Types, Check, ThreadRec
<1>3. Moves(t)
    BY DEF Types, Check, Moves
<1>4. SameLinks
    BY UnchangedLinks DEF Check, Types, HistoryRec
<1>5. Waits(th[t]) /\ Waits(th'[t]) /\ mutex # t
    BY <1>2 DEF Waits, Check, Holds, HoldOK
<1> QED BY <1>1, <1>2, <1>3, <1>4, <1>5, WaitFrame DEF Check

LEMMA WakesFacts ==
    ASSUME Core, NEW t \in Threads, NEW rc \in Results, NEW pack \in Packs, Wakes(t, rc, pack)
    PROVE  /\ th' \in [Threads -> ThreadRec]
           /\ Moves(t)
           /\ th'[t].pc = "woken" /\ th'[t].pack = pack /\ th'[t].rc = rc
           /\ th'[t].client = th[t].client /\ th'[t].call = th[t].call
           /\ th'[t].conn = th[t].conn /\ th'[t].id = th[t].id /\ th'[t].want = th[t].want
           /\ Waits(th'[t])
<1> DEFINE r == [th[t] EXCEPT !.pc = "woken", !.rc = rc, !.pack = pack]
<1>1. th[t] \in ThreadRec /\ th' = [th EXCEPT ![t] = r]
    BY DEF Core, Types, Wakes
<1>2. /\ r \in ThreadRec
      /\ r.pc = "woken" /\ r.pack = pack /\ r.rc = rc
      /\ r.client = th[t].client /\ r.call = th[t].call
      /\ r.conn = th[t].conn /\ r.id = th[t].id /\ r.want = th[t].want
    BY <1>1 DEF ThreadRec
<1> HIDE DEF r
<1> QED BY <1>1, <1>2 DEF Core, Types, Moves, Waits

(* What is known of a call that waits. *)
LEMMA WaitFacts ==
    ASSUME Core, NEW t \in Threads, Waits(th[t])
    PROVE  /\ th[t].client \in Clients
           /\ th[t].want \in {"CONNECT", "CONNACK", "SUBACK"}
           /\ InCall(th[t])
           /\ th[t].pc # "woken" => mutex # t
BY DEF Core, Calls, CallOK, Waits, InCall, Holds, HoldOK

LEMMA SemTakenCore == ASSUME Core, NEW t \in Threads, SemTaken(t) PROVE Core'
<1> DEFINE c == th[t].client
           rc == IF th[t].want = "CONNECT" THEN client[c].rc ELSE "ok"
<1>1. Waits(th[t]) /\ th[t].pc = "sem"
    BY DEF SemTaken, Waits
<1>2. c \in Clients /\ th[t].want \in {"CONNECT", "CONNACK", "SUBACK"} /\ mutex # t
    BY <1>1, WaitFacts
<1>3. rc \in Results /\ client[c].pack \in Packs
    BY <1>2 DEF Core, Types, ClientRec, Results
<1>4. Wakes(t, rc, client[c].pack)
    BY DEF SemTaken
<1>5. /\ client' \in [Clients -> ClientRec]
      /\ \A d \in Clients : /\ client'[d].conn = client[d].conn
                            /\ client'[d].connected = client[d].connected
                            /\ client'[d].connect_state = client[d].connect_state
    BY <1>2 DEF Core, Types, SemTaken, ClientRec, SemOf
<1> HIDE DEF c, rc
<1>6. Types'
    BY <1>3, <1>4, <1>5, WakesFacts DEF Core, Types, SemTaken
<1>7. SameLinks
    BY <1>5 DEF SameLinks, SemTaken, Core, Connections
<1> QED BY <1>1, <1>2, <1>3, <1>4, <1>6, <1>7, WakesFacts, WaitFrame DEF SemTaken

LEMMA SemTimeoutCore == ASSUME Core, NEW t \in Threads, SemTimeout(t) PROVE Core'
<1>1. Waits(th[t]) /\ th[t].pc = "sem"
    BY DEF SemTimeout, Waits
<1>2. th[t].client \in Clients /\ mutex # t
    BY <1>1, WaitFacts
<1>3. "timeout" \in Results /\ client[th[t].client].pack \in Packs
    BY <1>2 DEF Core, Types, ClientRec, Results
<1>4. Wakes(t, "timeout", client[th[t].client].pack)
    BY DEF SemTimeout
<1>5. Types'
    BY <1>3, <1>4, WakesFacts DEF Core, Types, SemTimeout
<1>6. SameLinks
    BY UnchangedLinks DEF SemTimeout
<1> QED BY <1>1, <1>2, <1>3, <1>4, <1>5, <1>6, WakesFacts, WaitFrame DEF SemTimeout

LEMMA CycleTimeoutCore == ASSUME Core, NEW t \in Threads, CycleTimeout(t) PROVE Core'
<1>1. Waits(th[t]) /\ th[t].pc = "cycle"
    BY DEF CycleTimeout, Waits
<1>2. mutex # t
    BY <1>1, WaitFacts
<1>3. "timeout" \in Results /\ None \in Packs
    BY ConstFacts DEF Results
<1>4. Wakes(t, "timeout", None)
    BY DEF CycleTimeout
<1>5. Types'
    BY <1>3, <1>4, WakesFacts DEF Core, Types, CycleTimeout
<1>6. SameLinks
    BY UnchangedLinks DEF CycleTimeout
<1> QED BY <1>1, <1>2, <1>3, <1>4, <1>5, <1>6, WakesFacts, WaitFrame DEF CycleTimeout

(* A packet is read from a socket. *)
LEMMA ReadFacts ==
    ASSUME Core, NEW n \in Conns, Ready(n), net' = AfterRead(n)
    PROVE  /\ Live(net[n])
           /\ net[n].client \in Clients
           /\ net' \in [Conns -> ConnRec]
           /\ \A k \in Conns \ {n} : net'[k] = net[k]
           /\ net'[n].client = net[n].client /\ net'[n].tcp = net[n].tcp
           /\ net'[n].asked = net[n].asked
           /\ ReadFrom(n).rc \in Results /\ ReadFrom(n).pack \in Packs
           /\ \/ net'[n].in = net[n].in /\ ReadFrom(n).pack = None
              \/ /\ net[n].in # <<>> /\ net'[n].in = Tail(net[n].in)
                 /\ ReadFrom(n).rc = "ok" /\ ReadFrom(n).pack = net[n].in[1]
<1>1. Live(net[n])
    BY DEF Ready, Live
<1>2. net[n] \in ConnRec /\ net[n].in \in Seq(Packets)
    BY DEF Core, Types, ConnRec
<1>3. net[n].in # <<>> => Tail(net[n].in) \in Seq(Packets) /\ net[n].in[1] \in Packets
    BY <1>2
<1> DEFINE in == IF net[n].in = <<>> \/ TcpInProgress(n) THEN net[n].in ELSE Tail(net[n].in)
<1>4. in \in Seq(Packets)
    BY <1>2, <1>3
<1> DEFINE r == [net[n] EXCEPT !.pending = FALSE, !.in = in]
<1>5. net' = [net EXCEPT ![n] = r]
    BY DEF AfterRead
<1> HIDE DEF in
<1>6. /\ net' \in [Conns -> ConnRec]
      /\ \A k \in Conns \ {n} : net'[k] = net[k]
      /\ net'[n].client = net[n].client /\ net'[n].tcp = net[n].tcp
      /\ net'[n].asked = net[n].asked /\ net'[n].in = in
    <2>1. /\ r \in ConnRec
          /\ r.client = net[n].client /\ r.tcp = net[n].tcp /\ r.asked = net[n].asked /\ r.in = in
        BY <1>2, <1>4 DEF ConnRec
    <2> HIDE DEF r
    <2> QED BY <1>5, <2>1 DEF Core, Types
<1>7. CASE net[n].in = <<>> \/ TcpInProgress(n)
    <2>1. net'[n].in = net[n].in
        BY <1>6, <1>7 DEF in
    <2>2. ReadFrom(n).rc \in {"ok", "error"} /\ ReadFrom(n).pack = None
        BY <1>7 DEF ReadFrom
    <2> QED BY <1>1, <1>6, <2>1, <2>2, ConstFacts DEF Core, Connections, Results
<1>8. CASE ~(net[n].in = <<>> \/ TcpInProgress(n))
    <2>1. net'[n].in = Tail(net[n].in) /\ net[n].in # <<>>
        BY <1>6, <1>8 DEF in
    <2>2. ReadFrom(n).rc = "ok" /\ ReadFrom(n).pack = net[n].in[1]
        BY <1>2, <1>8 DEF ReadFrom
    <2> QED BY <1>1, <1>3, <1>6, <2>1, <2>2, ConstFacts DEF Core, Connections, Results
<1> QED BY <1>7, <1>8

LEMMA ReadLinks ==
    ASSUME Core, NEW n \in Conns, Ready(n), net' = AfterRead(n), UNCHANGED client,
           history'.lost = history.lost, history'.established = history.established
    PROVE  SameLinks
<1>1. \A k \in Conns : net'[k].client = net[k].client /\ (Live(net'[k]) <=> Live(net[k]))
    BY ReadFacts DEF Live
<1>2. \A k \in Conns : ~Live(net[k]) => net'[k] = net[k]
    BY ReadFacts
<1> QED BY <1>1, <1>2 DEF SameLinks, Core, Connections

LEMMA CycleHereCore == ASSUME Core, NEW t \in Threads, CycleHere(t) PROVE Core'
<1>1. Waits(th[t]) /\ th[t].pc = "cycle"
    BY DEF CycleHere, Waits
<1>2. mutex # t
    BY <1>1, WaitFacts
<1>3. PICK n \in Conns :
          /\ Ready(n) /\ net' = AfterRead(n)
          /\ \/ Wakes(t, "error", None)
             \/ Wakes(t, "ok", ReadFrom(n).pack)
             \/ Wakes(t, "ok", None)
             \/ UNCHANGED th
    BY DEF CycleHere
<1>4. /\ th' \in [Threads -> ThreadRec]
      /\ Moves(t) /\ Waits(th'[t])
      /\ th'[t].client = th[t].client /\ th'[t].call = th[t].call
      /\ th'[t].conn = th[t].conn /\ th'[t].id = th[t].id /\ th'[t].want = th[t].want
    <2>1. "error" \in Results /\ "ok" \in Results /\ None \in Packs /\ ReadFrom(n).pack \in Packs
        BY <1>3, ReadFacts, ConstFacts DEF Results
    <2>2. CASE UNCHANGED th
        BY <1>1, <2>2 DEF Core, Types, Moves
    <2> QED BY <1>3, <2>1, <2>2, WakesFacts
<1>5. Types'
    BY <1>3, <1>4, ReadFacts DEF Core, Types, CycleHere
<1>6. SameLinks
    BY <1>3, ReadLinks DEF CycleHere
<1> QED BY <1>1, <1>2, <1>4, <1>5, <1>6, WaitFrame DEF CycleHere

-----------------------------------------------------------------------------
(* Steps of the network and of the background thread                        *)

LEMMA StillLinks ==
    ASSUME Core, SameLinks, Types', UNCHANGED th
    PROVE  Calls' /\ Connections' /\ Losses'
<1> USE DEF Core
<1>1. PICK t \in Threads : TRUE
    BY SyncAssumption DEF Threads, Conns
<1>2. Moves(t)
    BY DEF Moves
<1>3. CallOK(th[t]) /\ (t \in Apps => ~AtCallback(th[t]))
    BY DEF Calls
<1>4. Calls'
    BY <1>2, <1>3, CallsFrame
<1>5. Connections' /\ Losses'
    <2>1. /\ th[t].pc \in {"begin", "awaitRun"} =>
               ~client[th[t].client].connected /\ client[th[t].client].conn = 0
          /\ Waits(th[t]) /\ th[t].call = "connect" =>
               /\ ~client[th[t].client].connected
               /\ client[th[t].client].conn # 0
               /\ client[th[t].client].conn = th[t].conn
          /\ th[t].pc = "lost" => th[t].report \in Conns
          /\ t \in Conns \ LostConns => th[t] = NoCall
        BY DEF Connections, Losses
    <2> QED BY <1>2, <1>3, <2>1, LinksFrame
<1> QED BY <1>4, <1>5

LEMMA StillFrame ==
    ASSUME Core, SameLinks, Types', RunFlags', UNCHANGED <<th, mutex>>,
           run'.pc = "lost" <=> run.pc = "lost"
    PROVE  Core'
<1>1. Holds'
    BY DEF Core, Holds, HoldOK
<1> QED BY <1>1, StillLinks DEF Core

(* A live connection n is changed to r, and stays live. *)
LEMMA NetLinks ==
    ASSUME Core, NEW n \in Conns, Live(net[n]), NEW r \in ConnRec, r.client = net[n].client, Live(r),
           net' = [net EXCEPT ![n] = r], UNCHANGED client,
           history'.lost = history.lost, history'.established = history.established
    PROVE  net' \in [Conns -> ConnRec] /\ SameLinks
<1>1. net' \in [Conns -> ConnRec] /\ \A k \in Conns : net'[k] = IF k = n THEN r ELSE net[k]
    BY DEF Core, Types
<1>2. \A k \in Conns : net'[k].client = net[k].client /\ (Live(net'[k]) <=> Live(net[k]))
    BY <1>1
<1>3. \A k \in Conns : ~Live(net[k]) => net'[k] = net[k]
    BY <1>1
<1> QED BY <1>1, <1>2, <1>3 DEF SameLinks, Core, Connections

LEMMA TcpDoneCore == ASSUME Core, NEW n \in Conns, TcpDone(n) PROVE Core'
<1>1. PICK tcp \in {"up", "broken"} : net' = [net EXCEPT ![n].tcp = tcp]
    BY DEF TcpDone
<1> DEFINE r == [net[n] EXCEPT !.tcp = tcp]
<1>2. net' = [net EXCEPT ![n] = r] /\ net[n] \in ConnRec /\ Live(net[n])
    BY <1>1 DEF TcpDone, Core, Types, Live
<1>3. r \in ConnRec /\ r.client = net[n].client /\ r.tcp = tcp
    BY <1>2 DEF ConnRec
<1> HIDE DEF r
<1>4. net' \in [Conns -> ConnRec] /\ SameLinks
    BY <1>2, <1>3, NetLinks DEF TcpDone, Live
<1>5. Types' /\ RunFlags'
    BY <1>4 DEF Core, Types, RunFlags, TcpDone
<1> QED BY <1>4, <1>5, StillFrame DEF TcpDone

(* The server answers the request id. *)
LEMMA AnswerFacts ==
    ASSUME Core, NEW n \in Conns, Answer(n)
    PROVE  \E id \in net[n].asked, ok \in BOOLEAN, p \in Packets :
              /\ p.conn = n /\ p.id = id /\ p.type = (IF id = 0 THEN "CONNACK" ELSE "SUBACK")
              /\ net' \in [Conns -> ConnRec]
              /\ \A k \in Conns \ {n} : net'[k] = net[k]
              /\ net'[n].client = net[n].client /\ net'[n].tcp = net[n].tcp
              /\ net'[n].asked = net[n].asked \ {id} /\ net'[n].in = Append(net[n].in, p)
<1>1. PICK id \in net[n].asked, ok \in BOOLEAN :
          net' = [net EXCEPT ![n].asked = @ \ {id},
                     ![n].in = Append(@, [type |-> IF id = 0 THEN "CONNACK" ELSE "SUBACK",
                                          conn |-> n, id |-> id, ok |-> ok])]
    BY DEF Answer
<1> DEFINE p == [type |-> IF id = 0 THEN "CONNACK" ELSE "SUBACK", conn |-> n, id |-> id, ok |-> ok]
           r == [net[n] EXCEPT !.asked = net[n].asked \ {id}, !.in = Append(net[n].in, p)]
<1>2. net[n] \in ConnRec /\ id \in Nat /\ net[n].asked \subseteq Nat /\ net[n].in \in Seq(Packets)
    BY DEF Core, Types, ConnRec
<1>3. p \in Packets /\ p.conn = n /\ p.id = id /\ p.type = (IF id = 0 THEN "CONNACK" ELSE "SUBACK")
    BY <1>2 DEF Packets
<1>4. net' = [net EXCEPT ![n] = r]
    BY <1>1
<1> HIDE DEF p
<1>5. Append(net[n].in, p) \in Seq(Packets)
    BY <1>2, <1>3, AppendFacts
<1>6. /\ r \in ConnRec
      /\ r.client = net[n].client /\ r.tcp = net[n].tcp
      /\ r.asked = net[n].asked \ {id} /\ r.in = Append(net[n].in, p)
    BY <1>2, <1>5 DEF ConnRec
<1> HIDE DEF r
<1>7. /\ net' \in [Conns -> ConnRec]
      /\ \A k \in Conns \ {n} : net'[k] = net[k]
      /\ net'[n] = r
    BY <1>4, <1>6 DEF Core, Types
<1> QED BY <1>3, <1>6, <1>7

LEMMA AnswerCore == ASSUME Core, NEW n \in Conns, Answer(n) PROVE Core'
<1>1. /\ net' \in [Conns -> ConnRec]
      /\ \A k \in Conns \ {n} : net'[k] = net[k]
      /\ net'[n].client = net[n].client /\ net'[n].tcp = net[n].tcp
    BY AnswerFacts
<1>2. Live(net[n])
    BY DEF Answer, Live
<1>3. SameLinks
    <2>1. \A k \in Conns : net'[k].client = net[k].client /\ (Live(net'[k]) <=> Live(net[k]))
        BY <1>1 DEF Live
    <2>2. \A k \in Conns : ~Live(net[k]) => net'[k] = net[k]
        BY <1>1, <1>2
    <2> QED BY <2>1, <2>2 DEF SameLinks, Answer, Core, Connections
<1>4. Types' /\ RunFlags'
    BY <1>1 DEF Core, Types, RunFlags, Answer
<1> QED BY <1>3, <1>4, StillFrame DEF Answer

LEMMA BreakCore == ASSUME Core, NEW n \in Conns, Break(n) PROVE Core'
<1> DEFINE r == [net[n] EXCEPT !.tcp = "broken"]
<1>1. net' = [net EXCEPT ![n] = r] /\ net[n] \in ConnRec /\ Live(net[n])
    BY DEF Break, Core, Types, Live
<1>2. r \in ConnRec /\ r.client = net[n].client /\ r.tcp = "broken"
    BY <1>1 DEF ConnRec
<1> HIDE DEF r
<1>3. /\ history' \in HistoryRec
      /\ history'.lost = history.lost /\ history'.established = history.established
    <2>1. history \in HistoryRec /\ history' = [history EXCEPT !.breaks = history.breaks + 1]
        BY DEF Core, Types, Break
    <2>2. history.breaks + 1 \in Nat
        BY <2>1 DEF HistoryRec
    <2> QED BY <2>1, <2>2 DEF HistoryRec
<1>4. net' \in [Conns -> ConnRec] /\ SameLinks
    BY <1>1, <1>2, <1>3, NetLinks DEF Break, Live
<1>5. Types' /\ RunFlags'
    BY <1>3, <1>4 DEF Core, Types, RunFlags, Break
<1> QED BY <1>4, <1>5, StillFrame DEF Break

LEMMA CycleCore == ASSUME Core, NEW n \in Conns, Cycle(n) PROVE Core'
<1>1. Ready(n) /\ net' = AfterRead(n)
    BY DEF Cycle
<1>2. /\ run' \in RunRec /\ run'.pc = "handle" /\ run'.sock = n
      /\ run'.rc = ReadFrom(n).rc /\ run'.pack = ReadFrom(n).pack
    BY <1>1, ReadFacts DEF Cycle, RunRec
<1>3. SameLinks
    BY <1>1, ReadLinks DEF Cycle
<1>4. Types'
    BY <1>1, <1>2, ReadFacts DEF Core, Types, Cycle
<1>5. RunFlags'
    BY <1>1, <1>2, ReadFacts DEF Core, RunFlags, Cycle
<1> QED BY <1>2, <1>3, <1>4, <1>5, StillFrame DEF Cycle

LEMMA ExitCore ==
    ASSUME Core, run.pc # "lost", Exit, UNCHANGED <<scenario, client, net, th, mutex, sync, history>>
    PROVE  Core'
<1>1. Types'
    BY RecordFacts DEF Core, Types, Exit
<1>2. RunFlags' /\ run'.pc # "lost"
    BY DEF RunFlags, Exit, NoRun
<1> QED BY <1>1, <1>2, UnchangedLinks, StillFrame

LEMMA RunStartCore == ASSUME Core, RunStart PROVE Core'
<1>1. CASE tostop
    BY <1>1, ExitCore DEF RunStart
<1>2. CASE ~tostop
    <2>1. /\ run' \in RunRec /\ run'.pc = "cycle" /\ run'.rc = run.rc /\ run'.pack = run.pack
          /\ running' = TRUE /\ UNCHANGED tostop
        BY <1>2 DEF RunStart, Core, Types, RunRec
    <2>2. Types' /\ RunFlags'
        BY <1>2, <2>1 DEF Core, Types, RunFlags, RunStart
    <2> QED BY <2>1, <2>2, UnchangedLinks, StillFrame DEF RunStart
<1> QED BY <1>1, <1>2

LEMMA RunStopsCore == ASSUME Core, RunStops PROVE Core'
BY ExitCore DEF RunStops

(* What the background thread leaves in a client. *)
LEMMA RunPostsCore ==
    ASSUME Core, NEW c \in Clients, NEW m \in ClientRec, NEW past \in HistoryRec,
           m.conn = client[c].conn, m.connected = client[c].connected,
           m.connect_state \in {client[c].connect_state, "NOT_IN_PROGRESS"},
           past.lost = history.lost, past.established = history.established,
           run.pc = "handle", ~tostop,
           RunPosts(c, m, past), UNCHANGED scenario
    PROVE  Core'
<1>1. /\ client' \in [Clients -> ClientRec]
      /\ \A d \in Clients : /\ client'[d].conn = client[d].conn
                            /\ client'[d].connected = client[d].connected
                            /\ \/ client'[d].connect_state = client[d].connect_state
                               \/ client'[d].connect_state = "NOT_IN_PROGRESS"
    BY DEF RunPosts, Core, Types
<1>2. run' \in RunRec /\ run'.pc = "cycle" /\ run'.rc = "ok" /\ run'.pack = None
    BY RecordFacts DEF RunPosts, Again, RunRec, NoRun
<1>3. Types'
    BY <1>1, <1>2 DEF Core, Types, RunPosts
<1>4. RunFlags'
    BY <1>2 DEF Core, RunFlags, RunPosts
<1>5. SameLinks
    BY <1>1 DEF SameLinks, RunPosts, Core, Connections
<1> QED BY <1>2, <1>3, <1>4, <1>5, StillFrame DEF RunPosts

LEMMA RunIgnoresCore ==
    ASSUME Core, run.pc = "handle", ~tostop, RunIgnores, UNCHANGED scenario
    PROVE  Core'
<1>1. run' \in RunRec /\ run'.pc = "cycle" /\ run'.rc = "ok" /\ run'.pack = None
    BY RecordFacts DEF RunIgnores, Again, RunRec, NoRun
<1>2. Types' /\ RunFlags'
    BY <1>1 DEF Core, Types, RunFlags, RunIgnores
<1> QED BY <1>1, <1>2, UnchangedLinks, StillFrame DEF RunIgnores

-----------------------------------------------------------------------------
(* Calls begin and go on                                                    *)

(* Thread t is not in a call before, or it stays in its call; connections    *)
(* are not touched.                                                          *)
LEMMA MoveFrame ==
    ASSUME Core, NEW t \in Threads, NEW r \in ThreadRec, th' = [th EXCEPT ![t] = r],
           SameLinks, Types', RunFlags',
           CallOK(r), t \in Apps => ~AtCallback(r),
           InCall(r) => \/ InCall(th[t]) /\ r.client = th[t].client
                        \/ \A u \in Threads \ {t} : InCall(th[u]) => th[u].client # r.client,
           ~(Waits(th[t]) /\ th[t].call = "connect"),
           ~(Waits(r) /\ r.call = "connect"),
           r.pc \in {"begin", "awaitRun"} =>
               ~client[r.client].connected /\ client[r.client].conn = 0,
           r.pc \notin {"stopping", "lost"},
           t \in Apps \/ th[t] # NoCall,
           r.pc = "begin" => mutex' = t,
           mutex' = t => r.pc \in {"begin", "woken", "drain", "lost"},
           mutex' = t /\ r.pc = "woken" => r.want = "SUBACK" /\ r.pack = None,
           mutex' = mutex \/ (mutex \in {None, t} /\ mutex' \in {None, t}),
           run'.pc = "lost" <=> run.pc = "lost"
    PROVE  Core'
<1> USE DEF Core
<1>1. th'[t] = r /\ Moves(t)
    BY DEF Types, Moves
<1>2. Calls'
    BY <1>1, CallsFrame
<1>3. HoldOK(t)'
    BY <1>1 DEF HoldOK
<1>4. Holds'
    BY <1>1, <1>3, HoldsFrame
<1>5. t \notin Conns \ LostConns
    BY ConstFacts DEF Losses
<1>6. Connections' /\ Losses'
    BY <1>1, <1>5, LinksFrame
<1> QED BY <1>2, <1>4, <1>6

(* Nobody is in a call for the client of Alone. *)
LEMMA AloneFacts ==
    ASSUME Core, NEW t \in Threads, NEW c \in Clients, Alone(t, c)
    PROVE  \A u \in Threads \ {t} : InCall(th[u]) => th[u].client # c
<1>1. DOMAIN th = Threads
    BY DEF Core, Types
<1>2. \A u \in Threads : InCall(th[u]) => th[u].call # "none" /\ th[u].pc # "enter"
    BY DEF Core, Calls, CallOK, InCall, Waits
<1> QED BY <1>1, <1>2 DEF Alone

LEMMA CountedFacts ==
    ASSUME Core, NEW t \in Threads
    PROVE  /\ Counted(t) \in HistoryRec
           /\ Counted(t).lost = history.lost /\ Counted(t).established = history.established
           /\ Counted(t).raced = history.raced /\ Counted(t).foreign = history.foreign
<1>1. history \in HistoryRec
    BY DEF Core, Types
<1>2. CASE t \in Apps
    <2> DEFINE calls == [history.calls EXCEPT ![t] = history.calls[t] + 1]
    <2>1. calls \in [Apps -> Nat]
        BY <1>1, <1>2 DEF HistoryRec
    <2>2. Counted(t) = [history EXCEPT !.calls = calls]
        BY <1>2 DEF Counted
    <2> HIDE DEF calls
    <2> QED BY <1>1, <2>1, <2>2 DEF HistoryRec
<1>3. CASE t \notin Apps
    BY <1>1, <1>3 DEF Counted
<1> QED BY <1>2, <1>3

LEMMA OverFacts ==
    ASSUME Core, NEW t \in Threads, th[t].client \in Clients
    PROVE  /\ Over(t) \in ThreadRec /\ CallOK(Over(t))
           /\ Over(t).pc \in {"idle", "post"} /\ Over(t).call = "none"
           /\ Over(t).client \in {th[t].client, None}
           /\ ~InCall(Over(t)) /\ ~Waits(Over(t))
           /\ t \in Apps => Over(t) = NoCall /\ ~AtCallback(Over(t))
<1>1. NoCall \in ThreadRec /\ CallOK(NoCall) /\ ~AtCallback(NoCall)
    BY RecordFacts DEF NoCall, CallOK, InCall, Waits, AtCallback
<1>2. CASE t \in Apps
    BY <1>1, <1>2 DEF Over, NoCall, InCall, Waits
<1>3. CASE t \notin Apps
    <2>1. Over(t) = [NoCall EXCEPT !.pc = "post", !.client = th[t].client]
        BY <1>3 DEF Over
    <2>2. Over(t) \in ThreadRec
        BY <1>1, <2>1 DEF ThreadRec
    <2>3. Over(t).pc = "post" /\ Over(t).client = th[t].client /\ Over(t).call = "none" /\ Over(t).id = 0
        BY <2>1 DEF NoCall
    <2> QED BY <1>3, <2>2, <2>3 DEF CallOK, InCall, Waits
<1> QED BY <1>2, <1>3

LEMMA ConnectCore == ASSUME Core, NEW t \in Threads, Connect(t) PROVE Core'
<1> USE DEF Core
<1> DEFINE c == IF t \in Apps THEN scenario.owner[t] ELSE th[t].client
           v == IF scenario.version = 0 THEN 4 ELSE scenario.version
           r == [NoCall EXCEPT !.pc = "begin", !.client = c, !.call = "connect", !.version = v]
<1>1. /\ th[t].pc \in {"idle", "enter"} /\ (t \notin Apps => th[t].pc = "enter")
      /\ c \in Clients /\ mutex = None
    <2>1. t \in Apps => MayCall(t)
        BY DEF Connect, Calls, AtCallback
    <2>2. t \in Apps => scenario.owner[t] \in Clients /\ th[t].pc = "idle"
        BY <2>1, ScenarioFacts DEF MayCall, Types
    <2>3. t \notin Apps => th[t].pc = "enter" /\ th[t].client \in Clients
        BY DEF Connect, MayCall, Calls, CallOK
    <2> QED BY <2>2, <2>3 DEF Connect, Free
<1>2. \A u \in Threads \ {t} : InCall(th[u]) => th[u].client # c
    BY <1>1, AloneFacts DEF Connect
<1>3. ~Waits(th[t]) /\ ~InCall(th[t])
    BY <1>1 DEF Waits, InCall
<1>4. UNCHANGED <<scenario, client, net, run, running, tostop, sync>>
    BY DEF Connect
<1>5. RunFlags'
    BY <1>4 DEF RunFlags
<1>6. t \in Apps \/ th[t] # NoCall
    BY <1>1 DEF NoCall
<1>7. CASE Enough /\ ~client[c].connected
    <2>1. th' = [th EXCEPT ![t] = r] /\ mutex' = t /\ history' = Counted(t)
        BY <1>7 DEF Connect
    <2>2. client[c].conn = 0
        <3>1. SUFFICES ASSUME client[c].conn # 0 PROVE FALSE
            OBVIOUS
        <3>2. PICK u \in Threads : Waits(th[u]) /\ th[u].call = "connect" /\ th[u].client = c
            BY <1>1, <1>7, <3>1 DEF Connections
        <3> QED BY <1>2, <1>3, <3>2 DEF InCall
    <2>3. v \in 0 .. 5
        BY ScenarioFacts DEF Types
    <2>4. /\ r \in ThreadRec /\ r.pc = "begin" /\ r.client = c /\ r.call = "connect" /\ r.id = 0
        BY <1>1, <2>3, RecordFacts DEF ThreadRec, NoCall
    <2> HIDE DEF r, c, v
    <2>5. th' \in [Threads -> ThreadRec]
        BY <2>1, <2>4 DEF Types
    <2>6. Types'
        BY <1>4, <2>1, <2>5, CountedFacts DEF Types
    <2>7. SameLinks
        BY <1>4, <2>1, CountedFacts, UnchangedLinks
    <2>8. CallOK(r) /\ ~AtCallback(r)
        BY <1>1, <2>4 DEF CallOK, InCall, Waits, AtCallback
    <2> QED BY <1>1, <1>2, <1>3, <1>4, <1>5, <1>6, <1>7, <2>1, <2>2, <2>4, <2>6, <2>7, <2>8, MoveFrame DEF Waits
<1>8. CASE ~(Enough /\ ~client[c].connected)
    <2>1. t \notin Apps /\ th' = [th EXCEPT ![t] = Over(t)] /\ UNCHANGED <<mutex, history>>
        BY <1>8 DEF Connect
    <2>2. th[t].client \in Clients
        BY <1>1, <2>1
    <2>3. Types'
        BY <1>4, <2>1, <2>2, OverFacts DEF Types
    <2>4. SameLinks
        BY <1>4, <2>1, UnchangedLinks
    <2>5. mutex' # t
        BY <1>1, <2>1, ConstFacts
    <2> QED BY <1>1, <1>3, <1>4, <1>5, <1>6, <2>1, <2>2, <2>3, <2>4, <2>5, OverFacts, MoveFrame
<1> QED BY <1>7, <1>8

LEMMA StartRunCore == ASSUME Core, NEW t \in Threads, StartRun(t) PROVE Core'
<1> USE DEF Core
<1> DEFINE r == [th[t] EXCEPT !.pc = "awaitRun"]
<1>1. /\ th[t].pc = "begin" /\ th[t] \in ThreadRec /\ CallOK(th[t]) /\ mutex = t
      /\ ~client[th[t].client].connected /\ client[th[t].client].conn = 0
    BY DEF StartRun, Types, Calls, Holds, HoldOK, Connections
<1>2. th' = [th EXCEPT ![t] = r] /\ mutex' = None
    BY DEF StartRun
<1>3. /\ r \in ThreadRec /\ r.pc = "awaitRun" /\ r.client = th[t].client
      /\ r.call = th[t].call /\ r.id = th[t].id
    BY <1>1 DEF ThreadRec
<1> HIDE DEF r
<1>4. run' \in RunRec /\ run'.pc = "starting" /\ run'.rc = "ok" /\ run'.pack = None
    BY RecordFacts DEF StartRun, RunRec, NoRun
<1>5. Types'
    BY <1>2, <1>3, <1>4 DEF Types, StartRun
<1>6. RunFlags'
    BY <1>4 DEF RunFlags, StartRun
<1>7. SameLinks
    BY UnchangedLinks DEF StartRun
<1>8. CallOK(r) /\ ~AtCallback(r) /\ ~Waits(r) /\ ~Waits(th[t]) /\ InCall(th[t])
    BY <1>1, <1>3 DEF CallOK, InCall, Waits, AtCallback
<1>9. mutex' # t /\ run.pc # "lost" /\ th[t] # NoCall
    BY <1>1, <1>2, ConstFacts DEF StartRun, RunFlags, NoCall
<1> QED BY <1>1, <1>2, <1>3, <1>4, <1>5, <1>6, <1>7, <1>8, <1>9, MoveFrame

LEMMA CallbackCore == ASSUME Core, NEW n \in Conns, Callback(n) PROVE Core'
<1> USE DEF Core
<1> DEFINE r == IF scenario.reconnects THEN [th[n] EXCEPT !.pc = "enter", !.call = "connect"]
                ELSE [th[n] EXCEPT !.pc = "post"]
<1>1. n \in Threads /\ n \notin Apps
    BY ConstFacts
<1>2. /\ th[n].pc = "callback" /\ th[n] \in ThreadRec /\ CallOK(th[n]) /\ th[n] # NoCall
      /\ mutex # n /\ th[n].call = "none" /\ ~Waits(th[n])
    BY <1>1 DEF Callback, Types, Calls, CallOK, InCall, Waits, Holds, HoldOK, NoCall
<1>3. th' = [th EXCEPT ![n] = r]
    BY DEF Callback
<1>4. /\ r \in ThreadRec /\ r.client = th[n].client /\ r.id = th[n].id
      /\ \/ r.pc = "enter" /\ r.call = "connect"
         \/ r.pc = "post" /\ r.call = "none"
    BY <1>2 DEF ThreadRec
<1> HIDE DEF r
<1>6. Types' /\ RunFlags' /\ SameLinks
    BY <1>3, <1>4, UnchangedLinks DEF Types, RunFlags, Callback
<1>7. CallOK(r)
    BY <1>2, <1>4 DEF CallOK, InCall, Waits
<1> QED BY <1>1, <1>2, <1>3, <1>4, <1>6, <1>7, MoveFrame DEF InCall, Waits, Callback

LEMMA PostSyncCore == ASSUME Core, NEW n \in Conns, PostSync(n) PROVE Core'
<1> USE DEF Core
<1>1. n \in Threads /\ n \notin Apps
    BY ConstFacts
<1>2. th[n].pc = "post" /\ th[n] # NoCall /\ mutex # n /\ ~Waits(th[n])
    BY <1>1 DEF PostSync, Waits, Holds, HoldOK, NoCall
<1>3. th' = [th EXCEPT ![n] = NoCall]
    BY DEF PostSync
<1>4. /\ history' \in HistoryRec
      /\ history'.lost = history.lost /\ history'.established = history.established
    BY DEF PostSync, Types, HistoryRec
<1>5. sync' \in [Conns -> {"none", "waiting", "posted"}]
    BY DEF PostSync, Types
<1>6. Types' /\ RunFlags' /\ SameLinks
    BY <1>3, <1>4, <1>5, RecordFacts, UnchangedLinks DEF Types, RunFlags, PostSync
<1>7. NoCall \in ThreadRec /\ CallOK(NoCall) /\ NoCall.pc = "idle"
    BY RecordFacts DEF CallOK, InCall, Waits, NoCall
<1> QED BY <1>1, <1>2, <1>3, <1>6, <1>7, MoveFrame DEF InCall, Waits, PostSync

(* An application thread that makes a call. *)
LEMMA MayCallFacts ==
    ASSUME Core, NEW t \in Apps, MayCall(t), Alone(t, scenario.owner[t])
    PROVE  /\ t \in Threads /\ th[t].pc = "idle" /\ ~Waits(th[t]) /\ ~InCall(th[t])
           /\ scenario.owner[t] \in Clients
           /\ \A u \in Threads \ {t} : InCall(th[u]) => th[u].client # scenario.owner[t]
<1>1. t \in Threads /\ th[t].pc = "idle"
    BY ConstFacts DEF MayCall
<1>2. scenario.owner[t] \in Clients
    BY ScenarioFacts DEF MayCall, Core, Types
<1> QED BY <1>1, <1>2, AloneFacts DEF Waits, InCall

LEMMA SubscribeFacts ==
    ASSUME Core, NEW t \in Apps, Subscribe(t)
    PROVE  LET c == scenario.owner[t]
               n == client[c].conn
           IN  \E sent \in BOOLEAN, id \in Nat \ {0}, l \in ConnRec, r \in ThreadRec :
                  /\ n \in Conns /\ Live(net[n]) /\ net[n].client = c
                  /\ l.client = c /\ l.tcp = net[n].tcp /\ l.in = net[n].in
                  /\ l.asked = net[n].asked \cup (IF sent THEN {id} ELSE {})
                  /\ net' = [net EXCEPT ![n] = l]
                  /\ r.pc = (IF sent THEN "check" ELSE "woken") /\ r.client = c
                  /\ r.call = "subscribe" /\ r.want = "SUBACK" /\ r.conn = n /\ r.id = id
                  /\ r.pack = None
                  /\ th' = [th EXCEPT ![t] = r]
                  /\ mutex' = IF sent THEN None ELSE t
<1> USE DEF Core
<1> DEFINE c == scenario.owner[t]
           n == client[c].conn
           id == history.calls[t] + 1
<1>1. c \in Clients /\ client[c].connected
    BY MayCallFacts DEF Subscribe
<1>2. n \in Conns /\ Live(net[n]) /\ net[n].client = c
    BY <1>1 DEF Connections, Types, ClientRec
<1>3. id \in Nat \ {0}
    <2>1. history.calls[t] \in Nat
        BY DEF Types, HistoryRec
    <2> QED BY <2>1
<1>4. PICK sent \in BOOLEAN :
         /\ net' = IF sent THEN [net EXCEPT ![n].asked = @ \cup {id}] ELSE net
         /\ th' = [th EXCEPT ![t] =
                     [NoCall EXCEPT !.pc = IF sent THEN "check" ELSE "woken", !.client = c,
                        !.call = "subscribe", !.want = "SUBACK", !.conn = n, !.id = id]]
         /\ mutex' = IF sent THEN None ELSE t
    BY DEF Subscribe
<1> DEFINE l == IF sent THEN [net[n] EXCEPT !.asked = net[n].asked \cup {id}] ELSE net[n]
           r == [NoCall EXCEPT !.pc = IF sent THEN "check" ELSE "woken", !.client = c,
                    !.call = "subscribe", !.want = "SUBACK", !.conn = n, !.id = id]
<1>5. net \in [Conns -> ConnRec] /\ net[n] \in ConnRec
    BY <1>2 DEF Types
<1>6. net' = [net EXCEPT ![n] = l]
    <2>1. CASE sent
        BY <1>4, <2>1
    <2>2. CASE ~sent
        BY <1>2, <1>4, <1>5, <2>2
    <2> QED BY <2>1, <2>2
<1>7. th' = [th EXCEPT ![t] = r]
    BY <1>4
<1> HIDE DEF id, n, c
<1>8. /\ l \in ConnRec /\ l.client = c /\ l.tcp = net[n].tcp /\ l.in = net[n].in
      /\ l.asked = net[n].asked \cup (IF sent THEN {id} ELSE {})
    BY <1>2, <1>3, <1>5 DEF ConnRec
<1>9. /\ r \in ThreadRec
      /\ r.pc = (IF sent THEN "check" ELSE "woken") /\ r.client = c
      /\ r.call = "subscribe" /\ r.want = "SUBACK" /\ r.conn = n /\ r.id = id /\ r.pack = None
    BY <1>1, <1>2, <1>3, RecordFacts DEF ThreadRec, NoCall
<1> HIDE DEF l, r
<1> SUFFICES \E sent_1 \in BOOLEAN, id_1 \in Nat \ {0}, l_1 \in ConnRec, r_1 \in ThreadRec :
                  /\ n \in Conns /\ Live(net[n]) /\ net[n].client = c
                  /\ l_1.client = c /\ l_1.tcp = net[n].tcp /\ l_1.in = net[n].in
                  /\ l_1.asked = net[n].asked \cup (IF sent_1 THEN {id_1} ELSE {})
                  /\ net' = [net EXCEPT ![n] = l_1]
                  /\ r_1.pc = (IF sent_1 THEN "check" ELSE "woken") /\ r_1.client = c
                  /\ r_1.call = "subscribe" /\ r_1.want = "SUBACK" /\ r_1.conn = n /\ r_1.id = id_1
                  /\ r_1.pack = None
                  /\ th' = [th EXCEPT ![t] = r_1]
                  /\ mutex' = IF sent_1 THEN None ELSE t
    BY DEF c, n
<1> USE <1>3, <1>8, <1>9
<1> WITNESS sent \in BOOLEAN, id \in Nat \ {0}, l \in ConnRec, r \in ThreadRec
<1> QED BY <1>2, <1>4, <1>6, <1>7

LEMMA SubscribeCore == ASSUME Core, NEW t \in Apps, Subscribe(t) PROVE Core'
<1> USE DEF Core
<1> DEFINE c == scenario.owner[t]
           n == client[c].conn
<1>1. PICK sent \in BOOLEAN, id \in Nat \ {0}, l \in ConnRec, r \in ThreadRec :
         /\ n \in Conns /\ Live(net[n]) /\ net[n].client = c
         /\ l.client = c /\ l.tcp = net[n].tcp /\ l.in = net[n].in
         /\ net' = [net EXCEPT ![n] = l]
         /\ r.pc = (IF sent THEN "check" ELSE "woken") /\ r.client = c
         /\ r.call = "subscribe" /\ r.want = "SUBACK" /\ r.conn = n /\ r.id = id
         /\ r.pack = None
         /\ th' = [th EXCEPT ![t] = r]
         /\ mutex' = IF sent THEN None ELSE t
    BY SubscribeFacts
<1>2. /\ t \in Threads /\ th[t].pc = "idle" /\ ~Waits(th[t]) /\ ~InCall(th[t])
      /\ c \in Clients
      /\ \A u \in Threads \ {t} : InCall(th[u]) => th[u].client # c
    BY MayCallFacts DEF Subscribe
<1>3. history' = Counted(t) /\ mutex = None /\ UNCHANGED <<scenario, client, run, running, tostop, sync>>
    BY DEF Subscribe, Free
<1> HIDE DEF c, n
<1>4. net' \in [Conns -> ConnRec] /\ SameLinks
    BY <1>1, <1>2, <1>3, CountedFacts, NetLinks DEF Live
<1>5. Types'
    <2>1. th' \in [Threads -> ThreadRec]
        BY <1>1, <1>2 DEF Types
    <2>2. mutex' \in {None, t}
        BY <1>1
    <2> QED BY <1>2, <1>3, <1>4, <2>1, <2>2, CountedFacts DEF Types
<1>6. RunFlags'
    BY <1>3 DEF RunFlags
<1>7. CallOK(r) /\ ~AtCallback(r)
    BY <1>1, <1>2 DEF CallOK, InCall, Waits, AtCallback
<1>8. mutex' = t => r.pc = "woken"
    BY <1>1, <1>2, ConstFacts
<1>9. r.pc \in {"check", "woken"} /\ mutex' \in {None, t}
    BY <1>1
<1> QED BY <1>1, <1>2, <1>3, <1>4, <1>5, <1>6, <1>7, <1>8, <1>9, MoveFrame

LEMMA DisconnectFacts ==
    ASSUME Core, NEW t \in Apps, Disconnect(t)
    PROVE  LET c == scenario.owner[t]
           IN  /\ \E r \in ThreadRec : /\ r.pc = "drain" /\ r.client = c /\ r.call = "disconnect"
                                       /\ th' = [th EXCEPT ![t] = r]
               /\ client' \in [Clients -> ClientRec]
               /\ \A d \in Clients :
                     /\ client'[d].conn = client[d].conn /\ client'[d].connected = client[d].connected
                     /\ client'[d].connect_state \in {client[d].connect_state, "DISCONNECTING"}
                     /\ client'[d].pack = client[d].pack
               /\ mutex' \in {None, t}
<1> USE DEF Core
<1> DEFINE c == scenario.owner[t]
           r == [NoCall EXCEPT !.pc = "drain", !.client = c, !.call = "disconnect"]
<1>1. c \in Clients
    BY MayCallFacts DEF Disconnect
<1>2. th' = [th EXCEPT ![t] = r] /\ r \in ThreadRec /\ r.pc = "drain" /\ r.client = c /\ r.call = "disconnect"
    BY <1>1, RecordFacts DEF Disconnect, ThreadRec, NoCall
<1>3. mutex' \in {None, t}
    BY DEF Disconnect, Free
<1>4. client' = client \/ client' = [client EXCEPT ![c] = [client[c] EXCEPT !.connect_state = "DISCONNECTING"]]
    BY DEF Disconnect
<1> DEFINE m == [client[c] EXCEPT !.connect_state = "DISCONNECTING"]
<1>5. /\ m \in ClientRec /\ m.conn = client[c].conn /\ m.connected = client[c].connected
      /\ m.connect_state = "DISCONNECTING" /\ m.pack = client[c].pack
    BY <1>1 DEF Types, ClientRec
<1> HIDE DEF r, c, m
<1>6. client' = client \/ client' = [client EXCEPT ![c] = m]
    BY <1>4 DEF m
<1>7. /\ client' \in [Clients -> ClientRec]
      /\ \A d \in Clients :
            /\ client'[d].conn = client[d].conn /\ client'[d].connected = client[d].connected
            /\ client'[d].connect_state \in {client[d].connect_state, "DISCONNECTING"}
            /\ client'[d].pack = client[d].pack
    BY <1>1, <1>5, <1>6 DEF Types
<1> QED BY <1>2, <1>3, <1>7 DEF c

LEMMA DisconnectCore == ASSUME Core, NEW t \in Apps, Disconnect(t) PROVE Core'
<1> USE DEF Core
<1> DEFINE c == scenario.owner[t]
<1>1. /\ t \in Threads /\ th[t].pc = "idle" /\ ~Waits(th[t]) /\ ~InCall(th[t])
      /\ c \in Clients
      /\ \A u \in Threads \ {t} : InCall(th[u]) => th[u].client # c
    BY MayCallFacts DEF Disconnect
<1>2. PICK r \in ThreadRec : /\ r.pc = "drain" /\ r.client = c /\ r.call = "disconnect"
                             /\ th' = [th EXCEPT ![t] = r]
    BY DisconnectFacts
<1>3. history' = Counted(t) /\ mutex = None /\ UNCHANGED <<scenario, net, run, running, tostop, sync>>
    BY DEF Disconnect, Free
<1> HIDE DEF c
<1>4. Types'
    <2>1. th' \in [Threads -> ThreadRec]
        BY <1>1, <1>2 DEF Types
    <2> QED BY <1>1, <1>3, <2>1, CountedFacts, DisconnectFacts DEF Types
<1>5. SameLinks
    BY <1>1, <1>3, CountedFacts, DisconnectFacts DEF SameLinks, Connections
<1>6. RunFlags'
    BY <1>3 DEF RunFlags
<1>7. CallOK(r) /\ ~AtCallback(r) /\ ~Waits(r)
    BY <1>1, <1>2 DEF CallOK, InCall, Waits, AtCallback
<1> QED BY <1>1, <1>2, <1>3, <1>4, <1>5, <1>6, <1>7, DisconnectFacts, MoveFrame

LEMMA LostReturnsCore == ASSUME Core, NEW t \in Threads, LostReturns(t) PROVE Core'
<1> USE DEF Core
<1>1. th[t].pc = "lost" /\ mutex = t /\ th[t].client \in Clients /\ th[t] # NoCall /\ ~Waits(th[t])
    BY DEF LostReturns, Holds, HoldOK, Calls, CallOK, NoCall, Waits
<1>2. th' = [th EXCEPT ![t] = Over(t)] /\ mutex' = None
    BY DEF LostReturns, LostEnds
<1>3. Types' /\ RunFlags' /\ SameLinks
    <2>1. sync' \in [Conns -> {"none", "waiting", "posted"}]
        BY DEF LostReturns, LostEnds, Types
    <2> QED BY <1>1, <1>2, <2>1, OverFacts, UnchangedLinks DEF LostReturns, Types, RunFlags
<1>4. mutex' # t
    BY <1>2, ConstFacts
<1> QED BY <1>1, <1>2, <1>3, <1>4, OverFacts, MoveFrame DEF LostReturns

LEMMA RunLostReturnsCore == ASSUME Core, RunLostReturns PROVE Core'
<1> USE DEF Core
<1>1. run.pc = "lost" /\ mutex = RunThread /\ mutex' = None /\ UNCHANGED th
    BY DEF RunLostReturns, LostEnds, Holds
<1>2. /\ run' \in RunRec /\ run'.pc \in {"none", "cycle"} /\ run'.rc = "ok" /\ run'.pack = None
      /\ running' <=> run'.pc = "cycle"
      /\ running' \in BOOLEAN /\ tostop' = FALSE
    <2>1. CASE tostop
        <3>1. run' = NoRun /\ running' = FALSE /\ tostop' = FALSE
            BY <2>1 DEF RunLostReturns, Exit
        <3> QED BY <3>1, RecordFacts DEF NoRun
    <2>2. CASE ~tostop
        <3>1. running = TRUE /\ running' = running /\ tostop' = tostop /\ tostop = FALSE
            BY <1>1, <2>2 DEF RunLostReturns, RunFlags, Types
        <3> QED BY <2>2, <3>1, RecordFacts DEF RunLostReturns, Again, NoRun, RunRec
    <2> QED BY <2>1, <2>2
<1>3. RunFlags'
    BY <1>2 DEF RunFlags
<1>4. Types'
    <2>1. sync' \in [Conns -> {"none", "waiting", "posted"}]
        BY DEF RunLostReturns, LostEnds, Types
    <2> QED BY <1>1, <1>2, <2>1 DEF RunLostReturns, Types
<1>5. Holds'
    BY <1>1, <1>2, ConstFacts DEF Holds, HoldOK
<1>6. SameLinks
    BY UnchangedLinks DEF RunLostReturns
<1> QED BY <1>1, <1>3, <1>4, <1>5, <1>6, StillLinks

-----------------------------------------------------------------------------
(* The end of a session                                                     *)

(* The session of client c is closed. *)
Closes(c, m) ==
    /\ client' = [client EXCEPT ![c] = Closed(m)]
    /\ net' = CloseConn(client[c].conn)

LEMMA CloseFacts ==
    ASSUME Core, NEW c \in Clients, NEW m \in ClientRec, Closes(c, m)
    PROVE  /\ client' \in [Clients -> ClientRec]
           /\ client'[c].conn = 0 /\ ~client'[c].connected
           /\ client'[c].connect_state = "NOT_IN_PROGRESS" /\ client'[c].pack = m.pack
           /\ \A d \in Clients \ {c} : client'[d] = client[d]
           /\ net' \in [Conns -> ConnRec]
           /\ \A k \in Conns : /\ net'[k].client = net[k].client
                               /\ net'[k].client = None => net'[k] = NoConn
                               /\ k # client[c].conn => net'[k] = net[k]
                               /\ k = client[c].conn => ~Live(net'[k])
                               /\ ~Live(net'[k]) => net'[k].asked = {} /\ net'[k].in = <<>>
                               /\ Live(net'[k]) => net'[k] = net[k] /\ net[k].client # c
<1> USE DEF Core
<1> DEFINE n == client[c].conn
           l == [NoConn EXCEPT !.client = net[n].client, !.tcp = "closed"]
<1>1. /\ Closed(m) \in ClientRec /\ Closed(m).conn = 0 /\ Closed(m).connected = FALSE
      /\ Closed(m).connect_state = "NOT_IN_PROGRESS" /\ Closed(m).pack = m.pack
    BY DEF Closed, ClientRec
<1>2. /\ client' \in [Clients -> ClientRec]
      /\ client'[c] = Closed(m)
      /\ \A d \in Clients \ {c} : client'[d] = client[d]
    BY <1>1 DEF Closes, Types
<1>3. n \in Conns \cup {0}
    BY DEF Types, ClientRec
<1>4. \A k \in Conns : Live(net[k]) /\ net[k].client = c => k = n
    BY DEF Connections
<1>5. CASE n = 0
    <2>1. net' = net
        BY <1>5 DEF Closes, CloseConn
    <2> QED BY <1>1, <1>2, <1>4, <1>5, <2>1, ConstFacts DEF Types, Connections
<1>6. CASE n # 0
    <2>1. n \in Conns /\ net[n].client = c /\ net' = [net EXCEPT ![n] = l]
        BY <1>3, <1>6 DEF Closes, CloseConn, Connections
    <2>2. l \in ConnRec /\ l.client = c /\ l.tcp = "closed" /\ l.asked = {} /\ l.in = <<>>
        BY <2>1, RecordFacts DEF ConnRec, NoConn
    <2>3. ~Live(l) /\ c # None
        BY <2>2, ConstFacts DEF Live
    <2> HIDE DEF l, n
    <2>4. net' \in [Conns -> ConnRec] /\ \A k \in Conns : net'[k] = IF k = n THEN l ELSE net[k]
        BY <2>1, <2>2 DEF Types
    <2>5. \A k \in Conns : /\ net'[k].client = net[k].client
                           /\ k # n => net'[k] = net[k]
                           /\ k = n => ~Live(net'[k])
                           /\ ~Live(net'[k]) => net'[k].asked = {} /\ net'[k].in = <<>>
                           /\ net'[k].client = None => net'[k] = NoConn
                           /\ Live(net'[k]) => net'[k] = net[k] /\ net[k].client # c
        BY <1>4, <2>1, <2>2, <2>3, <2>4 DEF Connections
    <2> QED BY <1>1, <1>2, <2>4, <2>5 DEF n
<1> QED BY <1>5, <1>6

LEMMA CloseConnections ==
    ASSUME Core, Calls', NEW c \in Clients, NEW m \in ClientRec, Closes(c, m),
           \A u \in Threads : th'[u].pc \in {"begin", "awaitRun"} =>
               th'[u].client = c \/ th'[u] = th[u],
           \A u \in Threads : Waits(th'[u]) /\ th'[u].call = "connect" =>
               th'[u] = th[u] /\ th[u].client # c,
           \A u \in Threads : Waits(th[u]) /\ th[u].call = "connect" /\ th[u].client # c =>
               th'[u] = th[u]
    PROVE  Connections'
<1> USE DEF Core
<1>1. \A k \in Conns : Live(net'[k]) => net'[k].client \in Clients /\ client'[net'[k].client].conn = k
    BY CloseFacts DEF Connections
<1>2. \A d \in Clients :
         /\ client'[d].conn # 0 => Live(net'[client'[d].conn]) /\ net'[client'[d].conn].client = d
         /\ client'[d].connected \/ client'[d].connect_state \in {"TCP_IN_PROGRESS", "WAIT_FOR_CONNACK"}
               => client'[d].conn # 0
    <2>1. \A d \in Clients \ {c} : client[d].conn # 0 => client[d].conn \in Conns /\ client[d].conn # client[c].conn
        BY DEF Connections, Types, ClientRec
    <2> QED BY <2>1, CloseFacts DEF Connections
<1>3. \A u \in Threads : th'[u].pc \in {"begin", "awaitRun"} => th'[u].client \in Clients
    BY DEF Calls, CallOK
<1>4. \A u \in Threads : Waits(th'[u]) => th'[u].client \in Clients
    BY DEF Calls, CallOK, Waits
<1>5. \A u \in Threads : th'[u].pc \in {"begin", "awaitRun"} =>
          ~client'[th'[u].client].connected /\ client'[th'[u].client].conn = 0
    <2> SUFFICES ASSUME NEW u \in Threads, th'[u].pc \in {"begin", "awaitRun"}
                 PROVE  ~client'[th'[u].client].connected /\ client'[th'[u].client].conn = 0
        OBVIOUS
    <2>1. CASE th'[u].client = c
        BY <2>1, CloseFacts
    <2>2. CASE th'[u].client # c
        BY <1>3, <2>2, CloseFacts DEF Connections
    <2> QED BY <2>1, <2>2
<1>6. \A u \in Threads : Waits(th'[u]) /\ th'[u].call = "connect" =>
          /\ ~client'[th'[u].client].connected
          /\ client'[th'[u].client].conn # 0
          /\ client'[th'[u].client].conn = th'[u].conn
    BY <1>4, CloseFacts DEF Connections
<1>7. \A d \in Clients : client'[d].conn # 0 /\ ~client'[d].connected =>
          \E u \in Threads : Waits(th'[u]) /\ th'[u].call = "connect" /\ th'[u].client = d
    BY CloseFacts DEF Connections
<1>8. /\ \A n \in Conns : net'[n].client = None => net'[n] = NoConn
      /\ \A n \in Conns : ~Live(net'[n]) => net'[n].asked = {} /\ net'[n].in = <<>>
    BY CloseFacts
<1> QED BY <1>1, <1>2, <1>5, <1>6, <1>7, <1>8 DEF Connections

(* No loss is reported; the loss of the connection of client c may become    *)
(* one that thread t has to report.                                          *)
LEMMA LossesKept ==
    ASSUME Core, Types', NEW c \in Clients, NEW t \in Threads,
           \A k \in Conns : net'[k].client = net[k].client,
           \A d \in Clients : \/ client'[d].conn = client[d].conn /\ client'[d].connected = client[d].connected
                              \/ client'[d].conn = 0 /\ ~client'[d].connected,
           client'[c].conn = 0,
           history'.established = history.established, history'.lost = history.lost,
           \A u \in Threads : th'[u].pc = "stopping" /\ th'[u].report # 0 =>
               \/ th[u].pc = "stopping" /\ th'[u].report = th[u].report
               \/ u = t /\ client[c].connected /\ th'[u].report = client[c].conn,
           \A u \in Threads : th'[u].pc = "lost" => th'[u].report \in Conns,
           \A n \in Conns \ LostConns : th'[n] = NoCall
    PROVE  Losses'
<1> USE DEF Core
<1>1. LostConns' = LostConns /\ LostOnce'
    BY DEF LostConns, LostOnce, Losses
<1>2. LostConns \subseteq Conns /\ 0 \notin LostConns /\ 0 \notin history.established
    BY ConstFacts DEF LostConns, Losses, LostOnce, Types, HistoryRec
<1>3. \A n \in history'.established : net'[n].client # None
    BY DEF Losses, Types, HistoryRec
<1>4. \A d \in Clients : /\ client'[d].connected <=> client'[d].conn \in history'.established
                         /\ client'[d].conn \notin LostConns
    BY <1>2 DEF Losses
<1>5. \A d, e \in Clients : client[d].conn # 0 /\ client[d].conn = client[e].conn => d = e
    BY DEF Connections, Types, ClientRec
<1>6. \A u \in Threads : th'[u].pc = "stopping" /\ th'[u].report # 0 =>
          /\ th'[u].report \in history'.established \ LostConns
          /\ \A d \in Clients : client'[d].conn # th'[u].report
    <2> SUFFICES ASSUME NEW u \in Threads, th'[u].pc = "stopping", th'[u].report # 0
                 PROVE  /\ th'[u].report \in history.established \ LostConns
                        /\ \A d \in Clients : client'[d].conn # th'[u].report
        OBVIOUS
    <2>1. CASE th[u].pc = "stopping" /\ th'[u].report = th[u].report
        BY <2>1 DEF Losses
    <2>2. CASE u = t /\ client[c].connected /\ th'[u].report = client[c].conn
        BY <1>5, <2>2 DEF Losses
    <2> QED BY <2>1, <2>2
<1>7. \A u, v \in Threads :
         /\ th'[u].pc = "stopping" /\ th'[v].pc = "stopping"
         /\ th'[u].report = th'[v].report /\ th'[u].report # 0
         => u = v
    BY DEF Losses
<1> QED BY <1>1, <1>3, <1>4, <1>6, <1>7 DEF Losses

(* The loss of connection n is reported. *)
LEMMA LossReported ==
    ASSUME Core, Types', NEW n \in Conns, n \in history.established, n \notin LostConns,
           \A k \in Conns : net'[k].client = net[k].client,
           \A d \in Clients : \/ client'[d].conn = client[d].conn /\ client'[d].connected = client[d].connected
                              \/ client'[d].conn = 0 /\ ~client'[d].connected,
           \A d \in Clients : client'[d].conn # n,
           history'.established = history.established, history'.lost = Append(history.lost, n),
           \A u \in Threads : th'[u].pc = "stopping" => th'[u] = th[u] /\ th[u].report # n,
           \A u \in Threads : th'[u].pc = "lost" => th'[u].report \in Conns,
           \A k \in Conns \ (LostConns \cup {n}) : th'[k] = NoCall
    PROVE  Losses'
<1> USE DEF Core
<1> DEFINE old == history.lost
           new == history'.lost
<1>1. old \in Seq(Conns)
    BY DEF Types, HistoryRec
<1>2. /\ DOMAIN old = 1 .. Len(old) /\ Len(old) \in Nat
      /\ DOMAIN new = 1 .. Len(old) + 1
      /\ \A i \in DOMAIN old : new[i] = old[i]
      /\ new[Len(old) + 1] = n
    BY <1>1
<1>3. DOMAIN new = DOMAIN old \cup {Len(old) + 1}
    BY <1>2
<1>4. \A i \in DOMAIN old : old[i] # n
    BY DEF LostConns
<1>5. LostConns' = LostConns \cup {n}
    BY <1>2, <1>3 DEF LostConns
<1>6. LostOnce'
    <2>1. \A i, j \in DOMAIN new : new[i] = new[j] => i = j
        BY <1>2, <1>3, <1>4 DEF Losses, LostOnce
    <2>2. \A i \in DOMAIN new : new[i] \in history.established
        BY <1>2, <1>3 DEF Losses, LostOnce
    <2> QED BY <2>1, <2>2 DEF LostOnce
<1> HIDE DEF old, new
<1>7. LostConns \subseteq Conns /\ 0 \notin LostConns /\ 0 \notin history.established
    BY ConstFacts DEF LostConns, Losses, LostOnce, Types, HistoryRec
<1>8. \A k \in history'.established : net'[k].client # None
    BY DEF Losses, Types, HistoryRec
<1>9. \A d \in Clients : /\ client'[d].connected <=> client'[d].conn \in history'.established
                         /\ client'[d].conn \notin LostConns'
    BY <1>5, <1>7, ConstFacts DEF Losses
<1>10. \A u \in Threads : th'[u].pc = "stopping" /\ th'[u].report # 0 =>
          /\ th'[u].report \in history'.established \ LostConns'
          /\ \A d \in Clients : client'[d].conn # th'[u].report
    BY <1>5 DEF Losses
<1>11. \A u, v \in Threads :
         /\ th'[u].pc = "stopping" /\ th'[v].pc = "stopping"
         /\ th'[u].report = th'[v].report /\ th'[u].report # 0
         => u = v
    BY DEF Losses
<1> QED BY <1>5, <1>6, <1>8, <1>9, <1>10, <1>11 DEF Losses

LEMMA CallLostFacts ==
    ASSUME Core, NEW who, NEW n \in Conns, net[n].client \in Clients,
           NEW threads \in [Threads -> ThreadRec], CallLost(who, n, threads, history)
    PROVE  /\ th' \in [Threads -> ThreadRec]
           /\ th'[n].pc = "callback" /\ th'[n].pack = None /\ CallOK(th'[n]) /\ ~InCall(th'[n])
           /\ \A u \in Threads \ {n} : th'[u] = threads[u]
           /\ sync' \in [Conns -> {"none", "waiting", "posted"}]
           /\ mutex' = who
           /\ history' \in HistoryRec
           /\ history'.lost = Append(history.lost, n) /\ history'.established = history.established
           /\ history'.raced = history.raced /\ history'.foreign = history.foreign
<1> USE DEF Core
<1> DEFINE r == [NoCall EXCEPT !.pc = "callback", !.client = net[n].client]
<1>1. th' = [threads EXCEPT ![n] = r] /\ n \in Threads
    BY ConstFacts DEF CallLost
<1>2. /\ r \in ThreadRec /\ r.pc = "callback" /\ r.client = net[n].client /\ r.call = "none"
      /\ r.id = 0 /\ r.pack = None
    BY RecordFacts DEF ThreadRec, NoCall
<1> HIDE DEF r
<1>3. CallOK(r) /\ ~InCall(r)
    BY <1>2 DEF CallOK, InCall, Waits
<1>4. /\ th' \in [Threads -> ThreadRec]
      /\ th'[n] = r
      /\ \A u \in Threads \ {n} : th'[u] = threads[u]
    BY <1>1, <1>2
<1>5. sync' \in [Conns -> {"none", "waiting", "posted"}] /\ mutex' = who
    BY DEF CallLost, Types
<1>6. /\ history' \in HistoryRec
      /\ history'.lost = Append(history.lost, n) /\ history'.established = history.established
      /\ history'.raced = history.raced /\ history'.foreign = history.foreign
    <2> DEFINE lost == Append(history.lost, n)
    <2>1. history \in HistoryRec /\ history' = [history EXCEPT !.lost = lost]
        BY DEF CallLost, Types
    <2>2. lost \in Seq(Conns)
        BY <2>1, AppendFacts DEF HistoryRec
    <2> HIDE DEF lost
    <2>3. history' \in HistoryRec /\ history'.lost = lost /\ history'.established = history.established
          /\ history'.raced = history.raced /\ history'.foreign = history.foreign
        BY <2>1, <2>2 DEF HistoryRec
    <2> QED BY <2>3 DEF lost
<1> QED BY <1>2, <1>3, <1>4, <1>5, <1>6

(* Thread t goes on at the end of its call, and thread n of connectionLost   *)
(* may begin.                                                                *)
LEMMA EndingFrame ==
    ASSUME Core, NEW t \in Threads, InCall(th[t]), NEW n \in Conns \cup {0},
           \A u \in Threads \ {t, n} : th'[u] = th[u],
           CallOK(th'[t]), t \in Apps => ~AtCallback(th'[t]),
           InCall(th'[t]) => th'[t].client = th[t].client,
           th'[t].pc \in {"begin", "stopping", "lost", "idle", "post"},
           n # 0 => n # t /\ th'[n].pc = "callback" /\ CallOK(th'[n]) /\ ~InCall(th'[n]),
           mutex \in {None, t}, mutex' \in {None, t},
           th'[t].pc \in {"begin", "lost"} <=> mutex' = t,
           run'.pc = "lost" <=> run.pc = "lost"
    PROVE  Calls' /\ Holds'
<1> USE DEF Core
<1>0. \A u \in Threads \ {t} : th'[u] = th[u] \/ (u = n /\ n # 0)
    BY ConstFacts DEF RunThread
<1>1. \A u \in Threads : CallOK(th'[u])
    BY <1>0 DEF Calls
<1>2. \A u \in Threads : InCall(th'[u]) => InCall(th[u]) /\ th'[u].client = th[u].client
    BY <1>0
<1>3. \A u \in Apps : ~AtCallback(th'[u])
    <2> SUFFICES ASSUME NEW u \in Apps PROVE ~AtCallback(th'[u])
        OBVIOUS
    <2>1. CASE u = t
        BY <2>1
    <2>2. CASE u # t
        BY <1>0, <2>2, ConstFacts DEF Calls
    <2> QED BY <2>1, <2>2
<1>4. Calls'
    BY <1>1, <1>2, <1>3 DEF Calls
<1>5. ASSUME NEW u \in Threads PROVE HoldOK(u)'
    <2>1. CASE u = t
        BY <2>1 DEF HoldOK
    <2>2. CASE u # t
        <3>1. mutex # u /\ mutex' # u
            BY <2>2, ConstFacts
        <3>2. th[u].pc \notin {"begin", "lost"}
            BY <3>1 DEF Holds, HoldOK
        <3>3. th'[u].pc \notin {"begin", "lost"}
            BY <1>0, <2>2, <3>2
        <3> QED BY <3>1, <3>3 DEF HoldOK
    <2> QED BY <2>1, <2>2
<1>6. run.pc # "lost" /\ mutex' # RunThread
    BY ConstFacts DEF Holds
<1>7. Holds'
    BY <1>5, <1>6 DEF Holds
<1> QED BY <1>4, <1>7

(* A connection whose end is to be reported. *)
LEMMA ReportedFacts ==
    ASSUME Core, NEW c \in Clients, NEW lost \in BOOLEAN, Reported(c, lost) # 0
    PROVE  /\ Reported(c, lost) = client[c].conn /\ client[c].connected
           /\ client[c].conn \in Conns
           /\ net[client[c].conn].client = c
           /\ client[c].conn \in history.established \ LostConns
           /\ th[client[c].conn] = NoCall
<1> USE DEF Core
<1>1. Reported(c, lost) = client[c].conn /\ client[c].connected
    BY DEF Reported
<1>2. client[c].conn \in Conns /\ net[client[c].conn].client = c
    BY <1>1 DEF Types, ClientRec, Connections
<1>3. client[c].conn \in history.established \ LostConns
    BY <1>1 DEF Losses
<1> QED BY <1>1, <1>2, <1>3 DEF Losses

LEMMA DisconnectByCore ==
    ASSUME Core, NEW t \in Threads, NEW m \in ClientRec, NEW lost \in BOOLEAN, NEW stop \in BOOLEAN,
           th[t].pc \in {"begin", "awaitRun", "woken", "drain"}, mutex \in {None, t},
           DisconnectBy(t, m, lost, stop, history)
    PROVE  Core'
<1> USE DEF Core
<1> DEFINE c == th[t].client
           n == Reported(c, lost)
           r1 == [th[t] EXCEPT !.pc = "stopping", !.report = n]
           r2 == [th[t] EXCEPT !.pc = "lost", !.report = n]
           closed == [client EXCEPT ![c] = Closed(m)]
<1>1. InCall(th[t]) /\ c \in Clients /\ CallOK(th[t]) /\ th[t] \in ThreadRec
    BY DEF Calls, CallOK, InCall, Waits, Types
<1>2. Closes(c, m)
    BY DEF DisconnectBy, Closes
<1>3. n \in Conns \cup {0}
    BY <1>1 DEF Reported, Types, ClientRec
<1>4. \A u \in Threads \ {t} : InCall(th[u]) => th[u].client # c
    BY <1>1 DEF Calls
<1>5. \A u \in Threads \ {t} : Waits(th[u]) => th[u].client # c
    BY <1>4 DEF InCall
<1>6. UNCHANGED <<scenario, run, running>>
    BY DEF DisconnectBy
<1>7. /\ r1 \in ThreadRec /\ r1.pc = "stopping" /\ r1.report = n /\ r1.client = c
      /\ r1.call = th[t].call /\ r1.id = th[t].id
      /\ r2 \in ThreadRec /\ r2.pc = "lost" /\ r2.report = n /\ r2.client = c
      /\ r2.call = th[t].call /\ r2.id = th[t].id
    BY <1>1, <1>3 DEF ThreadRec
<1>8. \/ /\ Stops(closed)
         /\ tostop' = TRUE /\ th' = [th EXCEPT ![t] = r1] /\ mutex' = None
         /\ UNCHANGED <<history, sync>>
      \/ /\ n # 0 /\ UNCHANGED tostop /\ CallLost(t, n, [th EXCEPT ![t] = r2], history)
      \/ /\ UNCHANGED <<tostop, history, sync>> /\ th' = [th EXCEPT ![t] = Over(t)] /\ mutex' = None
    BY DEF DisconnectBy
<1>9. CallOK(r1) /\ CallOK(r2) /\ ~AtCallback(r1) /\ ~AtCallback(r2)
    BY <1>1, <1>7 DEF CallOK, InCall, Waits, AtCallback
<1>10. /\ \A k \in Conns : net'[k].client = net[k].client
       /\ \A d \in Clients : \/ client'[d].conn = client[d].conn /\ client'[d].connected = client[d].connected
                             \/ client'[d].conn = 0 /\ ~client'[d].connected
       /\ client' \in [Clients -> ClientRec] /\ net' \in [Conns -> ConnRec] /\ client'[c].conn = 0
    <2> HIDE DEF c
    <2> QED BY <1>1, <1>2, CloseFacts
<1>11. n # 0 => /\ n = client[c].conn /\ client[c].connected /\ n \in Conns /\ net[n].client = c
                /\ n \in history.established \ LostConns /\ th[n] = NoCall
    BY <1>1, ReportedFacts
<1>12. t \in Conns => t \in LostConns
    <2>1. th[t] # NoCall
        BY DEF NoCall
    <2> QED BY <2>1 DEF Losses
<1> HIDE DEF c, n, r1, r2, closed
<1>13. CASE /\ Stops(closed)
            /\ tostop' = TRUE /\ th' = [th EXCEPT ![t] = r1] /\ mutex' = None
            /\ UNCHANGED <<history, sync>>
    <2>1. th' \in [Threads -> ThreadRec] /\ th'[t] = r1 /\ \A u \in Threads \ {t} : th'[u] = th[u]
        BY <1>7, <1>13 DEF Types
    <2>2. Types'
        BY <1>6, <1>10, <1>13, <2>1 DEF Types
    <2>3. RunFlags'
        BY <1>6, <1>13 DEF RunFlags, Stops
    <2>4. mutex' # t
        BY <1>13, ConstFacts
    <2>5. Calls' /\ Holds'
        <3>1. 0 \in Conns \cup {0}
            OBVIOUS
        <3> QED BY <1>1, <1>6, <1>7, <1>9, <1>13, <2>1, <2>4, <3>1, EndingFrame DEF c
    <2>6. Connections'
        <3>1. ~Waits(th'[t]) /\ th'[t].pc \notin {"begin", "awaitRun"}
            BY <1>7, <2>1 DEF Waits
        <3>2. Waits(th[t]) => th[t].client = c
            BY DEF c
        <3> QED BY <1>1, <1>2, <1>5, <2>1, <2>5, <3>1, <3>2, CloseConnections
    <2>7. Losses'
        <3>1. \A u \in Threads : th'[u].pc = "stopping" /\ th'[u].report # 0 =>
                 \/ th[u].pc = "stopping" /\ th'[u].report = th[u].report
                 \/ u = t /\ client[c].connected /\ th'[u].report = client[c].conn
            BY <1>7, <1>11, <2>1
        <3>2. \A u \in Threads : th'[u].pc = "lost" => th'[u].report \in Conns
            BY <1>7, <2>1 DEF Losses
        <3>3. \A k \in Conns \ LostConns : th'[k] = NoCall
            BY <1>12, <2>1, ConstFacts DEF Losses
        <3> QED BY <1>1, <1>10, <1>13, <2>2, <3>1, <3>2, <3>3, LossesKept
    <2> QED BY <2>2, <2>3, <2>5, <2>6, <2>7
<1>14. CASE n # 0 /\ UNCHANGED tostop /\ CallLost(t, n, [th EXCEPT ![t] = r2], history)
    <2> DEFINE threads == [th EXCEPT ![t] = r2]
    <2>1. threads \in [Threads -> ThreadRec] /\ threads[t] = r2 /\ \A u \in Threads \ {t} : threads[u] = th[u]
        BY <1>7 DEF Types
    <2>2. n \in Conns /\ net[n].client \in Clients /\ n # t
        BY <1>1, <1>11, <1>12, <1>14
    <2> HIDE DEF threads
    <2>3. /\ th' \in [Threads -> ThreadRec]
          /\ th'[n].pc = "callback" /\ CallOK(th'[n]) /\ ~InCall(th'[n])
          /\ \A u \in Threads \ {n} : th'[u] = threads[u]
          /\ sync' \in [Conns -> {"none", "waiting", "posted"}]
          /\ mutex' = t
          /\ history' \in HistoryRec
          /\ history'.lost = Append(history.lost, n) /\ history'.established = history.established
        BY <1>14, <2>1, <2>2, CallLostFacts DEF threads
    <2>4. th'[t] = r2 /\ \A u \in Threads \ {t, n} : th'[u] = th[u]
        BY <2>1, <2>2, <2>3
    <2>5. Types' /\ RunFlags'
        BY <1>6, <1>10, <1>14, <2>3 DEF Types, RunFlags
    <2>6. Calls' /\ Holds'
        BY <1>1, <1>3, <1>6, <1>7, <1>9, <2>2, <2>3, <2>4, EndingFrame DEF c
    <2>7. Connections'
        <3>1. ~Waits(th'[t]) /\ th'[t].pc \notin {"begin", "awaitRun"}
            BY <1>7, <2>4 DEF Waits
        <3>2. Waits(th[t]) => th[t].client = c
            BY DEF c
        <3>3. ~Waits(th'[n]) /\ th'[n].pc \notin {"begin", "awaitRun"} /\ ~Waits(th[n])
            BY <1>11, <1>14, <2>3 DEF Waits, NoCall
        <3> QED BY <1>1, <1>2, <1>5, <2>4, <2>6, <3>1, <3>2, <3>3, CloseConnections
    <2>8. Losses'
        <3>1. \A u \in Threads : th'[u].pc = "stopping" => th'[u] = th[u] /\ th[u].report # n
            <4>1. \A u \in Threads : th[u].pc = "stopping" => th[u].report # n
                BY <1>1, <1>11, <1>14 DEF Losses
            <4> QED BY <1>7, <2>3, <2>4, <4>1
        <3>2. \A u \in Threads : th'[u].pc = "lost" => th'[u].report \in Conns
            BY <1>7, <2>2, <2>3, <2>4 DEF Losses
        <3>3. \A k \in Conns \ (LostConns \cup {n}) : th'[k] = NoCall
            BY <1>12, <2>4, ConstFacts DEF Losses
        <3>4. \A d \in Clients : client'[d].conn # n
            <4>1. client'[c].conn # n
                BY <1>10, <1>14
            <4>2. \A d \in Clients \ {c} : client[d].conn # n
                BY <1>11, <1>14 DEF Connections
            <4> QED BY <1>1, <1>2, <4>1, <4>2, CloseFacts
        <3> QED BY <1>10, <1>11, <1>14, <2>2, <2>3, <2>5, <3>1, <3>2, <3>3, <3>4, LossReported
    <2> QED BY <2>5, <2>6, <2>7, <2>8
<1>15. CASE UNCHANGED <<tostop, history, sync>> /\ th' = [th EXCEPT ![t] = Over(t)] /\ mutex' = None
    <2>0. th[t].client \in Clients
        BY <1>1 DEF c
    <2>1. th' \in [Threads -> ThreadRec] /\ th'[t] = Over(t) /\ \A u \in Threads \ {t} : th'[u] = th[u]
        BY <1>15, <2>0, OverFacts DEF Types
    <2>2. Types' /\ RunFlags'
        BY <1>6, <1>10, <1>15, <2>1 DEF Types, RunFlags
    <2>4. mutex' # t
        BY <1>15, ConstFacts
    <2>5. Calls' /\ Holds'
        <3>1. 0 \in Conns \cup {0}
            OBVIOUS
        <3> QED BY <1>1, <1>6, <1>15, <2>0, <2>1, <2>4, <3>1, OverFacts, EndingFrame
    <2>6. Connections'
        <3>1. ~Waits(th'[t]) /\ th'[t].pc \notin {"begin", "awaitRun"}
            BY <2>0, <2>1, OverFacts
        <3>2. Waits(th[t]) => th[t].client = c
            BY DEF c
        <3> QED BY <1>1, <1>2, <1>5, <2>1, <2>5, <3>1, <3>2, CloseConnections
    <2>7. Losses'
        <3>1. \A u \in Threads : th'[u].pc = "stopping" /\ th'[u].report # 0 =>
                 \/ th[u].pc = "stopping" /\ th'[u].report = th[u].report
                 \/ u = t /\ client[c].connected /\ th'[u].report = client[c].conn
            BY <2>0, <2>1, OverFacts
        <3>2. \A u \in Threads : th'[u].pc = "lost" => th'[u].report \in Conns
            BY <2>0, <2>1, OverFacts DEF Losses
        <3>3. \A k \in Conns \ LostConns : th'[k] = NoCall
            BY <1>12, <2>1, ConstFacts DEF Losses
        <3> QED BY <1>1, <1>10, <1>15, <2>2, <3>1, <3>2, <3>3, LossesKept
    <2> QED BY <2>2, <2>5, <2>6, <2>7
<1> QED BY <1>8, <1>13, <1>14, <1>15

LEMMA StoppedCore == ASSUME Core, NEW t \in Threads, Stopped(t) PROVE Core'
<1> USE DEF Core
<1> DEFINE n == th[t].report
           r == [th[t] EXCEPT !.pc = "lost"]
<1>1. /\ th[t].pc = "stopping" /\ InCall(th[t]) /\ th[t].client \in Clients /\ CallOK(th[t])
      /\ th[t] \in ThreadRec /\ mutex = None /\ ~Waits(th[t]) /\ th[t] # NoCall
    BY DEF Stopped, Free, Calls, CallOK, InCall, Waits, Types, NoCall
<1>2. UNCHANGED <<scenario, client, net, run, running, tostop>>
    BY DEF Stopped
<1>3. CASE n = 0
    <2>1. th' = [th EXCEPT ![t] = Over(t)] /\ UNCHANGED <<mutex, sync, history>>
        BY <1>3 DEF Stopped
    <2>2. Types' /\ RunFlags' /\ SameLinks
        BY <1>1, <1>2, <2>1, OverFacts, UnchangedLinks DEF Types, RunFlags
    <2>3. mutex' # t
        BY <1>1, <2>1, ConstFacts
    <2> QED BY <1>1, <1>2, <2>1, <2>2, <2>3, OverFacts, MoveFrame
<1>4. CASE n # 0
    <2>1. /\ r \in ThreadRec /\ r.pc = "lost" /\ r.report = n /\ r.client = th[t].client
          /\ r.call = th[t].call /\ r.id = th[t].id
        BY <1>1 DEF ThreadRec
    <2>2. CallOK(r) /\ ~AtCallback(r)
        BY <1>1, <2>1 DEF CallOK, InCall, Waits, AtCallback
    <2>3. /\ n \in Conns /\ n \in history.established /\ n \notin LostConns /\ th[n] = NoCall /\ n # t
          /\ \A d \in Clients : client[d].conn # n
          /\ \A u \in Threads \ {t} : th[u].pc = "stopping" => th[u].report # n
        BY <1>1, <1>4 DEF Losses, Types, HistoryRec
    <2>4. net[n].client \in Clients
        BY <2>3 DEF Losses, Types, ConnRec
    <2> DEFINE threads == [th EXCEPT ![t] = r]
    <2>5. threads \in [Threads -> ThreadRec] /\ threads[t] = r /\ \A u \in Threads \ {t} : threads[u] = th[u]
        BY <2>1 DEF Types
    <2>6. CallLost(t, n, threads, history)
        BY <1>4 DEF Stopped
    <2> HIDE DEF threads, n, r
    <2>7. /\ th' \in [Threads -> ThreadRec]
          /\ th'[n].pc = "callback" /\ CallOK(th'[n]) /\ ~InCall(th'[n])
          /\ \A u \in Threads \ {n} : th'[u] = threads[u]
          /\ sync' \in [Conns -> {"none", "waiting", "posted"}]
          /\ mutex' = t
          /\ history' \in HistoryRec
          /\ history'.lost = Append(history.lost, n) /\ history'.established = history.established
        BY <2>3, <2>4, <2>5, <2>6, CallLostFacts
    <2>8. th'[t] = r /\ \A u \in Threads \ {t, n} : th'[u] = th[u]
        BY <2>3, <2>5, <2>7
    <2>9. Types' /\ RunFlags'
        BY <1>2, <2>7 DEF Types, RunFlags
    <2>10. Calls' /\ Holds'
        <3>1. n \in Conns \cup {0}
            BY <2>3
        <3> QED BY <1>1, <1>2, <2>1, <2>2, <2>3, <2>7, <2>8, <3>1, EndingFrame
    <2>11. Connections'
        <3>1. /\ ~Waits(th'[t]) /\ th'[t].pc \notin {"begin", "awaitRun"}
              /\ ~Waits(th'[n]) /\ th'[n].pc \notin {"begin", "awaitRun"} /\ ~Waits(th[n])
            BY <2>1, <2>3, <2>7, <2>8 DEF Waits, NoCall
        <3> QED BY <1>1, <1>2, <2>8, <3>1 DEF Connections
    <2>12. Losses'
        <3>1. \A u \in Threads : th'[u].pc = "stopping" => th'[u] = th[u] /\ th[u].report # n
            BY <2>1, <2>3, <2>7, <2>8
        <3>2. \A u \in Threads : th'[u].pc = "lost" => th'[u].report \in Conns
            BY <2>1, <2>3, <2>7, <2>8 DEF Losses
        <3>3. \A k \in Conns \ (LostConns \cup {n}) : th'[k] = NoCall
            BY <1>1, <2>8, ConstFacts DEF Losses
        <3> QED BY <1>2, <2>3, <2>7, <2>9, <3>1, <3>2, <3>3, LossReported
    <2> QED BY <2>9, <2>10, <2>11, <2>12
<1> QED BY <1>3, <1>4

LEMMA RunDisconnectsCore ==
    ASSUME Core, NEW c \in Clients, client[c].connected, run.pc = "handle", mutex = None,
           RunDisconnects(c), UNCHANGED scenario
    PROVE  Core'
<1> USE DEF Core
<1> DEFINE n == Reported(c, TRUE)
<1>1. client[c].conn # 0 /\ n = client[c].conn
    BY DEF Reported, Connections
<1>2. /\ n \in Conns /\ net[n].client = c
      /\ n \in history.established /\ n \notin LostConns /\ th[n] = NoCall
    BY <1>1, ReportedFacts
<1>3. /\ CallLost(RunThread, n, th, history) /\ Closes(c, client[c])
      /\ client[c] \in ClientRec /\ th \in [Threads -> ThreadRec] /\ UNCHANGED running
    BY DEF RunDisconnects, Closes, Types
<1>4. run' \in RunRec /\ run'.pc = "lost" /\ run'.rc = run.rc /\ run'.pack = run.pack /\ run'.sock = run.sock
    BY DEF RunDisconnects, Types, RunRec
<1>5. tostop' \in BOOLEAN /\ running
    BY DEF RunDisconnects, Stops, Types, RunFlags
<1> HIDE DEF n
<1>6. /\ th' \in [Threads -> ThreadRec]
      /\ th'[n].pc = "callback" /\ CallOK(th'[n]) /\ ~InCall(th'[n])
      /\ \A u \in Threads \ {n} : th'[u] = th[u]
      /\ sync' \in [Conns -> {"none", "waiting", "posted"}]
      /\ mutex' = RunThread
      /\ history' \in HistoryRec
      /\ history'.lost = Append(history.lost, n) /\ history'.established = history.established
    <2>1. /\ net[n].client \in Clients /\ n \in Conns
          /\ th \in [Threads -> ThreadRec] /\ CallLost(RunThread, n, th, history)
        BY <1>2, <1>3
    <2> HIDE DEF Core
    <2>2. th' \in [Threads -> ThreadRec]
        BY <2>1, CallLostFacts
    <2>3. th'[n].pc = "callback" /\ CallOK(th'[n]) /\ ~InCall(th'[n])
        BY <2>1, CallLostFacts
    <2>4. \A u \in Threads \ {n} : th'[u] = th[u]
        BY <2>1, CallLostFacts
    <2>5. /\ sync' \in [Conns -> {"none", "waiting", "posted"}]
          /\ mutex' = RunThread
          /\ history' \in HistoryRec
        BY <2>1, CallLostFacts
    <2>6. history'.lost = Append(history.lost, n) /\ history'.established = history.established
        BY <2>1, CallLostFacts
    <2> QED BY <2>2, <2>3, <2>4, <2>5, <2>6
<1>7. /\ \A k \in Conns : net'[k].client = net[k].client
      /\ \A d \in Clients : \/ client'[d].conn = client[d].conn /\ client'[d].connected = client[d].connected
                            \/ client'[d].conn = 0 /\ ~client'[d].connected
      /\ client' \in [Clients -> ClientRec] /\ net' \in [Conns -> ConnRec] /\ client'[c].conn = 0
      /\ \A d \in Clients \ {c} : client'[d] = client[d]
    BY <1>3, CloseFacts
<1>8. Types' /\ RunFlags'
    BY <1>3, <1>4, <1>5, <1>6, <1>7 DEF Types, RunFlags
<1>9. n \in Threads /\ n \notin Apps
    BY <1>2, ConstFacts
<1>10. Calls'
    BY <1>6, <1>9, CallsFrame DEF Moves
<1>11. Holds'
    <2>1. ASSUME NEW u \in Threads PROVE HoldOK(u)'
        <3>1. mutex # u /\ mutex' # u
            BY <1>6, ConstFacts
        <3>2. th'[u].pc \notin {"begin", "lost"}
            BY <1>6, <3>1 DEF Holds, HoldOK
        <3> QED BY <3>1, <3>2 DEF HoldOK
    <2> QED BY <1>4, <1>6, <2>1 DEF Holds
<1>12. Connections'
    <2>1. ~Waits(th'[n]) /\ th'[n].pc \notin {"begin", "awaitRun"} /\ ~Waits(th[n])
        BY <1>2, <1>6 DEF Waits, NoCall
    <2>2. \A u \in Threads : Waits(th[u]) /\ th[u].call = "connect" => th[u].client # c
        BY DEF Connections
    <2> QED BY <1>3, <1>6, <1>10, <2>1, <2>2, CloseConnections
<1>13. Losses'
    <2>1. \A u \in Threads : th'[u].pc = "stopping" => th'[u] = th[u] /\ th[u].report # n
        <3>1. \A u \in Threads : th[u].pc = "stopping" => th[u].report # n
            BY <1>1, <1>2, ConstFacts DEF Losses
        <3> QED BY <1>6, <3>1
    <2>2. \A u \in Threads : th'[u].pc = "lost" => th'[u].report \in Conns
        BY <1>6 DEF Losses
    <2>3. \A k \in Conns \ (LostConns \cup {n}) : th'[k] = NoCall
        BY <1>6, ConstFacts DEF Losses
    <2>4. \A d \in Clients : client'[d].conn # n
        <3>1. \A d \in Clients \ {c} : client[d].conn # n
            BY <1>2, ConstFacts DEF Connections
        <3> QED BY <1>2, <1>7, <3>1, ConstFacts
    <2> QED BY <1>2, <1>6, <1>7, <1>8, <2>1, <2>2, <2>3, <2>4, LossReported
<1> QED BY <1>8, <1>10, <1>11, <1>12, <1>13

(* An attempt to connect fails, and another one is made or none. *)
LEMMA FailCore ==
    ASSUME Core, NEW t \in Threads, NEW m \in ClientRec, m.conn = client[th[t].client].conn,
           th[t].pc \in {"begin", "awaitRun", "woken"}, th[t].call = "connect", mutex \in {None, t},
           Fail(t, m)
    PROVE  Core'
<1> USE DEF Core
<1>1. CASE ~(scenario.version = 0 /\ th[t].version = 4)
    <2> DEFINE stop == th[t].version = 3
    <2>1. DisconnectBy(t, m, FALSE, stop, history) /\ stop \in BOOLEAN
        BY <1>1 DEF Fail
    <2> HIDE DEF stop
    <2> QED BY <2>1, DisconnectByCore
<1>2. CASE scenario.version = 0 /\ th[t].version = 4
    <2> DEFINE c == th[t].client
               r == [th[t] EXCEPT !.pc = "begin", !.version = 3]
    <2>1. InCall(th[t]) /\ c \in Clients /\ CallOK(th[t]) /\ th[t] \in ThreadRec
        BY DEF Calls, CallOK, InCall, Waits, Types
    <2>2. Closes(c, m) /\ th' = [th EXCEPT ![t] = r] /\ mutex' = t
        BY <1>2 DEF Fail, Closes
    <2>3. UNCHANGED <<scenario, run, running, tostop, sync, history>>
        BY <1>2 DEF Fail
    <2>4. r \in ThreadRec /\ r.pc = "begin" /\ r.client = c /\ r.call = th[t].call /\ r.id = th[t].id
        <3>1. 3 \in 0 .. 5
            OBVIOUS
        <3> DEFINE v == 3
        <3> HIDE DEF v
        <3>2. v \in 0 .. 5 /\ r = [th[t] EXCEPT !.pc = "begin", !.version = v]
            BY <3>1 DEF v
        <3> HIDE DEF r
        <3> QED BY <2>1, <3>2 DEF ThreadRec
    <2>5. Waits(th[t]) => th[t].client = c
        OBVIOUS
    <2>6. \A u \in Threads \ {t} : InCall(th[u]) => th[u].client # c
        BY <2>1 DEF Calls
    <2> HIDE DEF r
    <2>7. CallOK(r) /\ ~AtCallback(r) /\ ~Waits(r)
        BY <2>1, <2>4 DEF CallOK, InCall, Waits, AtCallback
    <2>8. th' \in [Threads -> ThreadRec] /\ th'[t] = r /\ \A u \in Threads \ {t} : th'[u] = th[u]
        BY <2>2, <2>4 DEF Types
    <2>9. Types' /\ RunFlags'
        BY <2>1, <2>2, <2>3, <2>8, CloseFacts DEF Types, RunFlags
    <2>10. Calls' /\ Holds'
        <3>1. 0 \in Conns \cup {0}
            OBVIOUS
        <3> QED BY <2>1, <2>2, <2>3, <2>4, <2>7, <2>8, <3>1, EndingFrame
    <2> HIDE DEF c
    <2>11. Connections'
        <3>1. \A u \in Threads \ {t} : Waits(th[u]) => th[u].client # c
            BY <2>6 DEF InCall
        <3> QED BY <2>1, <2>2, <2>4, <2>5, <2>7, <2>8, <2>10, <3>1, CloseConnections
    <2>12. Losses'
        <3>1. \A u \in Threads : th'[u].pc = "stopping" /\ th'[u].report # 0 =>
                 \/ th[u].pc = "stopping" /\ th'[u].report = th[u].report
                 \/ u = t /\ client[c].connected /\ th'[u].report = client[c].conn
            BY <2>4, <2>8
        <3>2. \A u \in Threads : th'[u].pc = "lost" => th'[u].report \in Conns
            BY <2>4, <2>8 DEF Losses
        <3>3. th[t] # NoCall
            BY DEF NoCall
        <3>4. \A k \in Conns \ LostConns : th'[k] = NoCall
            BY <2>8, <3>3, ConstFacts DEF Losses
        <3>5. /\ \A k \in Conns : net'[k].client = net[k].client
              /\ \A d \in Clients : \/ client'[d].conn = client[d].conn /\ client'[d].connected = client[d].connected
                                    \/ client'[d].conn = 0 /\ ~client'[d].connected
              /\ client'[c].conn = 0
            BY <2>1, <2>2, CloseFacts
        <3> QED BY <2>1, <2>3, <2>9, <3>1, <3>2, <3>4, <3>5, LossesKept
    <2> QED BY <2>9, <2>10, <2>11, <2>12
<1> QED BY <1>1, <1>2

LEMMA NoRunThreadCore == ASSUME Core, NEW t \in Threads, NoRunThread(t) PROVE Core'
<1>1. th[t].pc = "awaitRun" /\ mutex = None /\ Fail(t, client[th[t].client])
    BY DEF NoRunThread, Free
<1>2. th[t].call = "connect" /\ th[t].client \in Clients
    BY <1>1 DEF Core, Calls, CallOK
<1>3. client[th[t].client] \in ClientRec
    BY <1>2 DEF Core, Types
<1> QED BY <1>1, <1>2, <1>3, FailCore

LEMMA DrainedCore == ASSUME Core, NEW t \in Threads, Drained(t) PROVE Core'
<1>1. /\ th[t].pc = "drain" /\ mutex \in {None, t}
      /\ DisconnectBy(t, client[th[t].client], FALSE, TRUE, history)
    BY DEF Drained
<1>2. client[th[t].client] \in ClientRec
    BY <1>1 DEF Core, Calls, CallOK, Types
<1> QED BY <1>1, <1>2, DisconnectByCore

-----------------------------------------------------------------------------
(* Connections are made                                                     *)

LEMMA DialledFacts ==
    ASSUME Core, NEW t \in Threads, NEW n \in Conns, NEW tcp \in {"connecting", "up"},
           th[t].client \in Clients, Dialled(t, n, tcp)
    PROVE  LET c == th[t].client
               up == tcp = "up"
           IN  /\ client' \in [Clients -> ClientRec]
               /\ client'[c].conn = n /\ client'[c].connected = client[c].connected
               /\ client'[c].pack = client[c].pack
               /\ client'[c].connect_state = (IF up THEN "WAIT_FOR_CONNACK" ELSE "TCP_IN_PROGRESS")
               /\ \A d \in Clients \ {c} : client'[d] = client[d]
               /\ net' \in [Conns -> ConnRec]
               /\ net'[n].client = c /\ net'[n].tcp = tcp
               /\ net'[n].asked = (IF up THEN {0} ELSE {}) /\ net'[n].in = <<>>
               /\ \A k \in Conns \ {n} : net'[k] = net[k]
               /\ th' \in [Threads -> ThreadRec]
               /\ th'[t].pc = "check" /\ th'[t].want = (IF up THEN "CONNACK" ELSE "CONNECT")
               /\ th'[t].conn = n /\ th'[t].client = c
               /\ th'[t].call = th[t].call /\ th'[t].id = th[t].id
               /\ \A u \in Threads \ {t} : th'[u] = th[u]
               /\ mutex' = None
               /\ UNCHANGED <<scenario, run, running, tostop, sync, history>>
<1> USE DEF Core
<1> DEFINE c == th[t].client
           up == tcp = "up"
           m == [client[c] EXCEPT !.conn = n, !.connect_state =
                    IF up THEN "WAIT_FOR_CONNACK" ELSE "TCP_IN_PROGRESS"]
           pending == ~up
           asked == IF up THEN {0} ELSE {}
           l == [NoConn EXCEPT !.client = c, !.tcp = tcp, !.pending = pending, !.asked = asked]
           r == [th[t] EXCEPT !.pc = "check", !.want = IF up THEN "CONNACK" ELSE "CONNECT", !.conn = n]
<1>1. c \in Clients /\ client[c] \in ClientRec /\ th[t] \in ThreadRec
    BY DEF Types
<1>2. /\ client' = [client EXCEPT ![c] = m] /\ net' = [net EXCEPT ![n] = l]
      /\ th' = [th EXCEPT ![t] = r]
    BY DEF Dialled
<1>3. mutex' = None /\ UNCHANGED <<scenario, run, running, tostop, sync, history>>
    BY DEF Dialled
<1> HIDE DEF c
<1>4. /\ m \in ClientRec /\ m.conn = n /\ m.connected = client[c].connected /\ m.pack = client[c].pack
      /\ m.connect_state = (IF up THEN "WAIT_FOR_CONNACK" ELSE "TCP_IN_PROGRESS")
    BY <1>1 DEF ClientRec
<1>5. /\ l \in ConnRec /\ l.client = c /\ l.tcp = tcp /\ l.asked = (IF up THEN {0} ELSE {})
      /\ l.in = <<>>
    <2>1. pending \in BOOLEAN /\ asked \in SUBSET Nat
        OBVIOUS
    <2> HIDE DEF pending, asked
    <2>2. l \in ConnRec /\ l.client = c /\ l.tcp = tcp /\ l.asked = asked /\ l.in = <<>>
        BY <1>1, <2>1, RecordFacts DEF ConnRec, NoConn
    <2> QED BY <2>2 DEF asked
<1>6. /\ r \in ThreadRec /\ r.pc = "check" /\ r.want = (IF up THEN "CONNACK" ELSE "CONNECT")
      /\ r.conn = n /\ r.client = c /\ r.call = th[t].call /\ r.id = th[t].id
    BY <1>1 DEF ThreadRec, c
<1> HIDE DEF m, l, r
<1>7. client' \in [Clients -> ClientRec] /\ client'[c] = m /\ \A d \in Clients \ {c} : client'[d] = client[d]
    BY <1>1, <1>2, <1>4 DEF Types
<1>8. net' \in [Conns -> ConnRec] /\ net'[n] = l /\ \A k \in Conns \ {n} : net'[k] = net[k]
    BY <1>2, <1>5 DEF Types
<1>9. th' \in [Threads -> ThreadRec] /\ th'[t] = r /\ \A u \in Threads \ {t} : th'[u] = th[u]
    BY <1>2, <1>6 DEF Types
<1> QED BY <1>3, <1>4, <1>5, <1>6, <1>7, <1>8, <1>9 DEF c

LEMMA DialledCore ==
    ASSUME Core, NEW t \in Threads, NEW n \in Fresh, NEW tcp \in {"connecting", "up"},
           th[t].pc \in {"begin", "awaitRun"}, mutex \in {None, t}, Dialled(t, n, tcp)
    PROVE  Core'
<1> USE DEF Core
<1> DEFINE c == th[t].client
<1>1. /\ n \in Conns /\ net[n] = NoConn /\ net[n].client = None /\ ~Live(net[n])
    BY DEF Fresh, NoConn, Live
<1>2. /\ InCall(th[t]) /\ c \in Clients /\ CallOK(th[t]) /\ th[t].call = "connect" /\ th[t].id = 0
      /\ ~client[c].connected /\ client[c].conn = 0
    BY DEF Calls, CallOK, InCall, Connections
<1>3. \A u \in Threads \ {t} : InCall(th[u]) => th[u].client # c
    BY <1>2 DEF Calls
<1>4. /\ client' \in [Clients -> ClientRec]
      /\ client'[c].conn = n /\ ~client'[c].connected
      /\ \A d \in Clients \ {c} : client'[d] = client[d]
      /\ net' \in [Conns -> ConnRec]
      /\ net'[n].client = c /\ net'[n].tcp = tcp
      /\ \A k \in Conns \ {n} : net'[k] = net[k]
      /\ th' \in [Threads -> ThreadRec]
      /\ th'[t].pc = "check" /\ th'[t].want \in {"CONNACK", "CONNECT"}
      /\ th'[t].conn = n /\ th'[t].client = c
      /\ th'[t].call = "connect" /\ th'[t].id = 0
      /\ \A u \in Threads \ {t} : th'[u] = th[u]
      /\ mutex' = None
      /\ UNCHANGED <<scenario, run, running, tostop, sync, history>>
    BY <1>1, <1>2, DialledFacts
<1> HIDE DEF c
<1>5. Live(net'[n]) /\ c # None
    BY <1>2, <1>4, ConstFacts DEF Live
<1>6. Waits(th'[t]) /\ InCall(th'[t]) /\ CallOK(th'[t]) /\ ~AtCallback(th'[t])
    BY <1>2, <1>4 DEF Waits, InCall, CallOK, AtCallback
<1>7. Types' /\ RunFlags'
    BY <1>4 DEF Types, RunFlags
<1>8. Calls'
    BY <1>2, <1>4, <1>6, CallsFrame DEF Moves, c
<1>9. Holds'
    <2>1. mutex' # t
        BY <1>4, ConstFacts
    <2>2. HoldOK(t)'
        BY <1>4, <2>1 DEF HoldOK
    <2> QED BY <1>4, <2>2, HoldsFrame DEF Moves
<1>10. \A d \in Clients : client[d].conn # n
    BY <1>1, ConstFacts DEF Connections, Types, ClientRec
<1>11. Connections'
    <2>1. /\ \A k \in Conns : net'[k].client = None => net'[k] = NoConn
          /\ \A k \in Conns : ~Live(net'[k]) => net'[k].asked = {} /\ net'[k].in = <<>>
        BY <1>4, <1>5 DEF Connections
    <2>2. \A k \in Conns : Live(net'[k]) => net'[k].client \in Clients /\ client'[net'[k].client].conn = k
        <3> SUFFICES ASSUME NEW k \in Conns, Live(net'[k])
                     PROVE  net'[k].client \in Clients /\ client'[net'[k].client].conn = k
            OBVIOUS
        <3>1. CASE k = n
            BY <1>2, <1>4, <3>1
        <3>2. CASE k # n
            <4>1. net'[k] = net[k] /\ net[k].client \in Clients /\ client[net[k].client].conn = k
                BY <1>4, <3>2 DEF Connections
            <4>2. net[k].client # c
                BY <1>2, <4>1, ConstFacts
            <4> QED BY <1>4, <4>1, <4>2
        <3> QED BY <3>1, <3>2
    <2>3. \A d \in Clients :
             /\ client'[d].conn # 0 => Live(net'[client'[d].conn]) /\ net'[client'[d].conn].client = d
             /\ client'[d].connected \/ client'[d].connect_state \in {"TCP_IN_PROGRESS", "WAIT_FOR_CONNACK"}
                   => client'[d].conn # 0
        <3> SUFFICES ASSUME NEW d \in Clients
                     PROVE  /\ client'[d].conn # 0 => Live(net'[client'[d].conn]) /\ net'[client'[d].conn].client = d
                            /\ client'[d].connected \/ client'[d].connect_state \in {"TCP_IN_PROGRESS", "WAIT_FOR_CONNACK"}
                                  => client'[d].conn # 0
            OBVIOUS
        <3>1. CASE d = c
            BY <1>1, <1>4, <1>5, <3>1, ConstFacts
        <3>2. CASE d # c
            <4>1. client[d].conn \in Conns \cup {0}
                BY DEF Types, ClientRec
            <4> QED BY <1>4, <1>10, <3>2, <4>1 DEF Connections
        <3> QED BY <3>1, <3>2
    <2>4. \A u \in Threads : th'[u].pc \in {"begin", "awaitRun"} =>
             ~client'[th'[u].client].connected /\ client'[th'[u].client].conn = 0
        <3> SUFFICES ASSUME NEW u \in Threads, th'[u].pc \in {"begin", "awaitRun"}
                     PROVE  ~client'[th'[u].client].connected /\ client'[th'[u].client].conn = 0
            OBVIOUS
        <3>1. u # t /\ th'[u] = th[u] /\ InCall(th[u])
            BY <1>4 DEF InCall
        <3>2. th[u].client \in Clients \ {c}
            BY <1>3, <1>4, <3>1 DEF Calls, CallOK
        <3> QED BY <1>4, <3>1, <3>2 DEF Connections
    <2>5. \A u \in Threads : Waits(th'[u]) /\ th'[u].call = "connect" =>
             /\ ~client'[th'[u].client].connected
             /\ client'[th'[u].client].conn # 0
             /\ client'[th'[u].client].conn = th'[u].conn
        <3> SUFFICES ASSUME NEW u \in Threads, Waits(th'[u]), th'[u].call = "connect"
                     PROVE  /\ ~client'[th'[u].client].connected
                            /\ client'[th'[u].client].conn # 0
                            /\ client'[th'[u].client].conn = th'[u].conn
            OBVIOUS
        <3>1. CASE u = t
            BY <1>1, <1>4, <3>1, ConstFacts
        <3>2. CASE u # t
            <4>1. th'[u] = th[u] /\ InCall(th[u])
                BY <1>4, <3>2 DEF InCall
            <4>2. th[u].client \in Clients \ {c}
                BY <1>3, <3>2, <4>1 DEF Calls, CallOK, Waits
            <4> QED BY <1>4, <4>1, <4>2 DEF Connections
        <3> QED BY <3>1, <3>2
    <2>6. \A d \in Clients : client'[d].conn # 0 /\ ~client'[d].connected =>
             \E u \in Threads : Waits(th'[u]) /\ th'[u].call = "connect" /\ th'[u].client = d
        <3> SUFFICES ASSUME NEW d \in Clients, client'[d].conn # 0, ~client'[d].connected
                     PROVE  \E u \in Threads : Waits(th'[u]) /\ th'[u].call = "connect" /\ th'[u].client = d
            OBVIOUS
        <3>1. CASE d = c
            BY <1>4, <1>6, <3>1
        <3>2. CASE d # c
            <4>1. PICK u \in Threads : Waits(th[u]) /\ th[u].call = "connect" /\ th[u].client = d
                BY <1>4, <3>2 DEF Connections
            <4>2. u # t
                BY <3>2, <4>1 DEF c
            <4> QED BY <1>4, <4>1, <4>2
        <3> QED BY <3>1, <3>2
    <2> QED BY <2>1, <2>2, <2>3, <2>4, <2>5, <2>6 DEF Connections
<1>12. Losses'
    <2>1. LostConns' = LostConns /\ LostOnce'
        BY <1>4 DEF LostConns, LostOnce, Losses
    <2>2. n \notin history.established /\ n \notin LostConns
        BY <1>1 DEF Losses, LostOnce, LostConns
    <2>3. \A k \in history'.established : net'[k].client # None
        BY <1>4, <2>2 DEF Losses, Types, HistoryRec
    <2>4. \A d \in Clients : /\ client'[d].connected <=> client'[d].conn \in history'.established
                             /\ client'[d].conn \notin LostConns
        BY <1>4, <2>2 DEF Losses
    <2>5. \A u \in Threads : th'[u].pc = "stopping" => u # t /\ th'[u] = th[u]
        BY <1>4
    <2>6. \A u \in Threads : th'[u].pc = "stopping" /\ th'[u].report # 0 =>
             /\ th'[u].report \in history'.established \ LostConns
             /\ \A d \in Clients : client'[d].conn # th'[u].report
        BY <1>4, <2>2, <2>5 DEF Losses
    <2>7. \A u, v \in Threads :
             /\ th'[u].pc = "stopping" /\ th'[v].pc = "stopping"
             /\ th'[u].report = th'[v].report /\ th'[u].report # 0
             => u = v
        BY <2>5 DEF Losses
    <2>8. \A u \in Threads : th'[u].pc = "lost" => th'[u].report \in Conns
        BY <1>4 DEF Losses
    <2>9. \A k \in Conns \ LostConns : th'[k] = NoCall
        <3>1. th[t] # NoCall
            BY DEF NoCall
        <3> QED BY <1>4, <3>1, ConstFacts DEF Losses
    <2> QED BY <2>1, <2>3, <2>4, <2>6, <2>7, <2>8, <2>9 DEF Losses
<1> QED BY <1>7, <1>8, <1>9, <1>11, <1>12

LEMMA DialCore == ASSUME Core, NEW t \in Threads, Dial(t) PROVE Core'
<1>1. /\ th[t].pc \in {"begin", "awaitRun"}
      /\ \/ Fail(t, client[th[t].client])
         \/ \E n \in Fresh : Dialled(t, n, "connecting") \/ Dialled(t, n, "up")
    BY DEF Dial
<1>2. mutex \in {None, t}
    BY DEF Dial, Free, Core, Holds, HoldOK
<1>3. th[t].call = "connect" /\ th[t].client \in Clients
    BY <1>1 DEF Core, Calls, CallOK
<1>4. client[th[t].client] \in ClientRec
    BY <1>3 DEF Core, Types
<1>5. CASE Fail(t, client[th[t].client])
    BY <1>1, <1>2, <1>3, <1>4, <1>5, FailCore
<1>6. CASE \E n \in Fresh : Dialled(t, n, "connecting") \/ Dialled(t, n, "up")
    BY <1>1, <1>2, <1>6, DialledCore
<1> QED BY <1>1, <1>5, <1>6

LEMMA TcpCompleteFacts ==
    ASSUME Core, NEW t \in Threads, th[t].pc = "woken", th[t].want = "CONNECT", TcpComplete(t)
    PROVE  LET c == th[t].client
               n == client[c].conn
           IN  /\ c \in Clients /\ n \in Conns /\ n = th[t].conn /\ Live(net[n]) /\ net[n].client = c
               /\ client' \in [Clients -> ClientRec]
               /\ \A d \in Clients : /\ client'[d].conn = client[d].conn
                                     /\ client'[d].connected = client[d].connected
                                     /\ client'[d].pack = client[d].pack
                                     /\ d # c => client'[d] = client[d]
               /\ net' \in [Conns -> ConnRec]
               /\ net'[n].client = c /\ net'[n].tcp = net[n].tcp
               /\ net'[n].asked = net[n].asked \cup {0} /\ net'[n].in = net[n].in
               /\ \A k \in Conns \ {n} : net'[k] = net[k]
               /\ th' \in [Threads -> ThreadRec]
               /\ th'[t].pc = "check" /\ th'[t].want = "CONNACK"
               /\ th'[t].conn = n /\ th'[t].client = c
               /\ th'[t].call = th[t].call /\ th'[t].id = th[t].id
               /\ \A u \in Threads \ {t} : th'[u] = th[u]
               /\ UNCHANGED <<scenario, run, running, tostop, mutex, sync, history>>
<1> USE DEF Core
<1> DEFINE c == th[t].client
           n == client[c].conn
           m == [client[c] EXCEPT !.connect_state = "WAIT_FOR_CONNACK"]
           l == [net[n] EXCEPT !.asked = net[n].asked \cup {0}]
           r == [th[t] EXCEPT !.pc = "check", !.want = "CONNACK"]
<1>1. Waits(th[t]) /\ c \in Clients /\ th[t].call = "connect" /\ th[t] \in ThreadRec
    BY DEF Waits, Calls, CallOK, Types
<1>2. client[c] \in ClientRec
    BY <1>1 DEF Types
<1>3. n \in Conns /\ n = th[t].conn
    BY <1>1, <1>2 DEF Connections, ClientRec
<1>4. Live(net[n]) /\ net[n].client = c /\ net[n] \in ConnRec
    BY <1>1, <1>3, ConstFacts DEF Connections, Types
<1>5. /\ client' = [client EXCEPT ![c] = m] /\ net' = [net EXCEPT ![n] = l]
      /\ th' = [th EXCEPT ![t] = r]
    BY DEF TcpComplete
<1>6. UNCHANGED <<scenario, run, running, tostop, mutex, sync, history>>
    BY DEF TcpComplete
<1> HIDE DEF n
<1>7. m \in ClientRec /\ m.conn = client[c].conn /\ m.connected = client[c].connected /\ m.pack = client[c].pack
    BY <1>2 DEF ClientRec
<1>8. /\ l \in ConnRec /\ l.client = net[n].client /\ l.tcp = net[n].tcp
      /\ l.asked = net[n].asked \cup {0} /\ l.in = net[n].in
    BY <1>4 DEF ConnRec
<1>9. /\ r \in ThreadRec /\ r.pc = "check" /\ r.want = "CONNACK"
      /\ r.conn = th[t].conn /\ r.client = c /\ r.call = th[t].call /\ r.id = th[t].id
    BY <1>1 DEF ThreadRec
<1> HIDE DEF c, m, l, r
<1>10. client' \in [Clients -> ClientRec] /\ client'[c] = m /\ \A d \in Clients \ {c} : client'[d] = client[d]
    BY <1>1, <1>5, <1>7 DEF Types
<1>11. net' \in [Conns -> ConnRec] /\ net'[n] = l /\ \A k \in Conns \ {n} : net'[k] = net[k]
    BY <1>3, <1>5, <1>8 DEF Types
<1>12. th' \in [Threads -> ThreadRec] /\ th'[t] = r /\ \A u \in Threads \ {t} : th'[u] = th[u]
    BY <1>5, <1>9 DEF Types
<1>13. \A d \in Clients : /\ client'[d].conn = client[d].conn
                          /\ client'[d].connected = client[d].connected
                          /\ client'[d].pack = client[d].pack
                          /\ d # c => client'[d] = client[d]
    BY <1>7, <1>10
<1> QED BY <1>1, <1>3, <1>4, <1>6, <1>8, <1>9, <1>10, <1>11, <1>12, <1>13 DEF c, n

LEMMA TcpCompleteCore ==
    ASSUME Core, NEW t \in Threads, th[t].pc = "woken", th[t].want = "CONNECT", TcpComplete(t)
    PROVE  Core'
<1> USE DEF Core
<1> DEFINE c == th[t].client
           n == client[c].conn
<1>1. /\ c \in Clients /\ n \in Conns /\ n = th[t].conn /\ Live(net[n]) /\ net[n].client = c
      /\ client' \in [Clients -> ClientRec]
      /\ \A d \in Clients : /\ client'[d].conn = client[d].conn
                            /\ client'[d].connected = client[d].connected
                            /\ client'[d].pack = client[d].pack
                            /\ d # c => client'[d] = client[d]
      /\ net' \in [Conns -> ConnRec]
      /\ net'[n].client = c /\ net'[n].tcp = net[n].tcp
      /\ \A k \in Conns \ {n} : net'[k] = net[k]
      /\ th' \in [Threads -> ThreadRec]
      /\ th'[t].pc = "check" /\ th'[t].want = "CONNACK"
      /\ th'[t].conn = n /\ th'[t].client = c
      /\ th'[t].call = th[t].call /\ th'[t].id = th[t].id
      /\ \A u \in Threads \ {t} : th'[u] = th[u]
      /\ UNCHANGED <<scenario, run, running, tostop, mutex, sync, history>>
    BY TcpCompleteFacts
<1> HIDE DEF n
<1>2. Types'
    BY <1>1 DEF Types
<1>3. SameLinks
    <2>1. \A k \in Conns : net'[k].client = net[k].client /\ (Live(net'[k]) <=> Live(net[k]))
        BY <1>1 DEF Live
    <2>2. \A k \in Conns : ~Live(net[k]) => net'[k] = net[k]
        BY <1>1
    <2>3. client[c].conn # 0
        BY <1>1, ConstFacts DEF n
    <2>4. \A d \in Clients : client'[d].connect_state \in {"TCP_IN_PROGRESS", "WAIT_FOR_CONNACK"} => client[d].conn # 0
        BY <1>1, <2>3 DEF Connections
    <2> HIDE DEF c
    <2> QED BY <1>1, <2>1, <2>2, <2>4 DEF SameLinks
<1>4. Waits(th[t]) /\ Waits(th'[t]) /\ mutex # t
    BY <1>1 DEF Waits, Holds, HoldOK
<1> QED BY <1>1, <1>2, <1>3, <1>4, WaitFrame DEF Moves

(* A call is given its answer and returns. *)
LEMMA ReturnsFacts ==
    ASSUME Core, NEW t \in Threads, th[t].pc = "woken", th[t].pack # None,
           NEW m \in ClientRec, NEW past \in HistoryRec, Returns(t, m, past)
    PROVE  /\ th[t].client \in Clients /\ Waits(th[t]) /\ mutex # t
           /\ client' \in [Clients -> ClientRec] /\ client'[th[t].client] = m
           /\ \A d \in Clients \ {th[t].client} : client'[d] = client[d]
           /\ th' = [th EXCEPT ![t] = Over(t)] /\ th'[t] = Over(t)
           /\ \A u \in Threads \ {t} : th'[u] = th[u]
           /\ history' = past
           /\ Types' /\ RunFlags'
           /\ UNCHANGED <<scenario, net, run, running, tostop, mutex, sync>>
<1> USE DEF Core
<1>1. Waits(th[t]) /\ th[t].client \in Clients /\ mutex # t
    BY DEF Waits, Calls, CallOK, Holds, HoldOK
<1>2. /\ client' = [client EXCEPT ![th[t].client] = m] /\ th' = [th EXCEPT ![t] = Over(t)]
      /\ history' = past
      /\ UNCHANGED <<scenario, net, run, running, tostop, mutex, sync>>
    BY DEF Returns
<1>3. client' \in [Clients -> ClientRec] /\ client'[th[t].client] = m
      /\ \A d \in Clients \ {th[t].client} : client'[d] = client[d]
    BY <1>1, <1>2 DEF Types
<1>4. th' \in [Threads -> ThreadRec] /\ th'[t] = Over(t) /\ \A u \in Threads \ {t} : th'[u] = th[u]
    BY <1>1, <1>2, OverFacts DEF Types
<1>5. Types' /\ RunFlags'
    BY <1>2, <1>3, <1>4 DEF Types, RunFlags
<1> QED BY <1>1, <1>2, <1>3, <1>4, <1>5

LEMMA ReturnsSubackCore ==
    ASSUME Core, NEW t \in Threads, th[t].pc = "woken", th[t].want = "SUBACK", th[t].pack # None,
           NEW m \in ClientRec, m.conn = client[th[t].client].conn,
           m.connected = client[th[t].client].connected,
           m.connect_state = client[th[t].client].connect_state,
           NEW past \in HistoryRec, past.lost = history.lost, past.established = history.established,
           Returns(t, m, past)
    PROVE  Core'
<1> USE DEF Core
<1>1. Waits(th[t]) /\ th[t].call = "subscribe"
    BY DEF Waits, Calls, CallOK
<1>2. SameLinks
    BY ReturnsFacts DEF SameLinks, Connections
<1>3. th[t] # NoCall
    BY DEF NoCall
<1> QED BY <1>1, <1>2, <1>3, ReturnsFacts, OverFacts, MoveFrame

LEMMA ReturnsConnackCore ==
    ASSUME Core, NEW t \in Threads, th[t].pc = "woken", th[t].want = "CONNACK", th[t].pack # None,
           NEW m \in ClientRec, m.conn = client[th[t].client].conn, m.connected = TRUE,
           m.connect_state = "NOT_IN_PROGRESS",
           NEW past \in HistoryRec, past.lost = history.lost,
           past.established = history.established \cup {m.conn},
           Returns(t, m, past)
    PROVE  Core'
<1> USE DEF Core
<1> DEFINE c == th[t].client
           n == m.conn
<1>1. /\ c \in Clients /\ Waits(th[t]) /\ mutex # t
      /\ client' \in [Clients -> ClientRec] /\ client'[c] = m
      /\ \A d \in Clients \ {c} : client'[d] = client[d]
      /\ th'[t] = Over(t) /\ \A u \in Threads \ {t} : th'[u] = th[u]
      /\ history' = past
      /\ Types' /\ RunFlags'
      /\ UNCHANGED <<scenario, net, run, running, tostop, mutex, sync>>
    BY ReturnsFacts
<1>2. th[t].call = "connect" /\ InCall(th[t])
    BY <1>1 DEF Calls, CallOK, InCall
<1>3. ~client[c].connected /\ client[c].conn = n /\ n \in Conns
    BY <1>1, <1>2 DEF Connections, ClientRec
<1>4. /\ CallOK(th'[t]) /\ th'[t].pc \in {"idle", "post"} /\ ~InCall(th'[t]) /\ ~Waits(th'[t])
      /\ (t \in Apps => ~AtCallback(th'[t]))
    BY <1>1, OverFacts
<1>5. \A u \in Threads \ {t} : InCall(th[u]) => th[u].client # c
    BY <1>1, <1>2 DEF Calls
<1> HIDE DEF c, n
<1>6. Calls'
    BY <1>1, <1>4, CallsFrame DEF Moves
<1>7. Holds'
    <2>1. HoldOK(t)'
        BY <1>1, <1>4 DEF HoldOK
    <2> QED BY <1>1, <2>1, HoldsFrame DEF Moves
<1>8. Connections'
    <2>1. \A d \in Clients : client'[d].conn = client[d].conn
        BY <1>1, <1>3 DEF n, c
    <2>2. \A d \in Clients : client'[d].connect_state \in {"TCP_IN_PROGRESS", "WAIT_FOR_CONNACK"} \/ client'[d].connected
             => client'[d].conn # 0
        BY <1>1, <1>3, <2>1, ConstFacts DEF Connections
    <2>3. \A u \in Threads : th'[u].pc \in {"begin", "awaitRun"} =>
             ~client'[th'[u].client].connected /\ client'[th'[u].client].conn = 0
        <3> SUFFICES ASSUME NEW u \in Threads, th'[u].pc \in {"begin", "awaitRun"}
                     PROVE  ~client'[th'[u].client].connected /\ client'[th'[u].client].conn = 0
            OBVIOUS
        <3>1. u # t /\ th'[u] = th[u] /\ InCall(th[u])
            BY <1>1, <1>4 DEF InCall
        <3>2. th[u].client \in Clients \ {c}
            BY <1>5, <3>1 DEF Calls, CallOK
        <3> QED BY <1>1, <3>1, <3>2 DEF Connections
    <2>4. \A u \in Threads : Waits(th'[u]) /\ th'[u].call = "connect" =>
             /\ ~client'[th'[u].client].connected
             /\ client'[th'[u].client].conn # 0
             /\ client'[th'[u].client].conn = th'[u].conn
        <3> SUFFICES ASSUME NEW u \in Threads, Waits(th'[u]), th'[u].call = "connect"
                     PROVE  /\ ~client'[th'[u].client].connected
                            /\ client'[th'[u].client].conn # 0
                            /\ client'[th'[u].client].conn = th'[u].conn
            OBVIOUS
        <3>1. u # t /\ th'[u] = th[u] /\ InCall(th[u])
            BY <1>1, <1>4 DEF InCall
        <3>2. th[u].client \in Clients \ {c}
            BY <1>5, <3>1 DEF Calls, CallOK, Waits
        <3> QED BY <1>1, <3>1, <3>2 DEF Connections
    <2>5. \A d \in Clients : client'[d].conn # 0 /\ ~client'[d].connected =>
             \E u \in Threads : Waits(th'[u]) /\ th'[u].call = "connect" /\ th'[u].client = d
        <3> SUFFICES ASSUME NEW d \in Clients, client'[d].conn # 0, ~client'[d].connected
                     PROVE  \E u \in Threads : Waits(th'[u]) /\ th'[u].call = "connect" /\ th'[u].client = d
            OBVIOUS
        <3>1. d # c
            BY <1>1
        <3>2. PICK u \in Threads : Waits(th[u]) /\ th[u].call = "connect" /\ th[u].client = d
            BY <1>1, <3>1 DEF Connections
        <3>3. u # t
            BY <3>1, <3>2 DEF c
        <3> QED BY <1>1, <3>2, <3>3
    <2> QED BY <1>1, <2>1, <2>2, <2>3, <2>4, <2>5 DEF Connections
<1>9. Losses'
    <2>1. LostConns' = LostConns
        BY <1>1 DEF LostConns
    <2>2. LostOnce'
        BY <1>1 DEF LostOnce, Losses
    <2>3. history'.established = history.established \cup {n}
        BY <1>1 DEF n
    <2>4. net[n].client # None
        BY <1>1, <1>3, ConstFacts DEF Connections
    <2>5. \A k \in history'.established : net'[k].client # None
        BY <1>1, <2>3, <2>4 DEF Losses
    <2>6. \A d \in Clients \ {c} : client[d].conn # n
        BY <1>1, <1>3, ConstFacts DEF Connections
    <2>7. \A d \in Clients : client'[d].connected <=> client'[d].conn \in history'.established
        <3>1. client'[c].connected /\ client'[c].conn = n
            BY <1>1 DEF n
        <3> QED BY <1>1, <2>3, <2>6, <3>1 DEF Losses
    <2>8. \A d \in Clients : client'[d].conn = client[d].conn /\ client'[d].conn \notin LostConns
        BY <1>1, <1>3 DEF Losses, n
    <2>9. \A u \in Threads : th'[u].pc = "stopping" => th'[u] = th[u]
        BY <1>1, <1>4
    <2>10. \A u \in Threads : th'[u].pc = "stopping" /\ th'[u].report # 0 =>
             /\ th'[u].report \in history'.established \ LostConns
             /\ \A d \in Clients : client'[d].conn # th'[u].report
        BY <2>3, <2>8, <2>9 DEF Losses
    <2>11. \A u, v \in Threads :
             /\ th'[u].pc = "stopping" /\ th'[v].pc = "stopping"
             /\ th'[u].report = th'[v].report /\ th'[u].report # 0
             => u = v
        BY <2>9 DEF Losses
    <2>12. \A u \in Threads : th'[u].pc = "lost" => th'[u].report \in Conns
        BY <1>1, <1>4 DEF Losses
    <2>13. \A k \in Conns \ LostConns : th'[k] = NoCall
        <3>1. th[t] # NoCall
            BY DEF NoCall
        <3> QED BY <1>1, <3>1, ConstFacts DEF Losses
    <2> QED BY <2>1, <2>2, <2>5, <2>7, <2>8, <2>10, <2>11, <2>12, <2>13 DEF Losses
<1> QED BY <1>1, <1>6, <1>7, <1>8, <1>9

(* A call that has waited goes on in one of these ways. *)
LEMMA WokenCases ==
    ASSUME Core, NEW t \in Threads, Woken(t)
    PROVE  LET w == th[t]
               m == client[w.client]
               used == Consumed(m)
               made == [used EXCEPT !.connected = TRUE, !.connect_state = "NOT_IN_PROGRESS"]
               seen == [history EXCEPT !.foreign = @ \/ Foreign(t, w.pack)]
               done == [history EXCEPT !.established = @ \cup {m.conn},
                                       !.foreign = @ \/ Foreign(t, w.pack)]
           IN  /\ w.pc = "woken" /\ mutex \in {None, t} /\ w.client \in Clients /\ Waits(w)
               /\ m \in ClientRec
               /\ used \in ClientRec /\ used.conn = m.conn /\ used.connected = m.connected
               /\ used.connect_state = m.connect_state /\ used.pack = None
               /\ made \in ClientRec /\ made.conn = m.conn /\ made.connected = TRUE
               /\ made.connect_state = "NOT_IN_PROGRESS" /\ made.pack = None
               /\ \/ w.want = "CONNECT" /\ w.call = "connect" /\ (TcpComplete(t) \/ Fail(t, m))
                  \/ /\ w.want = "CONNACK" /\ w.call = "connect"
                     /\ \/ w.pack = None /\ Fail(t, m)
                        \/ w.pack # None /\ Returns(t, made, done)
                        \/ w.pack # None /\ Fail(t, used)
                  \/ /\ w.want = "SUBACK" /\ w.call = "subscribe"
                     /\ \/ w.pack = None /\ DisconnectBy(t, m, TRUE, TRUE, history)
                        \/ w.pack # None /\ Returns(t, used, seen)
<1> USE DEF Core
<1> DEFINE w == th[t]
           m == client[w.client]
           used == Consumed(m)
           made == [used EXCEPT !.connected = TRUE, !.connect_state = "NOT_IN_PROGRESS"]
<1>1. w.pc = "woken" /\ mutex \in {None, t}
    BY DEF Woken
<1>2. w.client \in Clients /\ Waits(w)
    BY <1>1 DEF Waits, Calls, CallOK
<1>3. m \in ClientRec
    BY <1>2 DEF Types
<1>4. /\ used \in ClientRec /\ used.conn = m.conn /\ used.connected = m.connected
      /\ used.connect_state = m.connect_state /\ used.pack = None
    BY <1>3, ConstFacts DEF Consumed, ClientRec
<1>5. /\ made \in ClientRec /\ made.conn = m.conn /\ made.connected = TRUE
      /\ made.connect_state = "NOT_IN_PROGRESS" /\ made.pack = None
    <2> HIDE DEF used
    <2> QED BY <1>4 DEF ClientRec
<1>6. /\ w.want \in {"CONNECT", "CONNACK"} => w.call = "connect"
      /\ w.want = "SUBACK" => w.call = "subscribe"
    BY <1>2 DEF Calls, CallOK
<1> QED BY <1>1, <1>2, <1>3, <1>4, <1>5, <1>6 DEF Woken

LEMMA ForeignFacts ==
    ASSUME Core, NEW foreign \in BOOLEAN, NEW n \in Conns
    PROVE  LET seen == [history EXCEPT !.foreign = foreign]
               done == [history EXCEPT !.established = history.established \cup {n}, !.foreign = foreign]
           IN  /\ seen \in HistoryRec /\ seen.lost = history.lost /\ seen.established = history.established
               /\ seen.foreign = foreign /\ seen.raced = history.raced
               /\ done \in HistoryRec /\ done.lost = history.lost
               /\ done.established = history.established \cup {n}
               /\ done.foreign = foreign /\ done.raced = history.raced
<1>1. history \in HistoryRec
    BY DEF Core, Types
<1> QED BY <1>1 DEF HistoryRec

LEMMA WokenCore == ASSUME Core, NEW t \in Threads, Woken(t) PROVE Core'
<1> DEFINE w == th[t]
           m == client[w.client]
           used == Consumed(m)
           made == [used EXCEPT !.connected = TRUE, !.connect_state = "NOT_IN_PROGRESS"]
           foreign == history.foreign \/ Foreign(t, w.pack)
           seen == [history EXCEPT !.foreign = foreign]
           done == [history EXCEPT !.established = history.established \cup {m.conn}, !.foreign = foreign]
<1>1. /\ w.pc = "woken" /\ mutex \in {None, t} /\ w.client \in Clients /\ Waits(w)
      /\ m \in ClientRec
      /\ used \in ClientRec /\ used.conn = m.conn /\ used.connected = m.connected
      /\ used.connect_state = m.connect_state /\ used.pack = None
      /\ made \in ClientRec /\ made.conn = m.conn /\ made.connected = TRUE
      /\ made.connect_state = "NOT_IN_PROGRESS" /\ made.pack = None
    BY WokenCases
<1>2. \/ w.want = "CONNECT" /\ w.call = "connect" /\ (TcpComplete(t) \/ Fail(t, m))
      \/ /\ w.want = "CONNACK" /\ w.call = "connect"
         /\ \/ w.pack = None /\ Fail(t, m)
            \/ w.pack # None /\ Returns(t, made, done)
            \/ w.pack # None /\ Fail(t, used)
      \/ /\ w.want = "SUBACK" /\ w.call = "subscribe"
         /\ \/ w.pack = None /\ DisconnectBy(t, m, TRUE, TRUE, history)
            \/ w.pack # None /\ Returns(t, used, seen)
    BY WokenCases
<1>3. foreign \in BOOLEAN
    BY DEF Core, Types, HistoryRec
<1>4. w.call = "connect" => m.conn \in Conns
    BY <1>1 DEF Core, Connections, ClientRec
<1>5. PICK k \in Conns : w.call = "connect" => k = m.conn
    BY <1>4, SyncAssumption DEF Conns
<1>6. seen \in HistoryRec /\ seen.lost = history.lost /\ seen.established = history.established
    BY <1>3, <1>5, ForeignFacts
<1>7. w.call = "connect" => /\ done \in HistoryRec /\ done.lost = history.lost
                            /\ done.established = history.established \cup {m.conn}
    BY <1>3, <1>5, ForeignFacts
<1> HIDE DEF used, made, foreign, seen, done
<1>8. CASE w.call = "connect" /\ Fail(t, m)
    BY <1>1, <1>8, FailCore
<1>9. CASE w.call = "connect" /\ Fail(t, used)
    BY <1>1, <1>9, FailCore
<1>10. CASE w.want = "CONNECT" /\ TcpComplete(t)
    BY <1>1, <1>10, TcpCompleteCore
<1>11. CASE w.want = "CONNACK" /\ w.call = "connect" /\ w.pack # None /\ Returns(t, made, done)
    BY <1>1, <1>7, <1>11, ReturnsConnackCore
<1>12. CASE w.want = "SUBACK" /\ w.pack = None /\ DisconnectBy(t, m, TRUE, TRUE, history)
    BY <1>1, <1>12, DisconnectByCore
<1>13. CASE w.want = "SUBACK" /\ w.pack # None /\ Returns(t, used, seen)
    BY <1>1, <1>6, <1>13, ReturnsSubackCore
<1> QED BY <1>2, <1>8, <1>9, <1>10, <1>11, <1>12, <1>13

(* What the background thread does with what it has read. *)
LEMMA HandleCases ==
    ASSUME Core, Handle
    PROVE  /\ run.pc = "handle" /\ mutex = None /\ ~tostop /\ UNCHANGED scenario
           /\ \/ RunIgnores /\ \A c \in Clients : client[c].conn # run.sock
              \/ RunIgnores /\ run.pack = None
              \/ \E c \in Clients :
                   /\ client[c].conn = run.sock
                   /\ \/ RunDisconnects(c) /\ client[c].connected /\ run.pack = None
                      \/ \E m \in ClientRec, past \in HistoryRec :
                            /\ RunPosts(c, m, past)
                            /\ m.conn = client[c].conn /\ m.connected = client[c].connected
                            /\ m.connect_state \in {client[c].connect_state, "NOT_IN_PROGRESS"}
                            /\ past.lost = history.lost /\ past.established = history.established
                            /\ past.foreign = history.foreign
                            /\ m.pack = IF run.pack = None THEN client[c].pack ELSE run.pack
                            /\ past.raced = IF run.pack = None THEN history.raced
                                            ELSE history.raced \/ TooLate(c, run.pack)
<1> USE DEF Core
<1>1. run.pc = "handle" /\ mutex = None /\ ~tostop /\ UNCHANGED scenario
    BY DEF Handle, Free
<1>2. CASE (\A c \in Clients : client[c].conn # run.sock) /\ RunIgnores
    BY <1>1, <1>2
<1>3. ASSUME NEW c \in Clients, client[c].conn = run.sock,
             LET m == client[c]
                 tcp == net[run.sock].tcp
             IN  CASE run.rc = "error" /\ m.connected -> RunDisconnects(c)
                   [] run.rc = "error" /\ ~m.connected /\ m.connect_state = "WAIT_FOR_CONNACK" ->
                        RunPosts(c, Post([m EXCEPT !.connect_state = "NOT_IN_PROGRESS"],
                                         "connack_sem"), history)
                   [] run.pack # None ->
                        RunPosts(c, Post([m EXCEPT !.pack = run.pack], SemOf(run.pack.type)),
                                 [history EXCEPT !.raced = @ \/ TooLate(c, run.pack)])
                   [] run.rc = "ok" /\ run.pack = None /\ m.connect_state = "TCP_IN_PROGRESS" ->
                        RunPosts(c, Post([m EXCEPT !.connect_state = "NOT_IN_PROGRESS",
                                                   !.rc = IF tcp = "broken" THEN "error" ELSE "ok"],
                                         "connect_sem"), history)
                   [] OTHER -> RunIgnores
      PROVE  \/ RunIgnores /\ run.pack = None
             \/ RunDisconnects(c) /\ client[c].connected /\ run.pack = None
             \/ \E m \in ClientRec, past \in HistoryRec :
                   /\ RunPosts(c, m, past)
                   /\ m.conn = client[c].conn /\ m.connected = client[c].connected
                   /\ m.connect_state \in {client[c].connect_state, "NOT_IN_PROGRESS"}
                   /\ past.lost = history.lost /\ past.established = history.established
                   /\ past.foreign = history.foreign
                   /\ m.pack = IF run.pack = None THEN client[c].pack ELSE run.pack
                   /\ past.raced = IF run.pack = None THEN history.raced
                                   ELSE history.raced \/ TooLate(c, run.pack)
    <2> DEFINE m == client[c]
               rc == IF net[run.sock].tcp = "broken" THEN "error" ELSE "ok"
               m1 == Post([m EXCEPT !.connect_state = "NOT_IN_PROGRESS"], "connack_sem")
               m2 == Post([m EXCEPT !.pack = run.pack], SemOf(run.pack.type))
               m3 == Post([m EXCEPT !.connect_state = "NOT_IN_PROGRESS", !.rc = rc], "connect_sem")
               late == history.raced \/ TooLate(c, run.pack)
               past == [history EXCEPT !.raced = late]
    <2>1. m \in ClientRec /\ history \in HistoryRec /\ run.pack \in Packs /\ rc \in Results
        BY DEF Types, RunRec, Results
    <2>2. run.rc = "error" => run.pack = None
        BY DEF RunFlags
    <2>3. CASE run.rc = "error" /\ m.connected
        BY <1>3, <2>2, <2>3
    <2>4. CASE run.rc = "error" /\ ~m.connected /\ m.connect_state = "WAIT_FOR_CONNACK"
        <3>1. RunPosts(c, m1, history) /\ run.pack = None
            BY <1>3, <2>2, <2>4
        <3>2. /\ m1 \in ClientRec /\ m1.conn = m.conn /\ m1.connected = m.connected
              /\ m1.connect_state = "NOT_IN_PROGRESS" /\ m1.pack = m.pack
            BY <2>1 DEF Post, ClientRec
        <3> QED BY <2>1, <3>1, <3>2
    <2>5. CASE run.pack # None
        <3>1. RunPosts(c, m2, past)
            BY <1>3, <2>2, <2>5
        <3>2. run.pack.type \in {"CONNACK", "SUBACK"}
            BY <2>1, <2>5 DEF Packs, Packets
        <3>3. SemOf(run.pack.type) \in {"connack_sem", "suback_sem"}
            BY <3>2 DEF SemOf
        <3>4. /\ m2 \in ClientRec /\ m2.conn = m.conn /\ m2.connected = m.connected
              /\ m2.connect_state = m.connect_state /\ m2.pack = run.pack
            BY <2>1, <3>3 DEF Post, ClientRec
        <3>5. late \in BOOLEAN
            BY <2>1 DEF HistoryRec
        <3> HIDE DEF late
        <3>6. /\ past \in HistoryRec /\ past.raced = late
              /\ past.lost = history.lost /\ past.established = history.established
              /\ past.foreign = history.foreign
            BY <2>1, <3>5 DEF HistoryRec
        <3> HIDE DEF m2, past
        <3> QED BY <2>5, <3>1, <3>4, <3>6 DEF late
    <2>6. CASE run.rc = "ok" /\ run.pack = None /\ m.connect_state = "TCP_IN_PROGRESS"
        <3>1. RunPosts(c, m3, history)
            BY <1>3, <2>6
        <3> HIDE DEF rc
        <3>2. /\ m3 \in ClientRec /\ m3.conn = m.conn /\ m3.connected = m.connected
              /\ m3.connect_state = "NOT_IN_PROGRESS" /\ m3.pack = m.pack
            BY <2>1 DEF Post, ClientRec
        <3> QED BY <2>1, <2>6, <3>1, <3>2
    <2>7. CASE /\ ~(run.rc = "error" /\ m.connected)
               /\ ~(run.rc = "error" /\ ~m.connected /\ m.connect_state = "WAIT_FOR_CONNACK")
               /\ ~(run.pack # None)
               /\ ~(run.rc = "ok" /\ run.pack = None /\ m.connect_state = "TCP_IN_PROGRESS")
        BY <1>3, <2>7
    <2> QED BY <2>3, <2>4, <2>5, <2>6, <2>7
<1> QED BY <1>1, <1>2, <1>3 DEF Handle

LEMMA HandleCore == ASSUME Core, Handle PROVE Core'
<1>1. CASE RunIgnores
    BY <1>1, HandleCases, RunIgnoresCore
<1>2. ASSUME NEW c \in Clients, RunDisconnects(c), client[c].connected
      PROVE  Core'
    BY <1>2, HandleCases, RunDisconnectsCore
<1>3. ASSUME NEW c \in Clients, NEW m \in ClientRec, NEW past \in HistoryRec, RunPosts(c, m, past),
             m.conn = client[c].conn, m.connected = client[c].connected,
             m.connect_state \in {client[c].connect_state, "NOT_IN_PROGRESS"},
             past.lost = history.lost, past.established = history.established
      PROVE  Core'
    BY <1>3, HandleCases, RunPostsCore
<1> QED BY <1>1, <1>2, <1>3, HandleCases

-----------------------------------------------------------------------------
(* The steps together                                                       *)

LEMMA ThreadStepCore == ASSUME Core, NEW t \in Threads, ThreadStep(t) PROVE Core'
BY ConnectCore, StartRunCore, DialCore, NoRunThreadCore, CheckCore, SemTakenCore, SemTimeoutCore,
   CycleHereCore, CycleTimeoutCore, WokenCore, DrainedCore, StoppedCore, LostReturnsCore
   DEF ThreadStep

LEMMA RunStepCore == ASSUME Core, RunStep PROVE Core'
BY RunStartCore, CycleCore, RunStopsCore, HandleCore, RunLostReturnsCore DEF RunStep

LEMMA StutterCore == ASSUME Core, UNCHANGED vars PROVE Core'
<1>1. Types' /\ RunFlags'
    BY DEF Core, Types, RunFlags, vars
<1> QED BY <1>1, UnchangedLinks, StillFrame DEF vars

LEMMA NextCore == ASSUME Core, [Next]_vars PROVE Core'
<1>1. DOMAIN th = Threads /\ Apps \subseteq Threads /\ Conns \subseteq Threads
    BY ConstFacts DEF Core, Types
<1>2. CASE \E t \in Apps : Connect(t) \/ Subscribe(t) \/ Disconnect(t)
    BY <1>1, <1>2, ConnectCore, SubscribeCore, DisconnectCore
<1>3. CASE \E t \in DOMAIN th : ThreadStep(t)
    BY <1>1, <1>3, ThreadStepCore
<1>4. CASE \E n \in Conns : CallbackStep(n)
    BY <1>4, CallbackCore, PostSyncCore DEF CallbackStep
<1>5. CASE RunStep
    BY <1>5, RunStepCore
<1>6. CASE \E n \in Conns : TcpDone(n) \/ Answer(n) \/ Break(n)
    BY <1>6, TcpDoneCore, AnswerCore, BreakCore
<1>7. CASE UNCHANGED vars
    BY <1>7, StutterCore
<1> QED BY <1>2, <1>3, <1>4, <1>5, <1>6, <1>7 DEF Next

(* In every state Core holds. *)
THEOREM CoreInvariant == Spec => []Core
<1>1. Init => Core
    BY InitIInv DEF IInv, Core
<1>2. Core /\ [Next]_vars => Core'
    BY NextCore
<1> QED BY <1>1, <1>2, PTL DEF Spec

LEMMA CoreTypeOK == Core => TypeOK
<1> SUFFICES ASSUME Core PROVE TypeOK
    OBVIOUS
<1>1. \A c \in Clients :
         /\ client[c].conn # 0 => net[client[c].conn].client = c
         /\ client[c].connected \/ client[c].connect_state \in {"TCP_IN_PROGRESS", "WAIT_FOR_CONNACK"}
               => client[c].conn # 0
    BY DEF Core, Connections
<1>2. mutex \in Threads => th[mutex].pc \in {"begin", "woken", "drain", "lost"}
    BY DEF Core, Holds, HoldOK
<1>3. mutex = RunThread => run.pc = "lost"
    BY DEF Core, Holds
<1>4. mutex \in {None, RunThread} \cup Apps \cup Conns /\ Threads = Apps \cup Conns
    BY DEF Core, Types, Threads
<1> QED BY <1>1, <1>2, <1>3, <1>4 DEF Core, Types, RunFlags, TypeOK

(* Whatever the clients, threads, connections and faults: who holds          *)
(* mqttclient_mutex while it waits is at one of the places where the code    *)
(* does so, running and tostop tell the truth of MQTTClient_run, and a client*)
(* that is connected or connecting has a connection of its own.              *)
THEOREM SyncTypeCorrect == Spec => []TypeOK
BY CoreInvariant, CoreTypeOK, PTL

(* connectionLost is called once at most for a connection and only for an    *)
(* established one, whether MQTTClient_disconnect1 is run by a call whose    *)
(* wait has failed or by MQTTClient_run, with any number of threads and      *)
(* clients, and though a call lets the mutex go between closing the session  *)
(* and reporting it.                                                         *)
THEOREM LossReportedOnce == Spec => []LostOnce
<1>1. Core => LostOnce
    BY DEF Core, Losses
<1> QED BY <1>1, CoreInvariant, PTL

-----------------------------------------------------------------------------
(* Answers                                                                  *)

(* A call r with m->pack = p goes on waiting as s. *)
Stays(r, s, p) ==
    /\ Waits(s)
    /\ s.client = r.client /\ s.conn = r.conn /\ s.want = r.want /\ s.id = r.id
    /\ s.pc = "woken" => s.pack \in {p, None} \/ (r.pc = "woken" /\ s.pack = r.pack)
    /\ p # None /\ r.pc # "cycle" =>
          s.pc # "cycle" /\ (s.pc = "woken" => s.pack = p \/ (r.pc = "woken" /\ s.pack = r.pack))

(* Nothing is asked for client c, and its calls go on waiting, unless they   *)
(* leave nothing behind.                                                     *)
LEMMA KeepFrame ==
    ASSUME Core, NEW c \in Clients, Answered(c),
           client'[c].pack \in {client[c].pack, None},
           \A n \in Conns : client'[c].conn = n =>
              /\ client[c].conn = n
              /\ net'[n].asked = net[n].asked /\ net'[n].in \in {net[n].in, <<>>}
              /\ RunHas(n)' => RunHas(n) /\ run'.pack = run.pack,
           \A u \in Threads : th'[u].pc = "woken" /\ th'[u].pack # None /\ th'[u].client = c =>
              Waits(th[u]) /\ th[u].client = c,
           \A u \in Threads : Waits(th[u]) /\ th[u].client = c =>
              \/ Stays(th[u], th'[u], client[c].pack)
              \/ /\ client'[c].pack = None
                 /\ ~Waits(th'[u])
                 /\ \A n \in Conns : client'[c].conn = n => ~Outstanding(n)'
    PROVE  Answered(c)'
<1>1. \A t, u \in Threads :
         Waits(th[t]) /\ th[t].client = c /\ Waits(th[u]) /\ th[u].client = c => t = u
    BY DEF Core, Calls, InCall
<1>2. ASSUME client'[c].pack # None
      PROVE  \E t \in Threads : AnsweredTo(c, t)'
    <2>1. client'[c].pack = client[c].pack
        BY <1>2
    <2>2. PICK t \in Threads : AnsweredTo(c, t)
        BY <1>2, <2>1 DEF Answered
    <2>3. Stays(th[t], th'[t], client[c].pack)
        BY <1>2, <2>2 DEF AnsweredTo
    <2>4. AnsweredTo(c, t)'
        BY <1>2, <2>1, <2>2, <2>3 DEF AnsweredTo, Stays, Own
    <2> QED BY <2>4
<1>3. ASSUME NEW t \in Threads, th'[t].client = c, th'[t].pc = "woken", th'[t].pack # None
      PROVE  Own(th'[t], th'[t].pack)
    <2>1. Waits(th[t]) /\ th[t].client = c /\ Waits(th'[t])
        BY <1>3 DEF Waits
    <2>2. Stays(th[t], th'[t], client[c].pack)
        BY <2>1
    <2>3. CASE th'[t].pack = client[c].pack
        <3>1. PICK u \in Threads : AnsweredTo(c, u)
            BY <1>3, <2>3 DEF Answered
        <3>2. u = t
            BY <1>1, <2>1, <3>1 DEF AnsweredTo
        <3> QED BY <2>2, <2>3, <3>1, <3>2 DEF AnsweredTo, Stays, Own
    <2>4. CASE th[t].pc = "woken" /\ th'[t].pack = th[t].pack
        BY <1>3, <2>1, <2>2, <2>4 DEF Answered, Stays, Own
    <2> QED BY <1>3, <2>2, <2>3, <2>4 DEF Stays
<1>4. ASSUME NEW n \in Conns, client'[c].conn = n
      PROVE  /\ Outstanding(n)' => \E t \in Threads : AskedBy(c, n, t)'
             /\ net'[n].asked # {} => net'[n].in = <<>> /\ ~RunHas(n)'
             /\ net'[n].in # <<>> => ~RunHas(n)' /\ Len(net'[n].in) = 1
    <2>1. /\ client[c].conn = n
          /\ net'[n].asked = net[n].asked /\ net'[n].in \in {net[n].in, <<>>}
          /\ RunHas(n)' => RunHas(n) /\ run'.pack = run.pack
        BY <1>4
    <2>2. ASSUME Outstanding(n)' PROVE \E t \in Threads : AskedBy(c, n, t)'
        <3>1. Outstanding(n)
            BY <2>1, <2>2 DEF Outstanding
        <3>2. PICK t \in Threads : AskedBy(c, n, t)
            BY <2>1, <3>1 DEF Answered
        <3>3. Stays(th[t], th'[t], client[c].pack)
            BY <1>4, <2>2, <3>2 DEF AskedBy
        <3>4. client'[c].pack = None /\ client[c].pack = None
            BY <3>2 DEF AskedBy
        <3>5. th'[t].pc = "woken" => th'[t].pack = None
            BY <3>2, <3>3, <3>4 DEF AskedBy, Stays
        <3>6. net'[n].in # <<>> => Own(th'[t], net'[n].in[1])
            BY <2>1, <3>2, <3>3 DEF AskedBy, Stays, Own
        <3>7. RunHas(n)' => Own(th'[t], run'.pack)
            BY <2>1, <3>2, <3>3 DEF AskedBy, Stays, Own
        <3>8. AskedBy(c, n, t)'
            BY <2>1, <3>2, <3>3, <3>4, <3>5, <3>6, <3>7 DEF AskedBy, Stays
        <3> QED BY <3>8
    <2>3. /\ net[n].asked # {} => net[n].in = <<>> /\ ~RunHas(n)
          /\ net[n].in # <<>> => ~RunHas(n) /\ Len(net[n].in) = 1
        BY <2>1 DEF Answered
    <2> QED BY <2>1, <2>2, <2>3
<1> QED BY <1>2, <1>3, <1>4 DEF Answered

(* The connections and what is read from them. *)
SameTraffic ==
    /\ \A c \in Clients, n \in Conns : client'[c].conn = n =>
          client[c].conn = n /\ net'[n].asked = net[n].asked /\ net'[n].in = net[n].in
    /\ \A n \in Conns : RunHas(n)' => RunHas(n) /\ run'.pack = run.pack

LEMMA QuietFrame ==
    ASSUME Core, Answers, SameTraffic,
           \A c \in Clients : client'[c].pack = client[c].pack,
           \A u \in Threads : Waits(th'[u]) => (Waits(th[u]) /\ th'[u].client = th[u].client) \/ th'[u].pack = None,
           \A u \in Threads : Waits(th[u]) => Stays(th[u], th'[u], client[th[u].client].pack)
    PROVE  Answers'
<1> SUFFICES ASSUME NEW c \in Clients PROVE Answered(c)'
    BY DEF Answers
<1>1. Answered(c)
    BY DEF Answers
<1>2. \A n \in Conns : client'[c].conn = n =>
         /\ client[c].conn = n
         /\ net'[n].asked = net[n].asked /\ net'[n].in \in {net[n].in, <<>>}
         /\ RunHas(n)' => RunHas(n) /\ run'.pack = run.pack
    BY DEF SameTraffic
<1>3. \A u \in Threads : th'[u].pc = "woken" /\ th'[u].pack # None /\ th'[u].client = c =>
         Waits(th[u]) /\ th[u].client = c
    BY DEF Waits
<1>4. \A u \in Threads : Waits(th[u]) /\ th[u].client = c => Stays(th[u], th'[u], client[c].pack)
    OBVIOUS
<1> QED BY <1>1, <1>2, <1>3, <1>4, KeepFrame

(* No call begins or ends to wait. *)
LEMMA StillWaits ==
    ASSUME Core, AnswersInTime, SameTraffic,
           history'.raced = history.raced, history'.foreign = history.foreign,
           \A c \in Clients : client'[c].pack = client[c].pack,
           \A u \in Threads : Waits(th[u]) \/ Waits(th'[u]) => th'[u] = th[u]
    PROVE  AnswersInTime'
<1>1. \A u \in Threads : Waits(th[u]) => Stays(th[u], th'[u], client[th[u].client].pack)
    BY DEF Stays
<1>2. Answers => Answers'
    BY <1>1, QuietFrame
<1> QED BY <1>2 DEF AnswersInTime

LEMMA ConnectAnswers == ASSUME Core, AnswersInTime, NEW t \in Threads, Connect(t) PROVE AnswersInTime'
<1>1. th[t].pc \in {"idle", "enter"}
    BY DEF Connect, MayCall
<1>2. UNCHANGED <<client, net, run>>
    BY DEF Connect
<1>3. history' = history \/ history' = Counted(t)
    BY DEF Connect
<1>4. PICK r : th' = [th EXCEPT ![t] = r] /\ r.pc \in {"begin", "idle", "post"}
    <2> DEFINE c == IF t \in Apps THEN scenario.owner[t] ELSE th[t].client
               v == IF scenario.version = 0 THEN 4 ELSE scenario.version
               r1 == [NoCall EXCEPT !.pc = "begin", !.client = c, !.call = "connect", !.version = v]
               r2 == Over(t)
    <2>1. th' = [th EXCEPT ![t] = r1] \/ th' = [th EXCEPT ![t] = r2]
        BY DEF Connect
    <2>2. r1.pc = "begin" /\ r2.pc \in {"idle", "post"}
        BY DEF NoCall, Over
    <2> HIDE DEF r1, r2
    <2> QED BY <2>1, <2>2
<1>5. \A u \in Threads : Waits(th[u]) \/ Waits(th'[u]) => th'[u] = th[u]
    BY <1>1, <1>4 DEF Waits, Core, Types
<1>6. SameTraffic
    BY <1>2 DEF SameTraffic, RunHas
<1> QED BY <1>2, <1>3, <1>5, <1>6, CountedFacts, StillWaits

LEMMA StartRunAnswers == ASSUME Core, AnswersInTime, NEW t \in Threads, StartRun(t) PROVE AnswersInTime'
<1>1. th[t].pc = "begin" /\ th' = [th EXCEPT ![t].pc = "awaitRun"]
    BY DEF StartRun
<1>2. th'[t].pc = "awaitRun"
    BY <1>1 DEF Core, Types, ThreadRec
<1>3. \A u \in Threads \ {t} : th'[u] = th[u]
    BY <1>1 DEF Core, Types
<1>4. \A u \in Threads : Waits(th[u]) \/ Waits(th'[u]) => th'[u] = th[u]
    BY <1>1, <1>2, <1>3 DEF Waits
<1>5. SameTraffic
    BY DEF StartRun, SameTraffic, RunHas, NoRun
<1> QED BY <1>4, <1>5, StillWaits DEF StartRun

LEMMA CallbackAnswers == ASSUME Core, AnswersInTime, NEW n \in Conns, CallbackStep(n) PROVE AnswersInTime'
<1>1. th[n].pc \in {"callback", "post"} /\ n \in Threads
    BY ConstFacts DEF CallbackStep, Callback, PostSync
<1>2. th[n] \in ThreadRec /\ th \in [Threads -> ThreadRec]
    BY <1>1 DEF Core, Types
<1>3. PICK r : th' = [th EXCEPT ![n] = r] /\ r.pc \in {"enter", "post", "idle"}
    <2>1. CASE Callback(n)
        <3> DEFINE r1 == [th[n] EXCEPT !.pc = "enter", !.call = "connect"]
                   r2 == [th[n] EXCEPT !.pc = "post"]
        <3>1. th' = [th EXCEPT ![n] = r1] \/ th' = [th EXCEPT ![n] = r2]
            BY <2>1 DEF Callback
        <3>2. r1.pc = "enter" /\ r2.pc = "post"
            BY <1>2 DEF ThreadRec
        <3> HIDE DEF r1, r2
        <3> QED BY <3>1, <3>2
    <2>2. CASE PostSync(n)
        <3>1. th' = [th EXCEPT ![n] = NoCall]
            BY <2>2 DEF PostSync
        <3>2. NoCall.pc = "idle"
            BY DEF NoCall
        <3> QED BY <3>1, <3>2
    <2> QED BY <2>1, <2>2 DEF CallbackStep
<1>4. \A u \in Threads : Waits(th[u]) \/ Waits(th'[u]) => th'[u] = th[u]
    BY <1>1, <1>2, <1>3 DEF Waits
<1>5. UNCHANGED <<client, net, run>>
    BY DEF CallbackStep, Callback, PostSync
<1>6. history'.raced = history.raced /\ history'.foreign = history.foreign
    BY DEF CallbackStep, Callback, PostSync, Core, Types, HistoryRec
<1>7. SameTraffic
    BY <1>5 DEF SameTraffic, RunHas
<1> QED BY <1>4, <1>5, <1>6, <1>7, StillWaits

LEMMA DisconnectAnswers == ASSUME Core, AnswersInTime, NEW t \in Apps, Disconnect(t) PROVE AnswersInTime'
<1>1. t \in Threads /\ ~Waits(th[t])
    BY MayCallFacts DEF Disconnect
<1>2. PICK r \in ThreadRec : r.pc = "drain" /\ th' = [th EXCEPT ![t] = r]
    BY DisconnectFacts
<1>3. \A u \in Threads : Waits(th[u]) \/ Waits(th'[u]) => th'[u] = th[u]
    BY <1>1, <1>2 DEF Waits, Core, Types
<1>4. \A c \in Clients : client'[c].pack = client[c].pack /\ client'[c].conn = client[c].conn
    BY DisconnectFacts
<1>5. history' = Counted(t) /\ UNCHANGED <<net, run>>
    BY DEF Disconnect
<1>6. SameTraffic
    BY <1>4, <1>5 DEF SameTraffic, RunHas
<1> QED BY <1>1, <1>3, <1>4, <1>5, <1>6, CountedFacts, StillWaits

LEMMA LostReturnsAnswers ==
    ASSUME Core, AnswersInTime, NEW t \in Threads, LostReturns(t)
    PROVE  AnswersInTime'
<1>1. th[t].pc = "lost" /\ th[t].client \in Clients /\ th' = [th EXCEPT ![t] = Over(t)]
    BY DEF LostReturns, Core, Calls, CallOK
<1>2. \A u \in Threads : Waits(th[u]) \/ Waits(th'[u]) => th'[u] = th[u]
    BY <1>1, OverFacts DEF Waits, Core, Types
<1>3. SameTraffic
    BY DEF LostReturns, SameTraffic, RunHas
<1> QED BY <1>2, <1>3, StillWaits DEF LostReturns

LEMMA StoppedAnswers == ASSUME Core, AnswersInTime, NEW t \in Threads, Stopped(t) PROVE AnswersInTime'
<1> USE DEF Core
<1> DEFINE n == th[t].report
           r == [th[t] EXCEPT !.pc = "lost"]
           threads == [th EXCEPT ![t] = r]
<1>1. th[t].pc = "stopping" /\ th[t].client \in Clients /\ th[t] \in ThreadRec
    BY DEF Stopped, Calls, CallOK, Types
<1>2. SameTraffic /\ UNCHANGED client
    BY DEF Stopped, SameTraffic, RunHas
<1>3. CASE n = 0
    <2>1. th' = [th EXCEPT ![t] = Over(t)] /\ UNCHANGED history
        BY <1>3 DEF Stopped
    <2>2. \A u \in Threads : Waits(th[u]) \/ Waits(th'[u]) => th'[u] = th[u]
        BY <1>1, <2>1, OverFacts DEF Waits, Types
    <2> QED BY <1>2, <2>1, <2>2, StillWaits
<1>4. CASE n # 0
    <2>1. n \in Conns /\ n \in history.established /\ n \notin LostConns
        BY <1>1, <1>4 DEF Losses, Types, HistoryRec
    <2>2. net[n].client \in Clients /\ th[n] = NoCall
        BY <2>1 DEF Losses, Types, ConnRec
    <2>3. r \in ThreadRec /\ r.pc = "lost"
        BY <1>1 DEF ThreadRec
    <2>4. threads \in [Threads -> ThreadRec] /\ threads[t] = r /\ \A u \in Threads \ {t} : threads[u] = th[u]
        BY <2>3 DEF Types
    <2>5. CallLost(t, n, threads, history)
        BY <1>4 DEF Stopped
    <2> HIDE DEF threads, n, r
    <2>6. /\ th'[n].pc = "callback" /\ \A u \in Threads \ {n} : th'[u] = threads[u]
          /\ history'.raced = history.raced /\ history'.foreign = history.foreign
        BY <2>1, <2>2, <2>4, <2>5, CallLostFacts
    <2>7. \A u \in Threads : Waits(th[u]) \/ Waits(th'[u]) => th'[u] = th[u]
        BY <1>1, <2>2, <2>3, <2>4, <2>6 DEF Waits, NoCall
    <2> QED BY <1>2, <2>6, <2>7, StillWaits
<1> QED BY <1>3, <1>4

(* The background thread starts, stops or drops what it has read, and the    *)
(* network changes, without a call being concerned.                          *)
LEMMA RunStartAnswers == ASSUME Core, AnswersInTime, RunStart PROVE AnswersInTime'
<1>1. run'.pc # "handle"
    BY DEF RunStart, Exit, NoRun, Core, Types, RunRec
<1>2. SameTraffic
    BY <1>1 DEF RunStart, SameTraffic, RunHas
<1> QED BY <1>2, StillWaits DEF RunStart

LEMMA RunStopsAnswers == ASSUME Core, AnswersInTime, RunStops PROVE AnswersInTime'
<1>1. run'.pc # "handle"
    BY DEF RunStops, Exit, NoRun
<1>2. SameTraffic
    BY <1>1 DEF RunStops, SameTraffic, RunHas
<1> QED BY <1>2, StillWaits DEF RunStops

LEMMA RunLostReturnsAnswers == ASSUME Core, AnswersInTime, RunLostReturns PROVE AnswersInTime'
<1>1. run'.pc # "handle"
    BY DEF RunLostReturns, Exit, Again, NoRun
<1>2. SameTraffic
    BY <1>1 DEF RunLostReturns, SameTraffic, RunHas
<1> QED BY <1>2, StillWaits DEF RunLostReturns

LEMMA TcpDoneAnswers == ASSUME Core, AnswersInTime, NEW n \in Conns, TcpDone(n) PROVE AnswersInTime'
<1>1. \A k \in Conns : net'[k].asked = net[k].asked /\ net'[k].in = net[k].in
    BY DEF TcpDone, Core, Types, ConnRec
<1>2. SameTraffic
    BY <1>1 DEF TcpDone, SameTraffic, RunHas
<1> QED BY <1>2, StillWaits DEF TcpDone

LEMMA BreakAnswers == ASSUME Core, AnswersInTime, NEW n \in Conns, Break(n) PROVE AnswersInTime'
<1>1. \A k \in Conns : net'[k].asked = net[k].asked /\ net'[k].in = net[k].in
    BY DEF Break, Core, Types, ConnRec
<1>2. SameTraffic
    BY <1>1 DEF Break, SameTraffic, RunHas
<1>3. history'.raced = history.raced /\ history'.foreign = history.foreign
    BY DEF Break, Core, Types, HistoryRec
<1> QED BY <1>2, <1>3, StillWaits DEF Break

LEMMA OneWaits ==
    ASSUME Core, AnswersInTime, SameTraffic, NEW t \in Threads, Moves(t), Waits(th[t]),
           \A c \in Clients : client'[c].pack = client[c].pack,
           history'.raced = history.raced \/ history'.raced = TRUE,
           history'.foreign = history.foreign,
           ~history'.raced => Stays(th[t], th'[t], client[th[t].client].pack)
    PROVE  AnswersInTime'
<1>1. CASE history'.raced
    BY <1>1 DEF AnswersInTime
<1>2. CASE ~history'.raced
    <2>1. \A u \in Threads \ {t} : th'[u] = th[u]
        BY DEF Moves
    <2>2. \A u \in Threads : Waits(th[u]) => Stays(th[u], th'[u], client[th[u].client].pack)
        BY <1>2, <2>1 DEF Stays
    <2>3. \A u \in Threads : Waits(th'[u]) => Waits(th[u]) /\ th'[u].client = th[u].client
        BY <1>2, <2>1 DEF Stays
    <2>4. ~history.raced /\ Answers
        BY <1>2 DEF AnswersInTime
    <2>5. Answers'
        BY <2>2, <2>3, <2>4, QuietFrame
    <2> QED BY <1>2, <2>4, <2>5 DEF AnswersInTime
<1> QED BY <1>1, <1>2

LEMMA CheckAnswers == ASSUME Core, AnswersInTime, NEW t \in Threads, Check(t) PROVE AnswersInTime'
<1> USE DEF Core
<1> DEFINE c == th[t].client
           r == [th[t] EXCEPT !.pc = IF running THEN "sem" ELSE "cycle"]
<1>1. Waits(th[t]) /\ th[t].pc = "check" /\ th[t] \in ThreadRec
    BY DEF Check, Waits, Types
<1>2. th' = [th EXCEPT ![t] = r]
    BY DEF Check
<1>3. /\ r.pc = (IF running THEN "sem" ELSE "cycle")
      /\ r.client = th[t].client /\ r.conn = th[t].conn /\ r.want = th[t].want /\ r.id = th[t].id
    BY <1>1 DEF ThreadRec
<1> HIDE DEF r
<1>4. th'[t] = r /\ Moves(t)
    BY <1>2 DEF Types, Moves
<1>5. /\ history'.foreign = history.foreign
      /\ history'.raced = (history.raced \/ (~running /\ client[c].pack # None))
    BY DEF Check, Types, HistoryRec
<1>6. ~history'.raced => Stays(th[t], th'[t], client[c].pack)
    BY <1>1, <1>3, <1>4, <1>5 DEF Stays, Waits
<1>7. SameTraffic
    BY DEF Check, SameTraffic, RunHas
<1>8. history'.raced = history.raced \/ history'.raced = TRUE
    BY <1>5 DEF Types, HistoryRec
<1> QED BY <1>1, <1>4, <1>5, <1>6, <1>7, <1>8, OneWaits DEF Check

LEMMA SemTakenAnswers == ASSUME Core, AnswersInTime, NEW t \in Threads, SemTaken(t) PROVE AnswersInTime'
<1> DEFINE c == th[t].client
           rc == IF th[t].want = "CONNECT" THEN client[c].rc ELSE "ok"
<1>1. Waits(th[t]) /\ th[t].pc = "sem"
    BY DEF SemTaken, Waits
<1>2. c \in Clients /\ th[t].want \in {"CONNECT", "CONNACK", "SUBACK"}
    BY <1>1, WaitFacts
<1>3. rc \in Results /\ client[c].pack \in Packs
    BY <1>2 DEF Core, Types, ClientRec, Results
<1>4. Wakes(t, rc, client[c].pack)
    BY DEF SemTaken
<1>5. \A d \in Clients : client'[d].conn = client[d].conn /\ client'[d].pack = client[d].pack
    BY <1>2 DEF Core, Types, SemTaken, ClientRec, SemOf
<1> HIDE DEF rc
<1>6. Stays(th[t], th'[t], client[c].pack) /\ Moves(t)
    BY <1>3, <1>4, WakesFacts DEF Stays
<1>7. SameTraffic
    BY <1>5 DEF SemTaken, SameTraffic, RunHas
<1> QED BY <1>1, <1>5, <1>6, <1>7, OneWaits DEF SemTaken

LEMMA SemTimeoutAnswers == ASSUME Core, AnswersInTime, NEW t \in Threads, SemTimeout(t) PROVE AnswersInTime'
<1>1. Waits(th[t]) /\ th[t].pc = "sem"
    BY DEF SemTimeout, Waits
<1>2. "timeout" \in Results /\ client[th[t].client].pack \in Packs
    BY <1>1, WaitFacts DEF Core, Types, ClientRec, Results
<1>3. Wakes(t, "timeout", client[th[t].client].pack)
    BY DEF SemTimeout
<1>4. Stays(th[t], th'[t], client[th[t].client].pack) /\ Moves(t)
    BY <1>2, <1>3, WakesFacts DEF Stays
<1>5. SameTraffic
    BY DEF SemTimeout, SameTraffic, RunHas
<1> QED BY <1>1, <1>4, <1>5, OneWaits DEF SemTimeout

LEMMA CycleTimeoutAnswers ==
    ASSUME Core, AnswersInTime, NEW t \in Threads, CycleTimeout(t)
    PROVE  AnswersInTime'
<1>1. Waits(th[t]) /\ th[t].pc = "cycle"
    BY DEF CycleTimeout, Waits
<1>2. "timeout" \in Results /\ None \in Packs /\ Wakes(t, "timeout", None)
    BY ConstFacts DEF Results, CycleTimeout
<1>3. Stays(th[t], th'[t], client[th[t].client].pack) /\ Moves(t)
    BY <1>1, <1>2, WakesFacts DEF Stays
<1>4. SameTraffic
    BY DEF CycleTimeout, SameTraffic, RunHas
<1> QED BY <1>1, <1>3, <1>4, OneWaits DEF CycleTimeout

(* A connection belongs to the client that uses it. *)
LEMMA OwnConnection ==
    ASSUME Connections, NEW d \in Clients, NEW n \in Conns, client[d].conn = n
    PROVE  net[n].client = d
<1>1. n # 0
    BY ConstFacts
<1> QED BY <1>1 DEF Connections

(* Client d is not concerned, except that an answer to it may be dropped. *)
LEMMA NotConcerned ==
    ASSUME Core, NEW d \in Clients, Answered(d), client'[d].pack = client[d].pack,
           \A n \in Conns : client'[d].conn = n =>
              /\ client[d].conn = n
              /\ net'[n].asked = net[n].asked /\ net'[n].in \in {net[n].in, <<>>}
              /\ RunHas(n)' => RunHas(n) /\ run'.pack = run.pack,
           \A u \in Threads : \/ Waits(th[u]) /\ th[u].client = d
                              \/ Waits(th'[u]) /\ th'[u].client = d
                              => th'[u] = th[u]
    PROVE  Answered(d)'
<1>1. \A u \in Threads : th'[u].pc = "woken" /\ th'[u].pack # None /\ th'[u].client = d =>
         Waits(th[u]) /\ th[u].client = d
    BY DEF Waits
<1>2. \A u \in Threads : Waits(th[u]) /\ th[u].client = d => Stays(th[u], th'[u], client[d].pack)
    BY DEF Stays
<1> QED BY <1>1, <1>2, KeepFrame

(* The connection of a client is read by somebody. *)
LEMMA ReadAnswers ==
    ASSUME Core, NEW n \in Conns, Ready(n), net' = AfterRead(n), Answers
    PROVE  LET c == net[n].client
           IN  /\ c \in Clients /\ client[c].conn = n
               /\ \A d \in Clients : client[d].conn = n => d = c
               /\ net'[n].asked = net[n].asked /\ net'[n].in \in {net[n].in, <<>>}
               /\ ReadFrom(n).pack # None =>
                     /\ net[n].in # <<>> /\ net'[n].in = <<>> /\ net[n].asked = {} /\ ~RunHas(n)
                     /\ ReadFrom(n).pack = net[n].in[1]
                     /\ \E t \in Threads : AskedBy(c, n, t)
<1> DEFINE c == net[n].client
<1>1. c \in Clients /\ client[c].conn = n
    BY ReadFacts DEF Core, Connections
<1>2. \A d \in Clients : client[d].conn = n => d = c
    BY ConstFacts DEF Core, Connections
<1>3. Answered(c)
    BY <1>1 DEF Answers
<1> HIDE DEF c
<1>4. net[n].in # <<>> => /\ Len(net[n].in) = 1 /\ ~RunHas(n) /\ net[n].asked = {}
                          /\ \E t \in Threads : AskedBy(c, n, t)
    BY <1>1, <1>3 DEF Answered, Outstanding
<1>5. net[n].in # <<>> => Tail(net[n].in) = <<>>
    <2>1. net[n].in \in Seq(Packets)
        BY DEF Core, Types, ConnRec
    <2>2. ASSUME NEW s \in Seq(Packets), s # <<>>, Len(s) = 1 PROVE Tail(s) = <<>>
        <3>1. Tail(s) \in Seq(Packets) /\ Len(Tail(s)) = 0
            BY <2>2
        <3> DEFINE q == Tail(s)
        <3> HIDE DEF q
        <3>2. q \in Seq(Packets) /\ Len(q) = 0
            BY <3>1 DEF q
        <3>3. q = <<>>
            BY <3>2
        <3> QED BY <3>3 DEF q
    <2> QED BY <1>4, <2>1, <2>2
<1>6. CASE net'[n].in = net[n].in /\ ReadFrom(n).pack = None
    BY <1>1, <1>2, <1>6, ReadFacts DEF c
<1>7. CASE /\ net[n].in # <<>> /\ net'[n].in = Tail(net[n].in)
           /\ ReadFrom(n).rc = "ok" /\ ReadFrom(n).pack = net[n].in[1]
    BY <1>1, <1>2, <1>4, <1>5, <1>7, ReadFacts DEF c
<1> QED BY <1>6, <1>7, ReadFacts

LEMMA CycleHereAnswers == ASSUME Core, AnswersInTime, NEW t \in Threads, CycleHere(t) PROVE AnswersInTime'
<1> SUFFICES ASSUME Answers PROVE Answers'
    BY DEF CycleHere, AnswersInTime
<1>1. Waits(th[t]) /\ th[t].pc = "cycle"
    BY DEF CycleHere, Waits
<1>2. PICK n \in Conns :
          /\ Ready(n) /\ net' = AfterRead(n)
          /\ \/ /\ n = client[th[t].client].conn /\ ReadFrom(n).pack # None
                /\ Wakes(t, "ok", ReadFrom(n).pack)
             \/ n = client[th[t].client].conn /\ Wakes(t, "error", None)
             \/ n = client[th[t].client].conn /\ Wakes(t, "ok", None)
             \/ UNCHANGED th
    BY DEF CycleHere
<1>3. UNCHANGED <<client, run>>
    BY DEF CycleHere
<1> DEFINE p == ReadFrom(n).pack
<1>4. PICK c \in Clients :
      /\ c = net[n].client /\ client[c].conn = n
      /\ \A d \in Clients : client[d].conn = n => d = c
      /\ net'[n].asked = net[n].asked /\ net'[n].in \in {net[n].in, <<>>}
      /\ p # None =>
            /\ net[n].in # <<>> /\ net'[n].in = <<>> /\ net[n].asked = {} /\ ~RunHas(n)
            /\ p = net[n].in[1]
            /\ \E u \in Threads : AskedBy(c, n, u)
    BY <1>2, ReadAnswers
<1>5. \A k \in Conns \ {n} : net'[k] = net[k]
    BY <1>2, ReadFacts
<1>6. "error" \in Results /\ "ok" \in Results /\ None \in Packs /\ p \in Packs
    BY <1>2, ReadFacts, ConstFacts DEF Results
<1>7. th[t].client \in Clients
    BY <1>1, WaitFacts
<1>8. Moves(t)
    BY <1>2, <1>6, WakesFacts DEF Moves
<1>9. th' = th \/ th[t].client = c
    BY <1>2, <1>4, <1>7
<1> HIDE DEF p
<1>10. ASSUME NEW d \in Clients, d # c PROVE Answered(d)'
    <2>1. \A k \in Conns : client[d].conn = k => net'[k] = net[k]
        BY <1>4, <1>5, <1>10
    <2>2. \A u \in Threads : \/ Waits(th[u]) /\ th[u].client = d
                             \/ Waits(th'[u]) /\ th'[u].client = d
                             => th'[u] = th[u]
        <3>1. th' # th => th'[t].client = th[t].client
            BY <1>2, <1>6, WakesFacts DEF p
        <3> QED BY <1>8, <1>9, <1>10, <3>1 DEF Moves
    <2>3. \A k \in Conns : RunHas(k)' => RunHas(k) /\ run'.pack = run.pack
        BY <1>3 DEF RunHas
    <2> QED BY <1>3, <2>1, <2>2, <2>3, NotConcerned DEF Answers
<1>11. CASE p # None /\ th[t].client = c /\ Wakes(t, "ok", p)
    <2>1. PICK u \in Threads : AskedBy(c, n, u)
        BY <1>4, <1>11
    <2>2. u = t
        BY <1>1, <1>11, <2>1 DEF AskedBy, Core, Calls, InCall
    <2>3. Own(th[t], p) /\ client[c].pack = None
        BY <1>4, <1>11, <2>1, <2>2 DEF AskedBy
    <2>4. /\ th'[t].pack = p /\ th'[t].conn = th[t].conn /\ th'[t].id = th[t].id /\ th'[t].want = th[t].want
        BY <1>6, <1>11, WakesFacts
    <2>5. Own(th'[t], p)
        BY <2>3, <2>4 DEF Own
    <2>6. \A k \in Conns : client'[c].conn = k => k = n /\ ~Outstanding(k)' /\ net'[k].asked = {} /\ net'[k].in = <<>>
        BY <1>3, <1>4, <1>11 DEF Outstanding, RunHas
    <2>7. \A v \in Threads : th'[v].client = c /\ th'[v].pc = "woken" /\ th'[v].pack # None => Own(th'[v], th'[v].pack)
        <3>1. \A v \in Threads \ {t} : th'[v] = th[v]
            BY <1>8 DEF Moves
        <3> QED BY <1>4, <2>4, <2>5, <3>1 DEF Answers, Answered
    <2>8. Answered(c)'
        BY <1>3, <2>3, <2>6, <2>7 DEF Answered
    <2> QED BY <1>10, <2>8 DEF Answers
<1>12. CASE th' = th \/ (th[t].client = c /\ (Wakes(t, "error", None) \/ Wakes(t, "ok", None)))
    <2>1. \A u \in Threads : Waits(th[u]) => Stays(th[u], th'[u], client[c].pack)
        <3>1. \A u \in Threads : th'[u] = th[u] => (Waits(th[u]) => Stays(th[u], th'[u], client[c].pack))
            BY DEF Stays
        <3>2. Wakes(t, "error", None) \/ Wakes(t, "ok", None) => Stays(th[t], th'[t], client[c].pack)
            BY <1>1, <1>6, WakesFacts DEF Stays
        <3> QED BY <1>8, <1>12, <3>1, <3>2 DEF Moves
    <2>2. \A u \in Threads : th'[u].pc = "woken" /\ th'[u].pack # None /\ th'[u].client = c =>
             Waits(th[u]) /\ th[u].client = c
        <3>1. Wakes(t, "error", None) \/ Wakes(t, "ok", None) => th'[t].pack = None
            BY <1>6, WakesFacts
        <3> QED BY <1>8, <1>12, <3>1 DEF Moves, Waits
    <2>3. \A k \in Conns : RunHas(k)' => RunHas(k) /\ run'.pack = run.pack
        BY <1>3 DEF RunHas
    <2>4. Answered(c)'
        BY <1>3, <1>4, <2>1, <2>2, <2>3, KeepFrame DEF Answers
    <2> QED BY <1>10, <2>4 DEF Answers
<1> QED BY <1>2, <1>4, <1>7, <1>11, <1>12 DEF p

LEMMA CycleAnswers == ASSUME Core, AnswersInTime, NEW n \in Conns, Cycle(n) PROVE AnswersInTime'
<1> SUFFICES ASSUME Answers PROVE Answers'
    BY DEF Cycle, AnswersInTime
<1>1. Ready(n) /\ net' = AfterRead(n) /\ UNCHANGED <<client, th>> /\ run.pc = "cycle"
    BY DEF Cycle
<1>2. run'.pc = "handle" /\ run'.sock = n /\ run'.pack = ReadFrom(n).pack
    BY DEF Cycle
<1>3. PICK c \in Clients :
         /\ client[c].conn = n
         /\ \A d \in Clients : client[d].conn = n => d = c
         /\ net'[n].asked = net[n].asked /\ net'[n].in \in {net[n].in, <<>>}
         /\ ReadFrom(n).pack # None =>
               /\ net[n].in # <<>> /\ net'[n].in = <<>> /\ net[n].asked = {} /\ ~RunHas(n)
               /\ ReadFrom(n).pack = net[n].in[1]
               /\ \E u \in Threads : AskedBy(c, n, u)
    BY <1>1, ReadAnswers
<1>4. \A k \in Conns \ {n} : net'[k] = net[k]
    BY <1>1, ReadFacts
<1>5. \A k \in Conns : ~RunHas(k) /\ (RunHas(k)' => k = n /\ ReadFrom(n).pack # None)
    BY <1>1, <1>2 DEF RunHas
<1>6. ASSUME NEW d \in Clients, d # c \/ ReadFrom(n).pack = None PROVE Answered(d)'
    BY <1>1, <1>3, <1>4, <1>5, <1>6, NotConcerned DEF Answers
<1>7. ASSUME ReadFrom(n).pack # None PROVE Answered(c)'
    <2>1. PICK t \in Threads : AskedBy(c, n, t)
        BY <1>3, <1>7
    <2>2. AskedBy(c, n, t)'
        BY <1>1, <1>2, <1>3, <1>7, <2>1 DEF AskedBy
    <2>3. net'[n].asked = {} /\ net'[n].in = <<>>
        BY <1>3, <1>7
    <2>4. client'[c].pack = None
        BY <2>2 DEF AskedBy
    <2>5. \A u \in Threads : th'[u].client = c /\ th'[u].pc = "woken" /\ th'[u].pack # None => Own(th'[u], th'[u].pack)
        BY <1>1 DEF Answers, Answered
    <2> QED BY <1>1, <1>3, <2>2, <2>3, <2>4, <2>5 DEF Answered
<1> QED BY <1>6, <1>7 DEF Answers

LEMMA AnswerAnswers == ASSUME Core, AnswersInTime, NEW n \in Conns, Answer(n) PROVE AnswersInTime'
<1> SUFFICES ASSUME Answers PROVE Answers'
    BY DEF Answer, AnswersInTime
<1>1. PICK id \in net[n].asked, p \in Packets :
          /\ p.conn = n /\ p.id = id /\ p.type = (IF id = 0 THEN "CONNACK" ELSE "SUBACK")
          /\ \A k \in Conns \ {n} : net'[k] = net[k]
          /\ net'[n].asked = net[n].asked \ {id} /\ net'[n].in = Append(net[n].in, p)
    BY AnswerFacts
<1>2. UNCHANGED <<client, th, run>> /\ Live(net[n])
    BY DEF Answer, Live
<1>3. PICK c \in Clients : client[c].conn = n /\ \A d \in Clients : client[d].conn = n => d = c
    <2>1. net[n].client \in Clients /\ client[net[n].client].conn = n
        BY <1>2 DEF Core, Connections
    <2>2. \A d \in Clients : client[d].conn = n => d = net[n].client
        BY ConstFacts DEF Core, Connections
    <2> QED BY <2>1, <2>2
<1>4. net[n].asked # {} /\ net[n].in = <<>> /\ ~RunHas(n)
    BY <1>1, <1>3 DEF Answers, Answered
<1>5. PICK t \in Threads : AskedBy(c, n, t)
    BY <1>3, <1>4 DEF Answers, Answered, Outstanding
<1>6. net'[n].asked = {} /\ id = th[t].id
    BY <1>1, <1>5 DEF AskedBy
<1>7. net'[n].in = <<p>> /\ net'[n].in[1] = p /\ Len(net'[n].in) = 1
    BY <1>1, <1>4
<1>8. Own(th[t], p)
    <2>1. th[t].want = "CONNACK" <=> th[t].id = 0
        BY <1>5 DEF AskedBy, Core, Calls, CallOK
    <2> QED BY <1>1, <1>5, <1>6, <2>1 DEF Own, AskedBy
<1>9. AskedBy(c, n, t)'
    <2>1. ~RunHas(n)' /\ UNCHANGED <<client, th>>
        BY <1>2, <1>4 DEF RunHas
    <2> QED BY <1>5, <1>6, <1>7, <1>8, <2>1 DEF AskedBy
<1>10. Answered(c)'
    <2>1. client'[c].pack = None
        BY <1>9 DEF AskedBy
    <2>2. \A u \in Threads : th'[u].client = c /\ th'[u].pc = "woken" /\ th'[u].pack # None => Own(th'[u], th'[u].pack)
        BY <1>2 DEF Answers, Answered
    <2>3. ~RunHas(n)'
        BY <1>2, <1>4 DEF RunHas
    <2> QED BY <1>2, <1>3, <1>6, <1>7, <1>9, <2>1, <2>2, <2>3 DEF Answered
<1>11. ASSUME NEW d \in Clients, d # c PROVE Answered(d)'
    <2>1. \A k \in Conns : RunHas(k)' => RunHas(k) /\ run'.pack = run.pack
        BY <1>2 DEF RunHas
    <2> QED BY <1>1, <1>2, <1>3, <1>11, <2>1, NotConcerned DEF Answers
<1> QED BY <1>10, <1>11 DEF Answers

LEMMA HandleAnswers == ASSUME Core, AnswersInTime, Handle PROVE AnswersInTime'
<1>1. run.pc = "handle"
    BY HandleCases
<1>2. CASE RunIgnores
    <2>1. SameTraffic
        BY <1>2 DEF RunIgnores, Again, NoRun, SameTraffic, RunHas
    <2> QED BY <1>2, <2>1, StillWaits DEF RunIgnores
<1>3. ASSUME NEW c \in Clients, client[c].conn = run.sock, RunDisconnects(c), client[c].connected
      PROVE  AnswersInTime'
    <2> DEFINE n == Reported(c, TRUE)
    <2>1. n # 0
        BY <1>3 DEF Reported, Core, Connections
    <2>2. n \in Conns /\ net[n].client = c /\ th[n] = NoCall
        BY <2>1, ReportedFacts
    <2>3. /\ CallLost(RunThread, n, th, history) /\ Closes(c, client[c])
          /\ client[c] \in ClientRec /\ th \in [Threads -> ThreadRec]
        BY <1>3 DEF RunDisconnects, Closes, Core, Types
    <2>4. run' = [run EXCEPT !.pc = "lost"]
        BY <1>3 DEF RunDisconnects
    <2>5. run'.pc = "lost"
        BY <2>4 DEF Core, Types, RunRec
    <2> HIDE DEF n
    <2>6. th'[n].pc = "callback"
        BY <2>2, <2>3, CallLostFacts
    <2>7. \A u \in Threads \ {n} : th'[u] = th[u]
        BY <2>2, <2>3, CallLostFacts
    <2>8. history'.raced = history.raced /\ history'.foreign = history.foreign
        BY <2>2, <2>3, CallLostFacts
    <2>9. \A u \in Threads : Waits(th[u]) \/ Waits(th'[u]) => th'[u] = th[u]
        BY <2>2, <2>6, <2>7 DEF Waits, NoCall
    <2>10. \A d \in Clients : /\ client'[d].pack = client[d].pack
                              /\ d # c => client'[d] = client[d]
                              /\ d = c => client'[d].conn = 0
        BY <2>3, CloseFacts
    <2>11. \A k \in Conns : k # client[c].conn => net'[k] = net[k]
        BY <2>3, CloseFacts
    <2>12. SameTraffic
        <3>1. \A d \in Clients \ {c} : client[d].conn \in Conns => client[d].conn # client[c].conn
            BY ConstFacts DEF Core, Connections
        <3> QED BY <2>5, <2>10, <2>11, <3>1, ConstFacts DEF SameTraffic, RunHas
    <2> QED BY <2>8, <2>9, <2>10, <2>12, StillWaits
<1>4. ASSUME NEW c \in Clients, client[c].conn = run.sock,
             NEW m \in ClientRec, NEW past \in HistoryRec, RunPosts(c, m, past),
             m.conn = client[c].conn, past.foreign = history.foreign,
             m.pack = IF run.pack = None THEN client[c].pack ELSE run.pack,
             past.raced = IF run.pack = None THEN history.raced
                          ELSE history.raced \/ TooLate(c, run.pack)
      PROVE  AnswersInTime'
    <2>1. /\ history' = past /\ UNCHANGED <<net, th>> /\ client' = [client EXCEPT ![c] = m]
          /\ run' = [NoRun EXCEPT !.pc = "cycle"]
        BY <1>4 DEF RunPosts, Again
    <2>2. \A k \in Conns : ~RunHas(k)'
        BY <2>1 DEF RunHas, NoRun
    <2>3. client'[c] = m /\ \A d \in Clients \ {c} : client'[d] = client[d]
        BY <2>1 DEF Core, Types
    <2>4. CASE run.pack = None
        <3>1. SameTraffic
            BY <1>4, <2>1, <2>2, <2>3 DEF SameTraffic
        <3> QED BY <1>4, <2>1, <2>3, <2>4, <3>1, StillWaits
    <2>5. CASE run.pack # None /\ history'.raced
        BY <2>5 DEF AnswersInTime
    <2>6. CASE run.pack # None /\ ~history'.raced
        <3>1. ~history.raced /\ ~TooLate(c, run.pack)
            BY <1>4, <2>1, <2>6
        <3>2. Answers /\ ~history.foreign
            BY <3>1 DEF AnswersInTime
        <3>3. run.sock \in Conns
            BY <1>1 DEF Core, RunFlags
        <3>4. PICK n \in Conns : n = run.sock
            BY <3>3
        <3>5. RunHas(n) /\ client[c].conn = n
            BY <1>1, <1>4, <2>6, <3>4 DEF RunHas
        <3>6. net[n].asked = {} /\ net[n].in = <<>>
            BY <3>2, <3>5 DEF Answers, Answered
        <3>7. PICK t \in Threads : AskedBy(c, n, t)
            BY <3>2, <3>5 DEF Answers, Answered, Outstanding
        <3>8. Own(th[t], run.pack) /\ th[t].client = c /\ Waits(th[t])
            BY <3>5, <3>7 DEF AskedBy
        <3>9. DOMAIN th = Threads
            BY DEF Core, Types
        <3>10. th[t].pc \notin {"cycle", "woken"}
            BY <3>1, <3>7, <3>8, <3>9 DEF TooLate, AskedBy, Own
        <3>11. AnsweredTo(c, t)'
            BY <1>4, <2>1, <2>3, <2>6, <3>8, <3>10 DEF AnsweredTo
        <3>12. Answered(c)'
            <4>1. \A u \in Threads : th'[u].client = c /\ th'[u].pc = "woken" /\ th'[u].pack # None => Own(th'[u], th'[u].pack)
                BY <2>1, <3>2 DEF Answers, Answered
            <4>2. \A k \in Conns : client'[c].conn = k => k = n /\ ~Outstanding(k)' /\ net'[k].asked = {} /\ net'[k].in = <<>>
                BY <1>4, <2>1, <2>2, <2>3, <3>5, <3>6 DEF Outstanding
            <4> QED BY <3>11, <4>1, <4>2 DEF Answered
        <3>13. ASSUME NEW d \in Clients, d # c PROVE Answered(d)'
            BY <2>1, <2>2, <2>3, <3>2, <3>13, NotConcerned DEF Answers
        <3>14. ~history'.foreign
            BY <1>4, <2>1, <3>2
        <3> QED BY <3>12, <3>13, <3>14 DEF Answers, AnswersInTime
    <2> QED BY <2>4, <2>5, <2>6
<1> QED BY <1>2, <1>3, <1>4, HandleCases

(* Nobody waits for client c. *)
LEMMA NobodyWaits ==
    ASSUME Answers, NEW c \in Clients, \A u \in Threads : Waits(th[u]) => th[u].client # c
    PROVE  client[c].pack = None /\ \A n \in Conns : client[c].conn = n => ~Outstanding(n)
<1>1. Answered(c)
    BY DEF Answers
<1> QED BY <1>1 DEF Answered, AnsweredTo, AskedBy

(* Thread t waits for client c, and has not been given an answer. *)
LEMMA NotAnswered ==
    ASSUME Core, Answers, NEW t \in Threads, th[t].pc = "woken",
           th[t].pack = None \/ th[t].want = "CONNECT"
    PROVE  client[th[t].client].pack = None
<1>1. PICK c \in Clients : c = th[t].client
    BY DEF Core, Calls, CallOK
<1> SUFFICES ASSUME client[c].pack # None PROVE FALSE
    BY <1>1
<1>2. PICK u \in Threads : AnsweredTo(c, u)
    BY DEF Answers, Answered
<1>3. u = t
    BY <1>1, <1>2 DEF AnsweredTo, Core, Calls, InCall, Waits
<1>4. Own(th[t], client[c].pack) /\ th[t].pack = client[c].pack
    BY <1>2, <1>3 DEF AnsweredTo
<1>5. client[c].pack \in Packets
    BY DEF Core, Types, ClientRec, Packs
<1>6. client[c].pack.type # "CONNECT"
    BY <1>5 DEF Packets
<1> QED BY <1>4, <1>6 DEF Own

(* Thread t begins to wait on connection n. *)
LEMMA BeginsToWait ==
    ASSUME NEW c \in Clients, NEW n \in Conns, NEW t \in Threads,
           client'[c].conn = n, client'[c].pack = None,
           \A u \in Threads \ {t} : Waits(th'[u]) => th'[u].client # c,
           Waits(th'[t]), th'[t].client = c, th'[t].conn = n,
           th'[t].pc = "woken" => th'[t].pack = None,
           net'[n].in = <<>>, ~RunHas(n)', net'[n].asked \subseteq {th'[t].id},
           net'[n].asked # {} => th'[t].want \in {"CONNACK", "SUBACK"}
    PROVE  Answered(c)'
<1>1. Outstanding(n)' => AskedBy(c, n, t)'
    BY DEF Outstanding, AskedBy
<1>2. \A u \in Threads : th'[u].client = c /\ th'[u].pc = "woken" => th'[u].pack = None
    BY DEF Waits
<1> QED BY <1>1, <1>2 DEF Answered

LEMMA SubscribeAnswers == ASSUME Core, AnswersInTime, NEW t \in Apps, Subscribe(t) PROVE AnswersInTime'
<1>1. history' = Counted(t) /\ UNCHANGED <<client, run>> /\ t \in Threads
    BY ConstFacts DEF Subscribe
<1>2. history'.raced = history.raced /\ history'.foreign = history.foreign
    BY <1>1, CountedFacts
<1> SUFFICES ASSUME Answers PROVE Answers'
    BY <1>2 DEF AnswersInTime
<1>3. PICK c \in Clients :
         /\ c = scenario.owner[t] /\ ~Waits(th[t])
         /\ \A u \in Threads \ {t} : InCall(th[u]) => th[u].client # c
    BY MayCallFacts DEF Subscribe
<1>4. PICK n \in Conns, sent \in BOOLEAN, id \in Nat \ {0}, l \in ConnRec, r \in ThreadRec :
         /\ n = client[c].conn /\ Live(net[n]) /\ net[n].client = c
         /\ l.in = net[n].in
         /\ l.asked = net[n].asked \cup (IF sent THEN {id} ELSE {})
         /\ net' = [net EXCEPT ![n] = l]
         /\ r.pc = (IF sent THEN "check" ELSE "woken") /\ r.client = c
         /\ r.want = "SUBACK" /\ r.conn = n /\ r.id = id /\ r.pack = None
         /\ th' = [th EXCEPT ![t] = r]
    <2>1. PICK sent \in BOOLEAN, id \in Nat \ {0}, l \in ConnRec, r \in ThreadRec :
         /\ client[c].conn \in Conns /\ Live(net[client[c].conn]) /\ net[client[c].conn].client = c
         /\ l.in = net[client[c].conn].in
         /\ l.asked = net[client[c].conn].asked \cup (IF sent THEN {id} ELSE {})
         /\ net' = [net EXCEPT ![client[c].conn] = l]
         /\ r.pc = (IF sent THEN "check" ELSE "woken") /\ r.client = c
         /\ r.want = "SUBACK" /\ r.conn = client[c].conn /\ r.id = id /\ r.pack = None
         /\ th' = [th EXCEPT ![t] = r]
        BY <1>3, SubscribeFacts
    <2>2. PICK n \in Conns : n = client[c].conn
        BY <2>1
    <2> QED BY <2>1, <2>2
<1>5. \A u \in Threads : Waits(th[u]) => th[u].client # c
    BY <1>3 DEF InCall
<1>6. client[c].pack = None /\ ~Outstanding(n)
    BY <1>4, <1>5, NobodyWaits
<1>7. th'[t] = r /\ net'[n] = l /\ Waits(r)
    BY <1>1, <1>4 DEF Core, Types, Waits
<1>8. (\A u \in Threads \ {t} : th'[u] = th[u]) /\ (\A k \in Conns \ {n} : net'[k] = net[k])
    BY <1>1, <1>4 DEF Core, Types
<1>9. Answered(c)'
    <2>1. net'[n].in = <<>> /\ net'[n].asked \subseteq {id} /\ ~RunHas(n)'
        BY <1>1, <1>4, <1>6, <1>7 DEF Outstanding, RunHas
    <2>2. \A u \in Threads \ {t} : Waits(th'[u]) => th'[u].client # c
        BY <1>5, <1>8
    <2> QED BY <1>1, <1>4, <1>6, <1>7, <2>1, <2>2, BeginsToWait
<1>10. ASSUME NEW d \in Clients, d # c PROVE Answered(d)'
    <2>1. \A k \in Conns : RunHas(k)' => RunHas(k) /\ run'.pack = run.pack
        BY <1>1 DEF RunHas
    <2>2. client[d].conn # n
        BY <1>4, <1>10, ConstFacts DEF Core, Connections
    <2> QED BY <1>1, <1>3, <1>4, <1>7, <1>8, <1>10, <2>1, <2>2, NotConcerned DEF Answers
<1> QED BY <1>9, <1>10 DEF Answers

LEMMA DialledAnswers ==
    ASSUME Core, Known, AnswersInTime, NEW t \in Threads, NEW n \in Fresh, NEW tcp \in {"connecting", "up"},
           th[t].pc \in {"begin", "awaitRun"}, Dialled(t, n, tcp)
    PROVE  AnswersInTime'
<1> USE DEF Core
<1>1. n \in Conns /\ net[n].client = None
    BY DEF Fresh, NoConn
<1>2. PICK c \in Clients : c = th[t].client
    BY DEF Calls, CallOK
<1>3. InCall(th[t]) /\ ~Waits(th[t]) /\ th[t].id = 0
    BY DEF Calls, CallOK, InCall, Waits
<1>4. /\ client'[c].conn = n /\ client'[c].pack = client[c].pack
      /\ \A d \in Clients \ {c} : client'[d] = client[d]
      /\ net'[n].asked = (IF tcp = "up" THEN {0} ELSE {}) /\ net'[n].in = <<>>
      /\ \A k \in Conns \ {n} : net'[k] = net[k]
      /\ th'[t].pc = "check" /\ th'[t].want = (IF tcp = "up" THEN "CONNACK" ELSE "CONNECT")
      /\ th'[t].conn = n /\ th'[t].client = c /\ th'[t].id = 0
      /\ \A u \in Threads \ {t} : th'[u] = th[u]
      /\ UNCHANGED <<run, history>>
    <2>1. th[t].client \in Clients
        BY <1>2
    <2>2. /\ client'[th[t].client].conn = n /\ client'[th[t].client].pack = client[th[t].client].pack
          /\ \A d \in Clients \ {th[t].client} : client'[d] = client[d]
        BY <1>1, <2>1, DialledFacts
    <2>3. net'[n].in = <<>> /\ \A k \in Conns \ {n} : net'[k] = net[k]
        BY <1>1, <2>1, DialledFacts
    <2>5. net'[n].asked = (IF tcp = "up" THEN {0} ELSE {})
        <3>1. CASE tcp = "up"
            BY <1>1, <2>1, <3>1, DialledFacts
        <3>2. CASE tcp = "connecting"
            BY <1>1, <2>1, <3>2, DialledFacts
        <3> QED BY <3>1, <3>2
    <2>4. /\ th'[t].pc = "check" /\ th'[t].want = (IF tcp = "up" THEN "CONNACK" ELSE "CONNECT")
          /\ th'[t].conn = n /\ th'[t].client = th[t].client /\ th'[t].id = th[t].id
          /\ \A u \in Threads \ {t} : th'[u] = th[u]
          /\ UNCHANGED <<run, history>>
        BY <1>1, <2>1, DialledFacts
    <2> QED BY <1>2, <1>3, <2>2, <2>3, <2>4, <2>5
<1> SUFFICES ASSUME Answers PROVE Answers'
    BY <1>4 DEF AnswersInTime
<1>5. \A u \in Threads : Waits(th[u]) => th[u].client # c
    BY <1>2, <1>3 DEF Calls, InCall
<1>6. client[c].pack = None
    BY <1>5, NobodyWaits
<1>7. ~RunHas(n)'
    BY <1>1, <1>4 DEF Known, RunHas
<1>8. Answered(c)'
    <2>1. Waits(th'[t]) /\ net'[n].asked \subseteq {th'[t].id}
        BY <1>4 DEF Waits
    <2>2. \A u \in Threads \ {t} : Waits(th'[u]) => th'[u].client # c
        BY <1>4, <1>5
    <2> QED BY <1>1, <1>4, <1>6, <1>7, <2>1, <2>2, BeginsToWait
<1>9. ASSUME NEW d \in Clients, d # c PROVE Answered(d)'
    <2>1. \A k \in Conns : RunHas(k)' => RunHas(k) /\ run'.pack = run.pack
        BY <1>4 DEF RunHas
    <2>2. client[d].conn # n
        BY <1>1, ConstFacts, OwnConnection
    <2> QED BY <1>3, <1>4, <1>9, <2>1, <2>2, NotConcerned DEF Answers
<1> QED BY <1>8, <1>9 DEF Answers

LEMMA TcpCompleteAnswers ==
    ASSUME Core, AnswersInTime, NEW t \in Threads, th[t].pc = "woken", th[t].want = "CONNECT",
           TcpComplete(t)
    PROVE  AnswersInTime'
<1> USE DEF Core
<1>1. Waits(th[t]) /\ th[t].id = 0
    BY DEF Waits, Calls, CallOK
<1>2. PICK c \in Clients, n \in Conns :
      /\ c = th[t].client /\ n = client[c].conn /\ net[n].client = c
      /\ \A d \in Clients : client'[d].conn = client[d].conn /\ client'[d].pack = client[d].pack
      /\ net'[n].asked = net[n].asked \cup {0} /\ net'[n].in = net[n].in
      /\ \A k \in Conns \ {n} : net'[k] = net[k]
      /\ th'[t].pc = "check" /\ th'[t].want = "CONNACK"
      /\ th'[t].conn = n /\ th'[t].client = c /\ th'[t].id = 0
      /\ \A u \in Threads \ {t} : th'[u] = th[u]
      /\ UNCHANGED <<run, history>>
    BY <1>1, TcpCompleteFacts
<1> SUFFICES ASSUME Answers PROVE Answers'
    BY <1>2 DEF AnswersInTime
<1>3. client[c].pack = None
    BY <1>2, NotAnswered
<1>4. \A u \in Threads \ {t} : Waits(th[u]) => th[u].client # c
    BY <1>1, <1>2 DEF Calls, InCall
<1>5. ~Outstanding(n)
    BY <1>2, <1>4 DEF Answers, Answered, AskedBy
<1>6. Answered(c)'
    <2>1. net'[n].in = <<>> /\ ~RunHas(n)' /\ net'[n].asked \subseteq {0}
        BY <1>2, <1>5 DEF Outstanding, RunHas
    <2>2. \A u \in Threads \ {t} : Waits(th'[u]) => th'[u].client # c
        BY <1>2, <1>4
    <2>3. Waits(th'[t])
        BY <1>2 DEF Waits
    <2> QED BY <1>2, <1>3, <2>1, <2>2, <2>3, BeginsToWait
<1>7. ASSUME NEW d \in Clients, d # c PROVE Answered(d)'
    <2>1. \A k \in Conns : RunHas(k)' => RunHas(k) /\ run'.pack = run.pack
        BY <1>2 DEF RunHas
    <2>2. client[d].conn # n
        BY <1>2, <1>7, OwnConnection
    <2> QED BY <1>2, <1>7, <2>1, <2>2, NotConcerned DEF Answers
<1> QED BY <1>6, <1>7 DEF Answers

-----------------------------------------------------------------------------
(* Answers, when a call ends                                                *)

(* Thread t closes the session of client c, and does not wait any more. *)
Ends(t, c, m) ==
    /\ Closes(c, m)
    /\ ~Waits(th'[t])
    /\ \A u \in Threads \ {t} : Waits(th[u]) \/ Waits(th'[u]) => th'[u] = th[u]
    /\ run' = run
    /\ history'.raced = history.raced /\ history'.foreign = history.foreign

LEMMA DisconnectByEnds ==
    ASSUME Core, NEW t \in Threads, NEW m \in ClientRec, NEW lost \in BOOLEAN, NEW stop \in BOOLEAN,
           th[t].pc \in {"begin", "awaitRun", "woken", "drain"},
           DisconnectBy(t, m, lost, stop, history)
    PROVE  Ends(t, th[t].client, m)
<1> USE DEF Core
<1> DEFINE c == th[t].client
           n == Reported(c, lost)
           r1 == [th[t] EXCEPT !.pc = "stopping", !.report = n]
           r2 == [th[t] EXCEPT !.pc = "lost", !.report = n]
<1>1. c \in Clients /\ th[t] \in ThreadRec
    BY DEF Calls, CallOK, Types
<1>2. Closes(c, m) /\ run' = run
    BY DEF DisconnectBy, Closes
<1>3. n \in Conns \cup {0}
    BY <1>1 DEF Reported, Types, ClientRec
<1>4. r1 \in ThreadRec /\ r1.pc = "stopping" /\ r2 \in ThreadRec /\ r2.pc = "lost"
    BY <1>1, <1>3 DEF ThreadRec
<1>5. \/ th' = [th EXCEPT ![t] = r1] /\ UNCHANGED history
      \/ n # 0 /\ CallLost(t, n, [th EXCEPT ![t] = r2], history)
      \/ th' = [th EXCEPT ![t] = Over(t)] /\ UNCHANGED history
    BY DEF DisconnectBy
<1>6. n # 0 => n \in Conns /\ net[n].client = c /\ th[n] = NoCall
    BY <1>1, ReportedFacts
<1>7. ~Waits(Over(t))
    BY <1>1, OverFacts
<1> HIDE DEF c, n, r1, r2
<1>8. CASE th' = [th EXCEPT ![t] = r1] /\ UNCHANGED history
    <2>1. th'[t] = r1 /\ \A u \in Threads \ {t} : th'[u] = th[u]
        BY <1>8 DEF Types
    <2> QED BY <1>2, <1>4, <1>8, <2>1 DEF Ends, Waits, c
<1>9. CASE th' = [th EXCEPT ![t] = Over(t)] /\ UNCHANGED history
    <2>1. th'[t] = Over(t) /\ \A u \in Threads \ {t} : th'[u] = th[u]
        BY <1>9 DEF Types
    <2> QED BY <1>2, <1>7, <1>9, <2>1 DEF Ends, c
<1>10. CASE n # 0 /\ CallLost(t, n, [th EXCEPT ![t] = r2], history)
    <2> DEFINE threads == [th EXCEPT ![t] = r2]
    <2>1. threads \in [Threads -> ThreadRec] /\ threads[t] = r2 /\ \A u \in Threads \ {t} : threads[u] = th[u]
        BY <1>4 DEF Types
    <2>2. n \in Conns /\ net[n].client \in Clients /\ th[n] = NoCall
        BY <1>1, <1>6, <1>10
    <2>3. CallLost(t, n, threads, history)
        BY <1>10
    <2> HIDE DEF threads
    <2>4. th'[n].pc = "callback" /\ \A u \in Threads \ {n} : th'[u] = threads[u]
        BY <2>1, <2>2, <2>3, CallLostFacts
    <2>5. history'.raced = history.raced /\ history'.foreign = history.foreign
        BY <2>1, <2>2, <2>3, CallLostFacts
    <2>6. t # n
        BY <2>2 DEF NoCall
    <2>7. ~Waits(th'[t]) /\ ~Waits(th'[n]) /\ ~Waits(th[n])
        BY <1>4, <2>1, <2>2, <2>4, <2>6 DEF Waits, NoCall
    <2>8. \A u \in Threads \ {t, n} : th'[u] = th[u]
        BY <2>1, <2>4
    <2> QED BY <1>2, <2>5, <2>7, <2>8 DEF Ends, c
<1> QED BY <1>5, <1>8, <1>9, <1>10

LEMMA FailEnds ==
    ASSUME Core, NEW t \in Threads, NEW m \in ClientRec, m.conn = client[th[t].client].conn,
           th[t].pc \in {"begin", "awaitRun", "woken"}, Fail(t, m)
    PROVE  Ends(t, th[t].client, m)
<1>1. CASE ~(scenario.version = 0 /\ th[t].version = 4)
    <2> DEFINE stop == th[t].version = 3
    <2>1. DisconnectBy(t, m, FALSE, stop, history) /\ stop \in BOOLEAN
        BY <1>1 DEF Fail
    <2> HIDE DEF stop
    <2> QED BY <2>1, DisconnectByEnds
<1>2. CASE scenario.version = 0 /\ th[t].version = 4
    <2> DEFINE v == 3
               r == [th[t] EXCEPT !.pc = "begin", !.version = v]
    <2>1. Closes(th[t].client, m) /\ th' = [th EXCEPT ![t] = r] /\ UNCHANGED <<run, history>>
        BY <1>2 DEF Fail, Closes
    <2> HIDE DEF v
    <2>2. r.pc = "begin"
        BY DEF Core, Types, ThreadRec
    <2> HIDE DEF r
    <2>3. th'[t] = r /\ \A u \in Threads \ {t} : th'[u] = th[u]
        BY <2>1 DEF Core, Types
    <2> QED BY <2>1, <2>2, <2>3 DEF Ends, Waits
<1> QED BY <1>1, <1>2

(* m->pack is empty when the session is closed. *)
LEMMA EndAnswers ==
    ASSUME Core, AnswersInTime, NEW t \in Threads, NEW c \in Clients, NEW m \in ClientRec,
           InCall(th[t]), th[t].client = c, Ends(t, c, m),
           Answers => m.pack = None
    PROVE  AnswersInTime'
<1> SUFFICES ASSUME Answers PROVE Answers'
    BY DEF Ends, AnswersInTime
<1>1. Closes(c, m)
    BY DEF Ends
<1>2. client'[c].conn = 0 /\ client'[c].pack = None /\ \A d \in Clients \ {c} : client'[d] = client[d]
    BY <1>1, CloseFacts
<1>3. \A k \in Conns : k # client[c].conn => net'[k] = net[k]
    BY <1>1, CloseFacts
<1>4. \A u \in Threads \ {t} : Waits(th[u]) => th[u].client # c
    BY DEF Core, Calls, InCall
<1>5. \A u \in Threads : Waits(th'[u]) => u # t /\ th'[u] = th[u]
    BY DEF Ends
<1>6. Answered(c)'
    <2>1. \A u \in Threads : th'[u].pc = "woken" => th'[u].client # c
        BY <1>4, <1>5 DEF Waits
    <2> QED BY <1>2, <2>1, ConstFacts DEF Answered
<1>7. ASSUME NEW d \in Clients, d # c PROVE Answered(d)'
    <2>1. \A k \in Conns : client'[d].conn = k => client[d].conn = k /\ k # client[c].conn
        BY <1>2, <1>7, ConstFacts DEF Core, Connections
    <2>2. \A k \in Conns : RunHas(k)' => RunHas(k) /\ run'.pack = run.pack
        BY DEF Ends, RunHas
    <2>3. \A u \in Threads : \/ Waits(th[u]) /\ th[u].client = d
                             \/ Waits(th'[u]) /\ th'[u].client = d
                             => th'[u] = th[u]
        BY <1>7 DEF Ends
    <2>4. Answered(d) /\ client'[d].pack = client[d].pack
        BY <1>2, <1>7 DEF Answers
    <2> QED BY <1>3, <2>1, <2>2, <2>3, <2>4, NotConcerned
<1> QED BY <1>6, <1>7 DEF Answers

(* The call is given its answer. *)
LEMMA ReturnsAnswers ==
    ASSUME Core, AnswersInTime, NEW t \in Threads, th[t].pc = "woken", th[t].pack # None,
           NEW m \in ClientRec, m.conn = client[th[t].client].conn, m.pack = None,
           NEW past \in HistoryRec, past.raced = history.raced,
           past.foreign = (history.foreign \/ Foreign(t, th[t].pack)),
           Returns(t, m, past)
    PROVE  AnswersInTime'
<1>1. PICK c \in Clients : c = th[t].client
    BY DEF Core, Calls, CallOK
<1>2. /\ Waits(th[t]) /\ client'[c] = m /\ \A d \in Clients \ {c} : client'[d] = client[d]
      /\ th'[t] = Over(t) /\ \A u \in Threads \ {t} : th'[u] = th[u]
      /\ history' = past /\ UNCHANGED <<net, run>>
    <2>1. /\ Waits(th[t]) /\ client'[th[t].client] = m
          /\ \A d \in Clients \ {th[t].client} : client'[d] = client[d]
        BY ReturnsFacts
    <2>2. /\ th'[t] = Over(t) /\ \A u \in Threads \ {t} : th'[u] = th[u]
          /\ history' = past /\ UNCHANGED <<net, run>>
        BY ReturnsFacts
    <2> QED BY <1>1, <2>1, <2>2
<1>3. ~Waits(th'[t])
    BY <1>1, <1>2, OverFacts
<1> SUFFICES ASSUME ~history.raced PROVE ~history'.foreign /\ Answers'
    BY <1>2 DEF AnswersInTime
<1>4. Answers /\ ~history.foreign
    BY DEF AnswersInTime
<1>5. Own(th[t], th[t].pack)
    BY <1>1, <1>4 DEF Answers, Answered
<1>6. ~history'.foreign
    BY <1>2, <1>4, <1>5 DEF Own, Foreign
<1>7. \A u \in Threads \ {t} : Waits(th[u]) => th[u].client # c
    BY <1>1, <1>2 DEF Core, Calls, InCall
<1>8. Answered(c)'
    <2>1. \A n \in Conns : client[c].conn = n => ~Outstanding(n)
        BY <1>1, <1>4, <1>7 DEF Answers, Answered, AskedBy
    <2>2. \A n \in Conns : client'[c].conn = n => client[c].conn = n /\ ~Outstanding(n)'
        BY <1>1, <1>2, <2>1 DEF Outstanding, RunHas
    <2>3. \A n \in Conns : client'[c].conn = n => net'[n].asked = {} /\ net'[n].in = <<>>
        BY <2>2 DEF Outstanding
    <2>4. \A u \in Threads : th'[u].pc = "woken" => th'[u].client # c
        BY <1>2, <1>3, <1>7 DEF Waits
    <2> QED BY <1>2, <2>2, <2>3, <2>4 DEF Answered
<1>9. ASSUME NEW d \in Clients, d # c PROVE Answered(d)'
    <2>1. \A k \in Conns : RunHas(k)' => RunHas(k) /\ run'.pack = run.pack
        BY <1>2 DEF RunHas
    <2> QED BY <1>1, <1>2, <1>3, <1>4, <1>9, <2>1, NotConcerned DEF Answers
<1> QED BY <1>6, <1>8, <1>9 DEF Answers

LEMMA WokenAnswers == ASSUME Core, AnswersInTime, NEW t \in Threads, Woken(t) PROVE AnswersInTime'
<1> DEFINE w == th[t]
           m == client[w.client]
           used == Consumed(m)
           made == [used EXCEPT !.connected = TRUE, !.connect_state = "NOT_IN_PROGRESS"]
           foreign == history.foreign \/ Foreign(t, w.pack)
           seen == [history EXCEPT !.foreign = foreign]
           done == [history EXCEPT !.established = history.established \cup {m.conn}, !.foreign = foreign]
<1>1. /\ w.pc = "woken" /\ w.client \in Clients /\ Waits(w) /\ m \in ClientRec
      /\ used \in ClientRec /\ used.conn = m.conn /\ used.pack = None
      /\ made \in ClientRec /\ made.conn = m.conn /\ made.pack = None
    BY WokenCases
<1>2. \/ w.want = "CONNECT" /\ w.call = "connect" /\ (TcpComplete(t) \/ Fail(t, m))
      \/ /\ w.want = "CONNACK" /\ w.call = "connect"
         /\ \/ w.pack = None /\ Fail(t, m)
            \/ w.pack # None /\ Returns(t, made, done)
            \/ w.pack # None /\ Fail(t, used)
      \/ /\ w.want = "SUBACK" /\ w.call = "subscribe"
         /\ \/ w.pack = None /\ DisconnectBy(t, m, TRUE, TRUE, history)
            \/ w.pack # None /\ Returns(t, used, seen)
    BY WokenCases
<1>3. foreign \in BOOLEAN
    BY DEF Core, Types, HistoryRec
<1>4. w.call = "connect" => m.conn \in Conns
    BY <1>1 DEF Core, Connections, ClientRec
<1>5. PICK k \in Conns : w.call = "connect" => k = m.conn
    BY <1>4, SyncAssumption DEF Conns
<1>6. seen \in HistoryRec /\ seen.raced = history.raced /\ seen.foreign = foreign
    BY <1>3, <1>5, ForeignFacts
<1>7. w.call = "connect" => done \in HistoryRec /\ done.raced = history.raced /\ done.foreign = foreign
    BY <1>3, <1>5, ForeignFacts
<1>8. InCall(w)
    BY <1>1 DEF InCall
<1>9. Answers /\ (w.pack = None \/ w.want = "CONNECT") => m.pack = None
    BY <1>1, NotAnswered
<1> HIDE DEF used, made, seen, done
<1>10. CASE (w.pack = None \/ w.want = "CONNECT") /\ Fail(t, m)
    <2>1. Ends(t, w.client, m)
        BY <1>1, <1>10, FailEnds
    <2> QED BY <1>1, <1>8, <1>9, <1>10, <2>1, EndAnswers
<1>11. CASE Fail(t, used)
    <2>1. Ends(t, w.client, used)
        BY <1>1, <1>11, FailEnds
    <2> QED BY <1>1, <1>8, <2>1, EndAnswers
<1>12. CASE w.pack = None /\ DisconnectBy(t, m, TRUE, TRUE, history)
    <2>1. Ends(t, w.client, m)
        BY <1>1, <1>12, DisconnectByEnds
    <2> QED BY <1>1, <1>8, <1>9, <1>12, <2>1, EndAnswers
<1>13. CASE w.want = "CONNECT" /\ TcpComplete(t)
    BY <1>1, <1>13, TcpCompleteAnswers
<1>14. CASE w.call = "connect" /\ w.pack # None /\ Returns(t, made, done)
    BY <1>1, <1>7, <1>14, ReturnsAnswers
<1>15. CASE w.pack # None /\ Returns(t, used, seen)
    BY <1>1, <1>6, <1>15, ReturnsAnswers
<1> QED BY <1>2, <1>10, <1>11, <1>12, <1>13, <1>14, <1>15

(* No answer is there for a call that has asked nothing. *)
LEMMA NothingAsked ==
    ASSUME Core, NEW t \in Threads, th[t].pc \in {"begin", "awaitRun", "drain"}
    PROVE  /\ InCall(th[t]) /\ th[t].client \in Clients /\ client[th[t].client] \in ClientRec
           /\ Answers => client[th[t].client].pack = None
<1>1. InCall(th[t]) /\ th[t].client \in Clients
    BY DEF InCall, Core, Calls, CallOK
<1>2. client[th[t].client] \in ClientRec
    BY <1>1 DEF Core, Types
<1>3. \A u \in Threads : Waits(th[u]) => th[u].client # th[t].client
    BY <1>1 DEF Core, Calls, InCall, Waits
<1> QED BY <1>1, <1>2, <1>3, NobodyWaits

LEMMA DialAnswers == ASSUME Core, Known, AnswersInTime, NEW t \in Threads, Dial(t) PROVE AnswersInTime'
<1>1. /\ th[t].pc \in {"begin", "awaitRun"}
      /\ \/ Fail(t, client[th[t].client])
         \/ \E n \in Fresh : Dialled(t, n, "connecting") \/ Dialled(t, n, "up")
    BY DEF Dial
<1>2. CASE Fail(t, client[th[t].client])
    <2>1. Ends(t, th[t].client, client[th[t].client])
        BY <1>1, <1>2, NothingAsked, FailEnds
    <2> QED BY <1>1, <2>1, NothingAsked, EndAnswers
<1>3. CASE \E n \in Fresh : Dialled(t, n, "connecting") \/ Dialled(t, n, "up")
    BY <1>1, <1>3, DialledAnswers
<1> QED BY <1>1, <1>2, <1>3

LEMMA NoRunThreadAnswers ==
    ASSUME Core, AnswersInTime, NEW t \in Threads, NoRunThread(t)
    PROVE  AnswersInTime'
<1>1. th[t].pc = "awaitRun" /\ Fail(t, client[th[t].client])
    BY DEF NoRunThread
<1>2. Ends(t, th[t].client, client[th[t].client])
    BY <1>1, NothingAsked, FailEnds
<1> QED BY <1>1, <1>2, NothingAsked, EndAnswers

LEMMA DrainedAnswers == ASSUME Core, AnswersInTime, NEW t \in Threads, Drained(t) PROVE AnswersInTime'
<1>1. th[t].pc = "drain" /\ DisconnectBy(t, client[th[t].client], FALSE, TRUE, history)
    BY DEF Drained
<1>2. Ends(t, th[t].client, client[th[t].client])
    BY <1>1, NothingAsked, DisconnectByEnds
<1> QED BY <1>1, <1>2, NothingAsked, EndAnswers

LEMMA NextAnswers == ASSUME Core, Known, AnswersInTime, [Next]_vars PROVE AnswersInTime'
<1>1. DOMAIN th = Threads /\ Apps \subseteq Threads /\ Conns \subseteq Threads
    BY ConstFacts DEF Core, Types
<1>2. CASE \E t \in Apps : Connect(t) \/ Subscribe(t) \/ Disconnect(t)
    BY <1>1, <1>2, ConnectAnswers, SubscribeAnswers, DisconnectAnswers
<1>3. ASSUME NEW t \in Threads, ThreadStep(t) PROVE AnswersInTime'
    BY <1>3, ConnectAnswers, StartRunAnswers, DialAnswers, NoRunThreadAnswers, CheckAnswers,
       SemTakenAnswers, SemTimeoutAnswers, CycleHereAnswers, CycleTimeoutAnswers, WokenAnswers,
       DrainedAnswers, StoppedAnswers, LostReturnsAnswers
       DEF ThreadStep
<1>4. CASE \E n \in Conns : CallbackStep(n)
    BY <1>4, CallbackAnswers
<1>5. CASE RunStep
    BY <1>5, RunStartAnswers, CycleAnswers, RunStopsAnswers, HandleAnswers, RunLostReturnsAnswers
       DEF RunStep
<1>6. CASE \E n \in Conns : TcpDone(n) \/ Answer(n) \/ Break(n)
    BY <1>6, TcpDoneAnswers, AnswerAnswers, BreakAnswers
<1>7. CASE UNCHANGED vars
    <2>1. SameTraffic
        BY <1>7 DEF vars, SameTraffic, RunHas
    <2> QED BY <1>7, <2>1, StillWaits DEF vars
<1> QED BY <1>1, <1>2, <1>3, <1>4, <1>5, <1>6, <1>7 DEF Next

-----------------------------------------------------------------------------
(* What is read comes from a connection that was made                       *)

(* A connection that has been made stays with its client. *)
Keeps == \A n \in Conns : net[n].client # None => net'[n].client # None

LEMMA KnownFrame ==
    ASSUME Known, Keeps, run' = run \/ run'.pc # "handle"
    PROVE  Known'
BY DEF Known, Keeps, RunHas

LEMMA EndsKnown ==
    ASSUME Core, Known, NEW t \in Threads, NEW c \in Clients, NEW m \in ClientRec, Ends(t, c, m)
    PROVE  Known'
<1>1. Closes(c, m) /\ run' = run
    BY DEF Ends
<1>2. Keeps
    BY <1>1, CloseFacts DEF Keeps
<1> QED BY <1>1, <1>2, KnownFrame

LEMMA DialKnown == ASSUME Core, Known, NEW t \in Threads, Dial(t) PROVE Known'
<1>1. /\ th[t].pc \in {"begin", "awaitRun"}
      /\ \/ Fail(t, client[th[t].client])
         \/ \E n \in Fresh : Dialled(t, n, "connecting") \/ Dialled(t, n, "up")
    BY DEF Dial
<1>2. th[t].client \in Clients /\ client[th[t].client] \in ClientRec
    BY <1>1, NothingAsked
<1>3. CASE Fail(t, client[th[t].client])
    <2>1. Ends(t, th[t].client, client[th[t].client])
        BY <1>1, <1>2, <1>3, FailEnds
    <2> QED BY <1>2, <2>1, EndsKnown
<1>4. ASSUME NEW n \in Fresh, NEW tcp \in {"connecting", "up"}, Dialled(t, n, tcp) PROVE Known'
    <2>1. n \in Conns /\ net[n].client = None
        BY DEF Fresh, NoConn
    <2>2. \A k \in Conns \ {n} : net'[k] = net[k]
        BY <1>2, <1>4, <2>1, DialledFacts
    <2>3. run' = run
        BY <1>4 DEF Dialled
    <2> QED BY <2>1, <2>2, <2>3, KnownFrame DEF Keeps
<1> QED BY <1>1, <1>3, <1>4

LEMMA WokenKnown == ASSUME Core, Known, NEW t \in Threads, Woken(t) PROVE Known'
<1> DEFINE w == th[t]
           m == client[w.client]
           used == Consumed(m)
<1>1. /\ w.pc = "woken" /\ w.client \in Clients /\ m \in ClientRec
      /\ used \in ClientRec /\ used.conn = m.conn
    BY WokenCases
<1>2. \/ w.want = "CONNECT" /\ TcpComplete(t)
      \/ Fail(t, m) \/ Fail(t, used) \/ DisconnectBy(t, m, TRUE, TRUE, history)
      \/ UNCHANGED <<net, run>>
    BY DEF Woken, Returns
<1> HIDE DEF used
<1>3. CASE w.want = "CONNECT" /\ TcpComplete(t)
    <2>1. PICK n \in Conns : n = client[w.client].conn /\ net[n].client = w.client
        BY <1>1, <1>3, TcpCompleteFacts
    <2>2. net'[n].client = w.client
        BY <1>1, <1>3, <2>1, TcpCompleteFacts
    <2>3. \A k \in Conns \ {n} : net'[k] = net[k]
        BY <1>1, <1>3, <2>1, TcpCompleteFacts
    <2>4. run' = run
        BY <1>3 DEF TcpComplete
    <2> QED BY <2>1, <2>2, <2>3, <2>4, KnownFrame DEF Keeps
<1>4. CASE Fail(t, m)
    <2>1. Ends(t, w.client, m)
        BY <1>1, <1>4, FailEnds
    <2> QED BY <1>1, <2>1, EndsKnown
<1>5. CASE Fail(t, used)
    <2>1. Ends(t, w.client, used)
        BY <1>1, <1>5, FailEnds
    <2> QED BY <1>1, <2>1, EndsKnown
<1>6. CASE DisconnectBy(t, m, TRUE, TRUE, history)
    <2>1. Ends(t, w.client, m)
        BY <1>1, <1>6, DisconnectByEnds
    <2> QED BY <1>1, <2>1, EndsKnown
<1>7. CASE UNCHANGED <<net, run>>
    BY <1>7, KnownFrame DEF Keeps
<1> QED BY <1>2, <1>3, <1>4, <1>5, <1>6, <1>7

LEMMA ThreadStepKnown == ASSUME Core, Known, NEW t \in Threads, ThreadStep(t) PROVE Known'
<1>1. CASE UNCHANGED net /\ (UNCHANGED run \/ StartRun(t))
    <2>1. StartRun(t) => run'.pc # "handle"
        BY DEF StartRun, NoRun
    <2> QED BY <1>1, <2>1, KnownFrame DEF Keeps
<1>2. CASE NoRunThread(t)
    <2>1. th[t].pc = "awaitRun" /\ Fail(t, client[th[t].client])
        BY <1>2 DEF NoRunThread
    <2>2. Ends(t, th[t].client, client[th[t].client])
        BY <2>1, NothingAsked, FailEnds
    <2> QED BY <2>1, <2>2, NothingAsked, EndsKnown
<1>3. CASE Drained(t)
    <2>1. th[t].pc = "drain" /\ DisconnectBy(t, client[th[t].client], FALSE, TRUE, history)
        BY <1>3 DEF Drained
    <2>2. Ends(t, th[t].client, client[th[t].client])
        BY <2>1, NothingAsked, DisconnectByEnds
    <2> QED BY <2>1, <2>2, NothingAsked, EndsKnown
<1>4. CASE CycleHere(t)
    <2>1. run' = run /\ \E n \in Conns : Ready(n) /\ net' = AfterRead(n)
        BY <1>4 DEF CycleHere
    <2>2. Keeps
        BY <2>1, ReadFacts DEF Keeps
    <2> QED BY <2>1, <2>2, KnownFrame
<1>5. \/ UNCHANGED net /\ (UNCHANGED run \/ StartRun(t))
      \/ Dial(t) \/ NoRunThread(t) \/ Woken(t) \/ Drained(t) \/ CycleHere(t)
    BY DEF ThreadStep, Connect, StartRun, Check, SemTaken, SemTimeout, CycleTimeout, Stopped,
           LostReturns
<1> QED BY <1>1, <1>2, <1>3, <1>4, <1>5, DialKnown, WokenKnown

LEMMA RunStepKnown == ASSUME Core, Known, RunStep PROVE Known'
<1>1. CASE RunStart \/ RunStops \/ RunLostReturns
    <2>1. UNCHANGED net
        BY <1>1 DEF RunStart, RunStops, RunLostReturns
    <2>2. run'.pc # "handle"
        BY <1>1 DEF RunStart, RunStops, RunLostReturns, Exit, Again, NoRun, Core, Types, RunRec
    <2> QED BY <2>1, <2>2, KnownFrame DEF Keeps
<1>2. ASSUME NEW n \in Conns, Cycle(n) PROVE Known'
    <2>1. Ready(n) /\ net' = AfterRead(n) /\ run'.sock = n
        BY <1>2 DEF Cycle
    <2>2. net[n].client \in Clients /\ net'[n].client = net[n].client
        BY <2>1, ReadFacts
    <2> QED BY <2>1, <2>2, ConstFacts DEF Known, RunHas
<1>3. CASE Handle
    <2>1. CASE run'.pc = "cycle" /\ UNCHANGED net
        BY <2>1, KnownFrame DEF Keeps
    <2>2. ASSUME NEW c \in Clients, RunDisconnects(c) PROVE Known'
        <3>1. Closes(c, client[c]) /\ client[c] \in ClientRec /\ run' = [run EXCEPT !.pc = "lost"]
            BY <2>2 DEF RunDisconnects, Closes, Core, Types
        <3>2. run'.pc = "lost"
            BY <3>1 DEF Core, Types, RunRec
        <3>3. Keeps
            BY <3>1, CloseFacts DEF Keeps
        <3> QED BY <3>2, <3>3, KnownFrame
    <2>3. RunIgnores => run'.pc = "cycle" /\ UNCHANGED net
        BY DEF RunIgnores, Again, NoRun
    <2>4. ASSUME NEW c, NEW m, NEW past, RunPosts(c, m, past) PROVE run'.pc = "cycle" /\ UNCHANGED net
        BY <2>4 DEF RunPosts, Again, NoRun
    <2>5. RunIgnores \/ \E c \in Clients : RunDisconnects(c) \/ \E m \in ClientRec, past \in HistoryRec : RunPosts(c, m, past)
        BY <1>3, HandleCases
    <2> QED BY <2>1, <2>2, <2>3, <2>4, <2>5
<1> QED BY <1>1, <1>2, <1>3 DEF RunStep

LEMMA NetKnown ==
    ASSUME Core, Known, NEW n \in Conns, TcpDone(n) \/ Answer(n) \/ Break(n)
    PROVE  Known'
<1>1. run' = run
    BY DEF TcpDone, Answer, Break
<1>2. CASE Answer(n)
    <2>1. net'[n].client = net[n].client /\ \A k \in Conns \ {n} : net'[k] = net[k]
        BY <1>2, AnswerFacts
    <2> QED BY <1>1, <2>1, KnownFrame DEF Keeps
<1>3. CASE TcpDone(n) \/ Break(n)
    <2>1. \E tcp : net' = [net EXCEPT ![n].tcp = tcp]
        BY <1>3 DEF TcpDone, Break
    <2>2. Keeps
        BY <2>1 DEF Keeps, Core, Types, ConnRec
    <2> QED BY <1>1, <2>2, KnownFrame
<1> QED BY <1>2, <1>3

LEMMA SubscribeKnown == ASSUME Core, Known, NEW t \in Apps, Subscribe(t) PROVE Known'
<1>1. run' = run
    BY DEF Subscribe
<1>2. PICK n, l : l.client = net[n].client /\ net' = [net EXCEPT ![n] = l]
    BY SubscribeFacts
<1>3. Keeps
    BY <1>2 DEF Keeps, Core, Types
<1> QED BY <1>1, <1>3, KnownFrame

LEMMA NextKnown == ASSUME Core, Known, [Next]_vars PROVE Known'
<1>1. DOMAIN th = Threads /\ Apps \subseteq Threads
    BY ConstFacts DEF Core, Types
<1>2. CASE UNCHANGED <<net, run>>
    BY <1>2, KnownFrame DEF Keeps
<1>3. CASE \E t \in Apps : Connect(t) \/ Subscribe(t) \/ Disconnect(t)
    <2>1. \A t \in Apps : Connect(t) \/ Disconnect(t) => UNCHANGED <<net, run>>
        BY DEF Connect, Disconnect
    <2> QED BY <1>2, <1>3, <2>1, SubscribeKnown
<1>4. CASE \E t \in DOMAIN th : ThreadStep(t)
    BY <1>1, <1>4, ThreadStepKnown
<1>5. CASE \E n \in Conns : CallbackStep(n)
    BY <1>2, <1>5 DEF CallbackStep, Callback, PostSync
<1>6. CASE \E n \in Conns : TcpDone(n) \/ Answer(n) \/ Break(n)
    BY <1>6, NetKnown
<1> QED BY <1>2, <1>3, <1>4, <1>5, <1>6, RunStepKnown DEF Next, vars

(* A connect or a subscribe that succeeds was given the answer to its own    *)
(* request on its own connection, for any number of clients, threads and     *)
(* attempts: MQTTClient_waitfor takes what is in m->pack and compares neither*)
(* connection nor message id with what it waits for, and that is enough,     *)
(* because one request at a time is outstanding for a client and its call    *)
(* empties m->pack or closes the connection before the next begins.  Left out*)
(* are the instants in which an answer came too late, see AnswerIsOwn.       *)
THEOREM AnswersAreOwn == Spec => []AnswerIsOwn
<1>1. Init => IInv
    BY InitIInv
<1>2. IInv /\ [Next]_vars => IInv'
    <2>1. IInv => Core /\ Known /\ AnswersInTime
        BY DEF IInv, Core
    <2>2. Core' /\ Known' /\ AnswersInTime' => IInv'
        BY DEF IInv, Core
    <2> QED BY <2>1, <2>2, NextCore, NextKnown, NextAnswers
<1>3. IInv => AnswerIsOwn
    BY DEF IInv, AnswersInTime, AnswerIsOwn
<1> QED BY <1>1, <1>2, <1>3, PTL DEF Spec
=============================================================================
