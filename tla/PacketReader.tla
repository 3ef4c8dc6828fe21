---------------------------- MODULE PacketReader ----------------------------
(***************************************************************************)
(* Reading packets from non-blocking sockets.  One thread at a time asks   *)
(* Socket_getReadySocket for a socket and lets MQTTPacket_Factory read one *)
(* packet from it.  A packet may arrive in pieces: what has been read of it*)
(* is kept in a queue of SocketBuffer.c and the next call of               *)
(* MQTTPacket_Factory for the socket starts again at the first byte, with  *)
(* the kept bytes first.  All sockets of a process share these queues, and *)
(* the number of a closed socket is given to a later connection.           *)
(*                                                                         *)
(* A connection's incoming bytes are those of a given sequence of packets. *)
(* The body of a packet is not written out: a piece of it in a buffer is   *)
(* the place in the stream it was received from and its length, so bodies  *)
(* have their real lengths and the remaining length its real encoding.     *)
(***************************************************************************)
EXTENDS Integers, Sequences, FiniteSets, SequencesExt

CONSTANTS Sockets,      \* socket numbers, positive: 0 stands for no socket
          Scenarios     \* records [streams, ends, closes], see Init

ASSUME SocketsAssumption == Sockets \subseteq Nat \ {0} /\ IsFiniteSet(Sockets)

VARIABLES
    scenario,   \* the chosen scenario
    conn,       \* for each socket number its connection: how many there have been,
                \* the bytes arrived and received, whether the peer has ended it
    fds,        \* mod_s.fds_read: the open sockets
    saved,      \* mod_s.saved: the sockets of the last poll and whether they were ready
    cur_fd,     \* mod_s.saved.cur_fd, counted from 1; 0 for -1
    queues,     \* SocketBuffer's queues, by socket
    def_queue,  \* the default queue, its socket 0 or the one whose header it holds
    call,       \* the reading thread: where it is in MQTTPacket_Factory, its locals
    out,        \* for each socket the packets returned on the present connection
    waited      \* history: how often another socket was chosen since one became ready

vars == <<scenario, conn, fds, saved, cur_fd, queues, def_queue, call, out, waited>>

-----------------------------------------------------------------------------
(* The stream of a connection.                                             *)

MAX_NO_OF_REMAINING_LENGTH_BYTES == 4

MaxRemainingLength == 128 * 128 * 128 * 128 - 1

(* MQTTPacket_encode: seven bits at a time, the low ones first, the top bit *)
(* set on all but the last.                                                 *)
Encode[length \in Nat] ==
    IF length < 128 THEN <<length>>
    ELSE <<128 + (length % 128)>> \o Encode[length \div 128]

Packets(s) == scenario.streams[s][conn[s].count]

HeaderOf(packet) == <<packet.header>> \o Encode[packet.length]

SizeOf(packet) == Len(HeaderOf(packet)) + packet.length

(* The bytes before the k-th packet of a sequence of packets.               *)
Start(packets, k) ==
    LET before[i \in 1 .. Len(packets) + 1] ==
            IF i = 1 THEN 0 ELSE before[i - 1] + SizeOf(packets[i - 1])
    IN  before[k]

BodyStart(packets, k) == Start(packets, k) + Len(HeaderOf(packets[k]))

(* The byte at position p, counted from 0; the bytes of a body are 0.       *)
ByteAt(packets, p) ==
    LET k == CHOOSE i \in DOMAIN packets :
                 p >= Start(packets, i) /\ p < Start(packets, i + 1)
        offset == p - Start(packets, k)
    IN  IF offset < Len(HeaderOf(packets[k])) THEN HeaderOf(packets[k])[offset + 1] ELSE 0

(* Where a piece of the stream may end: anywhere in a packet's header, and   *)
(* after the first, before the last and after the last byte of its body.     *)
Cuts(packets) ==
    UNION {Start(packets, k) + 1 .. BodyStart(packets, k) + 1
           \cup {Start(packets, k + 1) - 1, Start(packets, k + 1)} : k \in DOMAIN packets}
    \cap 1 .. Start(packets, Len(packets) + 1)

Boundaries(packets) == {Start(packets, k) : k \in 1 .. Len(packets) + 1}

-----------------------------------------------------------------------------
(* SocketBuffer.c.  Pieces of a body are [sock, count, from, n].            *)

EmptyQueue == [socket |-> 0, index |-> 0, header |-> <<>>, data |-> <<>>]

Datalen(data) ==
    LET upTo[i \in 0 .. Len(data)] == IF i = 0 THEN 0 ELSE upTo[i - 1] + data[i].n
    IN  upTo[Len(data)]

(* Bytes received behind those in the buffer.                                *)
Received(data, piece) ==
    IF data = <<>> THEN <<piece>>
    ELSE LET last == data[Len(data)]
         IN  IF /\ last.sock = piece.sock
                /\ last.count = piece.count
                /\ last.from + last.n = piece.from
             THEN [data EXCEPT ![Len(data)].n = @ + piece.n]
             ELSE Append(data, piece)

Buffers == [queues |-> queues, def |-> def_queue]

QueueOf(b, s) == IF s \in DOMAIN b.queues THEN b.queues[s] ELSE b.def

Without(q, s) == [t \in DOMAIN q \ {s} |-> q[t]]

(* SocketBuffer_interrupted: the default queue becomes the socket's, with    *)
(* the header it holds, and a new default queue is made.  A slip starts the  *)
(* next read behind the header instead of at its first byte.                 *)
InterruptedAtEnd(b, s, data) ==
    LET q == [QueueOf(b, s) EXCEPT !.socket = s, !.data = data]
    IN  [queues |-> [t \in DOMAIN b.queues \cup {s} |-> IF t = s THEN q ELSE b.queues[t]],
         def |-> IF s \in DOMAIN b.queues THEN b.def ELSE EmptyQueue]
Interrupted(b, s, data) ==
    LET q == [QueueOf(b, s) EXCEPT !.socket = s, !.index = 0, !.data = data]
    IN  [queues |-> [t \in DOMAIN b.queues \cup {s} |-> IF t = s THEN q ELSE b.queues[t]],
         def |-> IF s \in DOMAIN b.queues THEN b.def ELSE EmptyQueue]

(* SocketBuffer_complete: the socket's queue, emptied, is the default queue. *)
Complete(b, s) == [queues |-> Without(b.queues, s), def |-> EmptyQueue]

(* SocketBuffer_queueChar: a byte of a header is kept, in the socket's queue *)
(* or in the default queue, unless that holds the header of another socket.  *)
QueueChar(b, s, c) ==
    LET kept(q) == [q EXCEPT !.index = @ + 1, !.header = Append(SubSeq(@, 1, q.index), c)]
    IN  IF QueueOf(b, s).index > MAX_NO_OF_REMAINING_LENGTH_BYTES THEN b
        ELSE IF s \in DOMAIN b.queues THEN [b EXCEPT !.queues[s] = kept(@)]
        ELSE IF b.def.socket = 0 THEN [b EXCEPT !.def = kept([@ EXCEPT !.socket = s, !.index = 0])]
        ELSE IF b.def.socket = s THEN [b EXCEPT !.def = kept(@)]
        ELSE b                  \* "attempt to reuse socket queue"

(* SocketBuffer_cleanup.  A slip leaves the default queue.                   *)
CleanupKeepsDefault(b, s) == [b EXCEPT !.queues = Without(@, s)]
Cleanup(b, s) ==
    [queues |-> Without(b.queues, s),
     def |-> IF b.def.socket = s THEN EmptyQueue ELSE b.def]

-----------------------------------------------------------------------------
(* Socket_getch: a byte kept from an interrupted read, else one from the     *)
(* socket.  recv returns 0 when the peer has ended the connection and all    *)
(* its bytes have been received.                                             *)

Available(s) == conn[s].arrived - conn[s].read

Getch(s) ==
    LET queued == s \in DOMAIN queues
        result(rc, c, b, n) == [rc |-> rc, c |-> c, buffers |-> b, received |-> n]
    IN  IF queued /\ queues[s].index < Len(queues[s].header)
        THEN result("complete", queues[s].header[queues[s].index + 1],
                    [Buffers EXCEPT !.queues[s].index = @ + 1], 0)
        ELSE IF queued /\ queues[s].index > MAX_NO_OF_REMAINING_LENGTH_BYTES
        THEN result("error", 0, Buffers, 0)
        ELSE IF Available(s) > 0
        THEN LET c == ByteAt(Packets(s), conn[s].read)
             IN  result("complete", c, QueueChar(Buffers, s, c), 1)
        ELSE IF conn[s].ended THEN result("error", 0, Buffers, 0)
        ELSE result("interrupted", 0, Interrupted(Buffers, s, <<>>), 0)

(* The bytes kept of an interrupted body.                                    *)
Kept(s) == IF s \in DOMAIN queues THEN queues[s].data ELSE <<>>

-----------------------------------------------------------------------------
Idle == [stage |-> "idle", sock |-> 0, header |-> 0, value |-> 0, multiplier |-> 1, len |-> 0]

Closed == [count |-> 0, arrived |-> 0, read |-> 0, ended |-> FALSE]

(* A scenario gives for each socket number the streams of its successive     *)
(* connections (streams), whether a peer may end a connection inside a       *)
(* packet (ends), and whether the thread that meets an error closes the      *)
(* socket before it reads again (closes): MQTTAsync_receiveThread,           *)
(* MQTTClient_run for a connected client and MQTTClient_yield do;            *)
(* MQTTClient_receive and MQTTClient_waitfor do not for the socket of another*)
(* client.                                                                   *)
Init ==
    /\ scenario \in Scenarios
    /\ conn = [s \in Sockets |-> Closed]
    /\ fds = {}
    /\ saved = <<>>
    /\ cur_fd = 0
    /\ queues = <<>>
    /\ def_queue = EmptyQueue
    /\ call = Idle
    /\ out = [s \in Sockets |-> <<>>]
    /\ waited = [s \in Sockets |-> 0]

(* Socket_addSocket for a new connection, which takes a free number.         *)
Open(s) ==
    /\ s \notin fds
    /\ conn[s].count < Len(scenario.streams[s])
    /\ fds' = fds \cup {s}
    /\ conn' = [conn EXCEPT ![s] = [Closed EXCEPT !.count = conn[s].count + 1]]
    /\ out' = [out EXCEPT ![s] = <<>>]
    /\ waited' = [waited EXCEPT ![s] = 0]
    /\ UNCHANGED <<scenario, saved, cur_fd, queues, def_queue, call>>

(* The network: the next piece of a stream, and the end of a connection.     *)
Arrive(s) ==
    /\ s \in fds
    /\ ~conn[s].ended
    /\ \E p \in Cuts(Packets(s)) :
          /\ p > conn[s].arrived
          /\ conn' = [conn EXCEPT ![s].arrived = p]
    /\ UNCHANGED <<scenario, fds, saved, cur_fd, queues, def_queue, call, out, waited>>

PeerEnds(s) ==
    /\ s \in fds
    /\ ~conn[s].ended
    /\ scenario.ends \/ conn[s].arrived \in Boundaries(Packets(s))
    /\ conn' = [conn EXCEPT ![s].ended = TRUE]
    /\ UNCHANGED <<scenario, fds, saved, cur_fd, queues, def_queue, call, out, waited>>

-----------------------------------------------------------------------------
(* Socket_getReadySocket.                                                    *)

Ready(s) == s \in fds /\ (Available(s) > 0 \/ conn[s].ended)

(* The ready sockets of the last poll from cur_fd on.                        *)
LeftOf(polled, from) == {i \in DOMAIN polled : from # 0 /\ i >= from /\ polled[i].ready}

(* The place behind the one returned; -1 behind the last.  One slip begins at*)
(* the first place with every call, another goes past the end.               *)
AfterAlwaysFirst(polled, i) == 0
AfterPastEnd(polled, i) == i + 1
After(polled, i) == IF i = Len(polled) THEN 0 ELSE i + 1

(* Return the first of the candidates.                                       *)
Return(polled, candidates) ==
    LET i == CHOOSE j \in candidates : \A k \in candidates : j <= k
        s == polled[i].sock
    IN  /\ saved' = polled
        /\ cur_fd' = After(polled, i)
        /\ waited' = [t \in Sockets |-> IF t = s \/ ~Ready(t) THEN 0 ELSE waited[t] + 1]
        /\ call' = IF s \in fds THEN [Idle EXCEPT !.stage = "header", !.sock = s] ELSE Idle

NextReady ==
    /\ call.stage = "idle"
    /\ LeftOf(saved, cur_fd) # {}
    /\ Return(saved, LeftOf(saved, cur_fd))
    /\ UNCHANGED <<scenario, conn, fds, queues, def_queue, out>>

(* None is left: the open sockets, ordered by number, are polled again.      *)
Sorted(polled) == \A i, j \in DOMAIN polled : i < j => polled[i].sock < polled[j].sock

Poll ==
    \E polled \in [1 .. Cardinality(fds) -> {[sock |-> s, ready |-> Ready(s)] : s \in fds}] :
        /\ Sorted(polled)
        /\ call.stage = "idle"
        /\ LeftOf(saved, cur_fd) = {}
        /\ LeftOf(polled, 1) # {}
        /\ Return(polled, LeftOf(polled, 1))
        /\ UNCHANGED <<scenario, conn, fds, queues, def_queue, out>>

-----------------------------------------------------------------------------
(* MQTTPacket_Factory and MQTTPacket_decode.  The mutex of the API is held   *)
(* from the first byte to the return.                                        *)

Became(b) == queues' = b.queues /\ def_queue' = b.def

(* What a getch that gave no byte makes of the call: an error is handled by  *)
(* the caller, an interrupted read is tried again when the socket is ready.  *)
GivenUp(rc) == IF rc = "error" THEN [call EXCEPT !.stage = "failed"] ELSE Idle

GetNext(s, complete(_)) ==
    LET g == Getch(s)
    IN  /\ conn' = [conn EXCEPT ![s].read = @ + g.received]
        /\ Became(g.buffers)
        /\ call' = IF g.rc = "complete" THEN complete(g.c) ELSE GivenUp(g.rc)
        /\ UNCHANGED <<scenario, fds, saved, cur_fd, out, waited>>

ReadHeader ==
    /\ call.stage = "header"
    /\ GetNext(call.sock, LAMBDA c : [call EXCEPT !.stage = "length", !.header = c])

(* One turn of the loop of MQTTPacket_decode.                                *)
TooLong(len) == len > MAX_NO_OF_REMAINING_LENGTH_BYTES

Digit(c) ==
    [call EXCEPT !.len = @ + 1, !.value = @ + (c % 128) * call.multiplier,
                 !.multiplier = @ * 128, !.stage = IF c >= 128 THEN "length" ELSE "data"]

ReadLength ==
    /\ call.stage = "length"
    /\ ~TooLong(call.len + 1)
    /\ GetNext(call.sock, Digit)

BadLength ==
    /\ call.stage = "length"
    /\ TooLong(call.len + 1)
    /\ call' = [call EXCEPT !.stage = "failed"]
    /\ UNCHANGED <<scenario, conn, fds, saved, cur_fd, queues, def_queue, out, waited>>

(* Socket_getdata: the rest of the body, as far as it has arrived.           *)
Returned(s, body) ==
    /\ out' = [out EXCEPT ![s] =
                 Append(@, [header |-> call.header, length |-> call.value, body |-> body])]
    /\ Became(Complete(Buffers, s))
    /\ call' = Idle

ReadData ==
    LET s == call.sock
        wanted == IF call.value = 0 THEN 0 ELSE call.value - Datalen(Kept(s))
        n == IF Available(s) < wanted THEN Available(s) ELSE wanted
        body == IF n = 0 THEN Kept(s)
                ELSE Received(Kept(s), [sock |-> s, count |-> conn[s].count,
                                        from |-> conn[s].read, n |-> n])
    IN  /\ call.stage = "data"
        /\ conn' = [conn EXCEPT ![s].read = @ + n]
        /\ \/ /\ n = wanted
              /\ Returned(s, body)
           \/ /\ n < wanted
              /\ n > 0 \/ ~conn[s].ended
              /\ Became(Interrupted(Buffers, s, body))
              /\ call' = Idle
              /\ UNCHANGED out
           \/ /\ n < wanted
              /\ n = 0 /\ conn[s].ended
              /\ call' = [call EXCEPT !.stage = "failed"]
              /\ UNCHANGED <<queues, def_queue, out>>
        /\ UNCHANGED <<scenario, fds, saved, cur_fd, waited>>

-----------------------------------------------------------------------------
(* Socket_close: by the thread that met an error, and by the application,    *)
(* which has to wait while a packet is being read.                           *)
Close(s) ==
    /\ fds' = fds \ {s}
    /\ Became(Cleanup(Buffers, s))
    /\ UNCHANGED <<scenario, conn, saved, cur_fd, out, waited>>

CloseFailed ==
    /\ call.stage = "failed"
    /\ scenario.closes
    /\ IF call.sock \in fds THEN Close(call.sock)
       ELSE UNCHANGED <<scenario, conn, fds, saved, cur_fd, queues, def_queue, out, waited>>
    /\ call' = Idle

IgnoreFailed ==
    /\ call.stage = "failed"
    /\ ~scenario.closes
    /\ call' = Idle
    /\ UNCHANGED <<scenario, conn, fds, saved, cur_fd, queues, def_queue, out, waited>>

Disconnect(s) ==
    /\ call.stage \in {"idle", "failed"}
    /\ s \in fds
    /\ Close(s)
    /\ UNCHANGED call

-----------------------------------------------------------------------------
Reader == NextReady \/ Poll \/ ReadHeader \/ ReadLength \/ BadLength \/ ReadData
          \/ CloseFailed \/ IgnoreFailed

Next ==
    \/ Reader
    \/ \E s \in Sockets : Open(s) \/ Arrive(s) \/ PeerEnds(s) \/ Disconnect(s)

Spec == Init /\ [][Next]_vars

(* The reading thread keeps running; nothing is assumed of the rest.         *)
FairSpec == Spec /\ WF_vars(Reader)
-----------------------------------------------------------------------------
(* Properties.                                                               *)

Queue == [socket : Sockets \cup {0}, index : 0 .. 5, header : Seq(0 .. 255),
          data : Seq([sock : Sockets, count : Nat, from : Nat, n : Nat \ {0}])]

(* The values the variables may have; a fixed header has room for five bytes *)
(* (socket_queue, SocketBuffer.h).                                           *)
TypeOK ==
    /\ scenario \in Scenarios
    /\ fds \subseteq Sockets
    /\ \A s \in Sockets : /\ conn[s].count \in 0 .. Len(scenario.streams[s])
                          /\ conn[s].read \in 0 .. conn[s].arrived
                          /\ conn[s].ended \in BOOLEAN
    /\ \A i \in DOMAIN saved : saved[i].sock \in Sockets /\ saved[i].ready \in BOOLEAN
    /\ cur_fd \in 0 .. Len(saved)
    /\ DOMAIN queues \subseteq fds
    /\ \A s \in DOMAIN queues : queues[s] \in Queue /\ queues[s].socket = s
    /\ def_queue \in Queue
    /\ \A q \in {queues[s] : s \in DOMAIN queues} \cup {def_queue} :
          q.index <= Len(q.header) /\ Len(q.header) <= 1 + MAX_NO_OF_REMAINING_LENGTH_BYTES
    /\ call.stage \in {"idle", "header", "length", "data", "failed"}
    /\ call.len \in 0 .. MAX_NO_OF_REMAINING_LENGTH_BYTES

(* The packets MQTTPacket_Factory returns for a connection are the packets   *)
(* that were sent on it, in their order, each with its own header, its length*)
(* and its own body in full, however the bytes of all connections arrived and*)
(* whatever was read of an earlier connection with the same socket number.   *)
PacketsIntact ==
    \A s \in {t \in Sockets : conn[t].count > 0} : \A k \in DOMAIN out[s] :
        /\ k \in DOMAIN Packets(s)
        /\ LET packet == Packets(s)[k]
           IN  out[s][k] =
                 [header |-> packet.header, length |-> packet.length,
                  body |-> IF packet.length = 0 THEN <<>>
                           ELSE <<[sock |-> s, count |-> conn[s].count,
                                   from |-> BodyStart(Packets(s), k), n |-> packet.length]>>]

(* Socket_getReadySocket goes round the sockets: while one is ready, any     *)
(* other one is chosen at most twice, once from a poll that was too early to *)
(* see it and once from the next, however busy the others are.               *)
ServedInTurn == \A s \in Sockets : waited[s] <= 2 * (Cardinality(Sockets) - 1)

(* The bytes kept for a socket are the first bytes of the packet being read  *)
(* from it.                                                                  *)
QueuedIsOwn ==
    \A s \in DOMAIN queues :
        \E k \in {Len(out[s]) + 1} \cap DOMAIN Packets(s) :
            IsPrefix(queues[s].header, HeaderOf(Packets(s)[k]))

(* A packet that has arrived in full waits to be returned.                   *)
Waiting(s) ==
    LET k == Len(out[s]) + 1
    IN  /\ s \in fds
        /\ k \in DOMAIN Packets(s)
        /\ Packets(s)[k].length <= MaxRemainingLength
        /\ conn[s].arrived >= Start(Packets(s), k + 1)

(* No packet waits for ever, unless its length is one the protocol does not  *)
(* allow: it is returned or its connection is closed.  Pieces that stop      *)
(* anywhere and other connections that are busy or fail do not keep the      *)
(* reading thread from it.                                                   *)
PacketsComeThrough == []<>(\A s \in Sockets : ~Waiting(s))
=============================================================================
