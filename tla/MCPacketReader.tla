--------------------------- MODULE MCPacketReader ---------------------------
(***************************************************************************)
(* Small instances of PacketReader: two sockets, packets whose lengths lie *)
(* on both sides of the points where the remaining length takes one byte   *)
(* more, one that is too long, and connections that reuse a socket number. *)
(***************************************************************************)
EXTENDS PacketReader

Publish(n) == [header |-> 48, length |-> n]         \* QoS 0
PublishQoS1(n) == [header |-> 50, length |-> n]
Pingresp == [header |-> 208, length |-> 0]

(* One busy connection beside another, in any pieces.                        *)
Busy ==
    [streams |-> (3 :> <<<<Pingresp, Pingresp, Pingresp>>>> @@ 4 :> <<<<PublishQoS1(130)>>>>),
     ends |-> FALSE, closes |-> TRUE]

(* Every length at which the encoding grows.                                 *)
Lengths ==
    {[streams |-> (3 :> <<<<Publish(n), Publish(n + 1)>>>> @@ 4 :> <<>>),
      ends |-> TRUE, closes |-> TRUE] : n \in {0, 127, 16383, 2097151, MaxRemainingLength}}

(* Connections that end anywhere, their numbers used again.                  *)
Reused ==
    [streams |-> (3 :> <<<<Publish(2)>>, <<PublishQoS1(1)>>>> @@ 4 :> <<<<PublishQoS1(1)>>>>),
     ends |-> TRUE, closes |-> TRUE]

(* A thread that looks only after its own socket, and one that ends.         *)
Ignored ==
    [streams |-> (3 :> <<<<Publish(2)>>>> @@ 4 :> <<>>), ends |-> TRUE, closes |-> FALSE]

ReaderScenarios == Lengths \cup {Busy, Reused, Ignored}

(* A thread of MQTTClient that does not close the socket of another client.  *)
ReuseScenarios == {[Reused EXCEPT !.closes = FALSE]}
=============================================================================
