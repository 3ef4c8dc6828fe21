------------------------------ MODULE Delivery ------------------------------
(***************************************************************************)
(* What the QoS levels promise for messages sent in one direction, with    *)
(* nothing said of packets, ids, connections or storage.  The sender takes *)
(* charge of a message, the receiver takes it, and the sender learns that  *)
(* it did, or is told that it is not wanted.                               *)
(***************************************************************************)
EXTENDS Naturals

CONSTANTS
    AtLeastOnce,    \* QoS 1 messages
    ExactlyOnce     \* QoS 2 messages

VARIABLES
    accepted,       \* messages the sender has taken charge of
    got,            \* how often the receiver has taken each (up to 2)
    finished,       \* messages the sender knows to be taken
    refused         \* messages the sender knows to be refused

vars == <<accepted, got, finished, refused>>

Messages == AtLeastOnce \cup ExactlyOnce

Init ==
    /\ accepted = {}
    /\ got = [m \in Messages |-> 0]
    /\ finished = {}
    /\ refused = {}

Accept(m) ==
    /\ m \notin accepted
    /\ accepted' = accepted \cup {m}
    /\ UNCHANGED <<got, finished, refused>>

(* A QoS 2 message is taken once, and never after its exchange is over. *)
Take(m) ==
    /\ m \in accepted
    /\ m \in ExactlyOnce => got[m] = 0 /\ m \notin finished
    /\ got' = [got EXCEPT ![m] = IF @ < 2 THEN @ + 1 ELSE 2]
    /\ UNCHANGED <<accepted, finished, refused>>

Finish(m) ==
    /\ m \in accepted \ refused
    /\ got[m] > 0
    /\ finished' = finished \cup {m}
    /\ UNCHANGED <<accepted, got, refused>>

Refuse(m) ==
    /\ m \in accepted \ finished
    /\ refused' = refused \cup {m}
    /\ UNCHANGED <<accepted, got, finished>>

Next == \E m \in Messages : Accept(m) \/ Take(m) \/ Finish(m) \/ Refuse(m)

Spec == Init /\ [][Next]_vars
=============================================================================
