----------------------------- MODULE MCSession -----------------------------
(***************************************************************************)
(* Small instances of Session.  A scenario says which client and which     *)
(* messages are considered and how often the environment may interfere.    *)
(***************************************************************************)
EXTENDS Session

CONSTANTS m1, m2, m3, m4, m5, m6

(* MQTTClient, MQTT 3, session kept, all its messages, nothing goes wrong. *)
Quiet ==
    [v5 |-> FALSE, clean |-> FALSE, async |-> FALSE, retryOn |-> FALSE, inside |-> FALSE,
     start |-> 0, msgs |-> Msgs,
     budget |-> [loss |-> 0, crash |-> 0, partial |-> 0, drop |-> 0, retry |-> 0,
                forget |-> 0]]

(* Messages to the server: killed anywhere with ids that wrap, sent          *)
(* again on a timer, and behind a partial write.                             *)
OutScenarios ==
    {[Quiet EXCEPT !.v5 = TRUE, !.inside = TRUE, !.start = 6, !.budget.loss = 2,
                   !.budget.crash = 1],
     [Quiet EXCEPT !.retryOn = TRUE, !.msgs = {m1, m2}, !.budget.loss = 1,
                   !.budget.crash = 1, !.budget.retry = 2],
     [Quiet EXCEPT !.budget.partial = 2, !.budget.drop = 1, !.budget.retry = 1]}

(* Both directions with one fault of each kind; kills inside handlers; a     *)
(* clean session; a server that loses the session.                           *)
FaultScenarios ==
    {[Quiet EXCEPT !.msgs = {m1, m2, m4, m5}, !.budget.loss = 1, !.budget.crash = 1,
                   !.budget.partial = 1, !.budget.retry = 1]}
    \cup {[Quiet EXCEPT !.v5 = v, !.inside = TRUE, !.msgs = {m4, m5, m6}, !.budget.loss = 1,
                        !.budget.crash = 2] : v \in BOOLEAN}
    \cup {[Quiet EXCEPT !.v5 = TRUE, !.clean = TRUE, !.async = x, !.msgs = {m1, m2, m5, m6},
                        !.budget.loss = 1, !.budget.crash = 1] : x \in BOOLEAN}
    \cup {[Quiet EXCEPT !.v5 = TRUE, !.async = TRUE, !.msgs = {m1, m5, m6}, !.budget.loss = 1,
                        !.budget.crash = 1, !.budget.forget = 1]}

(* Two partial writes and two losses. *)
QueueScenarios == {[Quiet EXCEPT !.budget.loss = 2, !.budget.partial = 2, !.budget.drop = 1]}

(* What must still happen in the end; with two partial writes the second may *)
(* be one that drops queued acknowledgements.                                *)
LiveScenarios ==
    {[Quiet EXCEPT !.msgs = {m1, m2, m5}, !.budget.loss = 1, !.budget.crash = 1],
     [Quiet EXCEPT !.msgs = {m1, m2, m4, m5}, !.budget.partial = 1]}
    \cup {[Quiet EXCEPT !.msgs = {m1, m4, m5}, !.budget.partial = 2, !.budget.drop = x]
             : x \in 0 .. 1}
    \cup {[Quiet EXCEPT !.v5 = v, !.msgs = {m4, m5, m6}, !.budget.loss = 2,
                        !.budget.crash = 2] : v \in BOOLEAN}

(* The scenarios in which both directions are to implement Delivery. *)
DeliveryScenarios == OutScenarios \cup LiveScenarios
=============================================================================
