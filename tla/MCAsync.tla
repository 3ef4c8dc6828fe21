------------------------------ MODULE MCAsync ------------------------------
(***************************************************************************)
(* Small instances of Async.  A scenario says which requests are made, how *)
(* the client is set up and how often the environment interferes.          *)
(***************************************************************************)
EXTENDS Async

CONSTANTS a, b, t1, t2, p0, p1, p2, s1, c1, c2, d1

(* One client, one thread, session kept and persistent, nothing goes wrong. *)
Plain ==
    [clients |-> {a}, threads |-> {t1}, reqs |-> {c1, p1, p2},
     budget |-> [loss |-> 0, partial |-> 0, kill |-> 0, tear |-> 0, fail |-> 0, dial |-> 0,
                 resend |-> 0, timeout |-> 0],
     clean |-> FALSE, default |-> FALSE, auto |-> FALSE, uris |-> 0,
     maxBuffered |-> 0, deleteOldest |-> FALSE, offline |-> FALSE,
     maxInflight |-> 2, persistence |-> TRUE, persistQoS0 |-> TRUE]

(* Losses, partial writes, failing writes and refusals: who answers a request. *)
Answering ==
    {[Plain EXCEPT !.reqs = {c1, c2, p0, p1, s1}, !.clean = x, !.budget.loss = 1,
                   !.budget.partial = 2] : x \in BOOLEAN}
    \cup {[Plain EXCEPT !.reqs = {c1, p0, p1, s1, d1}, !.clean = TRUE, !.budget.loss = 1,
                        !.budget.fail = 1, !.budget.timeout = 1]}

(* Messages buffered with and without a connection, through a kill or destroy. *)
Buffering ==
    {[Plain EXCEPT !.reqs = {c1, c2, p0, p1, p2}, !.offline = TRUE, !.maxBuffered = 1,
                   !.deleteOldest = x, !.maxInflight = 1, !.budget.kill = 1,
                   !.budget.loss = 1] : x \in BOOLEAN}
    \cup {[Plain EXCEPT !.reqs = {c1, c2, p1, p2, s1}, !.budget.kill = 2, !.persistence = x]
             : x \in BOOLEAN}

(* Killed while a message makes room for another one; QoS 0 not stored. *)
Tearing ==
    {[Plain EXCEPT !.reqs = {c1, p0, p1, p2}, !.offline = TRUE, !.maxBuffered = 1,
                   !.deleteOldest = TRUE, !.persistQoS0 = x, !.budget.kill = 1,
                   !.budget.tear = 2] : x \in BOOLEAN}

(* Messages in flight whose resend fails, with one URI or two. *)
Resending ==
    {[Plain EXCEPT !.reqs = {c1, c2, p1}, !.uris = u, !.default = x, !.auto = y,
                   !.budget.loss = 1, !.budget.resend = 2]
        : u \in {0, 2}, x \in BOOLEAN, y \in BOOLEAN}

(* Two threads of the application; two clients. *)
Sharing ==
    {[Plain EXCEPT !.reqs = {c1, p1, p2, s1}, !.threads = {t1, t2}, !.clean = TRUE,
                   !.maxBuffered = 1, !.budget.loss = 1],
     [Plain EXCEPT !.reqs = {c1, c2, p1, p2}, !.clients = {a, b}, !.budget.loss = 1,
                   !.budget.kill = 1]}

(* Connects with a list of URIs and two versions, everything going wrong once. *)
Connecting ==
    {[Plain EXCEPT !.reqs = {c1, c2, d1}, !.uris = u, !.default = x, !.auto = y, !.clean = TRUE,
                   !.budget.loss = 1, !.budget.fail = 1, !.budget.dial = 1, !.budget.timeout = 1]
        : u \in {0, 2}, x \in BOOLEAN, y \in BOOLEAN}

(* A server that may never answer. *)
Silence ==
    {[Plain EXCEPT !.reqs = {c1, c2, d1}, !.uris = 2, !.default = x, !.auto = y,
                   !.budget.loss = 1, !.budget.timeout = Unlimited]
        : x \in BOOLEAN, y \in BOOLEAN}

(* A publication while connections are lost and attempts fail. *)
Reconnecting ==
    {[Plain EXCEPT !.reqs = {c1, p0, p1}, !.auto = TRUE, !.uris = 2, !.clean = x,
                   !.budget.loss = 2, !.budget.partial = 1, !.budget.fail = 1,
                   !.budget.resend = 1]
        : x \in BOOLEAN}

SafetyScenarios == Answering \cup Buffering \cup Tearing \cup Sharing \cup Connecting \cup Resending
LiveScenarios == Silence \cup Reconnecting
=============================================================================
