----------------------------- MODULE AsyncQueue -----------------------------
(***************************************************************************)
(* The list of commands of MQTTAsync (MQTTAsync_commands), as operators on *)
(* a sequence: how MQTTAsync_addCommand puts a command in, which command   *)
(* MQTTAsync_processCommand takes out, and how a restart rebuilds the list *)
(* from the commands in the store.  All clients of a process share one     *)
(* list.                                                                   *)
(***************************************************************************)
EXTENDS Integers, Sequences, FiniteSets, SequencesExt

IsData(cmd) == cmd.type \in {"PUBLISH", "SUBSCRIBE"}    \* SUBSCRIBE, UNSUBSCRIBE

(* Commands that go to the head of the list: CONNECT and the DISCONNECT the *)
(* library queues itself.  A DISCONNECT of the application goes to the tail.*)
GoesToHead(cmd) == cmd.type = "CONNECT" \/ (cmd.type = "DISCONNECT" /\ cmd.internal)

(* The search for a CONNECT or DISCONNECT of the client.  It starts from the *)
(* first element and follows prev, which is NULL there: only the first       *)
(* element is ever looked at.                                                *)
Duplicate(q, cmd) ==
    /\ Len(q) > 0
    /\ q[1].type \in {"CONNECT", "DISCONNECT"}
    /\ q[1].client = cmd.client

Publishes(q, c) == {i \in DOMAIN q : q[i].client = c /\ q[i].type = "PUBLISH"}

OldestPublish(q, c) ==
    LET P == Publishes(q, c) IN CHOOSE i \in P : \A j \in P : i <= j

(* What may be taken: for each client only its first command, if it is not   *)
(* blocked; a blocked command puts the client on the list of ignored clients.*)
Takeable(q, blocked) ==
    {i \in DOMAIN q : i \notin blocked /\ \A j \in 1 .. i - 1 : q[j].client # q[i].client}

(* The list without some of its elements: what is left at the indices I. *)
Remaining(q, I) ==
    {[k \in DOMAIN f |-> q[f[k]]] :
        f \in {g \in [1 .. Cardinality(I) -> I] : \A k, l \in DOMAIN g : k < l => g[k] < g[l]}}

(* MQTTAsync_restoreCommands: the records of a client sorted by the sequence *)
(* number in their keys, one client after the other.  A slip reads them from *)
(* the last to the first.                                                    *)
RestoredBeforeReversed(x, y, order) ==
    order[x.client] < order[y.client] \/ (x.client = y.client /\ x.key > y.key)
RestoredBefore(x, y, order) ==
    order[x.client] < order[y.client] \/ (x.client = y.client /\ x.key < y.key)
Restored(records, order) ==
    {q \in [1 .. Cardinality(records) -> records] :
        \A k, l \in DOMAIN q : k < l => RestoredBefore(q[k], q[l], order)}
=============================================================================
