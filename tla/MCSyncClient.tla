---------------------------- MODULE MCSyncClient ----------------------------
(***************************************************************************)
(* Small instances of SyncClient.                                          *)
(***************************************************************************)
EXTENDS SyncClient

CONSTANTS a, b, t1, t2

Each(x, y) == [t \in Apps |-> IF t = t1 THEN x ELSE y]

(* One client, one thread; with and without a choice of versions.            *)
Single ==
    {[owner |-> Each(a, None), calls |-> Each(4, 0), version |-> 4, breaks |-> 1, reconnects |-> FALSE],
     [owner |-> Each(a, None), calls |-> Each(2, 0), version |-> 0, breaks |-> 1, reconnects |-> FALSE]}

(* connectionLost calls connect.                                             *)
Reconnects ==
    {[owner |-> Each(a, None), calls |-> Each(2, 0), version |-> 4, breaks |-> 1, reconnects |-> TRUE]}

(* Two clients, which start and stop the one background thread.              *)
Pair ==
    {[owner |-> Each(a, b), calls |-> Each(2, 1), version |-> 3, breaks |-> 0, reconnects |-> FALSE]}

SyncScenarios == Single \cup Reconnects \cup Pair

CallbackScenarios == {[s EXCEPT !.calls = Each(1, 0)] : s \in Reconnects}
=============================================================================
