---------------------------- MODULE MCKeepalive ----------------------------
(***************************************************************************)
(* Small instances of Keepalive, with ticks of half a second.              *)
(***************************************************************************)
EXTENDS Keepalive

Quiet == [keepalive |-> 2, others |-> {}, shared |-> FALSE, partial |-> 0,
          response |-> 3, stall |-> 2]

(* A client alone, with answers in good time and just in time; with other    *)
(* clients; with a partial write; without keepalive.                         *)
TimelyScenarios ==
    {[Quiet EXCEPT !.response = r] : r \in {1, 5}}
    \cup {[Quiet EXCEPT !.others = {0, 20}, !.response = 5],
          [Quiet EXCEPT !.partial = 1],
          [Quiet EXCEPT !.partial = 1, !.shared = TRUE],
          [Quiet EXCEPT !.keepalive = 0]}

(* One partial write. *)
StuckScenarios == {[Quiet EXCEPT !.partial = 1]}
=============================================================================
