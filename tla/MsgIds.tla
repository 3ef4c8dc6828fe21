------------------------------- MODULE MsgIds -------------------------------
(***************************************************************************)
(* Allocation of MQTT message ids: MQTTProtocol_assignMsgId                *)
(* (MQTTProtocolClient.c), and MQTTAsync_assignMsgId (MQTTAsyncUtils.c),   *)
(* which is the same loop over more lists of ids in use.                   *)
(*                                                                         *)
(* The operators below are the arithmetic of the search and what it        *)
(* returns.  MsgIdSearch runs the loop step by step and compares.          *)
(***************************************************************************)
EXTENDS Integers

CONSTANT MaxMsgId       \* MAX_MSG_ID: 65535 in MQTTProtocolClient.h

ASSUME MaxMsgIdAssumption == MaxMsgId \in Nat /\ MaxMsgId >= 2

Ids == 1 .. MaxMsgId

(* Slips: no wrap; a wrap that is one early, so that the last id is not reached. *)
NextNeverWraps(i) == i + 1
NextWrapsEarly(i) == IF i = MaxMsgId - 1 THEN 1 ELSE i + 1

(* The id that follows i; the value 0 of a new client is followed by 1. *)
NextMsgId(i) == IF i = MaxMsgId THEN 1 ELSE i + 1

(* A slip: the ids do not wrap. *)
TriedNoWrap(start, k) == start + k

(* The k-th id the loop looks at when it starts from msgID = start. *)
Tried(start, k) == IF start + k <= MaxMsgId THEN start + k ELSE start + k - MaxMsgId

(* The positions at which the loop may stop with an id: the id is free and *)
(* it is not the one the search started from, at which the loop gives up.  *)
Stops(start, used) ==
    {k \in Ids : Tried(start, k) \notin used /\ Tried(start, k) # start}

(* Slips: the ids in use are not looked at; only the first id is looked at. *)
AssignAny(start, used) == Tried(start, 1)
AssignFirstOnly(start, used) == IF Tried(start, 1) \in used THEN 0 ELSE Tried(start, 1)

(* What the search returns: the first free id after start, or 0. *)
AssignMsgId(start, used) ==
    IF Stops(start, used) = {} THEN 0
    ELSE Tried(start, CHOOSE k \in Stops(start, used) :
                          \A l \in Stops(start, used) : k <= l)
=============================================================================
