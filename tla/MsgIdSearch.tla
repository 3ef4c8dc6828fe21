---------------------------- MODULE MsgIdSearch ----------------------------
(***************************************************************************)
(* The search loop of MQTTProtocol_assignMsgId and MQTTAsync_assignMsgId,  *)
(* one iteration per step, with the callers that keep the ids they get and *)
(* give them back.  The mutex of the library is held during the search:    *)
(* ids are released, and the program restarted, only between two searches. *)
(***************************************************************************)
EXTENDS MsgIds, TLAPS

VARIABLES
    used,         \* ids in outboundMsgs (and, async, in the commands and responses)
    msgID,        \* client->msgID: the last id given out
    searching,    \* inside the function
    start_msgid,  \* its locals: where the search began, and the candidate
    msgid

vars == <<used, msgID, searching, start_msgid, msgid>>

(* The values the variables of the C function can hold. *)
TypeOK ==
    /\ used \subseteq Ids
    /\ msgID \in 0 .. MaxMsgId
    /\ searching \in BOOLEAN
    /\ start_msgid \in 0 .. MaxMsgId
    /\ msgid \in 0 .. MaxMsgId

Init ==
    /\ used = {}
    /\ msgID = 0
    /\ searching = FALSE
    /\ start_msgid = 0
    /\ msgid = 0

(* A slip: the search begins with the id given out last. *)
BeginAtLast ==
    /\ ~searching
    /\ searching' = TRUE
    /\ start_msgid' = msgID
    /\ msgid' = IF msgID = 0 THEN 1 ELSE msgID
    /\ UNCHANGED <<used, msgID>>

(* Entry of the function, up to the loop. *)
Begin ==
    /\ ~searching
    /\ searching' = TRUE
    /\ start_msgid' = msgID
    /\ msgid' = NextMsgId(msgID)
    /\ UNCHANGED <<used, msgID>>

(* One iteration: the candidate is in use, the next one is taken. *)
Advance ==
    /\ searching
    /\ msgid \in used
    /\ NextMsgId(msgid) # start_msgid
    /\ msgid' = NextMsgId(msgid)
    /\ UNCHANGED <<used, msgID, searching, start_msgid>>

(* "we've tried them all - none free": 0 is returned, msgID stays. *)
GiveUp ==
    /\ searching
    /\ msgid \in used
    /\ NextMsgId(msgid) = start_msgid
    /\ msgid' = 0
    /\ searching' = FALSE
    /\ UNCHANGED <<used, msgID, start_msgid>>

(* The candidate is free: it becomes msgID and the caller keeps it. *)
Found ==
    /\ searching
    /\ msgid \notin used
    /\ msgID' = msgid
    /\ searching' = FALSE
    /\ used' = used \cup {msgid}
    /\ UNCHANGED <<start_msgid, msgid>>

(* An exchange ends: its id leaves the lists. *)
Release(i) ==
    /\ ~searching
    /\ i \in used
    /\ used' = used \ {i}
    /\ UNCHANGED <<msgID, searching, start_msgid, msgid>>

(* The program restarts: the ids come back from persistence, msgID is 0. *)
Restart ==
    /\ ~searching
    /\ msgID' = 0
    /\ UNCHANGED <<used, searching, start_msgid, msgid>>

Next ==
    \/ Begin
    \/ Advance
    \/ GiveUp
    \/ Found
    \/ \E i \in Ids : Release(i)
    \/ Restart

(* A thread that is inside the function keeps running. *)
Fairness == WF_vars(Advance) /\ WF_vars(GiveUp) /\ WF_vars(Found)

Spec == Init /\ [][Next]_vars /\ Fairness

-----------------------------------------------------------------------------
(* When the loop ends it returns the first free id after the one it started *)
(* from, whatever was released or restored before the call                  *)
(* (MQTTProtocol_assignMsgId, MQTTProtocolClient.c:86).                     *)
ReturnsFirstFree ==
    [][searching /\ ~searching' => msgid' = AssignMsgId(start_msgid, used)]_vars

(* The id given out last is not given out again by the next search, even    *)
(* when it has been released in between: a late acknowledgement of the old  *)
(* exchange cannot meet a new one with the same id.                         *)
LastIdNotReusedAtOnce ==
    [][searching /\ ~searching' /\ msgid' # 0 => msgid' # msgID]_vars

(* The loop ends whenever some id is free.  Known exception: with every id   *)
(* in use and msgID 0, after a restart, no candidate equals start_msgid, and *)
(* the loop does not end.                                                    *)
SearchEndsIfSomeFree == (searching /\ used # Ids) ~> ~searching
-----------------------------------------------------------------------------
(***************************************************************************)
(* Proofs, for every MaxMsgId >= 2.                                        *)
(***************************************************************************)

(* The candidate of a running search is the k-th id after the one the       *)
(* search started from, and the k - 1 ids before it are in use.             *)
SearchInv ==
    searching =>
        /\ start_msgid = msgID
        /\ \E k \in Ids : /\ msgid = Tried(start_msgid, k)
                          /\ msgid # start_msgid
                          /\ \A l \in 1 .. (k - 1) : Tried(start_msgid, l) \in used

Inv == TypeOK /\ SearchInv

(* The least element of a set of ids is the one CHOOSE names.               *)
LEMMA Least ==
    ASSUME NEW S \in SUBSET Ids, NEW k \in S, \A l \in S : k <= l
    PROVE  (CHOOSE i \in S : \A l \in S : i <= l) = k
<1>1. PICK c : c = CHOOSE i \in S : \A l \in S : i <= l
    OBVIOUS
<1>2. c \in S /\ \A l \in S : c <= l
    BY <1>1
<1>3. c \in Int /\ k \in Int /\ c <= k /\ k <= c
    BY <1>2, MaxMsgIdAssumption DEF Ids
<1>4. c = k
    BY ONLY <1>3, SMT
<1> QED BY <1>1, <1>4

(* If the k-th id is free, is not the first one and the earlier ones are in *)
(* use, then it is the one AssignMsgId names.                               *)
LEMMA FirstFree ==
    ASSUME NEW start \in 0 .. MaxMsgId, NEW U \in SUBSET Ids, NEW k \in Ids,
           Tried(start, k) \notin U, Tried(start, k) # start,
           \A l \in 1 .. (k - 1) : Tried(start, l) \in U
    PROVE  AssignMsgId(start, U) = Tried(start, k)
<1>1. Stops(start, U) \in SUBSET Ids
    BY DEF Stops
<1>2. k \in Stops(start, U)
    BY DEF Stops
<1>3. \A l \in Stops(start, U) : k <= l
    BY MaxMsgIdAssumption DEF Stops, Ids
<1>4. (CHOOSE i \in Stops(start, U) : \A l \in Stops(start, U) : i <= l) = k
    BY <1>1, <1>2, <1>3, Least
<1> QED BY <1>2, <1>4 DEF AssignMsgId

(* If all ids between the first one and itself are in use, there is none.   *)
LEMMA NoneFree ==
    ASSUME NEW start \in 0 .. MaxMsgId, NEW U \in SUBSET Ids, NEW k \in Ids,
           Tried(start, k) \in U, Tried(start, k) # start,
           NextMsgId(Tried(start, k)) = start,
           \A l \in 1 .. (k - 1) : Tried(start, l) \in U
    PROVE  AssignMsgId(start, U) = 0
<1>1. start # 0
    BY MaxMsgIdAssumption DEF NextMsgId, Tried, Ids
<1>2. k = MaxMsgId - 1
    BY <1>1, MaxMsgIdAssumption DEF NextMsgId, Tried, Ids
<1>3. Tried(start, MaxMsgId) = start
    BY <1>1, MaxMsgIdAssumption DEF Tried
<1>4. Stops(start, U) = {}
    BY <1>2, <1>3, MaxMsgIdAssumption DEF Stops, Ids
<1> QED BY <1>4 DEF AssignMsgId

(* One more id in use moves the candidate one position on, except that the  *)
(* search of a client whose msgID is 0 goes round once all ids are in use.  *)
LEMMA NextTried ==
    ASSUME NEW start \in 0 .. MaxMsgId, NEW k \in Ids,
           Tried(start, k) # start, NextMsgId(Tried(start, k)) # start
    PROVE  \/ /\ k + 1 \in Ids
              /\ NextMsgId(Tried(start, k)) = Tried(start, k + 1)
           \/ NextMsgId(Tried(start, k)) = Tried(start, 1)
BY MaxMsgIdAssumption DEF NextMsgId, Tried, Ids

(* The first candidate.                                                     *)
LEMMA FirstTried ==
    ASSUME NEW start \in 0 .. MaxMsgId
    PROVE  /\ 1 \in Ids
           /\ NextMsgId(start) = Tried(start, 1)
           /\ NextMsgId(start) # start
BY MaxMsgIdAssumption DEF NextMsgId, Tried, Ids

(* Every candidate is an id.                                                *)
LEMMA TriedIsId ==
    ASSUME NEW start \in 0 .. MaxMsgId, NEW k \in Ids
    PROVE  Tried(start, k) \in Ids
BY MaxMsgIdAssumption DEF Tried, Ids

LEMMA NextIsId ==
    ASSUME NEW i \in 0 .. MaxMsgId
    PROVE  NextMsgId(i) \in Ids
BY MaxMsgIdAssumption DEF NextMsgId, Ids

LEMMA IdIsValue == Ids \subseteq 0 .. MaxMsgId /\ 0 \in 0 .. MaxMsgId /\ 0 \notin Ids
BY MaxMsgIdAssumption DEF Ids

LEMMA InvInit == Init => Inv
BY IdIsValue DEF Init, Inv, TypeOK, SearchInv

LEMMA InvStep == Inv /\ [Next]_vars => Inv'
<1> SUFFICES ASSUME Inv, [Next]_vars PROVE Inv'
    OBVIOUS
<1> USE IdIsValue DEF Inv, TypeOK
<1>1. CASE Begin
    <2>1. TypeOK'
        BY <1>1, NextIsId DEF Begin
    <2>2. start_msgid' = msgID' /\ msgid' = Tried(start_msgid', 1) /\ msgid' # start_msgid'
        BY <1>1, FirstTried DEF Begin
    <2>3. 1 \in Ids /\ \A l \in 1 .. (1 - 1) : Tried(start_msgid', l) \in used'
        BY FirstTried
    <2> QED BY <2>1, <2>2, <2>3 DEF SearchInv
<1>2. CASE Advance
    <2>1. TypeOK'
        BY <1>2, NextIsId DEF Advance
    <2>2. PICK k \in Ids : /\ msgid = Tried(start_msgid, k)
                           /\ msgid # start_msgid
                           /\ \A l \in 1 .. (k - 1) : Tried(start_msgid, l) \in used
        BY <1>2 DEF SearchInv, Advance
    <2>3. start_msgid = msgID
        BY <1>2 DEF SearchInv, Advance
    <2>4. CASE k + 1 \in Ids /\ msgid' = Tried(start_msgid, k + 1)
        <3>1. \A l \in 1 .. ((k + 1) - 1) : Tried(start_msgid, l) \in used
            BY <1>2, <2>2, MaxMsgIdAssumption DEF Ids, Advance
        <3> QED BY <1>2, <2>1, <2>3, <2>4, <3>1 DEF SearchInv, Advance
    <2>5. CASE msgid' = Tried(start_msgid, 1)
        <3>1. 1 \in Ids /\ \A l \in 1 .. (1 - 1) : Tried(start_msgid, l) \in used
            BY FirstTried
        <3> QED BY <1>2, <2>1, <2>3, <2>5, <3>1 DEF SearchInv, Advance
    <2> QED BY <1>2, <2>2, <2>4, <2>5, NextTried DEF Advance
<1>3. CASE GiveUp
    BY <1>3 DEF GiveUp, SearchInv
<1>4. CASE Found
    <2>1. msgid \in Ids
        BY <1>4, TriedIsId DEF Found, SearchInv
    <2> QED BY <1>4, <2>1 DEF Found, SearchInv
<1>5. CASE \E i \in Ids : Release(i)
    BY <1>5 DEF Release, SearchInv
<1>6. CASE Restart
    BY <1>6 DEF Restart, SearchInv
<1>7. CASE UNCHANGED vars
    BY <1>7 DEF vars, SearchInv, Tried
<1> QED BY <1>1, <1>2, <1>3, <1>4, <1>5, <1>6, <1>7 DEF Next

(* The loop has tried the ids between start_msgid and msgid, at every step.  *)
THEOREM Invariance == Spec => []Inv
BY InvInit, InvStep, PTL DEF Spec

(* The variables of MQTTProtocol_assignMsgId stay in their ranges.          *)
THEOREM TypeCorrect == Spec => []TypeOK
<1>1. Inv => TypeOK
    BY DEF Inv
<1> QED BY <1>1, Invariance, PTL

(* The loop returns the first free id after the one it started from, or 0,  *)
(* for every size of the id space (MQTTProtocol_assignMsgId).               *)
THEOREM FirstFreeReturned == Spec => ReturnsFirstFree
<1> DEFINE Returned == searching /\ ~searching' => msgid' = AssignMsgId(start_msgid, used)
<1>1. Inv /\ [Next]_vars => [Returned]_vars
    <2> SUFFICES ASSUME Inv, Next, searching, ~searching'
                 PROVE  msgid' = AssignMsgId(start_msgid, used)
        BY DEF vars
    <2>1. PICK k \in Ids : /\ msgid = Tried(start_msgid, k)
                           /\ msgid # start_msgid
                           /\ \A l \in 1 .. (k - 1) : Tried(start_msgid, l) \in used
        BY DEF Inv, SearchInv
    <2>2. CASE GiveUp
        BY <2>1, <2>2, NoneFree DEF GiveUp, Inv, TypeOK
    <2>3. CASE Found
        BY <2>1, <2>3, FirstFree DEF Found, Inv, TypeOK
    <2> QED BY <2>2, <2>3 DEF Next, Begin, Advance, Release, Restart
<1> QED BY <1>1, Invariance, PTL DEF Spec, ReturnsFirstFree

(* The id given out last is never the next one given out.                   *)
THEOREM LastIdKept == Spec => LastIdNotReusedAtOnce
<1> DEFINE NotReused == searching /\ ~searching' /\ msgid' # 0 => msgid' # msgID
<1>1. Inv /\ [Next]_vars => [NotReused]_vars
    BY DEF Inv, SearchInv, Next, Begin, Advance, GiveUp, Found, Release, Restart, vars
<1> QED BY <1>1, Invariance, PTL DEF Spec, LastIdNotReusedAtOnce
=============================================================================
