---------------------------- MODULE HistoryPages ----------------------------
(***************************************************************************)
(* messages_service.get_history behind GET /v1/channels/{id}/messages: a   *)
(* client walks the pages of ONE channel, forward from its watermark or    *)
(* backward from the newest row, while messages are stored, taken down and *)
(* hidden by blocks.  A page is two SELECTs, of messages and of            *)
(* retractions, that no transaction holds together; rows commit in another *)
(* order than that of their ids.                                           *)
(***************************************************************************)
EXTENDS Naturals, FiniteSets

CONSTANTS
    MaxId,       \* ids are 1..MaxId
    Foe,         \* the ids of messages by an author the viewer may block
    Limit

HistoryConstants == MaxId \in Nat /\ Foe \subseteq 1..MaxId /\ Limit \in Nat \ {0}

Ids == 1..MaxId

VARIABLES
    messages,    \* ids of the messages stored
    retractions, \* ids of the retractions stored
    deleted,     \* messages soft-deleted
    block,       \* "no" or "yes": the viewer and Foe's author
    walk, way,   \* "new", "msgs", "rets" or "done"; "after" or "before"
    start, cursor,   \* where the walk began and how far it is; 0 and MaxId + 1 are the ends
    found,       \* the messages that the first SELECT of the page returned
    delivered,   \* id -> how often it was delivered
    stood        \* rows the viewer could see since the walk began

tables == <<messages, retractions, deleted, block>>
walks == <<walk, way, start, cursor, found, delivered>>
vars == <<tables, walks, stood>>

-----------------------------------------------------------------------------
\* Not soft-deleted and not hidden by a block; retractions are never filtered.
Visible == {m \in messages \ deleted : block = "no" \/ m \notin Foe}

InWay(i) == IF way = "after" THEN i > cursor ELSE i < cursor

Nearer(i, j) == IF way = "after" THEN i < j ELSE i > j

\* ORDER BY id LIMIT n: the n rows next to the cursor.
Limited(S) == {i \in S : InWay(i) /\ Cardinality({j \in S : InWay(j) /\ Nearer(j, i)}) < Limit}

\* Mutant: the merged streams are not cut to the limit again.
MergedUncut(rets) == found \cup rets

\* The two streams, each limited, merged and cut.
Merged(rets) ==
    {i \in found \cup rets : Cardinality({j \in found \cup rets : Nearer(j, i)}) < Limit}

StartWalk(w, c) ==
    /\ walk = "new" /\ walk' = "msgs"
    /\ way' = w /\ start' = c /\ cursor' = c
    /\ stood' = Visible \cup retractions
    /\ UNCHANGED <<tables, found, delivered>>

SelectMessages ==
    /\ walk = "msgs" /\ walk' = "rets"
    /\ found' = Limited(Visible)
    /\ UNCHANGED <<tables, way, start, cursor, delivered, stood>>

\* next_after / next_before is the row of the page farthest on the way; an empty page
\* ends the walk.
SelectRetractions ==
    /\ walk = "rets"
    /\ LET page == Merged(Limited(retractions))
       IN /\ delivered' = [i \in Ids |-> IF i \in page THEN delivered[i] + 1 ELSE delivered[i]]
          /\ IF page = {}
             THEN walk' = "done" /\ UNCHANGED cursor
             ELSE /\ walk' = "msgs"
                  /\ cursor' = CHOOSE i \in page : \A j \in page \ {i} : Nearer(j, i)
    /\ found' = {}
    /\ UNCHANGED <<tables, way, start, stood>>

-----------------------------------------------------------------------------
\* A message is stored, by whoever minted its id whenever.
Store(i) ==
    /\ i \in Ids \ (messages \cup retractions)
    /\ messages' = messages \cup {i}
    /\ UNCHANGED <<retractions, deleted, block, walks, stood>>

\* take_down_message: the row is hidden and a retraction with a greater id appended.
TakeDown(m, i) ==
    /\ m \in messages \ deleted
    /\ i \in Ids \ (messages \cup retractions) /\ i > m
    /\ deleted' = deleted \cup {m}
    /\ retractions' = retractions \cup {i}
    /\ stood' = stood \ {m}
    /\ UNCHANGED <<messages, block, walks>>

Block(b) ==
    /\ block # b /\ block' = b
    /\ stood' = IF b = "yes" THEN stood \ (Foe \cap messages) ELSE stood
    /\ UNCHANGED <<messages, retractions, deleted, walks>>

-----------------------------------------------------------------------------
Init ==
    /\ messages = {} /\ retractions = {} /\ deleted = {} /\ block = "no"
    /\ walk = "new" /\ way = "after" /\ start = 0 /\ cursor = 0
    /\ found = {} /\ delivered = [i \in Ids |-> 0] /\ stood = {}

Next ==
    \/ \E c \in 0..MaxId : StartWalk("after", c)
    \/ \E c \in 1..(MaxId + 1) : StartWalk("before", c)
    \/ SelectMessages \/ SelectRetractions
    \/ \E i \in Ids : Store(i) \/ \E m \in messages : TakeDown(m, i)
    \/ \E b \in {"no", "yes"} : Block(b)

Spec == Init /\ [][Next]_vars

-----------------------------------------------------------------------------
(* Properties *)

Passed(i) ==
    IF way = "after" THEN start < i /\ i <= cursor ELSE cursor <= i /\ i < start

\* get_history: "no item that belongs inside the page can hide beyond position limit of the
\* union".  Behind the cursor there is no hole: whatever the client could see since it
\* began was delivered, and exactly once, in both directions, although each page is two
\* SELECTs with commits between them; nothing is left out when the walk ends.
NoHoleBehindCursor ==
    \A i \in Ids :
        /\ delivered[i] <= 1
        /\ i \in stood /\ Passed(i) => delivered[i] = 1
        /\ i \in stood /\ walk = "done" /\ ~Passed(i) => ~InWay(i)
=============================================================================
