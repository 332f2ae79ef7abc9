--------------------------- MODULE DeliveryProofs ---------------------------
(* Proofs about module Delivery, for every set of users, connections, bus      *)
(* messages, takedowns and ids.                                                *)
EXTENDS Delivery, TLAPS

-----------------------------------------------------------------------------
(* Types *)

\* A task that is past its SELECT holds the row it works on.
RowKnown ==
    /\ \A t \in Tasks : pc[t] \in {"insert", "exclude", "ack", "fanout"} => row[t] \in Ids
    /\ \A r \in Resolves : pc[r] = "insert" => victim[r] \in Ids

\* A handler that leaves its loop disturbs only pc and the registry.
LEMMA LeaveTypes ==
    ASSUME TypeOK, RowKnown, NEW c \in Conns, Leave(c)
    PROVE  TypeOK' /\ RowKnown'
BY DEF Leave, TypeOK, RowKnown, table, hist, locals, Tasks, Stages

\* What hub.fanout writes has the declared types.
LEMMA FanoutTypes ==
    ASSUME TypeOK, NEW frame \in Ids, NEW excluded, Fanout(frame, excluded)
    PROVE  /\ live' \in [Conns -> SUBSET Ids]
           /\ registered' \subseteq Conns
           /\ fanned' \subseteq Ids
<1>1. \A c \in Conns : live[c] \cup {frame} \in SUBSET Ids /\ live[c] \in SUBSET Ids
    BY DEF TypeOK
<1>2. live' \in [Conns -> SUBSET Ids]
    BY <1>1 DEF Fanout
<1> QED
    BY <1>2 DEF Fanout, TypeOK

\* Counting one more keeps a counter a counter.
LEMMA CountUp ==
    ASSUME NEW S, NEW f \in [S -> Nat], NEW i \in S
    PROVE  [f EXCEPT ![i] = @ + 1] \in [S -> Nat]
<1>1. f[i] + 1 \in Nat
    OBVIOUS
<1> QED
    BY <1>1

\* Every step of every handler keeps the types.
LEMMA TypeStep == TypeOK /\ RowKnown /\ [Next]_vars => TypeOK' /\ RowKnown'
<1> SUFFICES ASSUME TypeOK, RowKnown, [Next]_vars PROVE TypeOK' /\ RowKnown'
    OBVIOUS
<1> USE IdsAreNaturals, OwnersAreUsers, SendersKnown, NoneIsNoValue, TasksDisjoint
    DEF TypeOK, RowKnown, table, wire, hist, locals, Tasks, Stages
<1>1. ASSUME NEW c \in Conns, Connect(c) PROVE TypeOK' /\ RowKnown'
    BY <1>1 DEF Connect
<1>2. ASSUME NEW c \in Conns, PeerGone(c) PROVE TypeOK' /\ RowKnown'
    BY <1>2 DEF PeerGone
<1>3. ASSUME NEW c \in Conns, SubscribeAcl(c) PROVE TypeOK' /\ RowKnown'
    BY <1>3 DEF SubscribeAcl, Goto
<1>4. ASSUME NEW c \in Conns, SubscribeAdd(c) PROVE TypeOK' /\ RowKnown'
    BY <1>4 DEF SubscribeAdd, Goto
<1>5. ASSUME NEW c \in Conns, FenceMessages(c) PROVE TypeOK' /\ RowKnown'
    BY <1>5 DEF FenceMessages, Goto, IsTop
<1>6. ASSUME NEW c \in Conns, FenceRetractions(c) PROVE TypeOK' /\ RowKnown'
    BY <1>6 DEF FenceRetractions, Goto, IsTop, Larger
<1>7. ASSUME NEW c \in Conns, SendSuback(c) PROVE TypeOK' /\ RowKnown'
  <2>1. CASE Leave(c)
    BY <2>1, LeaveTypes
  <2>2. CASE ~Leave(c)
    <3>1. fence' \in [Conns -> Ids \cup {0, None}] /\ top' \in [Conns -> Ids \cup {0}]
      BY SMTT(30), <1>7, <2>2 DEF SendSuback
    <3>2. pc' \in [Tasks -> Stages] /\ RowKnown'
      BY <1>7, <2>2 DEF SendSuback, Goto
    <3> QED
      BY ZenonT(60), <1>7, <2>2, <3>1, <3>2 DEF SendSuback
  <2> QED
    BY <2>1, <2>2
<1>8. ASSUME NEW c \in Conns, InsertOutbound(c) PROVE TypeOK' /\ RowKnown'
  <2>1. CASE Leave(c)
    BY <2>1, LeaveTypes
  <2>2. CASE ~Leave(c)
    <3>1. row[c] \in Ids
      BY <1>8 DEF InsertOutbound
    <3>2. StoreMessage(row[c], Owner[c], key[c]) /\ Goto(c, "exclude")
      BY <1>8, <2>2 DEF InsertOutbound
    <3>3. sender' \in [Ids -> Users \cup {External, None}] /\ cmid' \in [Ids -> Cmids \cup {None}]
      BY <3>1, <3>2 DEF StoreMessage
    <3>4. openTo' \in [Ids -> SUBSET Users]
      BY <3>1, <3>2 DEF StoreMessage, BlockedPairUserIds
    <3> QED
      BY ZenonT(60), <1>8, <2>2, <3>2, <3>3, <3>4 DEF InsertOutbound, Goto
  <2> QED
    BY <2>1, <2>2
<1>9. ASSUME NEW c \in Conns, ExcludeOutbound(c) PROVE TypeOK' /\ RowKnown'
    BY <1>9 DEF ExcludeOutbound, Exclude, BlockedPairUserIds, Goto
<1>10. ASSUME NEW c \in Conns, SendAck(c) PROVE TypeOK' /\ RowKnown'
  <2>1. CASE Leave(c)
    BY <2>1, LeaveTypes
  <2>2. CASE ~Leave(c)
    <3>1. acked' \subseteq Ids
      <4>1. row[c] \in Ids
        BY <1>10 DEF SendAck
      <4>2. acked' = acked \cup {row[c]}
        BY <1>10, <2>2 DEF SendAck
      <4> QED
        BY <4>1, <4>2
    <3>2. CASE c \in created
      BY ZenonT(60), <1>10, <2>2, <3>1, <3>2 DEF SendAck, Goto
    <3>3. CASE c \notin created
      <4>1. row' \in [Tasks -> Ids \cup {None}] /\ exclude' \in [Tasks -> SUBSET Users]
        BY <1>10, <2>2, <3>3 DEF SendAck, Forget
      <4>2. pc' \in [Tasks -> Stages] /\ RowKnown'
        BY <1>10, <2>2, <3>3 DEF SendAck, Forget, Goto
      <4> QED
        BY ZenonT(60), <1>10, <2>2, <3>1, <3>3, <4>1, <4>2 DEF SendAck
    <3> QED
      BY <3>2, <3>3
  <2> QED
    BY <2>1, <2>2
<1>11. ASSUME NEW c \in Conns, PublishAndFanout(c) PROVE TypeOK' /\ RowKnown'
  <2>1. row[c] \in Ids
    BY <1>11 DEF PublishAndFanout
  <2>2. live' \in [Conns -> SUBSET Ids] /\ registered' \subseteq Conns /\ fanned' \subseteq Ids
    BY <1>11, <2>1, FanoutTypes DEF PublishAndFanout
  <2>3. published' \in [Ids -> Nat]
    <3>1. published' = [published EXCEPT ![row[c]] = @ + 1]
      BY <1>11 DEF PublishAndFanout
    <3>2. published \in [Ids -> Nat]
      OBVIOUS
    <3> QED
      BY <2>1, <3>1, <3>2, CountUp
  <2>4. row' \in [Tasks -> Ids \cup {None}] /\ exclude' \in [Tasks -> SUBSET Users]
    BY <1>11 DEF PublishAndFanout, Forget
  <2>5. pc' \in [Tasks -> Stages] /\ RowKnown'
    BY <1>11 DEF PublishAndFanout, Forget, Goto
  <2> QED
    BY <1>11, <2>2, <2>3, <2>4, <2>5 DEF PublishAndFanout
<1>12. ASSUME NEW c \in Conns, ReceiveFails(c) PROVE TypeOK' /\ RowKnown'
    BY <1>12 DEF ReceiveFails, Leave
<1>26. ASSUME NEW c \in Conns, PublishRaises(c) PROVE TypeOK' /\ RowKnown'
    BY <1>26 DEF PublishRaises, Leave
<1>13. ASSUME NEW c \in Conns, NEW k \in Cmids, Resend(c, k) PROVE TypeOK' /\ RowKnown'
    BY <1>13 DEF Resend, Goto, Messages
<1>14. ASSUME NEW c \in Conns, NEW k \in Cmids, SendNew(c, k) PROVE TypeOK' /\ RowKnown'
    BY <1>14 DEF SendNew, Mint, Goto
<1>15. ASSUME NEW b \in Inbound, IngestStart(b) PROVE TypeOK' /\ RowKnown'
    BY <1>15 DEF IngestStart, Mint, Goto
<1>16. ASSUME NEW b \in Inbound, IngestInsert(b) PROVE TypeOK' /\ RowKnown'
    BY <1>16 DEF IngestInsert, Goto, StoreMessage, BlockedPairUserIds
<1>17. ASSUME NEW b \in Inbound, IngestExclude(b) PROVE TypeOK' /\ RowKnown'
    BY <1>17 DEF IngestExclude, Exclude, Goto, BlockedPairUserIds
<1>18. ASSUME NEW b \in Inbound, IngestFanout(b) PROVE TypeOK' /\ RowKnown'
  <2>1. row[b] \in Ids
    BY <1>18 DEF IngestFanout
  <2>2. live' \in [Conns -> SUBSET Ids] /\ registered' \subseteq Conns /\ fanned' \subseteq Ids
    BY <1>18, <2>1, FanoutTypes DEF IngestFanout
  <2> QED
    BY <1>18, <2>2 DEF IngestFanout, Forget, Goto
<1>19. ASSUME NEW r \in Resolves, TakeDownRead(r) PROVE TypeOK' /\ RowKnown'
    BY <1>19 DEF TakeDownRead, Mint, Goto, Messages
<1>20. ASSUME NEW r \in Resolves, TakeDownCommit(r) PROVE TypeOK' /\ RowKnown'
  <2>1. row[r] \in Ids /\ victim[r] \in Ids
    BY <1>20 DEF TakeDownCommit
  <2>2. target' \in [Ids -> Ids \cup {None}] /\ softDeleted' \subseteq Ids
    BY <1>20, <2>1 DEF TakeDownCommit
  <2> QED
    BY <1>20, <2>2 DEF TakeDownCommit, Goto
<1>21. ASSUME NEW r \in Resolves, TakeDownFanout(r) PROVE TypeOK' /\ RowKnown'
  <2>1. row[r] \in Ids
    BY <1>21 DEF TakeDownFanout
  <2>2. live' \in [Conns -> SUBSET Ids] /\ registered' \subseteq Conns /\ fanned' \subseteq Ids
    BY <1>21, <2>1, FanoutTypes DEF TakeDownFanout
  <2> QED
    BY <1>21, <2>2 DEF TakeDownFanout, Forget, Goto
<1>22. ASSUME NEW u \in Users, NEW v \in Users, BlockUser(u, v) PROVE TypeOK' /\ RowKnown'
    BY <1>22 DEF BlockUser
<1>23. ASSUME NEW u \in Users, NEW v \in Users, UnblockUser(u, v) PROVE TypeOK' /\ RowKnown'
    BY <1>23 DEF UnblockUser
<1>24. ASSUME NEW u \in Users, RemoveMember(u) PROVE TypeOK' /\ RowKnown'
    BY <1>24 DEF RemoveMember
<1>25. CASE UNCHANGED vars
    BY <1>25 DEF vars
<1> QED
    BY <1>1, <1>2, <1>3, <1>4, <1>5, <1>6, <1>7, <1>8, <1>9, <1>10, <1>11, <1>12, <1>13,
       <1>14, <1>15, <1>16, <1>17, <1>18, <1>19, <1>20, <1>21, <1>22, <1>23, <1>24, <1>25, <1>26
    DEF Next, HandlerStep, IngestStep, TakeDownStep

\* The type invariant of Delivery holds in every reachable state: no handler,
\* however the tasks interleave, leaves the sets declared for its state.
THEOREM TypeCorrect == Spec => []TypeOK
<1>1. Init => TypeOK /\ RowKnown
    BY DEF Init, TypeOK, RowKnown, Tasks, Stages
<1> QED
    BY <1>1, TypeStep, PTL DEF Spec

-----------------------------------------------------------------------------
(* The inductive invariant, in parts *)

\* Ids: a row's id was minted, a frame that was fanned out was stored, and the
\* row a task is about to insert is minted for that task and not stored yet.
IdInv ==
    /\ \A i \in Ids : sender[i] # None \/ target[i] # None => i \in minted
    /\ \A i \in Ids : sender[i] = None \/ target[i] = None
    /\ \A i \in fanned : sender[i] # None \/ target[i] # None
    /\ \A t \in Tasks : pc[t] = "insert" =>
          row[t] \in minted /\ sender[row[t]] = None /\ target[row[t]] = None
    /\ \A s, t \in Tasks : s # t /\ pc[s] = "insert" /\ pc[t] = "insert" => row[s] # row[t]

\* Fan-outs: the row is the task's own, and whoever is excluded was, at some
\* moment, in a block relationship with the author.
AuthorInv ==
    /\ \A c \in created : pc[c] \in {"insert", "exclude", "ack", "fanout", "done"}
    /\ \A c \in Conns : pc[c] = "fanout" => c \in created
    /\ \A c \in created : pc[c] \in {"exclude", "ack", "fanout"} => sender[row[c]] = Owner[c]
    /\ \A b \in Inbound : pc[b] \in {"exclude", "fanout"} => sender[row[b]] = From[b]
    /\ \A r \in Resolves : pc[r] = "fanout" => target[row[r]] # None

ExcludeInv ==
    /\ \A u, v \in Users : <<u, v>> \in blocks => <<u, v>> \in everBlocked /\ <<v, u>> \in everBlocked
    /\ \A c \in Conns : pc[c] \in {"ack", "fanout"} =>
          \A v \in exclude[c] : <<v, Owner[c]>> \in everBlocked
    /\ \A b \in Inbound : pc[b] = "fanout" =>
          \A v \in exclude[b] : <<v, From[b]>> \in everBlocked

\* The ordering invariant of _handle_subscribe: subscribed before the fence.
SubInv ==
    \A c \in Conns :
        /\ pc[c] = "new" => c \notin registered /\ fence[c] = None
        /\ pc[c] \in {"fenceMsgs", "fenceRets", "suback"} => c \in subscribed
        /\ fence[c] # None => c \in subscribed

\* The viewer is owed message i on connection c.
Owed(c, i) ==
    /\ sender[i] # None
    /\ i \notin softDeleted
    /\ <<Owner[c], sender[i]>> \notin everBlocked

\* Frame i reached connection c, or the fence it was given or is being given.
ReachedBy(c, i, stages) ==
    /\ fence[c] # None => i \in live[c] \/ i <= fence[c]
    /\ pc[c] \in stages => i \in live[c] \/ i <= top[c]

\* The gap properties, strengthened by what holds while a fence is being read:
\* from the first query on for messages, from the second on for retractions.
MessageGapInv ==
    \A c \in registered, i \in fanned :
        Owed(c, i) => ReachedBy(c, i, {"fenceRets", "suback"})

RetractionGapInv ==
    \A c \in registered, i \in fanned :
        target[i] # None => ReachedBy(c, i, {"suback"})

\* Who may see a message: whoever is in no block relationship with its author now is
\* among those it has been open to, and so is whoever a fan-out under way does not exclude.
OpenInv ==
    /\ \A i \in Ids, u \in Users :
          sender[i] # None /\ ~Blocked(u, sender[i]) => u \in openTo[i]
    /\ \A c \in created : pc[c] \in {"ack", "fanout"} =>
          Users \ exclude[c] \subseteq openTo[row[c]]
    /\ \A b \in Inbound : pc[b] = "fanout" => Users \ exclude[b] \subseteq openTo[row[b]]
    /\ \A c \in Conns : live[c] \subseteq fanned
    /\ \A u \in Users : <<u, u>> \notin blocks
    /\ BlockRespected

Sending == {"insert", "exclude", "ack", "fanout"}

\* A row that a connection created is published by that connection only, and not yet.
OnceInv ==
    /\ \A i \in Ids : published[i] # 0 => sender[i] # None
    /\ \A i \in Ids : cmid[i] # None => sender[i] # None
    /\ \A c \in created : pc[c] \in Sending => published[row[c]] = 0
    /\ \A c, d \in created :
          c # d /\ pc[c] \in Sending /\ pc[d] \in Sending => row[c] # row[d]
    /\ SentOnce

Inv == /\ TypeOK /\ RowKnown
       /\ IdInv /\ AuthorInv /\ ExcludeInv /\ SubInv
       /\ MessageGapInv /\ RetractionGapInv
       /\ OpenInv /\ OnceInv

\* new_ulid never returns an id twice, so a row is inserted once.
LEMMA IdStep ==
    ASSUME TypeOK, RowKnown, IdInv, AuthorInv, [Next]_vars
    PROVE  IdInv'
<1> USE IdsAreNaturals, OwnersAreUsers, SendersKnown, NoneIsNoValue, TasksDisjoint
    DEF TypeOK, RowKnown, IdInv, AuthorInv, table, wire, hist, locals, Tasks
<1>1. ASSUME NEW c \in Conns, Connect(c) PROVE IdInv'
    BY <1>1 DEF Connect
<1>2. ASSUME NEW c \in Conns, PeerGone(c) PROVE IdInv'
    BY <1>2 DEF PeerGone
<1>3. ASSUME NEW c \in Conns, SubscribeAcl(c) PROVE IdInv'
    BY <1>3 DEF SubscribeAcl, Goto
<1>4. ASSUME NEW c \in Conns, SubscribeAdd(c) PROVE IdInv'
    BY <1>4 DEF SubscribeAdd, Goto
<1>5. ASSUME NEW c \in Conns, FenceMessages(c) PROVE IdInv'
    BY <1>5 DEF FenceMessages, Goto, IsTop
<1>6. ASSUME NEW c \in Conns, FenceRetractions(c) PROVE IdInv'
    BY <1>6 DEF FenceRetractions, Goto, IsTop, Larger
<1>7. ASSUME NEW c \in Conns, SendSuback(c) PROVE IdInv'
  <2>1. CASE Leave(c)
    BY <1>7, <2>1 DEF Leave, SendSuback
  <2>2. CASE ~Leave(c)
    <3>1. pc[c] = "suback" /\ pc' = [pc EXCEPT ![c] = "idle"]
      BY <1>7, <2>2 DEF SendSuback, Goto
    <3>2. UNCHANGED <<minted, table, blocks, row, created, exclude, hist>>
      BY <1>7, <2>2 DEF SendSuback
    <3> QED
      BY <3>1, <3>2
  <2> QED
    BY <2>1, <2>2
<1>8. ASSUME NEW c \in Conns, InsertOutbound(c) PROVE IdInv'
  <2>1. CASE Leave(c)
    BY <1>8, <2>1 DEF Leave, InsertOutbound
  <2>2. CASE ~Leave(c)
    <3>1. pc[c] = "insert" /\ pc' = [pc EXCEPT ![c] = "exclude"]
      BY <1>8, <2>2 DEF InsertOutbound, Goto
    <3>2. sender' = [sender EXCEPT ![row[c]] = Owner[c]]
      BY <1>8, <2>2 DEF InsertOutbound, StoreMessage
    <3>3. UNCHANGED <<minted, target, fanned, row>>
      BY <1>8, <2>2 DEF InsertOutbound
    <3> QED
      BY <3>1, <3>2, <3>3
  <2> QED
    BY <2>1, <2>2
<1>9. ASSUME NEW c \in Conns, ExcludeOutbound(c) PROVE IdInv'
    BY <1>9 DEF ExcludeOutbound, Exclude, BlockedPairUserIds, Goto
<1>10. ASSUME NEW c \in Conns, SendAck(c) PROVE IdInv'
  <2>1. CASE Leave(c)
    BY <1>10, <2>1 DEF Leave, SendAck
  <2>2. CASE ~Leave(c)
    <3>1. /\ pc[c] = "ack"
          /\ \/ pc' = [pc EXCEPT ![c] = "fanout"] /\ row' = row
             \/ pc' = [pc EXCEPT ![c] = "idle"] /\ row' = [row EXCEPT ![c] = None]
      BY <1>10, <2>2 DEF SendAck, Goto, Forget
    <3>2. UNCHANGED <<minted, sender, target, fanned>>
      BY <1>10, <2>2 DEF SendAck
    <3>3. CASE row' = row
      BY <3>1, <3>2, <3>3
    <3>4. CASE row' = [row EXCEPT ![c] = None] /\ pc' = [pc EXCEPT ![c] = "idle"]
      BY <3>1, <3>2, <3>4
    <3> QED
      BY <3>1, <3>3, <3>4
  <2> QED
    BY <2>1, <2>2
<1>11. ASSUME NEW c \in Conns, PublishAndFanout(c) PROVE IdInv'
  <2>1. row[c] \in Ids /\ (sender[row[c]] # None \/ target[row[c]] # None)
    BY <1>11 DEF PublishAndFanout
  <2>2. fanned' = fanned \cup {row[c]}
    BY <1>11 DEF PublishAndFanout, Fanout
  <2> QED
    BY <1>11, <2>1, <2>2 DEF PublishAndFanout, Forget, Goto
<1>12. ASSUME NEW c \in Conns, ReceiveFails(c) PROVE IdInv'
    BY <1>12 DEF ReceiveFails, Leave
<1>26. ASSUME NEW c \in Conns, PublishRaises(c) PROVE IdInv'
    BY <1>26 DEF PublishRaises, Leave
<1>13. ASSUME NEW c \in Conns, NEW k \in Cmids, Resend(c, k) PROVE IdInv'
    BY <1>13 DEF Resend, Goto, Messages
<1>14. ASSUME NEW c \in Conns, NEW k \in Cmids, SendNew(c, k) PROVE IdInv'
    BY <1>14 DEF SendNew, Mint, Goto
<1>15. ASSUME NEW b \in Inbound, IngestStart(b) PROVE IdInv'
    BY <1>15 DEF IngestStart, Mint, Goto
<1>16. ASSUME NEW b \in Inbound, IngestInsert(b) PROVE IdInv'
    BY <1>16 DEF IngestInsert, Goto, StoreMessage, BlockedPairUserIds
<1>17. ASSUME NEW b \in Inbound, IngestExclude(b) PROVE IdInv'
    BY <1>17 DEF IngestExclude, Exclude, Goto, BlockedPairUserIds
<1>18. ASSUME NEW b \in Inbound, IngestFanout(b) PROVE IdInv'
  <2>1. row[b] \in Ids /\ (sender[row[b]] # None \/ target[row[b]] # None)
    BY <1>18 DEF IngestFanout
  <2>2. fanned' = fanned \cup {row[b]}
    BY <1>18 DEF IngestFanout, Fanout
  <2> QED
    BY <1>18, <2>1, <2>2 DEF IngestFanout, Forget, Goto
<1>19. ASSUME NEW r \in Resolves, TakeDownRead(r) PROVE IdInv'
    BY <1>19 DEF TakeDownRead, Mint, Goto, Messages
<1>20. ASSUME NEW r \in Resolves, TakeDownCommit(r) PROVE IdInv'
    BY <1>20 DEF TakeDownCommit, Goto
<1>21. ASSUME NEW r \in Resolves, TakeDownFanout(r) PROVE IdInv'
  <2>1. row[r] \in Ids /\ (sender[row[r]] # None \/ target[row[r]] # None)
    BY <1>21 DEF TakeDownFanout
  <2>2. fanned' = fanned \cup {row[r]}
    BY <1>21 DEF TakeDownFanout, Fanout
  <2> QED
    BY <1>21, <2>1, <2>2 DEF TakeDownFanout, Forget, Goto
<1>22. ASSUME NEW u \in Users, NEW v \in Users, BlockUser(u, v) PROVE IdInv'
    BY <1>22 DEF BlockUser
<1>23. ASSUME NEW u \in Users, NEW v \in Users, UnblockUser(u, v) PROVE IdInv'
    BY <1>23 DEF UnblockUser
<1>24. ASSUME NEW u \in Users, RemoveMember(u) PROVE IdInv'
    BY <1>24 DEF RemoveMember
<1>25. CASE UNCHANGED vars
    BY <1>25 DEF vars
<1> QED
    BY <1>1, <1>2, <1>3, <1>4, <1>5, <1>6, <1>7, <1>8, <1>9, <1>10, <1>11, <1>12, <1>13,
       <1>14, <1>15, <1>16, <1>17, <1>18, <1>19, <1>20, <1>21, <1>22, <1>23, <1>24, <1>25, <1>26
    DEF Next, HandlerStep, IngestStep, TakeDownStep


\* A task fans out the row it stored.
LEMMA AuthorStep ==
    ASSUME TypeOK, RowKnown, IdInv, AuthorInv, [Next]_vars
    PROVE  AuthorInv'
<1> USE IdsAreNaturals, OwnersAreUsers, SendersKnown, NoneIsNoValue, TasksDisjoint
    DEF TypeOK, RowKnown, IdInv, AuthorInv, table, wire, hist, locals, Tasks
<1>1. ASSUME NEW c \in Conns, Connect(c) PROVE AuthorInv'
    BY <1>1 DEF Connect
<1>2. ASSUME NEW c \in Conns, PeerGone(c) PROVE AuthorInv'
    BY <1>2 DEF PeerGone
<1>3. ASSUME NEW c \in Conns, SubscribeAcl(c) PROVE AuthorInv'
    BY <1>3 DEF SubscribeAcl, Goto
<1>4. ASSUME NEW c \in Conns, SubscribeAdd(c) PROVE AuthorInv'
    BY <1>4 DEF SubscribeAdd, Goto
<1>5. ASSUME NEW c \in Conns, FenceMessages(c) PROVE AuthorInv'
    BY <1>5 DEF FenceMessages, Goto, IsTop
<1>6. ASSUME NEW c \in Conns, FenceRetractions(c) PROVE AuthorInv'
    BY <1>6 DEF FenceRetractions, Goto, IsTop, Larger
<1>7. ASSUME NEW c \in Conns, SendSuback(c) PROVE AuthorInv'
  <2>1. CASE Leave(c)
    BY <1>7, <2>1 DEF Leave, SendSuback
  <2>2. CASE ~Leave(c)
    <3>1. pc[c] = "suback" /\ pc' = [pc EXCEPT ![c] = "idle"]
      BY <1>7, <2>2 DEF SendSuback, Goto
    <3>2. UNCHANGED <<minted, table, blocks, row, created, exclude, hist>>
      BY <1>7, <2>2 DEF SendSuback
    <3> QED
      BY <3>1, <3>2
  <2> QED
    BY <2>1, <2>2
<1>8. ASSUME NEW c \in Conns, InsertOutbound(c) PROVE AuthorInv'
  <2>1. CASE Leave(c)
    BY <1>8, <2>1 DEF Leave, InsertOutbound
  <2>2. CASE ~Leave(c)
    <3>1. pc[c] = "insert" /\ pc' = [pc EXCEPT ![c] = "exclude"]
      BY <1>8, <2>2 DEF InsertOutbound, Goto
    <3>2. sender' = [sender EXCEPT ![row[c]] = Owner[c]]
      BY <1>8, <2>2 DEF InsertOutbound, StoreMessage
    <3>3. UNCHANGED <<target, row, created>>
      BY <1>8, <2>2 DEF InsertOutbound
    <3> QED
      BY <3>1, <3>2, <3>3
  <2> QED
    BY <2>1, <2>2
<1>9. ASSUME NEW c \in Conns, ExcludeOutbound(c) PROVE AuthorInv'
    BY <1>9 DEF ExcludeOutbound, Exclude, BlockedPairUserIds, Goto
<1>10. ASSUME NEW c \in Conns, SendAck(c) PROVE AuthorInv'
    BY <1>10 DEF SendAck, Leave, Goto, Forget
<1>11. ASSUME NEW c \in Conns, PublishAndFanout(c) PROVE AuthorInv'
    BY <1>11 DEF PublishAndFanout, Fanout, Targets, Forget, Goto
<1>12. ASSUME NEW c \in Conns, ReceiveFails(c) PROVE AuthorInv'
    BY <1>12 DEF ReceiveFails, Leave
<1>26. ASSUME NEW c \in Conns, PublishRaises(c) PROVE AuthorInv'
    BY <1>26 DEF PublishRaises, Leave
<1>13. ASSUME NEW c \in Conns, NEW k \in Cmids, Resend(c, k) PROVE AuthorInv'
    BY <1>13 DEF Resend, Goto, Messages
<1>14. ASSUME NEW c \in Conns, NEW k \in Cmids, SendNew(c, k) PROVE AuthorInv'
    BY <1>14 DEF SendNew, Mint, Goto
<1>15. ASSUME NEW b \in Inbound, IngestStart(b) PROVE AuthorInv'
    BY <1>15 DEF IngestStart, Mint, Goto
<1>16. ASSUME NEW b \in Inbound, IngestInsert(b) PROVE AuthorInv'
    BY <1>16 DEF IngestInsert, Goto, StoreMessage, BlockedPairUserIds
<1>17. ASSUME NEW b \in Inbound, IngestExclude(b) PROVE AuthorInv'
    BY <1>17 DEF IngestExclude, Exclude, Goto, BlockedPairUserIds
<1>18. ASSUME NEW b \in Inbound, IngestFanout(b) PROVE AuthorInv'
    BY <1>18 DEF IngestFanout, Fanout, Targets, Forget, Goto
<1>19. ASSUME NEW r \in Resolves, TakeDownRead(r) PROVE AuthorInv'
    BY <1>19 DEF TakeDownRead, Mint, Goto, Messages
<1>20. ASSUME NEW r \in Resolves, TakeDownCommit(r) PROVE AuthorInv'
    BY <1>20 DEF TakeDownCommit, Goto
<1>21. ASSUME NEW r \in Resolves, TakeDownFanout(r) PROVE AuthorInv'
    BY <1>21 DEF TakeDownFanout, Fanout, Targets, Forget, Goto
<1>22. ASSUME NEW u \in Users, NEW v \in Users, BlockUser(u, v) PROVE AuthorInv'
    BY <1>22 DEF BlockUser
<1>23. ASSUME NEW u \in Users, NEW v \in Users, UnblockUser(u, v) PROVE AuthorInv'
    BY <1>23 DEF UnblockUser
<1>24. ASSUME NEW u \in Users, RemoveMember(u) PROVE AuthorInv'
    BY <1>24 DEF RemoveMember
<1>25. CASE UNCHANGED vars
    BY <1>25 DEF vars
<1> QED
    BY <1>1, <1>2, <1>3, <1>4, <1>5, <1>6, <1>7, <1>8, <1>9, <1>10, <1>11, <1>12, <1>13,
       <1>14, <1>15, <1>16, <1>17, <1>18, <1>19, <1>20, <1>21, <1>22, <1>23, <1>24, <1>25, <1>26
    DEF Next, HandlerStep, IngestStep, TakeDownStep


\* The exclusion set holds nobody who was never in a block relationship.
LEMMA ExcludeStep ==
    ASSUME TypeOK, ExcludeInv, [Next]_vars
    PROVE  ExcludeInv'
<1> USE IdsAreNaturals, OwnersAreUsers, SendersKnown, NoneIsNoValue, TasksDisjoint
    DEF TypeOK, ExcludeInv, Blocked, table, wire, hist, locals, Tasks
<1>1. ASSUME NEW c \in Conns, Connect(c) PROVE ExcludeInv'
    BY <1>1 DEF Connect
<1>2. ASSUME NEW c \in Conns, PeerGone(c) PROVE ExcludeInv'
    BY <1>2 DEF PeerGone
<1>3. ASSUME NEW c \in Conns, SubscribeAcl(c) PROVE ExcludeInv'
    BY <1>3 DEF SubscribeAcl, Goto
<1>4. ASSUME NEW c \in Conns, SubscribeAdd(c) PROVE ExcludeInv'
    BY <1>4 DEF SubscribeAdd, Goto
<1>5. ASSUME NEW c \in Conns, FenceMessages(c) PROVE ExcludeInv'
    BY <1>5 DEF FenceMessages, Goto, IsTop
<1>6. ASSUME NEW c \in Conns, FenceRetractions(c) PROVE ExcludeInv'
    BY <1>6 DEF FenceRetractions, Goto, IsTop, Larger
<1>7. ASSUME NEW c \in Conns, SendSuback(c) PROVE ExcludeInv'
  <2>1. CASE Leave(c)
    BY <1>7, <2>1 DEF Leave, SendSuback
  <2>2. CASE ~Leave(c)
    <3>1. pc[c] = "suback" /\ pc' = [pc EXCEPT ![c] = "idle"]
      BY <1>7, <2>2 DEF SendSuback, Goto
    <3>2. UNCHANGED <<minted, table, blocks, row, created, exclude, hist>>
      BY <1>7, <2>2 DEF SendSuback
    <3> QED
      BY <3>1, <3>2
  <2> QED
    BY <2>1, <2>2
<1>8. ASSUME NEW c \in Conns, InsertOutbound(c) PROVE ExcludeInv'
    BY <1>8 DEF InsertOutbound, Leave, Goto, StoreMessage, BlockedPairUserIds
<1>9. ASSUME NEW c \in Conns, ExcludeOutbound(c) PROVE ExcludeInv'
    BY <1>9 DEF ExcludeOutbound, Exclude, BlockedPairUserIds, Goto
<1>10. ASSUME NEW c \in Conns, SendAck(c) PROVE ExcludeInv'
    BY <1>10 DEF SendAck, Leave, Goto, Forget
<1>11. ASSUME NEW c \in Conns, PublishAndFanout(c) PROVE ExcludeInv'
    BY <1>11 DEF PublishAndFanout, Fanout, Targets, Forget, Goto
<1>12. ASSUME NEW c \in Conns, ReceiveFails(c) PROVE ExcludeInv'
    BY <1>12 DEF ReceiveFails, Leave
<1>26. ASSUME NEW c \in Conns, PublishRaises(c) PROVE ExcludeInv'
    BY <1>26 DEF PublishRaises, Leave
<1>13. ASSUME NEW c \in Conns, NEW k \in Cmids, Resend(c, k) PROVE ExcludeInv'
    BY <1>13 DEF Resend, Goto, Messages
<1>14. ASSUME NEW c \in Conns, NEW k \in Cmids, SendNew(c, k) PROVE ExcludeInv'
    BY <1>14 DEF SendNew, Mint, Goto
<1>15. ASSUME NEW b \in Inbound, IngestStart(b) PROVE ExcludeInv'
    BY <1>15 DEF IngestStart, Mint, Goto
<1>16. ASSUME NEW b \in Inbound, IngestInsert(b) PROVE ExcludeInv'
    BY <1>16 DEF IngestInsert, Goto, StoreMessage, BlockedPairUserIds
<1>17. ASSUME NEW b \in Inbound, IngestExclude(b) PROVE ExcludeInv'
    BY <1>17 DEF IngestExclude, Exclude, Goto, BlockedPairUserIds
<1>18. ASSUME NEW b \in Inbound, IngestFanout(b) PROVE ExcludeInv'
    BY <1>18 DEF IngestFanout, Fanout, Targets, Forget, Goto
<1>19. ASSUME NEW r \in Resolves, TakeDownRead(r) PROVE ExcludeInv'
    BY <1>19 DEF TakeDownRead, Mint, Goto, Messages
<1>20. ASSUME NEW r \in Resolves, TakeDownCommit(r) PROVE ExcludeInv'
    BY <1>20 DEF TakeDownCommit, Goto
<1>21. ASSUME NEW r \in Resolves, TakeDownFanout(r) PROVE ExcludeInv'
    BY <1>21 DEF TakeDownFanout, Fanout, Targets, Forget, Goto
<1>22. ASSUME NEW u \in Users, NEW v \in Users, BlockUser(u, v) PROVE ExcludeInv'
    BY <1>22 DEF BlockUser
<1>23. ASSUME NEW u \in Users, NEW v \in Users, UnblockUser(u, v) PROVE ExcludeInv'
    BY <1>23 DEF UnblockUser
<1>24. ASSUME NEW u \in Users, RemoveMember(u) PROVE ExcludeInv'
    BY <1>24 DEF RemoveMember
<1>25. CASE UNCHANGED vars
    BY <1>25 DEF vars
<1> QED
    BY <1>1, <1>2, <1>3, <1>4, <1>5, <1>6, <1>7, <1>8, <1>9, <1>10, <1>11, <1>12, <1>13,
       <1>14, <1>15, <1>16, <1>17, <1>18, <1>19, <1>20, <1>21, <1>22, <1>23, <1>24, <1>25, <1>26
    DEF Next, HandlerStep, IngestStep, TakeDownStep


\* A connection is subscribed before its fence is read.
LEMMA SubStep ==
    ASSUME TypeOK, SubInv, [Next]_vars
    PROVE  SubInv'
<1> USE IdsAreNaturals, OwnersAreUsers, SendersKnown, NoneIsNoValue, TasksDisjoint
    DEF TypeOK, SubInv, table, wire, hist, locals, Tasks
<1>1. ASSUME NEW c \in Conns, Connect(c) PROVE SubInv'
    BY <1>1 DEF Connect
<1>2. ASSUME NEW c \in Conns, PeerGone(c) PROVE SubInv'
    BY <1>2 DEF PeerGone
<1>3. ASSUME NEW c \in Conns, SubscribeAcl(c) PROVE SubInv'
    BY <1>3 DEF SubscribeAcl, Goto
<1>4. ASSUME NEW c \in Conns, SubscribeAdd(c) PROVE SubInv'
    BY <1>4 DEF SubscribeAdd, Goto
<1>5. ASSUME NEW c \in Conns, FenceMessages(c) PROVE SubInv'
    BY <1>5 DEF FenceMessages, Goto, IsTop
<1>6. ASSUME NEW c \in Conns, FenceRetractions(c) PROVE SubInv'
    BY <1>6 DEF FenceRetractions, Goto, IsTop, Larger
<1>7. ASSUME NEW c \in Conns, SendSuback(c) PROVE SubInv'
    BY <1>7 DEF SendSuback, Leave, Goto
<1>8. ASSUME NEW c \in Conns, InsertOutbound(c) PROVE SubInv'
    BY <1>8 DEF InsertOutbound, Leave, Goto, StoreMessage, BlockedPairUserIds
<1>9. ASSUME NEW c \in Conns, ExcludeOutbound(c) PROVE SubInv'
    BY <1>9 DEF ExcludeOutbound, Exclude, BlockedPairUserIds, Goto
<1>10. ASSUME NEW c \in Conns, SendAck(c) PROVE SubInv'
    BY <1>10 DEF SendAck, Leave, Goto, Forget
<1>11. ASSUME NEW c \in Conns, PublishAndFanout(c) PROVE SubInv'
    BY <1>11 DEF PublishAndFanout, Fanout, Targets, Forget, Goto
<1>12. ASSUME NEW c \in Conns, ReceiveFails(c) PROVE SubInv'
    BY <1>12 DEF ReceiveFails, Leave
<1>26. ASSUME NEW c \in Conns, PublishRaises(c) PROVE SubInv'
    BY <1>26 DEF PublishRaises, Leave
<1>13. ASSUME NEW c \in Conns, NEW k \in Cmids, Resend(c, k) PROVE SubInv'
    BY <1>13 DEF Resend, Goto, Messages
<1>14. ASSUME NEW c \in Conns, NEW k \in Cmids, SendNew(c, k) PROVE SubInv'
    BY <1>14 DEF SendNew, Mint, Goto
<1>15. ASSUME NEW b \in Inbound, IngestStart(b) PROVE SubInv'
    BY <1>15 DEF IngestStart, Mint, Goto
<1>16. ASSUME NEW b \in Inbound, IngestInsert(b) PROVE SubInv'
    BY <1>16 DEF IngestInsert, Goto, StoreMessage, BlockedPairUserIds
<1>17. ASSUME NEW b \in Inbound, IngestExclude(b) PROVE SubInv'
    BY <1>17 DEF IngestExclude, Exclude, Goto, BlockedPairUserIds
<1>18. ASSUME NEW b \in Inbound, IngestFanout(b) PROVE SubInv'
    BY <1>18 DEF IngestFanout, Fanout, Targets, Forget, Goto
<1>19. ASSUME NEW r \in Resolves, TakeDownRead(r) PROVE SubInv'
    BY <1>19 DEF TakeDownRead, Mint, Goto, Messages
<1>20. ASSUME NEW r \in Resolves, TakeDownCommit(r) PROVE SubInv'
    BY <1>20 DEF TakeDownCommit, Goto
<1>21. ASSUME NEW r \in Resolves, TakeDownFanout(r) PROVE SubInv'
    BY <1>21 DEF TakeDownFanout, Fanout, Targets, Forget, Goto
<1>22. ASSUME NEW u \in Users, NEW v \in Users, BlockUser(u, v) PROVE SubInv'
    BY <1>22 DEF BlockUser
<1>23. ASSUME NEW u \in Users, NEW v \in Users, UnblockUser(u, v) PROVE SubInv'
    BY <1>23 DEF UnblockUser
<1>24. ASSUME NEW u \in Users, RemoveMember(u) PROVE SubInv'
    BY <1>24 DEF RemoveMember
<1>25. CASE UNCHANGED vars
    BY <1>25 DEF vars
<1> QED
    BY <1>1, <1>2, <1>3, <1>4, <1>5, <1>6, <1>7, <1>8, <1>9, <1>10, <1>11, <1>12, <1>13,
       <1>14, <1>15, <1>16, <1>17, <1>18, <1>19, <1>20, <1>21, <1>22, <1>23, <1>24, <1>25, <1>26
    DEF Next, HandlerStep, IngestStep, TakeDownStep


\* Ids and the empty fence are natural numbers.
LEMMA AxisIsNat == \A x \in Ids \cup {0} : x \in Nat
BY IdsAreNaturals

\* hub.fanout: a subscribed connection that is still registered afterwards and
\* whose owner is not excluded has the frame; no connection loses one.
LEMMA FanoutReaches ==
    ASSUME TypeOK, NEW frame \in Ids, NEW excluded, Fanout(frame, excluded),
           NEW c \in registered'
    PROVE  /\ c \in registered
           /\ live[c] \subseteq live'[c]
           /\ c \in subscribed /\ Owner[c] \notin excluded => frame \in live'[c]
           /\ fanned' = fanned \cup {frame}
BY DEF Fanout, Targets, TypeOK


\* A message is live or at or below the fence, whenever the fence is read.
LEMMA MessageGapStep ==
    ASSUME TypeOK, RowKnown, IdInv, AuthorInv, ExcludeInv, SubInv, MessageGapInv, [Next]_vars
    PROVE  MessageGapInv'
<1> USE IdsAreNaturals, OwnersAreUsers, SendersKnown, NoneIsNoValue, TasksDisjoint
    DEF TypeOK, RowKnown, IdInv, AuthorInv, SubInv, MessageGapInv, Owed, ReachedBy, table, wire, hist, locals, Tasks
<1>1. ASSUME NEW c \in Conns, Connect(c) PROVE MessageGapInv'
    BY <1>1 DEF Connect
<1>2. ASSUME NEW c \in Conns, PeerGone(c) PROVE MessageGapInv'
    BY <1>2 DEF PeerGone
<1>3. ASSUME NEW c \in Conns, SubscribeAcl(c) PROVE MessageGapInv'
    BY <1>3 DEF SubscribeAcl, Goto
<1>4. ASSUME NEW c \in Conns, SubscribeAdd(c) PROVE MessageGapInv'
    BY <1>4 DEF SubscribeAdd, Goto
<1>5. ASSUME NEW c \in Conns, FenceMessages(c) PROVE MessageGapInv'
  <2> SUFFICES ASSUME NEW d \in registered', NEW i \in fanned', Owed(d, i)'
               PROVE  ReachedBy(d, i, {"fenceRets", "suback"})'
    BY DEF MessageGapInv
  <2>1. PICK t \in Ids \cup {0} :
           IsTop(t, VisibleMessages(Owner[c])) /\ top' = [top EXCEPT ![c] = t]
    BY <1>5 DEF FenceMessages
  <2>2. /\ pc[c] = "fenceMsgs" /\ pc' = [pc EXCEPT ![c] = "fenceRets"]
        /\ UNCHANGED <<sender, softDeleted, everBlocked, registered, live, fanned, fence>>
    BY <1>5 DEF FenceMessages, Goto
  <2>3. i \in fanned /\ d \in registered /\ Owed(d, i)
    BY <2>2
  <2>4. CASE d = c
    <3>1. i \in VisibleMessages(Owner[c])
      <4>1. ~Blocked(Owner[c], sender[i])
        BY <2>3, <2>4 DEF Blocked, ExcludeInv
      <4> QED
        BY <2>3, <4>1 DEF VisibleMessages, Messages
    <3>2. i <= t
      BY <2>1, <3>1 DEF IsTop
    <3>3. top'[c] = t /\ fence'[c] = fence[c] /\ live'[c] = live[c]
      BY <2>1, <2>2
    <3> QED
      BY <2>3, <2>4, <3>2, <3>3
  <2>5. CASE d # c
    BY <2>1, <2>2, <2>3, <2>5
  <2> QED
    BY <2>4, <2>5
<1>6. ASSUME NEW c \in Conns, FenceRetractions(c) PROVE MessageGapInv'
  <2> SUFFICES ASSUME NEW d \in registered', NEW i \in fanned', Owed(d, i)'
               PROVE  ReachedBy(d, i, {"fenceRets", "suback"})'
    BY DEF MessageGapInv
  <2>1. PICK t \in Ids \cup {0} : top' = [top EXCEPT ![c] = Larger(@, t)]
    BY <1>6 DEF FenceRetractions
  <2>2. /\ pc[c] = "fenceRets" /\ pc' = [pc EXCEPT ![c] = "suback"]
        /\ UNCHANGED <<sender, softDeleted, everBlocked, registered, live, fanned, fence>>
    BY <1>6 DEF FenceRetractions, Goto
  <2>3. ReachedBy(d, i, {"fenceRets", "suback"})
    BY <2>2
  <2>4. top[c] <= top'[c] /\ i \in Nat /\ top[c] \in Nat /\ top'[c] \in Nat
    <3>1. i \in Nat /\ top[c] \in Nat /\ t \in Nat
      <4>1. i \in Ids /\ top[c] \in Ids \cup {0}
        BY <2>2
      <4> QED
        BY <4>1, AxisIsNat
    <3>2. top'[c] = Larger(top[c], t)
      BY <2>1
    <3> QED
      BY <3>1, <3>2 DEF Larger
  <2>5. CASE d = c
    BY <2>2, <2>3, <2>4, <2>5
  <2>6. CASE d # c
    BY <2>1, <2>2, <2>3, <2>6
  <2> QED
    BY <2>5, <2>6
<1>7. ASSUME NEW c \in Conns, SendSuback(c) PROVE MessageGapInv'
  <2> SUFFICES ASSUME NEW d \in registered', NEW i \in fanned', Owed(d, i)'
               PROVE  ReachedBy(d, i, {"fenceRets", "suback"})'
    BY DEF MessageGapInv
  <2>1. CASE Leave(c)
    BY <1>7, <2>1 DEF Leave
  <2>2. CASE ~Leave(c)
    <3>1. /\ pc[c] = "suback" /\ pc' = [pc EXCEPT ![c] = "idle"]
          /\ fence' = [fence EXCEPT ![c] = top[c]]
          /\ \A e \in Conns : e # c => top'[e] = top[e]
          /\ UNCHANGED <<sender, softDeleted, everBlocked, registered, live, fanned>>
      BY <1>7, <2>2 DEF SendSuback, Goto
    <3>2. ReachedBy(d, i, {"fenceRets", "suback"})
      BY <3>1
    <3>3. CASE d = c
      BY <3>1, <3>2, <3>3
    <3>4. CASE d # c
      BY <3>1, <3>2, <3>4
    <3> QED
      BY <3>3, <3>4
  <2> QED
    BY <2>1, <2>2
<1>8. ASSUME NEW c \in Conns, InsertOutbound(c) PROVE MessageGapInv'
  <2> SUFFICES ASSUME NEW d \in registered', NEW i \in fanned', Owed(d, i)'
               PROVE  ReachedBy(d, i, {"fenceRets", "suback"})'
    BY DEF MessageGapInv
  <2>1. registered' \subseteq registered /\ \A e \in Conns : e # c => pc'[e] = pc[e]
    BY <1>8 DEF InsertOutbound, Leave, Goto
  <2>2. pc'[c] \notin {"fenceRets", "suback"}
    BY <1>8 DEF InsertOutbound, Leave, Goto
  <2>3. UNCHANGED <<softDeleted, everBlocked, live, fanned, fence, top>>
    BY <1>8 DEF InsertOutbound, Leave
  <2>4. sender'[i] = sender[i]
    BY <1>8, <2>3 DEF InsertOutbound, Leave, StoreMessage
  <2>5. ReachedBy(d, i, {"fenceRets", "suback"})
    BY <2>1, <2>3, <2>4
  <2> QED
    BY <2>1, <2>2, <2>3, <2>5
<1>9. ASSUME NEW c \in Conns, ExcludeOutbound(c) PROVE MessageGapInv'
    BY <1>9 DEF ExcludeOutbound, Exclude, BlockedPairUserIds, Goto
<1>10. ASSUME NEW c \in Conns, SendAck(c) PROVE MessageGapInv'
  <2> SUFFICES ASSUME NEW d \in registered', NEW i \in fanned', Owed(d, i)'
               PROVE  ReachedBy(d, i, {"fenceRets", "suback"})'
    BY DEF MessageGapInv
  <2>1. registered' \subseteq registered /\ \A e \in Conns : e # c => pc'[e] = pc[e]
    BY <1>10 DEF SendAck, Leave, Goto
  <2>2. pc'[c] \notin {"fenceRets", "suback"}
    BY <1>10 DEF SendAck, Leave, Goto
  <2>3. UNCHANGED <<sender, softDeleted, everBlocked, live, fanned, fence, top>>
    BY <1>10 DEF SendAck, Leave
  <2> QED
    BY <2>1, <2>2, <2>3
<1>11. ASSUME NEW c \in Conns, PublishAndFanout(c) PROVE MessageGapInv'
  <2> SUFFICES ASSUME NEW d \in registered', NEW i \in fanned', Owed(d, i)'
               PROVE  ReachedBy(d, i, {"fenceRets", "suback"})'
    BY DEF MessageGapInv
  <2>1. Fanout(row[c], exclude[c]) /\ row[c] \in Ids /\ sender[row[c]] = Owner[c]
    BY <1>11 DEF PublishAndFanout
  <2>2. \A v \in exclude[c] : <<v, Owner[c]>> \in everBlocked
    BY <1>11 DEF PublishAndFanout, ExcludeInv
  <2>3. /\ UNCHANGED <<sender, softDeleted, everBlocked, subscribed, fence, top>>
        /\ pc[c] = "fanout" /\ pc' = [pc EXCEPT ![c] = "idle"]
    BY <1>11 DEF PublishAndFanout, Goto
  <2>4. /\ d \in registered /\ live[d] \subseteq live'[d]
        /\ d \in subscribed /\ Owner[d] \notin exclude[c] => row[c] \in live'[d]
        /\ fanned' = fanned \cup {row[c]}
    BY <2>1, FanoutReaches
  <2>5. CASE i \in fanned
    BY <2>3, <2>4, <2>5
  <2>6. CASE i = row[c]
    <3>1. Owner[d] \notin exclude[c]
      BY <2>1, <2>2, <2>3, <2>6
    <3>2. d \in subscribed => i \in live'[d]
      BY <2>4, <2>6, <3>1
    <3> QED
      BY <2>3, <2>4, <3>2
  <2> QED
    BY <2>4, <2>5, <2>6
<1>12. ASSUME NEW c \in Conns, ReceiveFails(c) PROVE MessageGapInv'
    BY <1>12 DEF ReceiveFails, Leave
<1>26. ASSUME NEW c \in Conns, PublishRaises(c) PROVE MessageGapInv'
    BY <1>26 DEF PublishRaises, Leave
<1>13. ASSUME NEW c \in Conns, NEW k \in Cmids, Resend(c, k) PROVE MessageGapInv'
    BY <1>13 DEF Resend, Goto, Messages
<1>14. ASSUME NEW c \in Conns, NEW k \in Cmids, SendNew(c, k) PROVE MessageGapInv'
    BY <1>14 DEF SendNew, Mint, Goto
<1>15. ASSUME NEW b \in Inbound, IngestStart(b) PROVE MessageGapInv'
    BY <1>15 DEF IngestStart, Mint, Goto
<1>16. ASSUME NEW b \in Inbound, IngestInsert(b) PROVE MessageGapInv'
    BY <1>16 DEF IngestInsert, Goto, StoreMessage, BlockedPairUserIds
<1>17. ASSUME NEW b \in Inbound, IngestExclude(b) PROVE MessageGapInv'
    BY <1>17 DEF IngestExclude, Exclude, Goto, BlockedPairUserIds
<1>18. ASSUME NEW b \in Inbound, IngestFanout(b) PROVE MessageGapInv'
  <2> SUFFICES ASSUME NEW d \in registered', NEW i \in fanned', Owed(d, i)'
               PROVE  ReachedBy(d, i, {"fenceRets", "suback"})'
    BY DEF MessageGapInv
  <2>1. Fanout(row[b], exclude[b]) /\ row[b] \in Ids /\ sender[row[b]] = From[b]
    BY <1>18 DEF IngestFanout
  <2>2. \A v \in exclude[b] : <<v, From[b]>> \in everBlocked
    BY <1>18 DEF IngestFanout, ExcludeInv
  <2>3. /\ UNCHANGED <<sender, softDeleted, everBlocked, subscribed, fence, top>>
        /\ pc[b] = "fanout" /\ pc' = [pc EXCEPT ![b] = "done"]
    BY <1>18 DEF IngestFanout, Goto
  <2>4. /\ d \in registered /\ live[d] \subseteq live'[d]
        /\ d \in subscribed /\ Owner[d] \notin exclude[b] => row[b] \in live'[d]
        /\ fanned' = fanned \cup {row[b]}
    BY <2>1, FanoutReaches
  <2>5. CASE i \in fanned
    BY <2>3, <2>4, <2>5
  <2>6. CASE i = row[b]
    <3>1. Owner[d] \notin exclude[b]
      BY <2>1, <2>2, <2>3, <2>6
    <3>2. d \in subscribed => i \in live'[d]
      BY <2>4, <2>6, <3>1
    <3> QED
      BY <2>3, <2>4, <3>2
  <2> QED
    BY <2>4, <2>5, <2>6
<1>19. ASSUME NEW r \in Resolves, TakeDownRead(r) PROVE MessageGapInv'
    BY <1>19 DEF TakeDownRead, Mint, Goto, Messages
<1>20. ASSUME NEW r \in Resolves, TakeDownCommit(r) PROVE MessageGapInv'
    BY <1>20 DEF TakeDownCommit, Goto
<1>21. ASSUME NEW r \in Resolves, TakeDownFanout(r) PROVE MessageGapInv'
    BY <1>21 DEF TakeDownFanout, Fanout, Targets, Forget, Goto
<1>22. ASSUME NEW u \in Users, NEW v \in Users, BlockUser(u, v) PROVE MessageGapInv'
    BY <1>22 DEF BlockUser
<1>23. ASSUME NEW u \in Users, NEW v \in Users, UnblockUser(u, v) PROVE MessageGapInv'
    BY <1>23 DEF UnblockUser
<1>24. ASSUME NEW u \in Users, RemoveMember(u) PROVE MessageGapInv'
    BY <1>24 DEF RemoveMember
<1>25. CASE UNCHANGED vars
    BY <1>25 DEF vars
<1> QED
    BY <1>1, <1>2, <1>3, <1>4, <1>5, <1>6, <1>7, <1>8, <1>9, <1>10, <1>11, <1>12, <1>13,
       <1>14, <1>15, <1>16, <1>17, <1>18, <1>19, <1>20, <1>21, <1>22, <1>23, <1>24, <1>25, <1>26
    DEF Next, HandlerStep, IngestStep, TakeDownStep


\* The same for a takedown.
LEMMA RetractionGapStep ==
    ASSUME TypeOK, RowKnown, IdInv, AuthorInv, ExcludeInv, SubInv, RetractionGapInv, [Next]_vars
    PROVE  RetractionGapInv'
<1> USE IdsAreNaturals, OwnersAreUsers, SendersKnown, NoneIsNoValue, TasksDisjoint
    DEF TypeOK, RowKnown, IdInv, AuthorInv, SubInv, RetractionGapInv, ReachedBy, table, wire, hist, locals, Tasks
<1>1. ASSUME NEW c \in Conns, Connect(c) PROVE RetractionGapInv'
    BY <1>1 DEF Connect
<1>2. ASSUME NEW c \in Conns, PeerGone(c) PROVE RetractionGapInv'
    BY <1>2 DEF PeerGone
<1>3. ASSUME NEW c \in Conns, SubscribeAcl(c) PROVE RetractionGapInv'
    BY <1>3 DEF SubscribeAcl, Goto
<1>4. ASSUME NEW c \in Conns, SubscribeAdd(c) PROVE RetractionGapInv'
    BY <1>4 DEF SubscribeAdd, Goto
<1>5. ASSUME NEW c \in Conns, FenceMessages(c) PROVE RetractionGapInv'
  <2> SUFFICES ASSUME NEW d \in registered', NEW i \in fanned', (target[i] # None)'
               PROVE  ReachedBy(d, i, {"suback"})'
    BY DEF RetractionGapInv
  <2>1. /\ pc' = [pc EXCEPT ![c] = "fenceRets"]
        /\ \A e \in Conns : e # c => top'[e] = top[e]
        /\ UNCHANGED <<target, registered, live, fanned, fence>>
    BY <1>5 DEF FenceMessages, Goto
  <2> QED
    BY <2>1
<1>6. ASSUME NEW c \in Conns, FenceRetractions(c) PROVE RetractionGapInv'
  <2> SUFFICES ASSUME NEW d \in registered', NEW i \in fanned', (target[i] # None)'
               PROVE  ReachedBy(d, i, {"suback"})'
    BY DEF RetractionGapInv
  <2>1. PICK t \in Ids \cup {0} : IsTop(t, Retractions) /\ top' = [top EXCEPT ![c] = Larger(@, t)]
    BY <1>6 DEF FenceRetractions
  <2>2. /\ pc' = [pc EXCEPT ![c] = "suback"]
        /\ UNCHANGED <<target, registered, live, fanned, fence>>
    BY <1>6 DEF FenceRetractions, Goto
  <2>3. ReachedBy(d, i, {"suback"})
    BY <2>2
  <2>4. CASE d = c
    <3>1. i \in Nat /\ top[c] \in Nat /\ t \in Nat /\ i <= t
      <4>1. i \in Ids /\ top[c] \in Ids \cup {0} /\ i \in Retractions
        BY <2>2 DEF Retractions
      <4>2. i <= t
        BY <2>1, <4>1 DEF IsTop
      <4> QED
        BY <4>1, <4>2, AxisIsNat
    <3>2. top'[c] = Larger(top[c], t)
      BY <2>1
    <3>3. i <= top'[c]
      BY <3>1, <3>2 DEF Larger
    <3> QED
      BY <2>2, <2>3, <2>4, <3>3
  <2>5. CASE d # c
    BY <2>1, <2>2, <2>3, <2>5
  <2> QED
    BY <2>4, <2>5
<1>7. ASSUME NEW c \in Conns, SendSuback(c) PROVE RetractionGapInv'
  <2> SUFFICES ASSUME NEW d \in registered', NEW i \in fanned', (target[i] # None)'
               PROVE  ReachedBy(d, i, {"suback"})'
    BY DEF RetractionGapInv
  <2>1. CASE Leave(c)
    BY <1>7, <2>1 DEF Leave
  <2>2. CASE ~Leave(c)
    <3>1. /\ pc[c] = "suback" /\ pc' = [pc EXCEPT ![c] = "idle"]
          /\ fence' = [fence EXCEPT ![c] = top[c]]
          /\ \A e \in Conns : e # c => top'[e] = top[e]
          /\ UNCHANGED <<target, everBlocked, registered, live, fanned>>
      BY <1>7, <2>2 DEF SendSuback, Goto
    <3>2. ReachedBy(d, i, {"suback"})
      BY <3>1
    <3>3. CASE d = c
      BY <3>1, <3>2, <3>3
    <3>4. CASE d # c
      BY <3>1, <3>2, <3>4
    <3> QED
      BY <3>3, <3>4
  <2> QED
    BY <2>1, <2>2
<1>8. ASSUME NEW c \in Conns, InsertOutbound(c) PROVE RetractionGapInv'
  <2> SUFFICES ASSUME NEW d \in registered', NEW i \in fanned', (target[i] # None)'
               PROVE  ReachedBy(d, i, {"suback"})'
    BY DEF RetractionGapInv
  <2>1. registered' \subseteq registered /\ \A e \in Conns : e # c => pc'[e] = pc[e]
    BY <1>8 DEF InsertOutbound, Leave, Goto
  <2>2. pc'[c] # "suback"
    BY <1>8 DEF InsertOutbound, Leave, Goto
  <2>3. UNCHANGED <<target, live, fanned, fence, top>>
    BY <1>8 DEF InsertOutbound, Leave
  <2> QED
    BY <2>1, <2>2, <2>3
<1>9. ASSUME NEW c \in Conns, ExcludeOutbound(c) PROVE RetractionGapInv'
    BY <1>9 DEF ExcludeOutbound, Exclude, BlockedPairUserIds, Goto
<1>10. ASSUME NEW c \in Conns, SendAck(c) PROVE RetractionGapInv'
  <2> SUFFICES ASSUME NEW d \in registered', NEW i \in fanned', (target[i] # None)'
               PROVE  ReachedBy(d, i, {"suback"})'
    BY DEF RetractionGapInv
  <2>1. registered' \subseteq registered /\ \A e \in Conns : e # c => pc'[e] = pc[e]
    BY <1>10 DEF SendAck, Leave, Goto
  <2>2. pc'[c] # "suback"
    BY <1>10 DEF SendAck, Leave, Goto
  <2>3. UNCHANGED <<target, live, fanned, fence, top>>
    BY <1>10 DEF SendAck, Leave
  <2> QED
    BY <2>1, <2>2, <2>3
<1>11. ASSUME NEW c \in Conns, PublishAndFanout(c) PROVE RetractionGapInv'
  <2> SUFFICES ASSUME NEW d \in registered', NEW i \in fanned', (target[i] # None)'
               PROVE  ReachedBy(d, i, {"suback"})'
    BY DEF RetractionGapInv
  <2>1. Fanout(row[c], exclude[c]) /\ row[c] \in Ids /\ target[row[c]] = None
    <3>1. Fanout(row[c], exclude[c]) /\ row[c] \in Ids /\ sender[row[c]] = Owner[c]
      BY <1>11 DEF PublishAndFanout
    <3>2. Owner[c] # None
      OBVIOUS
    <3> QED
      BY <3>1, <3>2
  <2>2. /\ UNCHANGED <<target, subscribed, fence, top>>
        /\ pc[c] = "fanout" /\ pc' = [pc EXCEPT ![c] = "idle"]
    BY <1>11 DEF PublishAndFanout, Goto
  <2>3. /\ d \in registered /\ live[d] \subseteq live'[d]
        /\ d \in subscribed /\ Owner[d] \notin exclude[c] => row[c] \in live'[d]
        /\ fanned' = fanned \cup {row[c]}
    BY <2>1, FanoutReaches
  <2>4. CASE i \in fanned
    BY <2>2, <2>3, <2>4
  <2>5. CASE i = row[c]
    BY <2>1, <2>2, <2>3, <2>5
  <2> QED
    BY <2>3, <2>4, <2>5
<1>12. ASSUME NEW c \in Conns, ReceiveFails(c) PROVE RetractionGapInv'
    BY <1>12 DEF ReceiveFails, Leave
<1>26. ASSUME NEW c \in Conns, PublishRaises(c) PROVE RetractionGapInv'
    BY <1>26 DEF PublishRaises, Leave
<1>13. ASSUME NEW c \in Conns, NEW k \in Cmids, Resend(c, k) PROVE RetractionGapInv'
    BY <1>13 DEF Resend, Goto, Messages
<1>14. ASSUME NEW c \in Conns, NEW k \in Cmids, SendNew(c, k) PROVE RetractionGapInv'
    BY <1>14 DEF SendNew, Mint, Goto
<1>15. ASSUME NEW b \in Inbound, IngestStart(b) PROVE RetractionGapInv'
    BY <1>15 DEF IngestStart, Mint, Goto
<1>16. ASSUME NEW b \in Inbound, IngestInsert(b) PROVE RetractionGapInv'
    BY <1>16 DEF IngestInsert, Goto, StoreMessage, BlockedPairUserIds
<1>17. ASSUME NEW b \in Inbound, IngestExclude(b) PROVE RetractionGapInv'
    BY <1>17 DEF IngestExclude, Exclude, Goto, BlockedPairUserIds
<1>18. ASSUME NEW b \in Inbound, IngestFanout(b) PROVE RetractionGapInv'
  <2> SUFFICES ASSUME NEW d \in registered', NEW i \in fanned', (target[i] # None)'
               PROVE  ReachedBy(d, i, {"suback"})'
    BY DEF RetractionGapInv
  <2>1. Fanout(row[b], exclude[b]) /\ row[b] \in Ids /\ target[row[b]] = None
    <3>1. Fanout(row[b], exclude[b]) /\ row[b] \in Ids /\ sender[row[b]] = From[b]
      BY <1>18 DEF IngestFanout
    <3>2. From[b] # None
      OBVIOUS
    <3> QED
      BY <3>1, <3>2
  <2>2. /\ UNCHANGED <<target, subscribed, fence, top>>
        /\ pc[b] = "fanout" /\ pc' = [pc EXCEPT ![b] = "done"]
    BY <1>18 DEF IngestFanout, Goto
  <2>3. /\ d \in registered /\ live[d] \subseteq live'[d]
        /\ d \in subscribed /\ Owner[d] \notin exclude[b] => row[b] \in live'[d]
        /\ fanned' = fanned \cup {row[b]}
    BY <2>1, FanoutReaches
  <2>4. CASE i \in fanned
    BY <2>2, <2>3, <2>4
  <2>5. CASE i = row[b]
    BY <2>1, <2>2, <2>3, <2>5
  <2> QED
    BY <2>3, <2>4, <2>5
<1>19. ASSUME NEW r \in Resolves, TakeDownRead(r) PROVE RetractionGapInv'
    BY <1>19 DEF TakeDownRead, Mint, Goto, Messages
<1>20. ASSUME NEW r \in Resolves, TakeDownCommit(r) PROVE RetractionGapInv'
    BY <1>20 DEF TakeDownCommit, Goto
<1>21. ASSUME NEW r \in Resolves, TakeDownFanout(r) PROVE RetractionGapInv'
  <2> SUFFICES ASSUME NEW d \in registered', NEW i \in fanned', (target[i] # None)'
               PROVE  ReachedBy(d, i, {"suback"})'
    BY DEF RetractionGapInv
  <2>1. Fanout(row[r], {}) /\ row[r] \in Ids
    BY <1>21 DEF TakeDownFanout
  <2>2. /\ UNCHANGED <<target, subscribed, fence, top>>
        /\ pc[r] = "fanout" /\ pc' = [pc EXCEPT ![r] = "done"]
    BY <1>21 DEF TakeDownFanout, Goto
  <2>3. /\ d \in registered /\ live[d] \subseteq live'[d]
        /\ d \in subscribed /\ Owner[d] \notin {} => row[r] \in live'[d]
        /\ fanned' = fanned \cup {row[r]}
    BY <2>1, FanoutReaches
  <2>4. CASE i \in fanned
    BY <2>2, <2>3, <2>4
  <2>5. CASE i = row[r]
    BY <2>1, <2>2, <2>3, <2>5
  <2> QED
    BY <2>3, <2>4, <2>5
<1>22. ASSUME NEW u \in Users, NEW v \in Users, BlockUser(u, v) PROVE RetractionGapInv'
    BY <1>22 DEF BlockUser
<1>23. ASSUME NEW u \in Users, NEW v \in Users, UnblockUser(u, v) PROVE RetractionGapInv'
    BY <1>23 DEF UnblockUser
<1>24. ASSUME NEW u \in Users, RemoveMember(u) PROVE RetractionGapInv'
    BY <1>24 DEF RemoveMember
<1>25. CASE UNCHANGED vars
    BY <1>25 DEF vars
<1> QED
    BY <1>1, <1>2, <1>3, <1>4, <1>5, <1>6, <1>7, <1>8, <1>9, <1>10, <1>11, <1>12, <1>13,
       <1>14, <1>15, <1>16, <1>17, <1>18, <1>19, <1>20, <1>21, <1>22, <1>23, <1>24, <1>25, <1>26
    DEF Next, HandlerStep, IngestStep, TakeDownStep


\* A new row is open to everybody who is in no block relationship with its author.
LEMMA StoreOpen ==
    ASSUME TypeOK, RowKnown, IdInv, AuthorInv, OpenInv, NEW t \in Tasks, NEW author, NEW k,
           author \in Users \cup {External}, pc[t] = "insert",
           pc' = [pc EXCEPT ![t] = "exclude"], StoreMessage(row[t], author, k),
           UNCHANGED <<target, blocks, live, row, created, exclude, fanned>>
    PROVE  OpenInv'
<1> DEFINE i == row[t]
<1>1. /\ i \in Ids /\ sender[i] = None /\ i \notin fanned
      /\ sender' = [sender EXCEPT ![i] = author]
      /\ openTo' = [openTo EXCEPT ![i] = {v \in Users : ~Blocked(author, v)}]
    BY DEF TypeOK, RowKnown, IdInv, StoreMessage, BlockedPairUserIds
<1>2. /\ \A c \in created : pc[c] \in {"ack", "fanout"} => row[c] # i
      /\ \A b \in Inbound : pc[b] = "fanout" => row[b] # i
    BY <1>1, NoneIsNoValue, OwnersAreUsers, SendersKnown DEF AuthorInv, TypeOK
<1> HIDE DEF i
<1>3. \A j \in Ids, u \in Users : sender'[j] # None /\ ~Blocked(u, sender[j])' => u \in openTo'[j]
    BY <1>1 DEF OpenInv, Blocked, TypeOK
<1>4. \A c \in created : pc'[c] \in {"ack", "fanout"} => Users \ exclude[c] \subseteq openTo'[row[c]]
    BY <1>1, <1>2 DEF OpenInv, TypeOK, Tasks
<1>5. \A b \in Inbound : pc'[b] = "fanout" => Users \ exclude[b] \subseteq openTo'[row[b]]
    BY <1>1, <1>2 DEF OpenInv, TypeOK, Tasks
<1>6. BlockRespected'
    BY <1>1 DEF OpenInv, BlockRespected, TypeOK
<1> QED
    BY <1>3, <1>4, <1>5, <1>6 DEF OpenInv

\* A message goes out only to users it has been open to.
LEMMA OpenStep ==
    ASSUME TypeOK, RowKnown, IdInv, AuthorInv, OpenInv, [Next]_vars
    PROVE  OpenInv'
<1> USE IdsAreNaturals, OwnersAreUsers, SendersKnown, NoneIsNoValue, TasksDisjoint
    DEF TypeOK, RowKnown, IdInv, AuthorInv, OpenInv, BlockRespected, Blocked, table, wire, hist, locals, Tasks
<1>0. ASSUME NEW c \in Conns, Leave(c) PROVE OpenInv'
    BY <1>0 DEF Leave
<1>1. ASSUME NEW c \in Conns, Connect(c) PROVE OpenInv'
    BY <1>1 DEF Connect
<1>2. ASSUME NEW c \in Conns, PeerGone(c) PROVE OpenInv'
    BY <1>2 DEF PeerGone
<1>3. ASSUME NEW c \in Conns, SubscribeAcl(c) PROVE OpenInv'
    BY <1>3 DEF SubscribeAcl, Goto
<1>4. ASSUME NEW c \in Conns, SubscribeAdd(c) PROVE OpenInv'
    BY <1>4 DEF SubscribeAdd, Goto
<1>5. ASSUME NEW c \in Conns, FenceMessages(c) PROVE OpenInv'
    BY <1>5 DEF FenceMessages, Goto
<1>6. ASSUME NEW c \in Conns, FenceRetractions(c) PROVE OpenInv'
    BY <1>6 DEF FenceRetractions, Goto
<1>7. ASSUME NEW c \in Conns, SendSuback(c) PROVE OpenInv'
  <2>1. CASE Leave(c)
    BY <1>0, <2>1
  <2>2. CASE ~Leave(c)
    <3>1. pc[c] = "suback" /\ pc' = [pc EXCEPT ![c] = "idle"]
      BY <1>7, <2>2 DEF SendSuback, Goto
    <3>2. UNCHANGED <<table, blocks, live, row, created, exclude, hist>>
      BY <1>7, <2>2 DEF SendSuback
    <3> QED
      BY <3>1, <3>2
  <2> QED
    BY <2>1, <2>2
<1>8. ASSUME NEW c \in Conns, InsertOutbound(c) PROVE OpenInv'
  <2>1. CASE Leave(c)
    BY <1>0, <2>1
  <2>2. CASE ~Leave(c)
    <3>1. /\ pc[c] = "insert" /\ pc' = [pc EXCEPT ![c] = "exclude"]
          /\ StoreMessage(row[c], Owner[c], key[c])
          /\ UNCHANGED <<target, blocks, live, row, created, exclude, fanned>>
      BY <1>8, <2>2 DEF InsertOutbound, Goto
    <3>2. c \in Tasks /\ Owner[c] \in Users \cup {External}
      OBVIOUS
    <3> HIDE DEF TypeOK, RowKnown, IdInv, AuthorInv, OpenInv
    <3> QED
      BY <3>1, <3>2, StoreOpen
  <2> QED
    BY <2>1, <2>2
<1>9. ASSUME NEW c \in Conns, ExcludeOutbound(c) PROVE OpenInv'
  <2>1. /\ pc[c] = "exclude" /\ pc' = [pc EXCEPT ![c] = "ack"]
        /\ exclude' = [exclude EXCEPT ![c] = BlockedPairUserIds(Owner[c])]
        /\ UNCHANGED <<table, blocks, live, row, created, hist>>
    BY <1>9 DEF ExcludeOutbound, Exclude, Goto
  <2>2. exclude'[c] = {w \in Users : Blocked(Owner[c], w)}
    BY <2>1 DEF BlockedPairUserIds
  <2>3. ASSUME c \in created, NEW w \in Users \ exclude'[c] PROVE w \in openTo[row[c]]
    <3>1. row[c] \in Ids /\ sender[row[c]] = Owner[c] /\ Owner[c] # None
      BY <2>1, <2>3
    <3> QED
      BY <2>2, <2>3, <3>1
  <2> QED
    BY <2>1, <2>3
<1>10. ASSUME NEW c \in Conns, SendAck(c) PROVE OpenInv'
  <2>1. CASE Leave(c)
    BY <1>0, <2>1
  <2>2. CASE ~Leave(c)
    <3>1. UNCHANGED <<table, blocks, live, created, fanned, openTo>>
      BY <1>10, <2>2 DEF SendAck
    <3>2. CASE c \in created
      <4>1. pc[c] = "ack" /\ pc' = [pc EXCEPT ![c] = "fanout"] /\ UNCHANGED <<row, exclude>>
        BY <1>10, <2>2, <3>2 DEF SendAck, Goto
      <4> QED
        BY <3>1, <4>1
    <3>3. CASE c \notin created
      <4>1. /\ pc' = [pc EXCEPT ![c] = "idle"]
            /\ row' = [row EXCEPT ![c] = None] /\ exclude' = [exclude EXCEPT ![c] = {}]
        BY <1>10, <2>2, <3>3 DEF SendAck, Goto, Forget
      <4> QED
        BY <3>1, <3>3, <4>1
    <3> QED
      BY <3>2, <3>3
  <2> QED
    BY <2>1, <2>2
<1>11. ASSUME NEW c \in Conns, PublishAndFanout(c) PROVE OpenInv'
    BY <1>11 DEF PublishAndFanout, Fanout, Targets, Forget, Goto
<1>12. ASSUME NEW c \in Conns, ReceiveFails(c) PROVE OpenInv'
    BY <1>0, <1>12 DEF ReceiveFails
<1>13. ASSUME NEW c \in Conns, PublishRaises(c) PROVE OpenInv'
    BY <1>0, <1>13 DEF PublishRaises
<1>14. ASSUME NEW c \in Conns, NEW k \in Cmids, Resend(c, k) PROVE OpenInv'
    BY <1>14 DEF Resend, Goto, Messages
<1>15. ASSUME NEW c \in Conns, NEW k \in Cmids, SendNew(c, k) PROVE OpenInv'
    BY <1>15 DEF SendNew, Mint, Goto
<1>16. ASSUME NEW b \in Inbound, IngestStart(b) PROVE OpenInv'
    BY <1>16 DEF IngestStart, Mint, Goto
<1>17. ASSUME NEW b \in Inbound, IngestInsert(b) PROVE OpenInv'
  <2>1. /\ pc[b] = "insert" /\ pc' = [pc EXCEPT ![b] = "exclude"]
        /\ StoreMessage(row[b], From[b], None)
        /\ UNCHANGED <<target, blocks, live, row, created, exclude, fanned>>
    BY <1>17 DEF IngestInsert, Goto
  <2> QED
    BY <2>1, StoreOpen
<1>18. ASSUME NEW b \in Inbound, IngestExclude(b) PROVE OpenInv'
  <2>1. /\ pc[b] = "exclude" /\ pc' = [pc EXCEPT ![b] = "fanout"]
        /\ exclude' = [exclude EXCEPT ![b] = BlockedPairUserIds(From[b])]
        /\ UNCHANGED <<table, blocks, live, row, created, hist>>
    BY <1>18 DEF IngestExclude, Exclude, Goto
  <2>2. sender[row[b]] = From[b] /\ row[b] \in Ids /\ From[b] # None
    BY <2>1
  <2>3. exclude'[b] = {w \in Users : Blocked(From[b], w)}
    BY <2>1 DEF BlockedPairUserIds
  <2>4. \A w \in Users \ exclude'[b] : w \in openTo[row[b]]
    BY <2>2, <2>3
  <2> QED
    BY <2>1, <2>4
<1>19. ASSUME NEW b \in Inbound, IngestFanout(b) PROVE OpenInv'
    BY <1>19 DEF IngestFanout, Fanout, Targets, Forget, Goto
<1>20. ASSUME NEW r \in Resolves, TakeDownRead(r) PROVE OpenInv'
    BY <1>20 DEF TakeDownRead, Mint, Goto, Messages
<1>21. ASSUME NEW r \in Resolves, TakeDownCommit(r) PROVE OpenInv'
    BY <1>21 DEF TakeDownCommit, Goto
<1>22. ASSUME NEW r \in Resolves, TakeDownFanout(r) PROVE OpenInv'
    BY <1>22 DEF TakeDownFanout, Fanout, Targets, Forget, Goto
<1>23. ASSUME NEW u \in Users, NEW v \in Users, BlockUser(u, v) PROVE OpenInv'
    BY <1>23 DEF BlockUser
<1>24. ASSUME NEW u \in Users, NEW v \in Users, UnblockUser(u, v) PROVE OpenInv'
  <2>1. /\ blocks' = blocks \ {<<u, v>>}
        /\ UNCHANGED <<table, live, pc, row, created, exclude, fanned>>
    BY <1>24 DEF UnblockUser
  <2>2. \A i \in Ids : openTo[i] \subseteq openTo'[i]
    BY <1>24 DEF UnblockUser
  <2>3. ASSUME NEW i \in Ids, NEW w \in Users, sender[i] # None, ~Blocked(w, sender[i])'
        PROVE  w \in openTo'[i]
    <3>1. CASE ~Blocked(w, sender[i])
      BY <2>2, <2>3, <3>1
    <3>2. CASE Blocked(w, sender[i])
      <4>1. <<v, u>> \notin blocks
        BY <1>24, <2>1, <2>3, <3>2 DEF UnblockUser
      <4>2. (sender[i] = u /\ w = v) \/ (sender[i] = v /\ w = u)
        BY <2>1, <2>3, <3>2
      <4> QED
        BY <1>24, <4>1, <4>2 DEF UnblockUser
    <3> QED
      BY <3>1, <3>2
  <2> QED
    BY <2>1, <2>2, <2>3
<1>25. ASSUME NEW u \in Users, RemoveMember(u) PROVE OpenInv'
    BY <1>25 DEF RemoveMember
<1>26. CASE UNCHANGED vars
    BY <1>26 DEF vars
<1> QED
    BY <1>1, <1>2, <1>3, <1>4, <1>5, <1>6, <1>7, <1>8, <1>9, <1>10, <1>11, <1>12, <1>13,
       <1>14, <1>15, <1>16, <1>17, <1>18, <1>19, <1>20, <1>21, <1>22, <1>23, <1>24, <1>25, <1>26
    DEF Next, HandlerStep, IngestStep, TakeDownStep

\* A client_msg_id has one row, and the connection that created it publishes it once.
LEMMA OnceStep ==
    ASSUME TypeOK, RowKnown, IdInv, AuthorInv, OnceInv, [Next]_vars
    PROVE  OnceInv'
<1> USE IdsAreNaturals, OwnersAreUsers, SendersKnown, NoneIsNoValue, TasksDisjoint
    DEF TypeOK, RowKnown, IdInv, AuthorInv, OnceInv, SentOnce, Sending, table, wire, hist, locals, Tasks
<1>0. ASSUME NEW c \in Conns, Leave(c) PROVE OnceInv'
    BY <1>0 DEF Leave
<1>1. ASSUME NEW c \in Conns, Connect(c) PROVE OnceInv'
    BY <1>1 DEF Connect
<1>2. ASSUME NEW c \in Conns, PeerGone(c) PROVE OnceInv'
    BY <1>2 DEF PeerGone
<1>3. ASSUME NEW c \in Conns, SubscribeAcl(c) PROVE OnceInv'
    BY <1>3 DEF SubscribeAcl, Goto
<1>4. ASSUME NEW c \in Conns, SubscribeAdd(c) PROVE OnceInv'
    BY <1>4 DEF SubscribeAdd, Goto
<1>5. ASSUME NEW c \in Conns, FenceMessages(c) PROVE OnceInv'
    BY <1>5 DEF FenceMessages, Goto
<1>6. ASSUME NEW c \in Conns, FenceRetractions(c) PROVE OnceInv'
    BY <1>6 DEF FenceRetractions, Goto
<1>7. ASSUME NEW c \in Conns, SendSuback(c) PROVE OnceInv'
    BY SMTT(30), <1>7 DEF SendSuback, Leave, Goto
<1>8. ASSUME NEW c \in Conns, InsertOutbound(c) PROVE OnceInv'
  <2>1. CASE Leave(c)
    BY <1>0, <2>1
  <2>2. CASE ~Leave(c)
    <3>1. /\ pc[c] = "insert" /\ pc' = [pc EXCEPT ![c] = "exclude"]
          /\ \A j \in Ids : sender[j] # None => cmid[j] # key[c]
          /\ sender' = [sender EXCEPT ![row[c]] = Owner[c]]
          /\ cmid' = [cmid EXCEPT ![row[c]] = key[c]]
          /\ UNCHANGED <<row, created, published>>
      BY <1>8, <2>2 DEF InsertOutbound, Goto, StoreMessage, Messages
    <3>2. \A i, j \in Ids : i # j /\ cmid'[i] # None => cmid'[i] # cmid'[j]
      BY <3>1
    <3> QED
      BY <3>1, <3>2
  <2> QED
    BY <2>1, <2>2
<1>9. ASSUME NEW c \in Conns, ExcludeOutbound(c) PROVE OnceInv'
    BY <1>9 DEF ExcludeOutbound, Exclude, BlockedPairUserIds, Goto
<1>10. ASSUME NEW c \in Conns, SendAck(c) PROVE OnceInv'
  <2>1. CASE Leave(c)
    BY <1>0, <2>1
  <2>2. CASE ~Leave(c)
    <3>1. UNCHANGED <<table, created, published>>
      BY <1>10, <2>2 DEF SendAck
    <3>2. CASE c \in created
      <4>1. pc[c] = "ack" /\ pc' = [pc EXCEPT ![c] = "fanout"] /\ UNCHANGED row
        BY <1>10, <2>2, <3>2 DEF SendAck, Goto
      <4> QED
        BY <3>1, <4>1
    <3>3. CASE c \notin created
      <4>1. pc' = [pc EXCEPT ![c] = "idle"] /\ row' = [row EXCEPT ![c] = None]
        BY <1>10, <2>2, <3>3 DEF SendAck, Goto, Forget
      <4> QED
        BY <3>1, <3>3, <4>1
    <3> QED
      BY <3>2, <3>3
  <2> QED
    BY <2>1, <2>2
<1>11. ASSUME NEW c \in Conns, PublishAndFanout(c) PROVE OnceInv'
    BY <1>11 DEF PublishAndFanout, Fanout, Targets, Forget, Goto
<1>12. ASSUME NEW c \in Conns, ReceiveFails(c) PROVE OnceInv'
    BY <1>0, <1>12 DEF ReceiveFails
<1>13. ASSUME NEW c \in Conns, PublishRaises(c) PROVE OnceInv'
    BY <1>0, <1>13 DEF PublishRaises
<1>14. ASSUME NEW c \in Conns, NEW k \in Cmids, Resend(c, k) PROVE OnceInv'
    BY <1>14 DEF Resend, Goto, Messages
<1>15. ASSUME NEW c \in Conns, NEW k \in Cmids, SendNew(c, k) PROVE OnceInv'
    BY <1>15 DEF SendNew, Mint, Goto
<1>16. ASSUME NEW b \in Inbound, IngestStart(b) PROVE OnceInv'
    BY <1>16 DEF IngestStart, Mint, Goto
<1>17. ASSUME NEW b \in Inbound, IngestInsert(b) PROVE OnceInv'
    BY <1>17 DEF IngestInsert, Goto, StoreMessage, BlockedPairUserIds
<1>18. ASSUME NEW b \in Inbound, IngestExclude(b) PROVE OnceInv'
    BY <1>18 DEF IngestExclude, Exclude, BlockedPairUserIds, Goto
<1>19. ASSUME NEW b \in Inbound, IngestFanout(b) PROVE OnceInv'
    BY <1>19 DEF IngestFanout, Fanout, Targets, Forget, Goto
<1>20. ASSUME NEW r \in Resolves, TakeDownRead(r) PROVE OnceInv'
    BY <1>20 DEF TakeDownRead, Mint, Goto, Messages
<1>21. ASSUME NEW r \in Resolves, TakeDownCommit(r) PROVE OnceInv'
    BY <1>21 DEF TakeDownCommit, Goto
<1>22. ASSUME NEW r \in Resolves, TakeDownFanout(r) PROVE OnceInv'
    BY <1>22 DEF TakeDownFanout, Fanout, Targets, Forget, Goto
<1>23. ASSUME NEW u \in Users, NEW v \in Users, BlockUser(u, v) PROVE OnceInv'
    BY <1>23 DEF BlockUser
<1>24. ASSUME NEW u \in Users, NEW v \in Users, UnblockUser(u, v) PROVE OnceInv'
    BY <1>24 DEF UnblockUser
<1>25. ASSUME NEW u \in Users, RemoveMember(u) PROVE OnceInv'
    BY <1>25 DEF RemoveMember
<1>26. CASE UNCHANGED vars
    BY <1>26 DEF vars
<1> QED
    BY <1>1, <1>2, <1>3, <1>4, <1>5, <1>6, <1>7, <1>8, <1>9, <1>10, <1>11, <1>12, <1>13,
       <1>14, <1>15, <1>16, <1>17, <1>18, <1>19, <1>20, <1>21, <1>22, <1>23, <1>24, <1>25, <1>26
    DEF Next, HandlerStep, IngestStep, TakeDownStep

-----------------------------------------------------------------------------
(* Theorems *)

\* The inductive invariant holds when the gateway starts ...
LEMMA InvInit == Init => Inv
BY IdsAreNaturals, OwnersAreUsers, SendersKnown, NoneIsNoValue
DEF Init, Inv, TypeOK, RowKnown, IdInv, AuthorInv, ExcludeInv, SubInv,
    MessageGapInv, RetractionGapInv, OpenInv, OnceInv, BlockRespected, SentOnce, Tasks, Stages

\* ... and every step of every handler preserves it.
LEMMA InvStep == Inv /\ [Next]_vars => Inv'
<1> SUFFICES ASSUME Inv, [Next]_vars PROVE Inv'
    OBVIOUS
<1> USE DEF Inv
<1>1. TypeOK' /\ RowKnown'
    BY TypeStep
<1>2. IdInv' /\ AuthorInv'
    BY IdStep, AuthorStep
<1>3. ExcludeInv' /\ SubInv'
    BY ExcludeStep, SubStep
<1>4. MessageGapInv' /\ RetractionGapInv'
    BY MessageGapStep, RetractionGapStep
<1>5. OpenInv' /\ OnceInv'
    BY OpenStep, OnceStep
<1> QED
    BY <1>1, <1>2, <1>3, <1>4, <1>5

\* Whatever the interleaving of subscribes, sends, bus messages, takedowns and
\* blocks, a fanned-out message that the viewer is owed reached the connection
\* live or is covered by the fence it was given: the ordering invariant that
\* ws._handle_subscribe states, for any number of connections and messages.
THEOREM NoMessageIsMissed == Spec => []NoMessageGap
<1>1. Inv => NoMessageGap
    BY DEF Inv, MessageGapInv, NoMessageGap, Owed, ReachedBy
<1> QED
    BY <1>1, InvInit, InvStep, PTL DEF Spec

\* The same for retractions, whatever the blocks: a takedown that was fanned out
\* reached every subscribed connection live or lies at or below its fence.
THEOREM NoRetractionIsMissed == Spec => []NoRetractionGap
<1>1. Inv => NoRetractionGap
    BY DEF Inv, RetractionGapInv, NoRetractionGap, ReachedBy
<1> QED
    BY <1>1, InvInit, InvStep, PTL DEF Spec

\* hub.fanout's exclusion set, read before the ack: whoever was in a block relationship
\* with the author throughout the time since the commit never gets the message live,
\* however blocks, unblocks and fan-outs interleave.
THEOREM BlocksAreRespected == Spec => []BlockRespected
<1>1. Inv => BlockRespected
    BY DEF Inv, OpenInv
<1> QED
    BY <1>1, InvInit, InvStep, PTL DEF Spec

\* create_outbound's reconciliation: for any number of connections that send and resend
\* the same client_msg_id, one row is stored and it is handed to the bus at most once.
THEOREM EachIsSentOnce == Spec => []SentOnce
<1>1. Inv => SentOnce
    BY DEF Inv, OnceInv
<1> QED
    BY <1>1, InvInit, InvStep, PTL DEF Spec
=============================================================================
