------------------------------ MODULE Delivery ------------------------------
(***************************************************************************)
(* Realtime delivery of ONE private, federated channel of an island:       *)
(* realtime/ws.py (the WebSocket handler), realtime/hub.py (the            *)
(* connection registry and fan-out), domain/messages_service.py (send,     *)
(* ingest and the subscribe fence) and the takedown door of                *)
(* domain/moderation_service.py.                                           *)
(*                                                                         *)
(* Every handler is an asyncio task.  A step of the model is what a task   *)
(* does between two awaits, or one SQL statement (SQLite executes a SELECT *)
(* outside any transaction, and an INSERT .. COMMIT under the single       *)
(* writer lock, so each of them is atomic and nothing larger is).          *)
(*                                                                         *)
(* Early returns that only answer the requester (bad frame, no_channel,    *)
(* forbidden, no_reply_target, bad_origin, bad_mentions) change no state   *)
(* and are stuttering steps; the guards below are the paths that go on.    *)
(***************************************************************************)
EXTENDS Integers

CONSTANTS
    Users,      \* island accounts
    Conns,      \* Connection objects; each is opened at most once
    Owner,      \* [Conns -> Users]: Connection.user_id
    Cmids,      \* client_msg_id values
    Inbound,    \* _ingest tasks, one per inbound bus message
    From,       \* [Inbound -> Users \cup {External}]: the account it maps to
    External,   \* a bus sender that is no island account (sender_user_id NULL)
    Resolves,   \* POST /reports/{id}/resolve requests
    Ids,        \* the shared ULID axis of messages and retractions
    Ms,         \* [Ids -> Nat]: the millisecond prefix of a ULID
    None        \* no value

ASSUME IdsAreNaturals == Ids \subseteq Nat \ {0}
ASSUME OwnersAreUsers == Owner \in [Conns -> Users]
ASSUME SendersKnown   == From \in [Inbound -> Users \cup {External}]
ASSUME ExternalIsNoUser == External \notin Users
ASSUME MsIsTime       == Ms \in [Ids -> Nat]
ASSUME NoneIsNoValue  == None \notin Cmids \cup Ids \cup Users \cup {External}
ASSUME TasksDisjoint  == /\ Conns \cap Inbound = {}
                         /\ Conns \cap Resolves = {}
                         /\ Inbound \cap Resolves = {}

VARIABLES
    minted,     \* ids new_ulid() has returned
    sender,     \* messages table: id -> sender_user_id, None = no such row
    cmid,       \* messages table: id -> client_msg_id
    softDeleted,\* message ids with deleted_at set
    target,     \* message_retractions table: id -> target_msg_id, None = no row
    blocks,     \* user_blocks table: <<blocker, blocked>>
    members,    \* memberships of the channel (all with can_post)
    registered, \* Hub._conns
    subscribed, \* connections whose `subscribed` set holds the channel
    dead,       \* sockets whose peer is gone, not yet noticed by the gateway
    fence,      \* last suback fence sent on the connection, None = none yet
    live,       \* frames (message / retraction ids) written to the connection
    pc,         \* where each task stands
    row,        \* local of a task: the row it works on
    key,        \* local of _handle_send: the frame's client_msg_id
    created,    \* connections whose create_outbound returned created = True
    exclude,    \* local of a task: who must not get the frame
    top,        \* local of _handle_subscribe: the fence read so far
    victim,     \* local of take_down_message: the reported message
    published,  \* how often each message was handed to bus.send
    acked,      \* message ids acked to their sender
    everBlocked,\* history: pairs that were ever in a block relationship
    fanned,     \* history: frames whose fan-out has computed its targets
    openTo      \* history: message id -> users who, at some moment since its
                \*          commit, were in no block relationship with its sender

vars == <<minted, sender, cmid, softDeleted, target, blocks, members,
          registered, subscribed, dead, fence, live, pc, row, key, created,
          exclude, top, victim, published, acked, everBlocked, fanned, openTo>>

table == <<sender, cmid, softDeleted, target>>
wire  == <<registered, subscribed, dead, fence, live>>
locals == <<row, key, created, exclude, top, victim>>
hist  == <<published, acked, everBlocked, fanned, openTo>>

Tasks == Conns \cup Inbound \cup Resolves

Stages == {"new", "idle", "subAdd", "fenceMsgs", "fenceRets", "suback",
           "insert", "exclude", "ack", "fanout", "done"}

-----------------------------------------------------------------------------
\* The rows of the two tables, and what one viewer sees of them.

Messages    == {i \in Ids : sender[i] # None}
Retractions == {i \in Ids : target[i] # None}

\* moderation_service.is_blocked_between / not_blocked_predicate: a block hides
\* in both directions.
Blocked(u, v) == <<u, v>> \in blocks \/ <<v, u>> \in blocks

\* Mutant: only the blocks the user made, not the ones made against the user.
OwnBlocksOnly(u) == {v \in Users : <<u, v>> \in blocks}

\* moderation_service.blocked_pair_user_ids; empty for an external sender.
BlockedPairUserIds(u) == {v \in Users : Blocked(u, v)}

\* The message half of the fence and of get_history: not soft-deleted and not
\* hidden by a block.  Retractions are never block-filtered.
VisibleMessages(u) == {i \in Messages : i \notin softDeleted /\ ~Blocked(u, sender[i])}

\* SQL max(): the greatest element, 0 (the empty fence "") when there is none.
IsTop(t, S) == /\ t \in S \cup {0}
               /\ \A x \in S : x <= t

Larger(a, b) == IF a <= b THEN b ELSE a

\* new_ulid(): a fresh id whose millisecond is not before that of an id minted
\* earlier (time.time() is taken not to step back).  Two ids of the same
\* millisecond are ordered by their random tails, not by minting order.
Mint(i) == /\ i \in Ids \ minted
           /\ \A j \in minted : Ms[j] <= Ms[i]
           /\ minted' = minted \cup {i}

\* The task goes on with its next stage.
Goto(t, stage) == pc' = [pc EXCEPT ![t] = stage]

\* The handler returned: its locals are gone.
Forget(t) == /\ row' = [row EXCEPT ![t] = None]
             /\ exclude' = [exclude EXCEPT ![t] = {}]

-----------------------------------------------------------------------------
\* The WebSocket handler's life cycle.

\* ws_endpoint: accept and register.  (Authentication is module Sessions.)
Connect(c) ==
    /\ pc[c] = "new"
    /\ pc' = [pc EXCEPT ![c] = "idle"]
    /\ registered' = registered \cup {c}
    /\ UNCHANGED <<minted, table, blocks, members, subscribed, dead,
                   fence, live, locals, hist>>

\* The peer vanishes; the gateway learns of it at its next receive or send.
PeerGone(c) ==
    /\ pc[c] \notin {"new", "done"} /\ c \notin dead
    /\ dead' = dead \cup {c}
    /\ UNCHANGED <<minted, table, blocks, members, registered,
                   subscribed, fence, live, pc, locals, hist>>

\* The handler leaves its loop (a receive or send raised): `finally` unregisters.
Leave(c) ==
    /\ pc' = [pc EXCEPT ![c] = "done"]
    /\ registered' = registered \ {c}
    /\ UNCHANGED <<minted, table, blocks, members, subscribed, dead,
                   fence, live, locals, hist>>

\* receive_json raises WebSocketDisconnect.
ReceiveFails(c) == pc[c] = "idle" /\ c \in dead /\ Leave(c)

-----------------------------------------------------------------------------
\* _handle_subscribe, for the one channel.

\* acl.filter_readable_ids: a private channel needs a membership row.
SubscribeAcl(c) ==
    /\ pc[c] = "idle"
    /\ Owner[c] \in members
    /\ Goto(c, "subAdd")
    /\ UNCHANGED <<minted, table, blocks, members, wire, locals, hist>>

\* conn.subscribed |= accessible: (1) subscribed FIRST.
SubscribeAdd(c) ==
    /\ pc[c] = "subAdd"
    /\ subscribed' = subscribed \cup {c}
    /\ Goto(c, "fenceMsgs")
    /\ UNCHANGED <<minted, table, blocks, members, registered, dead, fence,
                   live, locals, hist>>

\* (2) the fence AFTER: latest_ulids runs two queries, first the messages.
FenceMessages(c) ==
    /\ pc[c] = "fenceMsgs"
    /\ \E t \in Ids \cup {0} :
          /\ IsTop(t, VisibleMessages(Owner[c]))
          /\ top' = [top EXCEPT ![c] = t]
    /\ Goto(c, "fenceRets")
    /\ UNCHANGED <<minted, table, blocks, members, wire, row, key, created,
                   exclude, victim, hist>>

\* Mutant: the fence counts messages only.
FenceWithoutRetractions(c) ==
    /\ pc[c] = "fenceRets"
    /\ Goto(c, "suback")
    /\ UNCHANGED <<minted, table, blocks, members, wire, locals, hist>>

\* then the retractions; the fence is the larger of the two.
FenceRetractions(c) ==
    /\ pc[c] = "fenceRets"
    /\ \E t \in Ids \cup {0} :
          /\ IsTop(t, Retractions)
          /\ top' = [top EXCEPT ![c] = Larger(@, t)]
    /\ Goto(c, "suback")
    /\ UNCHANGED <<minted, table, blocks, members, wire, row, key, created,
                   exclude, victim, hist>>

\* conn.send(suback): raises on a dead socket.
SendSuback(c) ==
    /\ pc[c] = "suback"
    /\ \/ /\ c \in dead
          /\ Leave(c)
       \/ /\ c \notin dead
          /\ fence' = [fence EXCEPT ![c] = top[c]]
          /\ top' = [top EXCEPT ![c] = 0]
          /\ Goto(c, "idle")
          /\ UNCHANGED <<minted, table, blocks, members, registered, subscribed,
                         dead, live, row, key, created, exclude, victim, hist>>

-----------------------------------------------------------------------------
\* _handle_send and create_outbound.

\* readable_channel and can_post pass; then the idempotency SELECT of
\* create_outbound on (channel, client_msg_id).  A hit returns the stored row.
Resend(c, k) ==
    /\ pc[c] = "idle"
    /\ Owner[c] \in members
    /\ \E i \in Messages :
          /\ cmid[i] = k
          /\ row' = [row EXCEPT ![c] = i]
    /\ Goto(c, "exclude")
    /\ UNCHANGED <<minted, table, blocks, members, wire, key, created, exclude,
                   top, victim, hist>>

\* A miss mints the id of the new row.
SendNew(c, k) ==
    /\ pc[c] = "idle"
    /\ Owner[c] \in members
    /\ \A j \in Messages : cmid[j] # k
    /\ \E i \in Ids :
          /\ Mint(i)
          /\ row' = [row EXCEPT ![c] = i]
    /\ key' = [key EXCEPT ![c] = k]
    /\ created' = created \cup {c}
    /\ Goto(c, "insert")
    /\ UNCHANGED <<table, blocks, members, wire, exclude, top, victim, hist>>

\* INSERT and COMMIT of a message row; `openTo` starts to record who may see it.
StoreMessage(i, author, k) ==
    /\ sender' = [sender EXCEPT ![i] = author]
    /\ cmid' = [cmid EXCEPT ![i] = k]
    /\ openTo' = [openTo EXCEPT ![i] = Users \ BlockedPairUserIds(author)]

\* uq_channel_client_msg refuses a second row for the same client_msg_id; that
\* IntegrityError is not caught and ends the handler.
InsertOutbound(c) ==
    /\ pc[c] = "insert"
    /\ \/ /\ \E j \in Messages : cmid[j] = key[c]
          /\ Leave(c)
       \/ /\ \A j \in Messages : cmid[j] # key[c]
          /\ StoreMessage(row[c], Owner[c], key[c])
          /\ key' = [key EXCEPT ![c] = None]
          /\ Goto(c, "exclude")
          /\ UNCHANGED <<minted, softDeleted, target, blocks, members, wire,
                         row, created, exclude, top, victim, published, acked,
                         everBlocked, fanned>>

\* exclude = blocked_pair_user_ids(session, sender): who must not get the frame.
Exclude(t, author) ==
    /\ pc[t] = "exclude"
    /\ exclude' = [exclude EXCEPT ![t] = BlockedPairUserIds(author)]
    /\ UNCHANGED <<minted, table, blocks, members, wire, row, key, created, top,
                   victim, hist>>

ExcludeOutbound(c) == Exclude(c, Owner[c]) /\ Goto(c, "ack")

\* Mutant: `if created` is dropped, so a reconciled resend is published again.
AckThenAlwaysPublish(c) ==
    /\ pc[c] = "ack"
    /\ \/ /\ c \in dead
          /\ Leave(c)
       \/ /\ c \notin dead
          /\ acked' = acked \cup {row[c]}
          /\ Goto(c, "fanout")
          /\ UNCHANGED <<minted, table, blocks, members, wire, locals,
                         published, everBlocked, fanned, openTo>>

\* conn.send(ack), BEFORE the bus and the fan-out.  On a dead socket it raises
\* and the committed row is neither published nor fanned out.  A reconciled
\* resend ends here.
SendAck(c) ==
    /\ pc[c] = "ack"
    /\ \/ /\ c \in dead
          /\ Leave(c)
       \/ /\ c \notin dead
          /\ acked' = acked \cup {row[c]}
          /\ \/ /\ c \in created
                /\ Goto(c, "fanout")
                /\ UNCHANGED <<row, exclude>>
             \/ /\ c \notin created
                /\ Goto(c, "idle")
                /\ Forget(c)
          /\ UNCHANGED <<minted, table, blocks, members, wire, key, created, top,
                         victim, published, everBlocked, fanned, openTo>>

\* Mutant: a subscription takes effect with the suback, after the fence was read.
TargetsAfterSuback(excluded) ==
    {c \in registered \cap subscribed : fence[c] # None /\ Owner[c] \notin excluded}

\* hub.fanout: the targets are listed without an await; a send to a dead socket
\* raises and that connection is unregistered.
Targets(excluded) == {c \in registered \cap subscribed : Owner[c] \notin excluded}

Fanout(frame, excluded) ==
    /\ live' = [c \in Conns |->
                  IF c \in Targets(excluded) \ dead THEN live[c] \cup {frame}
                                                    ELSE live[c]]
    /\ registered' = registered \ (Targets(excluded) \cap dead)
    /\ fanned' = fanned \cup {frame}

\* if created: mark_sent, bus.send and fanout, with no await before the targets
\* are listed.  The wake that follows is module Push.
PublishAndFanout(c) ==
    /\ pc[c] = "fanout"
    /\ published' = [published EXCEPT ![row[c]] = @ + 1]
    /\ Fanout(row[c], exclude[c])
    /\ Goto(c, "idle")
    /\ Forget(c)
    /\ created' = created \ {c}
    /\ UNCHANGED <<minted, table, blocks, members, subscribed, dead, fence, key,
                   top, victim, acked, everBlocked, openTo>>

\* bus.send reads chat_server twice while the aiko thread may set it to None in
\* between; the AttributeError ends the handler before the fan-out.
PublishRaises(c) == pc[c] = "fanout" /\ Leave(c)

-----------------------------------------------------------------------------
\* _ingest: a bus message of another participant (its own echo is module
\* EchoRelay).  persist_inbound mints, inserts and commits; no client_msg_id.

IngestStart(b) ==
    /\ pc[b] = "new"
    /\ \E i \in Ids :
          /\ Mint(i)
          /\ row' = [row EXCEPT ![b] = i]
    /\ Goto(b, "insert")
    /\ UNCHANGED <<table, blocks, members, wire, key, created, exclude, top,
                   victim, hist>>

IngestInsert(b) ==
    /\ pc[b] = "insert"
    /\ StoreMessage(row[b], From[b], None)
    /\ Goto(b, "exclude")
    /\ UNCHANGED <<minted, softDeleted, target, blocks, members, wire, locals,
                   published, acked, everBlocked, fanned>>

IngestExclude(b) == Exclude(b, From[b]) /\ Goto(b, "fanout")

IngestFanout(b) ==
    /\ pc[b] = "fanout"
    /\ Fanout(row[b], exclude[b])
    /\ Goto(b, "done")
    /\ Forget(b)
    /\ UNCHANGED <<minted, table, blocks, members, subscribed, dead, fence, key,
                   created, top, victim, published, acked, everBlocked, openTo>>

-----------------------------------------------------------------------------
\* resolve_report -> take_down_message of a reported message, then its fan-out.
\* (Which reports are open, and racing resolutions, are module Moderation.)

\* The message is read, no retraction of it is found, and the retraction's id is
\* minted; RetractionOrderingError refuses an id not above the target.
TakeDownRead(r) ==
    /\ pc[r] = "new"
    /\ \E m \in Messages, i \in Ids :
          /\ \A j \in Retractions : target[j] # m
          /\ Mint(i)
          /\ i > m
          /\ row' = [row EXCEPT ![r] = i]
          /\ victim' = [victim EXCEPT ![r] = m]
    /\ Goto(r, "insert")
    /\ UNCHANGED <<table, blocks, members, wire, key, created, exclude, top, hist>>

\* Mutant: resolve_report commits the takedown and forgets the fan-out.
TakeDownSilently(r) ==
    /\ pc[r] = "insert"
    /\ softDeleted' = softDeleted \cup {victim[r]}
    /\ target' = [target EXCEPT ![row[r]] = victim[r]]
    /\ Goto(r, "done")
    /\ UNCHANGED <<minted, sender, cmid, blocks, members, wire, locals, hist>>

\* One transaction: deleted_at, the report's resolution, and the retraction row.
TakeDownCommit(r) ==
    /\ pc[r] = "insert"
    /\ softDeleted' = softDeleted \cup {victim[r]}
    /\ target' = [target EXCEPT ![row[r]] = victim[r]]
    /\ Goto(r, "fanout")
    /\ UNCHANGED <<minted, sender, cmid, blocks, members, wire, locals, hist>>

\* A retraction is fanned out to every subscriber: no exclusion set.
TakeDownFanout(r) ==
    /\ pc[r] = "fanout"
    /\ Fanout(row[r], {})
    /\ Goto(r, "done")
    /\ Forget(r)
    /\ UNCHANGED <<minted, table, blocks, members, subscribed, dead, fence, key,
                   created, top, victim, published, acked, everBlocked, openTo>>

-----------------------------------------------------------------------------
\* Other requests that change what the handlers above read.

BlockUser(u, v) ==
    /\ u # v /\ <<u, v>> \notin blocks
    /\ blocks' = blocks \cup {<<u, v>>}
    /\ everBlocked' = everBlocked \cup {<<u, v>>, <<v, u>>}
    /\ UNCHANGED <<minted, table, members, wire, pc, locals, published,
                   acked, fanned, openTo>>

UnblockUser(u, v) ==
    /\ <<u, v>> \in blocks
    /\ blocks' = blocks \ {<<u, v>>}
    /\ openTo' = [i \in Ids |->
          IF <<v, u>> \in blocks THEN openTo[i]
          ELSE openTo[i] \cup (IF sender[i] = u THEN {v} ELSE {})
                        \cup (IF sender[i] = v THEN {u} ELSE {})]
    /\ UNCHANGED <<minted, table, members, wire, pc, locals, published,
                   acked, everBlocked, fanned>>

\* memberships_service.remove_member / leave: the hub is not told.
RemoveMember(u) ==
    /\ u \in members
    /\ members' = members \ {u}
    /\ UNCHANGED <<minted, table, blocks, wire, pc, locals, hist>>

-----------------------------------------------------------------------------
Init ==
    /\ minted = {}
    /\ sender = [i \in Ids |-> None]
    /\ cmid = [i \in Ids |-> None]
    /\ softDeleted = {}
    /\ target = [i \in Ids |-> None]
    /\ blocks = {}
    /\ members = Users
    /\ registered = {}
    /\ subscribed = {}
    /\ dead = {}
    /\ fence = [c \in Conns |-> None]
    /\ live = [c \in Conns |-> {}]
    /\ pc = [t \in Tasks |-> "new"]
    /\ row = [t \in Tasks |-> None]
    /\ key = [c \in Conns |-> None]
    /\ created = {}
    /\ exclude = [t \in Tasks |-> {}]
    /\ top = [c \in Conns |-> 0]
    /\ victim = [r \in Resolves |-> None]
    /\ published = [i \in Ids |-> 0]
    /\ acked = {}
    /\ everBlocked = {}
    /\ fanned = {}
    /\ openTo = [i \in Ids |-> {}]

\* What a connection's own task does next, once a frame was received.
HandlerStep(c) ==
    \/ SubscribeAdd(c) \/ FenceMessages(c) \/ FenceRetractions(c) \/ SendSuback(c)
    \/ InsertOutbound(c) \/ ExcludeOutbound(c) \/ SendAck(c) \/ PublishAndFanout(c)
    \/ PublishRaises(c) \/ ReceiveFails(c)

IngestStep(b) ==
    IngestStart(b) \/ IngestInsert(b) \/ IngestExclude(b) \/ IngestFanout(b)

TakeDownStep(r) == TakeDownRead(r) \/ TakeDownCommit(r) \/ TakeDownFanout(r)

Next ==
    \/ \E c \in Conns : Connect(c) \/ PeerGone(c) \/ SubscribeAcl(c) \/ HandlerStep(c)
    \/ \E c \in Conns, k \in Cmids : Resend(c, k) \/ SendNew(c, k)
    \/ \E b \in Inbound : IngestStep(b)
    \/ \E r \in Resolves : TakeDownStep(r)
    \/ \E u, v \in Users : BlockUser(u, v) \/ UnblockUser(u, v)
    \/ \E u \in Users : RemoveMember(u)

Spec == Init /\ [][Next]_vars

\* A task that can run does run: asyncio is a fair scheduler, and a statement
\* waits at most busy_timeout for the writer lock.  Clients owe nothing.
Fairness ==
    /\ \A c \in Conns : WF_vars(HandlerStep(c))
    /\ \A b \in Inbound : WF_vars(IngestStep(b))
    /\ \A r \in Resolves : WF_vars(TakeDownCommit(r) \/ TakeDownFanout(r))

FairSpec == Spec /\ Fairness

-----------------------------------------------------------------------------
(* Properties *)

TypeOK ==
    /\ minted \subseteq Ids
    /\ sender \in [Ids -> Users \cup {External, None}]
    /\ cmid \in [Ids -> Cmids \cup {None}]
    /\ softDeleted \subseteq Ids
    /\ target \in [Ids -> Ids \cup {None}]
    /\ blocks \subseteq Users \X Users
    /\ members \subseteq Users
    /\ registered \subseteq Conns
    /\ subscribed \subseteq Conns
    /\ dead \subseteq Conns
    /\ fence \in [Conns -> Ids \cup {0, None}]
    /\ live \in [Conns -> SUBSET Ids]
    /\ pc \in [Tasks -> Stages]
    /\ row \in [Tasks -> Ids \cup {None}]
    /\ key \in [Conns -> Cmids \cup {None}]
    /\ created \subseteq Conns
    /\ exclude \in [Tasks -> SUBSET Users]
    /\ top \in [Conns -> Ids \cup {0}]
    /\ victim \in [Resolves -> Ids \cup {None}]
    /\ published \in [Ids -> Nat]
    /\ acked \subseteq Ids
    /\ everBlocked \subseteq Users \X Users
    /\ fanned \subseteq Ids
    /\ openTo \in [Ids -> SUBSET Users]

\* Never missed by both (ws._handle_subscribe, ordering invariant): a message
\* that was fanned out, is still visible, and whose author never was in a block
\* relationship with the viewer, either was written live to a subscribed
\* connection or lies at or below the fence that connection was given.
NoMessageGap ==
    \A c \in registered, i \in fanned :
        /\ fence[c] # None
        /\ sender[i] # None
        /\ i \notin softDeleted
        /\ <<Owner[c], sender[i]>> \notin everBlocked
        => i \in live[c] \/ i <= fence[c]

\* The same for a takedown, whatever the blocks: a retraction carries no content
\* and is never block-filtered, so it reaches every subscribed connection.
NoRetractionGap ==
    \A c \in registered, i \in fanned :
        fence[c] # None /\ target[i] # None => i \in live[c] \/ i <= fence[c]

\* hub.fanout's exclusion set: a viewer who was in a block relationship with the
\* author throughout the time since the message was stored never gets it live.
BlockRespected ==
    \A c \in Conns : \A i \in live[c] : sender[i] # None => Owner[c] \in openTo[i]

\* A resend of a client_msg_id reconciles with the stored row: however sends
\* and resends interleave, one row is stored, published and fanned out at most
\* once per client_msg_id.
SentOnce ==
    \A i, j \in Ids :
        /\ published[i] <= 1
        /\ i # j /\ cmid[i] # None => cmid[i] # cmid[j]

\* Every committed row, message or retraction, is eventually fanned out; the one
\* exception is a message whose sender's handler ended by an exception (a dead
\* socket at the ack, a bus lost under bus.send) between the commit and the
\* fan-out (ws._handle_send).
StoredIsFannedOut ==
    \A i \in Ids :
        (i \in Messages \cup Retractions) ~>
            (i \in fanned \/ \E c \in Conns : pc[c] = "done" /\ row[c] = i)

-----------------------------------------------------------------------------
(* What the repository says of this code, and TLC refutes *)

\* ws.py, module docstring: "mark echo -> publish to bus -> ack sender": whoever
\* holds an ack knows that the message was handed to the bus.
PublishedBeforeAck == \A i \in acked : published[i] > 0

\* hub.py, module docstring: "a non-member can never appear in `subscribed` and
\* therefore can never be reached by fanout".
LiveOnlyToMembers ==
    [][\A c \in Conns : live'[c] # live[c] => Owner[c] \in members]_vars

\* moderation_service.take_down_message: "ENSURE exactly one retraction exists";
\* "SELECT-then-insert is race-free under the single-writer SQLite deployment".
OneRetractionPerMessage ==
    \A i, j \in Retractions : target[i] = target[j] => i = j
=============================================================================
