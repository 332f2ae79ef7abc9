----------------------------- MODULE BusTopology -----------------------------
(***************************************************************************)
(* The bus client (aiko/client.py) and the channel reconcile (main.py,     *)
(* domain/channels_service.py): which channels the gateway relays and which *)
(* channel rows exist.                                                     *)
(*                                                                         *)
(* Two threads.  The aiko thread runs discovery, the channel_list share    *)
(* handler and the payload handler, one callback at a time; it hands work  *)
(* to the asyncio loop through call_soon_threadsafe, a FIFO.  On the loop   *)
(* one worker upserts channel rows in arrival order, and every bus message *)
(* is a task of its own that upserts its channel and inserts its row.      *)
(*                                                                         *)
(* External: the ChatServer, each incarnation with a topic path of its own *)
(* (an epoch), its channel_list share, and aiko's discovery of it.         *)
(***************************************************************************)
EXTENDS Integers, Sequences, SequencesExt

CONSTANTS
    Channels,    \* channel names
    Reserved,    \* the ones with the dm: prefix, private to the island
    Floor,       \* settings.aiko_channels, relayed without waiting for the share
    Msgs,        \* messages other participants publish on the bus
    MaxEpoch,    \* bound: incarnations of the ChatServer
    MaxEdits,    \* bound: changes of its channel_list
    Restarts     \* orders in which discovery may report a restart

TopologyConstants ==
    /\ IsFiniteSet(Channels) /\ Floor \subseteq Channels
    /\ MaxEpoch \in Nat /\ MaxEdits \in Nat
    /\ Restarts \subseteq {"remove-add", "add", "add-remove"}

Epochs == 1..MaxEpoch

VARIABLES
    epoch,       \* external: the running incarnation, 0 before the first
    listed,      \* external: its channel_list
    edits,       \* external: how often the list was changed
    reported,    \* external: how discovery reported the last start
    discovery,   \* discovery callbacks not yet run, in order
    share,       \* share events of the attached consumer not yet handled
    server,      \* server_topic_path / chat_server: an epoch, 0 = None
    subscribed,  \* _subscribed: channel -> epoch of its topic, 0 = not in the dict
    handlers,    \* topics <<epoch, channel>> with a registered payload handler
    consumer,    \* _ec_consumer: the epoch it listens to, 0 = None
    loop,        \* call_soon_threadsafe callbacks, in order
    events,      \* _channel_events
    worker,      \* _run_channel_worker: <<>> idle, <<ch>> about to INSERT ch
    ingest,      \* message -> stage of its _ingest task
    chan,        \* message -> channel it was published on
    rows,        \* channels table: aiko_channel, UNIQUE
    stored       \* messages with a row

world == <<epoch, listed, edits, reported>>
actor == <<server, subscribed, handlers, consumer>>
db    == <<rows, stored>>
vars  == <<world, discovery, share, actor, loop, events, worker, ingest, chan, db>>

IngestStages == {"new", "unheard", "queued", "upsert", "insert", "done", "failed"}

-----------------------------------------------------------------------------
\* The ChatServer and its discovery (external).

Event(op, e) == [op |-> op, epoch |-> e]

\* How discovery reports that incarnation e is replaced by e + 1.  The code relies
\* on no order: "aiko gives no contract that `add` is always preceded by `remove`".
Report(how, e) ==
    IF e = 0 THEN <<Event("add", 1)>>
    ELSE CASE how = "remove-add" -> <<Event("remove", e), Event("add", e + 1)>>
           [] how = "add"        -> <<Event("add", e + 1)>>
           [] how = "add-remove" -> <<Event("add", e + 1), Event("remove", e)>>

ServerStarts ==
    /\ epoch < MaxEpoch
    /\ \E how \in Restarts, l \in SUBSET Channels :
          /\ discovery' = discovery \o Report(how, epoch)
          /\ listed' = l
          /\ reported' = IF epoch = 0 THEN "add" ELSE how
    /\ epoch' = epoch + 1
    /\ UNCHANGED <<edits, share, actor, loop, events, worker, ingest, chan, db>>

\* The channel_list changes; an attached consumer is told.
EditList(ch) ==
    /\ epoch > 0 /\ edits < MaxEdits
    /\ edits' = edits + 1
    /\ \/ /\ ch \notin listed
          /\ listed' = listed \cup {ch}
          /\ share' = IF consumer = epoch THEN Append(share, <<"add", ch>>) ELSE share
       \/ /\ ch \in listed
          /\ listed' = listed \ {ch}
          /\ share' = IF consumer = epoch THEN Append(share, <<"remove", ch>>) ELSE share
    /\ UNCHANGED <<epoch, reported, discovery, actor, loop, events, worker, ingest, chan, db>>

-----------------------------------------------------------------------------
\* The aiko thread.

\* Mutant of Detached: _subscribed is not cleared.
DetachedKeepsDict == subscribed

\* _teardown_attachments: the handlers of every subscribed topic are removed, the
\* dict is cleared, the consumer is terminated.
Detached == [ch \in Channels |-> 0]
Remaining == handlers \ {<<subscribed[ch], ch>> : ch \in Channels}

\* _discovery_add: teardown, attach, subscribe the floor, and a fresh consumer
\* that replays the list of the incarnation it is bound to.
DiscoveryAdd ==
    /\ discovery # <<>> /\ Head(discovery).op = "add"
    /\ LET e == Head(discovery).epoch
           new == {ch \in Floor : Detached[ch] = 0}
       IN /\ server' = e
          /\ subscribed' = [ch \in Channels |-> IF ch \in new THEN e ELSE Detached[ch]]
          /\ handlers' = Remaining \cup ({e} \X new)
          /\ consumer' = e
          /\ \E order \in SetToSeqs(IF e = epoch THEN listed ELSE {}) :
                share' = [i \in DOMAIN order |-> <<"add", order[i]>>]
    /\ discovery' = Tail(discovery)
    /\ UNCHANGED <<world, loop, events, worker, ingest, chan, db>>

\* _discovery_remove: whichever ChatServer went, the current attachment goes.
DiscoveryRemove ==
    /\ discovery # <<>> /\ Head(discovery).op = "remove"
    /\ server' = 0
    /\ subscribed' = Detached
    /\ handlers' = Remaining
    /\ consumer' = 0
    /\ share' = <<>>
    /\ discovery' = Tail(discovery)
    /\ UNCHANGED <<world, loop, events, worker, ingest, chan, db>>

\* _on_share_event, add / update: subscribe first, then signal the DB upsert.
ShareAdd ==
    /\ share # <<>> /\ Head(share)[1] = "add"
    /\ LET ch == Head(share)[2] IN
          /\ \/ /\ subscribed[ch] = 0 /\ server # 0
                /\ subscribed' = [subscribed EXCEPT ![ch] = server]
                /\ handlers' = handlers \cup {<<server, ch>>}
             \/ /\ subscribed[ch] # 0 \/ server = 0
                /\ UNCHANGED <<subscribed, handlers>>
          /\ loop' = Append(loop, <<"add", ch>>)
    /\ share' = Tail(share)
    /\ UNCHANGED <<world, discovery, server, consumer, events, worker, ingest, chan, db>>

\* _on_share_event, remove: unsubscribe; the callback only logs, no row changes.
ShareRemove ==
    /\ share # <<>> /\ Head(share)[1] = "remove"
    /\ LET ch == Head(share)[2] IN
          /\ subscribed' = [subscribed EXCEPT ![ch] = 0]
          /\ handlers' = handlers \ {<<subscribed[ch], ch>>}
    /\ share' = Tail(share)
    /\ UNCHANGED <<world, discovery, server, consumer, loop, events, worker,
                   ingest, chan, db>>

\* A participant publishes m; _on_payload hands it to the loop if the topic has a
\* handler.
Publish(m, ch) ==
    /\ ingest[m] = "new" /\ epoch > 0
    /\ chan' = [chan EXCEPT ![m] = ch]
    /\ \/ /\ <<epoch, ch>> \in handlers
          /\ loop' = Append(loop, <<"message", m>>)
          /\ ingest' = [ingest EXCEPT ![m] = "queued"]
       \/ /\ <<epoch, ch>> \notin handlers
          /\ ingest' = [ingest EXCEPT ![m] = "unheard"]
          /\ UNCHANGED loop
    /\ UNCHANGED <<world, discovery, share, actor, events, worker, db>>

-----------------------------------------------------------------------------
\* The asyncio loop.

\* One callback: create_task(_ingest) or put_nowait on the worker's queue.
RunCallback ==
    /\ loop # <<>>
    /\ \/ /\ Head(loop)[1] = "message"
          /\ ingest' = [ingest EXCEPT ![Head(loop)[2]] = "upsert"]
          /\ UNCHANGED events
       \/ /\ Head(loop)[1] = "add"
          /\ events' = Append(events, Head(loop)[2])
          /\ UNCHANGED ingest
    /\ loop' = Tail(loop)
    /\ UNCHANGED <<world, discovery, share, actor, worker, chan, db>>

\* _run_channel_worker: get, then upsert_channel's SELECT.  A hit ends the turn,
\* and so does a reserved name (ReservedDmChannel).
WorkerSelect ==
    /\ events # <<>> /\ worker = <<>>
    /\ worker' = IF Head(events) \in rows \cup Reserved THEN <<>> ELSE <<Head(events)>>
    /\ events' = Tail(events)
    /\ UNCHANGED <<world, discovery, share, actor, loop, ingest, chan, db>>

\* Mutant: the worker does not own the commit; upsert_channel only flushes.
WorkerForgetsCommit ==
    /\ worker # <<>>
    /\ worker' = <<>>
    /\ UNCHANGED <<world, discovery, share, actor, loop, events, ingest, chan, db>>

\* Its INSERT .. COMMIT; an IntegrityError is logged and the turn ends.
WorkerInsert ==
    /\ worker # <<>>
    /\ rows' = rows \cup {worker[1]}
    /\ worker' = <<>>
    /\ UNCHANGED <<world, discovery, share, actor, loop, events, ingest, chan, stored>>

\* persist_inbound: upsert_channel's SELECT, and on a hit the message's INSERT.  A
\* message for a reserved name is dropped.
IngestSelect(m) ==
    /\ ingest[m] = "upsert"
    /\ \/ /\ chan[m] \in Reserved
          /\ ingest' = [ingest EXCEPT ![m] = "done"]
          /\ UNCHANGED stored
       \/ /\ chan[m] \in rows \ Reserved
          /\ stored' = stored \cup {m}
          /\ ingest' = [ingest EXCEPT ![m] = "done"]
       \/ /\ chan[m] \notin rows \cup Reserved
          /\ ingest' = [ingest EXCEPT ![m] = "insert"]
          /\ UNCHANGED stored
    /\ UNCHANGED <<world, discovery, share, actor, loop, events, worker, chan, rows>>

\* On a miss channel and message are inserted in one transaction.  If somebody
\* else inserted the channel since the SELECT, the UNIQUE constraint raises and
\* _ingest logs "ingest failed": the message is gone.
IngestInsert(m) ==
    /\ ingest[m] = "insert"
    /\ \/ /\ chan[m] \notin rows
          /\ rows' = rows \cup {chan[m]}
          /\ stored' = stored \cup {m}
          /\ ingest' = [ingest EXCEPT ![m] = "done"]
       \/ /\ chan[m] \in rows
          /\ ingest' = [ingest EXCEPT ![m] = "failed"]
          /\ UNCHANGED db
    /\ UNCHANGED <<world, discovery, share, actor, loop, events, worker, chan>>

-----------------------------------------------------------------------------
Init ==
    /\ epoch = 0 /\ listed = {} /\ edits = 0 /\ reported = "add"
    /\ discovery = <<>> /\ share = <<>>
    /\ server = 0 /\ consumer = 0 /\ handlers = {}
    /\ subscribed = [ch \in Channels |-> 0]
    /\ loop = <<>> /\ events = <<>> /\ worker = <<>>
    /\ ingest = [m \in Msgs |-> "new"]
    /\ chan \in [Msgs -> Channels]
    /\ rows = {} /\ stored = {}

AikoThread == DiscoveryAdd \/ DiscoveryRemove \/ ShareAdd \/ ShareRemove

Worker == WorkerSelect \/ WorkerInsert

Ingest(m) == IngestSelect(m) \/ IngestInsert(m)

Next ==
    \/ ServerStarts
    \/ \E ch \in Channels : EditList(ch)
    \/ \E m \in Msgs, ch \in Channels : Publish(m, ch)
    \/ AikoThread \/ RunCallback \/ Worker
    \/ \E m \in Msgs : Ingest(m)

Spec == Init /\ [][Next]_vars

\* The aiko event loop, the asyncio loop and its tasks keep running.
Fairness ==
    /\ WF_vars(AikoThread) /\ WF_vars(RunCallback) /\ WF_vars(Worker)
    /\ \A m \in Msgs : WF_vars(Ingest(m))

FairSpec == Spec /\ Fairness

-----------------------------------------------------------------------------
(* Properties *)

TypeOK ==
    /\ epoch \in 0..MaxEpoch /\ listed \subseteq Channels /\ edits \in 0..MaxEdits
    /\ reported \in {"remove-add", "add", "add-remove"}
    /\ server \in 0..MaxEpoch /\ consumer \in 0..MaxEpoch
    /\ subscribed \in [Channels -> 0..MaxEpoch]
    /\ handlers \subseteq Epochs \X Channels
    /\ worker \in {<<>>} \cup {<<ch>> : ch \in Channels}
    /\ ingest \in [Msgs -> IngestStages]
    /\ chan \in [Msgs -> Channels]
    /\ rows \subseteq Channels
    /\ stored \subseteq Msgs

Quiet == discovery = <<>> /\ share = <<>>

\* _discovery_add / _teardown_attachments: once discovery and the share are drained the
\* gateway relays exactly the running ChatServer's list, and of its floor what the share
\* did not remove.  The one exception is a restart of which discovery reports the old
\* server's removal last: that detaches the new one (RestartRebinds, below).  In whatever
\* order restarts are reported, no handler is left on a dead topic.
RelayMirrorsList ==
    Quiet /\ epoch > 0 =>
        /\ handlers \subseteq {epoch} \X (listed \cup Floor)
        /\ reported # "add-remove" => {epoch} \X listed \subseteq handlers

\* _on_share_event says "SUBSCRIBE first, then signal the DB upsert": every listed channel
\* the client was told of gets its row, even when the worker's INSERT loses the
\* race against an ingest that needed the same channel.
ListedGetsRow ==
    \A ch \in Channels \ Reserved :
        (\E i \in DOMAIN loop : loop[i] = <<"add", ch>>) ~> ch \in rows

-----------------------------------------------------------------------------
(* What the repository says of this code, and TLC refutes *)

\* client.py: "A message arriving in the gap is caught by persist_inbound's upsert
\* (the existing safety net) -- no relay lost".
NoRelayLost == \A m \in Msgs : ingest[m] # "failed"

\* client.py: "on a ChatServer restart this rebinds to the new topic_path".
RestartRebinds == discovery = <<>> /\ epoch > 0 => server = epoch
=============================================================================
