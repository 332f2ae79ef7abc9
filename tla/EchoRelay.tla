------------------------------ MODULE EchoRelay ------------------------------
(***************************************************************************)
(* Echo suppression (domain/echo.py) between the send path (realtime/ws.py) *)
(* and ingest (main.py), around a bus that republishes every message onto   *)
(* the channel topic, the gateway's own ones included.                      *)
(*                                                                         *)
(* The gateway cannot tell its own echo from a message of another          *)
(* participant with the same (channel, username, body): a key.  It counts. *)
(* The bus is external: FIFO, with a bounded delay, and it loses what is in *)
(* flight when the ChatServer goes away.                                   *)
(***************************************************************************)
EXTENDS Integers, Sequences

CONSTANTS
    Keys,        \* (aiko_channel, aiko_username, body) triples
    TTL,         \* _TTL_SECONDS
    MaxDelay,    \* the longest a message stays on the bus
    MaxNow,      \* bound: how long a behaviour lasts
    MaxSends,    \* bound: messages sent through the gateway, per key
    MaxForeign,  \* bound: messages other participants send, per key
    MaxOutages   \* bound: how often the ChatServer goes away

EchoConstants == {TTL, MaxDelay, MaxNow, MaxSends, MaxForeign, MaxOutages} \subseteq Nat

VARIABLES
    now,         \* time.time()
    up,          \* GatewayChatActor.chat_server is not None
    seen,        \* _seen: key -> list of pending expiries, as the set of its entries: exp is
                 \* the expiry, nr which send of the key appended it
    outbox,      \* messages on their way to the ChatServer
    topic,       \* republished messages on their way to the gateway
    sent,        \* key -> rows create_outbound stored
    published,   \* key -> messages the ChatServer was really given
    ingested,    \* key -> rows persist_inbound stored
    failed,      \* key -> messages that were no echo and got no row
    swallowed,   \* key -> inbound messages dropped as own echo
    foreign,     \* key -> messages of other participants that were delivered
    posted,      \* key -> messages other participants posted
    outages

vars == <<now, up, seen, outbox, topic, sent, published, ingested, failed,
          swallowed, foreign, posted, outages>>

-----------------------------------------------------------------------------
\* _evict: an entry survives while exp > now.
Evict(s) == {e \in s : e.exp > now}

\* mark_sent: evict, then append one pending expiry.
MarkSent(k) ==
    seen' = [j \in Keys |-> IF j = k
                            THEN Evict(seen[j]) \cup {[nr |-> sent[j] + 1, exp |-> now + TTL]}
                            ELSE Evict(seen[j])]

\* Mutants of IsOwnEcho: the whole key is consumed at once, or never.
ConsumesAll(k) ==
    /\ Evict(seen[k]) # {}
    /\ seen' = [j \in Keys |-> IF j = k THEN {} ELSE Evict(seen[j])]

ConsumesNone(k) ==
    /\ Evict(seen[k]) # {}
    /\ seen' = [j \in Keys |-> Evict(seen[j])]

\* The head of the list.
Oldest(s) == CHOOSE e \in s : \A f \in s : e.nr <= f.nr

\* is_own_echo returning True: evict, then consume the oldest pending echo.
IsOwnEcho(k) ==
    /\ Evict(seen[k]) # {}
    /\ seen' = [j \in Keys |-> IF j = k THEN Evict(seen[j]) \ {Oldest(Evict(seen[j]))}
                                        ELSE Evict(seen[j])]

\* is_own_echo returning False.
NotOwnEcho(k) ==
    /\ Evict(seen[k]) = {}
    /\ seen' = [j \in Keys |-> Evict(seen[j])]

-----------------------------------------------------------------------------
\* _handle_send of a new message: stored, marked, handed to bus.send.  With no
\* ChatServer bus.send returns False, which the caller ignores; the mark stays.
Send(k) ==
    /\ sent[k] < MaxSends
    /\ sent' = [sent EXCEPT ![k] = @ + 1]
    /\ MarkSent(k)
    /\ \/ /\ up
          /\ outbox' = Append(outbox, [key |-> k, own |-> TRUE, at |-> now])
          /\ published' = [published EXCEPT ![k] = @ + 1]
       \/ /\ ~up
          /\ UNCHANGED <<outbox, published>>
    /\ UNCHANGED <<now, up, topic, ingested, failed, swallowed, foreign, posted, outages>>

\* External: the ChatServer republishes the next message onto the topic.
Republish ==
    /\ up
    /\ outbox # <<>>
    /\ topic' = Append(topic, Head(outbox))
    /\ outbox' = Tail(outbox)
    /\ UNCHANGED <<now, up, seen, sent, published, ingested, failed, swallowed,
                   foreign, posted, outages>>

\* External: another participant posts, under any username, any body.
Post(k) ==
    /\ up
    /\ posted[k] < MaxForeign
    /\ posted' = [posted EXCEPT ![k] = @ + 1]
    /\ topic' = Append(topic, [key |-> k, own |-> FALSE, at |-> now])
    /\ UNCHANGED <<now, up, seen, outbox, sent, published, ingested, failed,
                   swallowed, foreign, outages>>

\* _ingest: drop the own echo, or persist_inbound: the message is stored, or it gets no
\* row because the name is reserved or the transaction raises ("ingest failed" is logged).
Ingest ==
    /\ topic # <<>>
    /\ topic' = Tail(topic)
    /\ LET k == Head(topic).key IN
          /\ foreign' = [foreign EXCEPT ![k] = IF Head(topic).own THEN @ ELSE @ + 1]
          /\ \/ /\ IsOwnEcho(k)
                /\ swallowed' = [swallowed EXCEPT ![k] = @ + 1]
                /\ UNCHANGED <<ingested, failed>>
             \/ /\ NotOwnEcho(k)
                /\ ingested' = [ingested EXCEPT ![k] = @ + 1]
                /\ UNCHANGED <<swallowed, failed>>
             \/ /\ NotOwnEcho(k)
                /\ failed' = [failed EXCEPT ![k] = @ + 1]
                /\ UNCHANGED <<swallowed, ingested>>
    /\ UNCHANGED <<now, up, outbox, sent, published, posted, outages>>

\* Time passes, but no message stays on the bus for longer than MaxDelay.
Tick ==
    /\ now < MaxNow
    /\ \A i \in DOMAIN outbox : now - outbox[i].at < MaxDelay
    /\ \A i \in DOMAIN topic : now - topic[i].at < MaxDelay
    /\ now' = now + 1
    /\ UNCHANGED <<up, seen, outbox, topic, sent, published, ingested, failed,
                   swallowed, foreign, posted, outages>>

\* _discovery_remove: the ChatServer is gone and the handlers are removed; of what
\* was in flight only what the asyncio loop was already given survives.
ServerGone ==
    /\ up /\ outages < MaxOutages
    /\ up' = FALSE
    /\ outages' = outages + 1
    /\ outbox' = <<>>
    /\ \E n \in 0..Len(topic) : topic' = SubSeq(topic, 1, n)
    /\ UNCHANGED <<now, seen, sent, published, ingested, failed, swallowed, foreign,
                   posted>>

\* _discovery_add.
ServerBack ==
    /\ ~up
    /\ up' = TRUE
    /\ UNCHANGED <<now, seen, outbox, topic, sent, published, ingested, failed,
                   swallowed, foreign, posted, outages>>

-----------------------------------------------------------------------------
Zero == [k \in Keys |-> 0]

Init ==
    /\ now = 0
    /\ up = TRUE
    /\ seen = [k \in Keys |-> {}]
    /\ outbox = <<>> /\ topic = <<>>
    /\ sent = Zero /\ published = Zero /\ ingested = Zero /\ swallowed = Zero
    /\ failed = Zero /\ foreign = Zero /\ posted = Zero
    /\ outages = 0

Next ==
    \/ \E k \in Keys : Send(k) \/ Post(k)
    \/ Republish \/ Ingest \/ Tick \/ ServerGone \/ ServerBack

Spec == Init /\ [][Next]_vars

-----------------------------------------------------------------------------
(* Properties *)

\* echo.py: "a gateway-originated message would be persisted once at send-time
\* AND again on the echo" is what the module exists to prevent.  However sends,
\* echoes and identical foreign messages interleave, a key has at most one bus
\* row for each foreign message delivered.  (Needs MaxDelay < TTL.)
NoSecondRow == \A k \in Keys : ingested[k] <= foreign[k]

\* echo.is_own_echo: "the Nth identical inbound beyond the number we published is
\* treated as a genuine new message": no more are dropped than were published.
DropsOnlyPublished == \A k \in Keys : swallowed[k] <= published[k]

\* is_own_echo, "so the Nth identical inbound beyond the number we published is treated
\* as a genuine new message": while the ChatServer stays up, with nothing left on the
\* bus there is for every message of another participant a row, or an ingest that failed
\* and was logged.  None is taken for an echo for good: one that was dropped in place of
\* an echo is made up for by the echo.
ForeignKept ==
    outages = 0 /\ outbox = <<>> /\ topic = <<>> =>
        \A k \in Keys : ingested[k] + failed[k] = posted[k]
=============================================================================
