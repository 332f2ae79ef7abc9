------------------------------ MODULE Reactions ------------------------------
(***************************************************************************)
(* domain/reactions_service.py and rest/reactions.py: the reactions to ONE *)
(* message.  Devices add and remove them concurrently while the message    *)
(* may be hidden from a user (takedown, block), and one viewer reads the   *)
(* aggregate that history pages show.  Every SELECT is a step of its own,  *)
(* every write with its COMMIT another.                                    *)
(***************************************************************************)
EXTENDS Naturals, FiniteSets

CONSTANTS
    Users, Viewer,
    Emojis,           \* numbered in the order their strings sort
    Origins,          \* signed provenance a client may attach
    Requests,
    PerUser,          \* MAX_REACTIONS_PER_USER_PER_MESSAGE
    MaxEmojis,        \* MAX_EMOJIS_PROJECTED_PER_MESSAGE
    MaxReactors,      \* MAX_REACTORS_PROJECTED_PER_EMOJI
    MaxDeletions      \* bound on deleted accounts

ReactionConstants ==
    /\ Viewer \in Users /\ Emojis \subseteq Nat
    /\ Origins \cap {"none", "unsigned"} = {}
    /\ {PerUser, MaxEmojis, MaxReactors} \subseteq Nat \ {0} /\ MaxDeletions \in Nat

VARIABLES
    row,              \* message_reactions: <<user, emoji>> -> "none", "unsigned" or an origin
    hidden,           \* messages.deleted_at: "no" or "yes"
    accounts,         \* users table
    blocked,          \* users in a block with the viewer
    step, who, emoji, origin, isNew,   \* a request and what it read
    frames,           \* what was fanned out: <<user, emoji, action, origin>>
    stored,           \* history: <<user, emoji, origin>> that was ever in the table
    read,             \* the aggregate's progress
    seenBlocked, counts, mine,         \* what it has read
    kept,             \* the viewer's reactions that stood since it began
    answer            \* its answer: emoji -> entry

tables == <<row, hidden, accounts, blocked>>
locals == <<who, emoji, origin, isNew>>
request == <<step, locals, frames, stored>>
reader == <<read, seenBlocked, counts, mine, answer>>
vars == <<tables, request, reader, kept>>

At(r) == <<who[r], emoji[r]>>

Goto(r, s) == step' = [step EXCEPT ![r] = s]

AnyEmoji == CHOOSE e \in Emojis : TRUE

\* The handler returned: its locals are gone.
Done(r) ==
    /\ Goto(r, "done")
    /\ who' = [who EXCEPT ![r] = Viewer]
    /\ emoji' = [emoji EXCEPT ![r] = AnyEmoji]
    /\ origin' = [origin EXCEPT ![r] = "unsigned"]
    /\ isNew' = [isNew EXCEPT ![r] = "old"]

-----------------------------------------------------------------------------
(* POST: add_reaction *)

\* _visible_message: 404 for a message that was taken down.
AddRequest(r, u, e, o) ==
    /\ step[r] = "new" /\ u \in accounts /\ hidden = "no"
    /\ who' = [who EXCEPT ![r] = u]
    /\ emoji' = [emoji EXCEPT ![r] = e]
    /\ origin' = [origin EXCEPT ![r] = o]
    /\ Goto(r, "exists")
    /\ UNCHANGED <<tables, isNew, frames, stored, reader, kept>>

\* Is the row there?  A new one has to pass the cap first.
AddExists(r) ==
    /\ step[r] = "exists"
    /\ isNew' = [isNew EXCEPT ![r] = IF row[At(r)] = "none" THEN "new" ELSE "old"]
    /\ Goto(r, IF row[At(r)] = "none" THEN "cap" ELSE "upsert")
    /\ UNCHANGED <<tables, who, emoji, origin, frames, stored, reader, kept>>

\* The distinct emojis of the user, as they are now; the INSERT comes later.
AddCap(r) ==
    /\ step[r] = "cap"
    /\ IF Cardinality({e \in Emojis : row[<<who[r], e>>] # "none"}) >= PerUser
       THEN Done(r)
       ELSE Goto(r, "upsert") /\ UNCHANGED locals
    /\ UNCHANGED <<tables, frames, stored, reader, kept>>

\* ON CONFLICT DO NOTHING for an unsigned one; a signed one replaces only NULL.
Upserted(old, o) ==
    IF old = "none" \/ (old = "unsigned" /\ o # "unsigned") THEN o ELSE old

\* Only a reaction that was not there before is announced.
AddUpsert(r) ==
    /\ step[r] = "upsert"
    /\ row' = [row EXCEPT ![At(r)] = Upserted(@, origin[r])]
    /\ stored' = stored \cup {<<who[r], emoji[r], Upserted(row[At(r)], origin[r])>>}
    /\ IF isNew[r] = "new" THEN Goto(r, "persisted") /\ UNCHANGED locals ELSE Done(r)
    /\ UNCHANGED <<hidden, accounts, blocked, frames, reader, kept>>

\* Mutant: the frame carries what this request sent, not what is stored.
PersistedAsSent(r) ==
    /\ step[r] = "persisted"
    /\ Goto(r, "fanout")
    /\ UNCHANGED <<tables, locals, frames, stored, reader, kept>>

\* persisted_origin: the frame carries the origin in the row, none when it is gone.
Persisted(r) ==
    /\ step[r] = "persisted"
    /\ origin' = [origin EXCEPT ![r] = IF row[At(r)] = "none" THEN "unsigned" ELSE row[At(r)]]
    /\ Goto(r, "fanout")
    /\ UNCHANGED <<tables, who, emoji, isNew, frames, stored, reader, kept>>

AddFanout(r) ==
    /\ step[r] = "fanout"
    /\ frames' = frames \cup {<<who[r], emoji[r], "add", origin[r]>>}
    /\ Done(r)
    /\ UNCHANGED <<tables, stored, reader, kept>>

-----------------------------------------------------------------------------
\* DELETE: no visibility check before, so that a reaction can always be taken back.
Remove(r, u, e) ==
    /\ step[r] = "new" /\ u \in accounts
    /\ row' = [row EXCEPT ![<<u, e>>] = "none"]
    /\ kept' = IF u = Viewer /\ read # "done" THEN kept \ {e} ELSE kept
    /\ IF row[<<u, e>>] = "none"
       THEN Done(r)
       ELSE /\ Goto(r, "removed")
            /\ who' = [who EXCEPT ![r] = u]
            /\ emoji' = [emoji EXCEPT ![r] = e]
            /\ UNCHANGED <<origin, isNew>>
    /\ UNCHANGED <<hidden, accounts, blocked, frames, stored, reader>>

\* Announced unless the message has been taken down meanwhile.
RemoveFanout(r) ==
    /\ step[r] = "removed"
    /\ frames' = IF hidden = "yes" THEN frames
                 ELSE frames \cup {<<who[r], emoji[r], "remove", "unsigned">>}
    /\ Done(r)
    /\ UNCHANGED <<tables, stored, reader, kept>>

-----------------------------------------------------------------------------
\* take_down_message (module Moderation).
TakeDown ==
    /\ hidden = "no" /\ hidden' = "yes"
    /\ UNCHANGED <<row, accounts, blocked, request, reader, kept>>

\* block_user and unblock_user, of the viewer and another user.
Block(u) ==
    /\ u # Viewer
    /\ blocked' = IF u \in blocked THEN blocked \ {u} ELSE blocked \cup {u}
    /\ UNCHANGED <<row, hidden, accounts, request, reader, kept>>

\* purge_user_reactions, with the account.
PurgeUserReactions(u) ==
    /\ u \in accounts /\ accounts' = accounts \ {u}
    /\ Cardinality(Users \ accounts) < MaxDeletions
    /\ row' = [p \in Users \X Emojis |-> IF p[1] = u THEN "none" ELSE row[p]]
    /\ kept' = IF u = Viewer /\ read # "done" THEN {} ELSE kept
    /\ UNCHANGED <<hidden, blocked, request, reader>>

-----------------------------------------------------------------------------
(* aggregate_for_messages, for one viewer *)

NoCounts == [e \in Emojis |-> 0]

Reactors(e) == {u \in Users : row[<<u, e>>] # "none"}

ReadBlocked ==
    /\ read = "new" /\ read' = "counts"
    /\ seenBlocked' = blocked
    /\ kept' = {e \in Emojis : row[<<Viewer, e>>] # "none"}
    /\ UNCHANGED <<tables, request, counts, mine, answer>>

\* GROUP BY emoji, without the blocked users; 0 is no group.
ReadCounts ==
    /\ read = "counts" /\ read' = "mine"
    /\ counts' = [e \in Emojis |-> Cardinality(Reactors(e) \ seenBlocked)]
    /\ UNCHANGED <<tables, request, seenBlocked, mine, answer, kept>>

ReadMine ==
    /\ read = "mine" /\ read' = "sample"
    /\ mine' = {e \in Emojis : row[<<Viewer, e>>] # "none"}
    /\ UNCHANGED <<tables, request, seenBlocked, counts, answer, kept>>

Counted == {e \in Emojis : counts[e] > 0}

\* Sorted by count, the greatest first, then by emoji.
Above(e, f) == counts[e] > counts[f] \/ (counts[e] = counts[f] /\ e < f)

\* Mutant: the cut takes the viewer's own emojis too.
ProjectedFirst == {e \in Counted : Cardinality({f \in Counted : Above(f, e)}) < MaxEmojis}

\* The first MaxEmojis, and the viewer's own beyond them.
Projected ==
    {e \in Counted : \/ Cardinality({f \in Counted : Above(f, e)}) < MaxEmojis
                     \/ e \in mine}

\* The oldest MaxReactors reactors: which ones they are does not matter here.
Samples(e) ==
    LET all == Reactors(e) \ seenBlocked
    IN {s \in SUBSET all : /\ Cardinality(s) <= MaxReactors
                           /\ Cardinality(s) < MaxReactors => s = all}

\* The viewer takes the last place of a sample that misses it.
WithOwn(e, s) ==
    IF e \notin mine \/ Viewer \in s THEN {s}
    ELSE IF Cardinality(s) < MaxReactors THEN {s \cup {Viewer}}
    ELSE {(s \ {u}) \cup {Viewer} : u \in s}

\* The third SELECT and the projection: an entry lists who it shows, or nobody.
ReadSample ==
    /\ read = "sample" /\ read' = "done"
    /\ answer' \in [Emojis -> SUBSET Users]
    /\ \A e \in Emojis :
          IF e \in Projected THEN \E s \in Samples(e) : answer'[e] \in WithOwn(e, s)
                             ELSE answer'[e] = {}
    /\ counts' = NoCounts /\ mine' = {}
    /\ UNCHANGED <<tables, request, seenBlocked, kept>>

-----------------------------------------------------------------------------
Init ==
    /\ row = [p \in Users \X Emojis |-> "none"]
    /\ hidden = "no" /\ accounts = Users /\ blocked = {}
    /\ step = [r \in Requests |-> "new"]
    /\ who = [r \in Requests |-> Viewer]
    /\ emoji = [r \in Requests |-> AnyEmoji]
    /\ origin = [r \in Requests |-> "unsigned"]
    /\ isNew = [r \in Requests |-> "old"]
    /\ frames = {} /\ stored = {}
    /\ read = "new" /\ seenBlocked = {} /\ counts = NoCounts
    /\ mine = {} /\ kept = {} /\ answer = [e \in Emojis |-> {}]

RequestStep(r) ==
    \/ \E u \in Users, e \in Emojis :
          Remove(r, u, e) \/ \E o \in Origins \cup {"unsigned"} : AddRequest(r, u, e, o)
    \/ AddExists(r) \/ AddCap(r) \/ AddUpsert(r) \/ Persisted(r) \/ AddFanout(r)
    \/ RemoveFanout(r)

ReadStep == ReadBlocked \/ ReadCounts \/ ReadMine \/ ReadSample

Next ==
    \/ \E r \in Requests : RequestStep(r)
    \/ ReadStep
    \/ TakeDown
    \/ \E u \in Users : Block(u) \/ PurgeUserReactions(u)

Spec == Init /\ [][Next]_vars

-----------------------------------------------------------------------------
(* Properties *)

\* aggregate_for_messages: the viewer "must always see their own reaction", beyond either
\* cap and while others react, react no more, are blocked or deleted between its three
\* SELECTs; a blocked reactor never appears and no list is longer than the cap.
MineIsProjected ==
    read = "done" =>
        /\ \A e \in kept : Viewer \in answer[e]
        /\ \A e \in Emojis : /\ Cardinality(answer[e]) <= MaxReactors
                             /\ answer[e] \cap seenBlocked = {}

\* The reaction frame announces the provenance "actually in the table": of two devices
\* that sign the same reaction at once the loser does not announce a signature that was
\* never stored.
AnnouncedIsPersisted ==
    \A f \in frames : f[4] \in Origins => <<f[1], f[2], f[4]>> \in stored
=============================================================================
