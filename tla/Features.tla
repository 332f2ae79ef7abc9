------------------------------ MODULE Features ------------------------------
(***************************************************************************)
(* The handlers of seven features behind one server: moderation            *)
(* (Moderation), reactions (Reactions), history pages (HistoryPages),      *)
(* communities (Communities), direct messages (DirectMessages), signing    *)
(* keys (SigningKeys) and the sockets' sessions (Sessions).                *)
(*                                                                         *)
(* The requests of one behaviour are those of one feature: the features    *)
(* have the users table and the takedown of a message in common, both of   *)
(* which each module has as an action of its own, and write no other row   *)
(* of each other's.                                                        *)
(***************************************************************************)
EXTENDS Integers, FiniteSets

CONSTANTS
    Features,
    Users, Requests,
    Reporters, Kinds, Callers,           \* Callers: the requests of moderation
    Owners,                              \* the requests of dm and keys
    Viewer, Emojis, Origins, PerUser, MaxEmojis, MaxReactors, MaxDeletions,
    MaxId, Foe, Limit,
    Comms, Name, PageSize, MaxCrashes, MaxEdits,
    Keys, MaxKeys,
    Conns, Revokers, MaxGen

VARIABLES
    feature, accounts,
    label, hidden, retracted, block, kind, step, answer, about, seenLabel, sawRetraction,
    row, gone, blocked, rxStep, rxWho, emoji, origin, isNew, frames, stored,
    read, seenBlocked, counts, mine, kept, projection,
    messages, retractions, deleted, foeBlock, pages, way, start, position, found,
    delivered, stood,
    rows, count, status, joinStep, who, comm, crashes, edits, cut,
    walk, sort, cursor, shown, moved,
    room, members, dmStep, me,
    account, keys, keyStep, key,
    standing, gen, sock, authGen, conns, late, pc, targets

moderationVars == <<label, hidden, retracted, block, kind, step, answer, about,
                    seenLabel, sawRetraction>>
reactionVars == <<row, gone, blocked, rxStep, rxWho, emoji, origin, isNew, frames, stored,
                  read, seenBlocked, counts, mine, kept, projection>>
historyVars == <<messages, retractions, deleted, foeBlock, pages, way, start, position,
                 found, delivered, stood>>
communityVars == <<rows, count, status, joinStep, who, comm, crashes, edits, cut,
                   walk, sort, cursor, shown, moved>>
dmVars == <<room, members, dmStep, me>>
keyVars == <<account, keys, keyStep, key>>
sessionVars == <<standing, gen, sock, authGen, conns, late, pc, targets>>
vars == <<feature, accounts, moderationVars, reactionVars, historyVars, communityVars,
          dmVars, keyVars, sessionVars>>

Mod == INSTANCE Moderation WITH Requests <- Callers
Rx  == INSTANCE Reactions WITH
           hidden <- gone, step <- rxStep, who <- rxWho, answer <- projection
Pages == INSTANCE HistoryPages WITH
           block <- foeBlock, walk <- pages, cursor <- position
Com == INSTANCE Communities WITH step <- joinStep
Dm  == INSTANCE DirectMessages WITH Pair <- Users, Requests <- Owners, step <- dmStep
Sk  == INSTANCE SigningKeys WITH Requests <- Owners, step <- keyStep
Ses == INSTANCE Sessions

ASSUME FeatureConstants ==
    /\ Features \subseteq {"moderation", "reactions", "history", "community", "dm", "keys",
                            "sessions"}
    /\ Mod!ModerationConstants
    /\ Rx!ReactionConstants
    /\ Pages!HistoryConstants
    /\ Com!CommunityConstants
    /\ Sk!SigningKeyConstants

-----------------------------------------------------------------------------
\* A feature that is not the one at work starts from one plain state.
Init ==
    /\ feature \in Features
    /\ Mod!Init /\ (feature # "moderation" => hidden = "no")
    /\ Rx!Init
    /\ Pages!Init
    /\ Com!Init /\ (feature # "community" => rows = [c \in Comms |-> {}])
    /\ Dm!Init /\ (feature # "dm" => room = "none")
    /\ Sk!Init
    /\ Ses!Init

ModerationStep ==
    /\ feature = "moderation" /\ Mod!Next
    /\ UNCHANGED <<feature, accounts, reactionVars, historyVars, communityVars, dmVars,
                   keyVars, sessionVars>>

ReactionStep ==
    /\ feature = "reactions" /\ Rx!Next
    /\ UNCHANGED <<feature, moderationVars, historyVars, communityVars, dmVars, keyVars,
                   sessionVars>>

HistoryStep ==
    /\ feature = "history" /\ Pages!Next
    /\ UNCHANGED <<feature, accounts, moderationVars, reactionVars, communityVars, dmVars, keyVars,
                   sessionVars>>

CommunityStep ==
    /\ feature = "community" /\ Com!Next
    /\ UNCHANGED <<feature, moderationVars, reactionVars, historyVars, dmVars, keyVars,
                   sessionVars>>

DmStep ==
    /\ feature = "dm" /\ Dm!Next
    /\ UNCHANGED <<feature, moderationVars, reactionVars, historyVars, communityVars, keyVars,
                   sessionVars>>

KeyStep ==
    /\ feature = "keys" /\ Sk!Next
    /\ UNCHANGED <<feature, accounts, moderationVars, reactionVars, historyVars, communityVars,
                   dmVars, sessionVars>>

SessionStep ==
    /\ feature = "sessions" /\ Ses!Next
    /\ UNCHANGED <<feature, accounts, moderationVars, reactionVars, historyVars, communityVars,
                   dmVars, keyVars>>

Next ==
    \/ ModerationStep \/ ReactionStep \/ HistoryStep
    \/ CommunityStep \/ DmStep \/ KeyStep \/ SessionStep

Spec == Init /\ [][Next]_vars

-----------------------------------------------------------------------------
(* Properties *)

\* Moderation: a takedown that answered ok hides the message and leaves a retraction.
TakeDownTakesEffect == Mod!TakeDownTakesEffect

\* Reactions: the viewer always finds the own reaction in the aggregate, blocked users
\* never, whatever commits between its SELECTs.
MineIsProjected == Rx!MineIsProjected

\* Reactions: a frame announces only a signature that was stored.
AnnouncedIsPersisted == Rx!AnnouncedIsPersisted

\* HistoryPages: behind the client's cursor there is no hole and nothing twice.
NoHoleBehindCursor == Pages!NoHoleBehindCursor

\* Communities: member_count never exceeds the rows, and is their number where no join is
\* under way and no crash has cut one.
CountIsRows == Com!CountIsRows

\* Communities: the row of a join and its count are one transaction (refuted).
JoinIsOneTransaction == Com!JoinIsOneTransaction

\* Communities: a walk of the directory lists what did not move exactly once.
UnmovedIsListedOnce == Com!UnmovedIsListedOnce

\* DirectMessages: opening a direct message never brings the peer back who left it.
LeaverStaysOut == [][Dm!ReturnsBySelf]_vars

\* SigningKeys: the cap holds, a 201 and a 429 are true when they are given.
RegistrationIsExact == [][Sk!ExactStep]_vars

\* Sessions: a socket that was registered when a revocation committed is dropped.
RegisteredIsDropped == Ses!RegisteredIsDropped
=============================================================================
