--------------------------- MODULE DirectMessages ---------------------------
(***************************************************************************)
(* domain/dm_service.py: POST /v1/dm of the two members of ONE pair, from  *)
(* any number of devices, against a member leaving the room and against    *)
(* account deletion.  The room is the channels row with the pair's         *)
(* canonical key, unique and never deleted; a channel of another kind may  *)
(* hold that key.                                                          *)
(***************************************************************************)
EXTENDS Naturals

CONSTANTS Pair, Requests

VARIABLES
    accounts,    \* users table
    room,        \* channels row with the key: "none", "dm" or "foreign"
    members,     \* memberships rows of the room
    step, me     \* an open request: where it is, whose

tables == <<accounts, room, members>>
vars == <<tables, step, me>>

\* The other one of the pair, or oneself (notes to self).
Target(u) == IF Pair = {u} THEN u ELSE CHOOSE v \in Pair : v # u

Goto(r, s) == step' = [step EXCEPT ![r] = s]

-----------------------------------------------------------------------------
\* The target must exist when the request starts.
OpenRequest(r, u) ==
    /\ step[r] = "new" /\ u \in accounts
    /\ me' = [me EXCEPT ![r] = u]
    /\ Goto(r, IF Target(u) \in accounts THEN "lookup" ELSE "notFound")
    /\ UNCHANGED tables

\* SELECT by the canonical key; a channel of another kind is never adopted.
OpenLookup(r) ==
    /\ step[r] = "lookup"
    /\ Goto(r, CASE room = "none" -> "create"
                 [] room = "dm" -> "ensure"
                 [] OTHER -> "collision")
    /\ UNCHANGED <<tables, me>>

\* Channel and both memberships in one transaction.  When the key is taken the
\* rollback expires the caller's User row, and reading me.id to adopt the winner's
\* room fails outside the greenlet (the trap rest/auth.py:717 steps around): the
\* loser of the race gets a 500, or a 409 when the winner is no direct message.
OpenCreate(r) ==
    /\ step[r] = "create"
    /\ \/ /\ room = "none"
          /\ room' = "dm" /\ members' = {me[r], Target(me[r])}
          /\ Goto(r, "opened")
       \/ /\ room # "none"
          /\ Goto(r, IF room = "dm" THEN "error" ELSE "collision")
          /\ UNCHANGED <<room, members>>
    /\ UNCHANGED <<accounts, me>>

\* _ensure_memberships, of the caller only: is its row there?
EnsureLookup(r) ==
    /\ step[r] = "ensure"
    /\ Goto(r, IF me[r] \in members THEN "opened" ELSE "rejoin")
    /\ UNCHANGED <<tables, me>>

\* Mutant: both memberships are ensured.
EnsureBoth(r) ==
    /\ step[r] = "rejoin"
    /\ members' = {me[r], Target(me[r])}
    /\ Goto(r, "opened")
    /\ UNCHANGED <<accounts, room, me>>

\* ... INSERT in a savepoint; a duplicate is as good.
EnsureInsert(r) ==
    /\ step[r] = "rejoin"
    /\ members' = members \cup {me[r]}
    /\ Goto(r, "opened")
    /\ UNCHANGED <<accounts, room, me>>

-----------------------------------------------------------------------------
\* memberships_service.leave of a direct message: no admin row to protect.
Leave(u) ==
    /\ room = "dm" /\ u \in members /\ u \in accounts
    /\ members' = members \ {u}
    /\ UNCHANGED <<accounts, room, step, me>>

\* Part of the account's deletion.
Purge(u) ==
    /\ members' = members \ {u}
    /\ UNCHANGED <<room, step, me>>

DeleteAccount(u) ==
    /\ u \in accounts /\ accounts' = accounts \ {u}
    /\ Purge(u)

-----------------------------------------------------------------------------
\* A channel of another kind under the key can only be older than the reserved prefix.
Init ==
    /\ accounts = Pair
    /\ room \in {"none", "foreign"} /\ members = {}
    /\ step = [r \in Requests |-> "new"]
    /\ me \in [Requests -> {CHOOSE u \in Pair : TRUE}]

Requesting ==
    \/ \E r \in Requests :
          \/ \E u \in Pair : OpenRequest(r, u)
          \/ OpenLookup(r) \/ OpenCreate(r) \/ EnsureLookup(r) \/ EnsureInsert(r)
    \/ \E u \in Pair : Leave(u)

Next == Requesting \/ \E u \in Pair : DeleteAccount(u)

Spec == Init /\ [][Next]_vars

-----------------------------------------------------------------------------
(* Properties *)

TypeOK ==
    /\ accounts \subseteq Pair /\ members \subseteq Pair
    /\ room \in {"none", "dm", "foreign"}
    /\ step \in [Requests -> {"new", "lookup", "create", "ensure", "rejoin",
                              "opened", "notFound", "collision", "error"}]
    /\ me \in [Requests -> Pair]

\* A member comes back only by a request of its own.
ReturnsBySelf ==
    \A u \in Pair :
        room = "dm" /\ u \notin members /\ u \in members'
            => \E r \in Requests : me[r] = u /\ step[r] # step'[r]

\* memberships_service: "the adopt path of get_or_create_dm ensures ONLY the caller's
\* membership (never re-adds the peer)".  Whoever left the room, or deleted the account,
\* comes back only by a request of their own, however many requests of the peer are
\* under way with what they read before.
LeaverStaysOut == [][ReturnsBySelf]_vars
=============================================================================
