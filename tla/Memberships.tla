----------------------------- MODULE Memberships -----------------------------
(***************************************************************************)
(* The members of ONE private channel: domain/memberships_service.py (add, *)
(* self-join, remove, leave) and the account deletion of                   *)
(* domain/accounts_service.py, as concurrent requests.                     *)
(*                                                                         *)
(* A request is authenticated, reads with SELECTs, each a step of its own  *)
(* outside any transaction, and then writes in one transaction under       *)
(* SQLite's writer lock (FOR UPDATE is inert there, FK enforcement is off). *)
(* What it read may be stale when it writes.                               *)
(***************************************************************************)
EXTENDS Naturals

CONSTANTS
    Users,
    Requests,    \* HTTP requests
    AddRoles,    \* roles that add_member requests ask for
    OpenJoin,    \* BOOLEAN: join_policy = open
    None         \* no user

MembershipConstants ==
    /\ AddRoles \subseteq {"member", "admin"}
    /\ OpenJoin \in BOOLEAN
    /\ None \notin Users

Roles == {"none", "member", "admin"}

VARIABLES
    role,        \* memberships table: user -> role, "none" = no row
    accounts,    \* users table
    pc,          \* request -> next step
    target,      \* request -> user whose membership it changes
    asRole,      \* add_member / self_join: the role to insert
    readRole,    \* the role the target had when the request read it
    overlooked   \* history: an admin row came in behind a request that had read it as
                 \* none, or for an account that is gone

vars == <<role, accounts, pc, target, asRole, readRole, overlooked>>

-----------------------------------------------------------------------------
\* func.count() of the admin rows is greater than 1.
MoreThanOneAdmin ==
    \E u, v \in Users : u # v /\ role[u] = "admin" /\ role[v] = "admin"

\* get_current_user, then _require_admin: the caller has an admin row.
RequireAdmin(a) == a \in accounts /\ role[a] = "admin"

Goto(r, stage) == pc' = [pc EXCEPT ![r] = stage]

-----------------------------------------------------------------------------
\* add_member: admin check.
AddRequest(r) ==
    /\ pc[r] = "new"
    /\ \E a, t \in Users, ro \in AddRoles :
          /\ RequireAdmin(a)
          /\ target' = [target EXCEPT ![r] = t]
          /\ asRole' = [asRole EXCEPT ![r] = ro]
    /\ Goto(r, "lookup")
    /\ UNCHANGED <<role, accounts, readRole, overlooked>>

\* An existing member is returned unchanged; an unknown user is refused.
AddLookup(r) ==
    /\ pc[r] = "lookup"
    /\ \/ /\ target[r] \notin accounts \/ role[target[r]] # "none"
          /\ Goto(r, "done")
       \/ /\ target[r] \in accounts /\ role[target[r]] = "none"
          /\ Goto(r, "insert")
    /\ UNCHANGED <<role, accounts, target, asRole, readRole, overlooked>>

\* self_join of an open channel by somebody who is no member.
JoinRequest(r) ==
    /\ pc[r] = "new"
    /\ OpenJoin
    /\ \E a \in accounts :
          /\ role[a] = "none"
          /\ target' = [target EXCEPT ![r] = a]
    /\ asRole' = [asRole EXCEPT ![r] = "member"]
    /\ Goto(r, "insert")
    /\ UNCHANGED <<role, accounts, readRole, overlooked>>

\* A removal, departure or deletion of t is under way that read t's role as no admin's.
PassesFor(t) ==
    \E q \in Requests :
        pc[q] \in {"delete", "erase"} /\ target[q] = t /\ readRole[q] # "admin"

\* _insert_idempotent: the primary key decides; a duplicate keeps the first row.
Insert(r) ==
    /\ pc[r] = "insert"
    /\ \/ /\ role[target[r]] = "none"
          /\ role' = [role EXCEPT ![target[r]] = asRole[r]]
          /\ overlooked' = \/ overlooked
                           \/ /\ asRole[r] = "admin"
                              /\ target[r] \notin accounts \/ PassesFor(target[r])
       \/ /\ role[target[r]] # "none"
          /\ UNCHANGED <<role, overlooked>>
    /\ Goto(r, "done")
    /\ UNCHANGED <<accounts, target, asRole, readRole>>

-----------------------------------------------------------------------------
\* remove_member: admin check.
RemoveRequest(r) ==
    /\ pc[r] = "new"
    /\ \E a, t \in Users :
          /\ RequireAdmin(a)
          /\ target' = [target EXCEPT ![r] = t]
    /\ Goto(r, "roleOf")
    /\ UNCHANGED <<role, accounts, asRole, readRole, overlooked>>

\* leave: the caller is the target, and no admin check.
LeaveRequest(r) ==
    /\ pc[r] = "new"
    /\ \E a \in accounts : target' = [target EXCEPT ![r] = a]
    /\ Goto(r, "roleOf")
    /\ UNCHANGED <<role, accounts, asRole, readRole, overlooked>>

\* _membership of the target: NotAMember, or its role is remembered.
ReadRole(r) ==
    /\ pc[r] = "roleOf"
    /\ readRole' = [readRole EXCEPT ![r] = role[target[r]]]
    /\ Goto(r, IF role[target[r]] = "none" THEN "done" ELSE "delete")
    /\ UNCHANGED <<role, accounts, target, asRole, overlooked>>

\* Mutant: the count was checked when the role was read, not in the DELETE.
DeleteWithoutCount(r) ==
    /\ pc[r] = "delete"
    /\ role' = [role EXCEPT ![target[r]] = "none"]
    /\ Goto(r, "done")
    /\ UNCHANGED <<accounts, target, asRole, readRole, overlooked>>

\* _delete_membership_unless_last_admin: one conditional DELETE; the condition is
\* there only when the row that was READ was an admin's.  Zero rows: LastAdmin, or
\* the row is already gone.
Delete(r) ==
    /\ pc[r] = "delete"
    /\ role' = IF readRole[r] = "admin" => MoreThanOneAdmin
               THEN [role EXCEPT ![target[r]] = "none"] ELSE role
    /\ Goto(r, "done")
    /\ UNCHANGED <<accounts, target, asRole, readRole, overlooked>>

-----------------------------------------------------------------------------
\* delete_user_account: the channels the caller is admin of are listed first.
EraseRequest(r) ==
    /\ pc[r] = "new"
    /\ \E a \in accounts :
          /\ target' = [target EXCEPT ![r] = a]
          /\ readRole' = [readRole EXCEPT ![r] = role[a]]
    /\ Goto(r, "erase")
    /\ UNCHANGED <<role, accounts, asRole, overlooked>>

\* Then, in one transaction: the conditional DELETE of the listed admin row (an
\* admin row still there refuses the whole deletion), every other membership,
\* the account.
Erase(r) ==
    /\ pc[r] = "erase"
    /\ \/ /\ readRole[r] = "admin" /\ role[target[r]] = "admin" /\ ~MoreThanOneAdmin
          /\ UNCHANGED <<role, accounts>>
       \/ /\ readRole[r] = "admin" /\ role[target[r]] = "admin" => MoreThanOneAdmin
          /\ role' = [role EXCEPT ![target[r]] = "none"]
          /\ accounts' = accounts \ {target[r]}
    /\ Goto(r, "done")
    /\ UNCHANGED <<target, asRole, readRole, overlooked>>

-----------------------------------------------------------------------------
\* create_channel makes its creator an admin; any roster with an admin follows.
Init ==
    /\ role \in [Users -> Roles]
    /\ \E u \in Users : role[u] = "admin"
    /\ accounts = Users
    /\ pc = [r \in Requests |-> "new"]
    /\ target = [r \in Requests |-> None]
    /\ asRole = [r \in Requests |-> "member"]
    /\ readRole = [r \in Requests |-> "none"]
    /\ overlooked = FALSE

Next == \E r \in Requests :
    \/ AddRequest(r) \/ AddLookup(r) \/ JoinRequest(r) \/ Insert(r)
    \/ RemoveRequest(r) \/ LeaveRequest(r) \/ ReadRole(r) \/ Delete(r)
    \/ EraseRequest(r) \/ Erase(r)

Spec == Init /\ [][Next]_vars

-----------------------------------------------------------------------------
(* Properties *)

TypeOK ==
    /\ role \in [Users -> Roles]
    /\ accounts \subseteq Users
    /\ pc \in [Requests -> {"new", "lookup", "insert", "roleOf", "delete", "erase", "done"}]
    /\ target \in [Requests -> Users \cup {None}]
    /\ asRole \in [Requests -> AddRoles \cup {"member"}]
    /\ readRole \in [Requests -> Roles]
    /\ overlooked \in BOOLEAN
    /\ \A r \in Requests : pc[r] \notin {"new", "done"} => target[r] \in Users

\* Some account of the island is an admin of the channel.
HasAdmin == \E u \in accounts : role[u] = "admin"

\* memberships_service, case (d) "never orphan", and accounts_service "a channel is
\* never left admin-less": however removals, departures, account deletions and additions
\* of members and of admins interleave, the channel keeps an admin, unless an admin was
\* added behind a request that had read the same user as no admin, or for a user whose
\* account was gone: those two overlaps do orphan it (HasAdmin alone is refuted).
NeverOrphaned == overlooked \/ HasAdmin
=============================================================================
