----------------------------- MODULE Communities -----------------------------
(***************************************************************************)
(* domain/communities_service.py: joining a community, its stored member   *)
(* count, and a client's walk through the pages of the directory while     *)
(* counts move.                                                            *)
(*                                                                         *)
(* A SELECT is a step of its own.  The INSERT of a join runs in a SAVEPOINT *)
(* that no BEGIN precedes, so SQLite commits it at the RELEASE: the row    *)
(* and the count are two transactions, and the process may die between.    *)
(***************************************************************************)
EXTENDS Integers, FiniteSets

CONSTANTS
    Users,
    Requests,
    Comms,       \* community ids, which order the directory
    Name,        \* Comms -> Nat: the order of the names
    PageSize,
    MaxCrashes, MaxEdits

CommunityConstants ==
    /\ IsFiniteSet(Users) /\ IsFiniteSet(Requests) /\ IsFiniteSet(Comms)
    /\ Comms \subseteq Nat /\ Name \in [Comms -> Nat]
    /\ PageSize \in Nat \ {0} /\ MaxCrashes \in Nat /\ MaxEdits \in Nat

VARIABLES
    accounts,    \* users table
    rows,        \* community_memberships: community -> members
    count,       \* communities.member_count
    status,      \* "public", "hidden" (unlisted or private) or "down" (taken down)
    step, who, comm,           \* a join request: where it is, whose, of what
    crashes, edits,            \* how often the process died, a status was changed
    cut,                       \* joins that died between the row and the count (history)
    walk, sort, cursor, shown, \* a walk through discover's pages
    moved                      \* communities that changed since the walk began

tables == <<accounts, rows, count, status>>
joins == <<step, who, comm>>
walks == <<walk, sort, cursor, shown, moved>>
faults == <<crashes, edits, cut>>
vars == <<tables, joins, faults, walks>>

Goto(r, s) == step' = [step EXCEPT ![r] = s]

-----------------------------------------------------------------------------
(* join *)

\* The fast path looks for the caller's own row.
JoinLookup(r, u, c) ==
    /\ step[r] = "new" /\ u \in accounts
    /\ who' = [who EXCEPT ![r] = u]
    /\ comm' = [comm EXCEPT ![r] = c]
    /\ Goto(r, IF u \in rows[c] THEN "again" ELSE "check")
    /\ UNCHANGED <<tables, faults, walks>>

\* A member already: only a takedown hides the community from it.
JoinAgain(r) ==
    /\ step[r] = "again"
    /\ Goto(r, IF status[comm[r]] = "down" THEN "notFound" ELSE "joined")
    /\ UNCHANGED <<tables, who, comm, faults, walks>>

\* SELECT ... FOR UPDATE, which locks nothing here.
JoinCheck(r) ==
    /\ step[r] = "check"
    /\ Goto(r, IF status[comm[r]] = "public" THEN "insert" ELSE "notFound")
    /\ UNCHANGED <<tables, who, comm, faults, walks>>

\* Mutant: a join that lost the race to the same user's other join counts too.
JoinInsertCountsTwice(r) ==
    /\ step[r] = "insert"
    /\ rows' = [rows EXCEPT ![comm[r]] = @ \cup {who[r]}]
    /\ Goto(r, "count")
    /\ UNCHANGED <<accounts, count, status, who, comm, faults, walks>>

\* _new_join_insert: INSERT ... SELECT ... WHERE public and live.  A duplicate is
\* an IntegrityError (no count), zero rows is a 404.
JoinInsert(r) ==
    /\ step[r] = "insert"
    /\ \/ /\ status[comm[r]] # "public"
          /\ Goto(r, "notFound") /\ UNCHANGED rows
       \/ /\ status[comm[r]] = "public" /\ who[r] \in rows[comm[r]]
          /\ Goto(r, "joined") /\ UNCHANGED rows
       \/ /\ status[comm[r]] = "public" /\ who[r] \notin rows[comm[r]]
          /\ rows' = [rows EXCEPT ![comm[r]] = @ \cup {who[r]}]
          /\ Goto(r, "count")
    /\ UNCHANGED <<accounts, count, status, who, comm, faults, walks>>

\* What moves a community in the directory once a client walks it.
Moves(cs) == moved' = IF walk = "new" THEN moved ELSE moved \cup cs

\* member_count + 1, computed by the UPDATE.
JoinCount(r) ==
    /\ step[r] = "count"
    /\ count' = [count EXCEPT ![comm[r]] = @ + 1]
    /\ Goto(r, "joined")
    /\ Moves({comm[r]})
    /\ UNCHANGED <<accounts, rows, status, who, comm, faults, walk, sort, cursor, shown>>

\* Account deletion: the counts of the user's communities, then its rows.
Purge(u) ==
    /\ count' = [c \in Comms |-> IF u \in rows[c] THEN count[c] - 1 ELSE count[c]]
    /\ rows' = [c \in Comms |-> rows[c] \ {u}]
    /\ Moves({c \in Comms : u \in rows[c]})
    /\ UNCHANGED <<status, joins, faults, walk, sort, cursor, shown>>

DeleteAccount(u) ==
    /\ u \in accounts /\ accounts' = accounts \ {u}
    /\ Purge(u)

\* An operator hides, shows or takes down a community.
SetStatus(c, s) ==
    /\ status[c] # s /\ status[c] # "down"
    /\ edits < MaxEdits /\ edits' = edits + 1
    /\ status' = [status EXCEPT ![c] = s]
    /\ Moves({c})
    /\ UNCHANGED <<accounts, rows, count, joins, crashes, cut, walk, sort, cursor, shown>>

\* Every request in flight dies with the process.
Crash ==
    /\ crashes < MaxCrashes /\ crashes' = crashes + 1
    /\ \E r \in Requests : step[r] = "count"
    /\ cut' = [c \in Comms |->
                 cut[c] + Cardinality({r \in Requests : step[r] = "count" /\ comm[r] = c})]
    /\ step' = [r \in Requests |-> IF step[r] = "new" THEN "new" ELSE "dead"]
    /\ UNCHANGED <<tables, who, comm, edits, walks>>

-----------------------------------------------------------------------------
(* discover *)

Discoverable == {c \in Comms : status[c] = "public"}

\* ORDER BY member_count DESC, or by name, and then by id.
Key(c) == IF sort = "members" THEN -count[c] ELSE Name[c]

Before(c, d) == Key(c) < Key(d) \/ (Key(c) = Key(d) /\ c < d)

\* Mutant: no tie-breaker on the id.
AfterKeyOnly(c) == cursor = <<>> \/ Key(c) > cursor[1]

\* The keyset predicate of the cursor <<sort key, id>>; the first page has none.
After(c) == cursor = <<>> \/ Key(c) > cursor[1] \/ (Key(c) = cursor[1] /\ c > cursor[2])

Rest == {c \in Discoverable : After(c)}

Page == {c \in Rest : Cardinality({d \in Rest : Before(d, c)}) < PageSize}

StartWalk(s) ==
    /\ walk = "new" /\ walk' = "more"
    /\ sort' = s
    /\ UNCHANGED <<tables, joins, faults, cursor, shown, moved>>

\* PageSize + 1 rows tell whether there is more; the cursor is the last row shown.
Discover ==
    /\ walk = "more"
    /\ shown' = [c \in Comms |-> IF c \in Page THEN shown[c] + 1 ELSE shown[c]]
    /\ IF Cardinality(Rest) > PageSize
       THEN LET last == CHOOSE c \in Page : \A d \in Page \ {c} : Before(d, c)
            IN cursor' = <<Key(last), last>> /\ UNCHANGED walk
       ELSE walk' = "done" /\ UNCHANGED cursor
    /\ UNCHANGED <<tables, joins, faults, sort, moved>>

-----------------------------------------------------------------------------
Init ==
    /\ accounts = Users
    /\ rows \in [Comms -> SUBSET Users]
    /\ count = [c \in Comms |-> Cardinality(rows[c])]
    /\ status = [c \in Comms |-> "public"]
    /\ step = [r \in Requests |-> "new"]
    /\ who \in [Requests -> {CHOOSE u \in Users : TRUE}]
    /\ comm \in [Requests -> {CHOOSE c \in Comms : TRUE}]
    /\ crashes = 0 /\ edits = 0 /\ cut = [c \in Comms |-> 0]
    /\ walk = "new" /\ sort = "members" /\ cursor = <<>>
    /\ shown = [c \in Comms |-> 0] /\ moved = {}

JoinStep(r) ==
    \/ \E u \in Users, c \in Comms : JoinLookup(r, u, c)
    \/ JoinAgain(r) \/ JoinCheck(r) \/ JoinInsert(r) \/ JoinCount(r)

Requesting ==
    \/ \E r \in Requests : JoinStep(r)
    \/ \E c \in Comms, s \in {"public", "hidden", "down"} : SetStatus(c, s)
    \/ Crash
    \/ \E s \in {"members", "name"} : StartWalk(s)
    \/ Discover

Next == Requesting \/ \E u \in Users : DeleteAccount(u)

Spec == Init /\ [][Next]_vars

-----------------------------------------------------------------------------
(* Properties *)

Steps == {"new", "again", "check", "insert", "count", "joined", "notFound", "dead"}

TypeOK ==
    /\ accounts \subseteq Users
    /\ rows \in [Comms -> SUBSET Users] /\ count \in [Comms -> Int]
    /\ status \in [Comms -> {"public", "hidden", "down"}]
    /\ step \in [Requests -> Steps] /\ who \in [Requests -> Users] /\ comm \in [Requests -> Comms]
    /\ crashes \in Nat /\ edits \in Nat /\ cut \in [Comms -> Nat]
    /\ shown \in [Comms -> Nat] /\ moved \subseteq Comms

Counting(c) == {r \in Requests : step[r] = "count" /\ comm[r] = c}

\* join and delete_user_account keep member_count with the rows although a join writes them
\* in two transactions: joins, repeated joins, takedowns and deletions in any order never
\* take the count over the rows, and with no crash and no join under way they are equal.
CountIsRows ==
    \A c \in Comms :
        /\ count[c] <= Cardinality(rows[c])
        /\ crashes = 0 /\ Counting(c) = {} => count[c] = Cardinality(rows[c])

\* join's docstring, refuted: "the whole join (conditional insert + member_count bump ...)
\* runs in ONE transaction".  A reader sees the row without its count, and after a crash
\* the count is short of the rows for good.
JoinIsOneTransaction == \A c \in Comms : count[c] = Cardinality(rows[c])

\* discover's docstring allows a community whose count changes to be skipped or repeated;
\* one that did not change is listed exactly once, however the others move around it.
UnmovedIsListedOnce ==
    \A c \in Comms \ moved :
        /\ shown[c] <= 1
        /\ walk = "done" /\ status[c] = "public" => shown[c] = 1
=============================================================================
