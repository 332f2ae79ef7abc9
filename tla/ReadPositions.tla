--------------------------- MODULE ReadPositions ---------------------------
(***************************************************************************)
(* domain/read_positions_service.py: ONE user's read position in ONE       *)
(* channel, written by concurrent PUT /v1/read-positions requests of the   *)
(* user's devices while the channel, the membership and the account change.*)
(* Each SELECT of _check_bounds is a step; _write, its read-back and the   *)
(* COMMIT are one, because the statement takes SQLite's writer lock whether *)
(* or not it matches a row.                                                *)
(***************************************************************************)
EXTENDS Integers

CONSTANTS
    Requests,
    MaxId,       \* bound: ids 1..MaxId; 0 is the empty floor ''
    MaxSeq,      \* _MAX_SEQ: base_seq + 1 must fit
    Privacy,     \* "public" or "private"
    NoAnswer

PositionConstants ==
    /\ MaxId \in Nat /\ MaxSeq \in Nat \ {0}
    /\ Privacy \in {"public", "private"}

Ids == 0..MaxId
Bases == 0..(MaxSeq - 1)

VARIABLES
    newest,      \* latest_ulids of the channel for this user
    ever,        \* the greatest id the channel ever had
    member,      \* "in" or "out"
    account,     \* "live" or "gone"
    lastRead,    \* channel_read_positions: last_read
    seq,         \* channel_read_positions: seq, 0 = no row
    pc,
    val, base,   \* the entry of a request
    limit,       \* local of _check_bounds: visible[cid]
    answers      \* request -> its EntryResult

world == <<newest, ever, member, account>>
row == <<lastRead, seq>>
vars == <<world, row, pc, val, base, limit, answers>>

\* acl.readable_predicate.
Readable == Privacy = "public" \/ member = "in"

Goto(r, stage) == pc' = [pc EXCEPT ![r] = stage]

-----------------------------------------------------------------------------
\* set_positions: an authenticated, well-formed entry (_validate); then
\* _check_bounds.  The empty floor is not bounded, and neither is a channel the
\* caller cannot read: the write itself will skip it.
CheckReadable(r) ==
    /\ pc[r] = "new" /\ account = "live"
    /\ \E v \in Ids, b \in Bases :
          /\ val' = [val EXCEPT ![r] = v]
          /\ base' = [base EXCEPT ![r] = b]
          /\ Goto(r, IF v = 0 \/ ~Readable THEN "write" ELSE "visible")
    /\ UNCHANGED <<world, row, limit, answers>>

\* messages_service.latest_ulids.
CheckVisible(r) ==
    /\ pc[r] = "visible"
    /\ limit' = [limit EXCEPT ![r] = newest]
    /\ Goto(r, "stored")
    /\ UNCHANGED <<world, row, val, base, answers>>

\* Mutant: the bound is one past the newest visible item.
CheckStoredOffByOne(r) ==
    /\ pc[r] = "stored"
    /\ Goto(r, IF val[r] <= limit[r] + 1 \/ val[r] <= lastRead THEN "write" ELSE "done")
    /\ UNCHANGED <<world, row, val, base, limit, answers>>

\* The stored value as it stands now; past the larger of the two is refused (422).
CheckStored(r) ==
    /\ pc[r] = "stored"
    /\ Goto(r, IF val[r] <= limit[r] \/ val[r] <= lastRead THEN "write" ELSE "done")
    /\ UNCHANGED <<world, row, val, base, limit, answers>>

-----------------------------------------------------------------------------
\* Mutants of Swaps: the first write does not look for the account; the swap does
\* not look at the version.
SwapsForAnyone(r) == Readable /\ seq = base[r]
SwapsAnyVersion(r) == Readable /\ account = "live"

\* _write: the conditional INSERT (base 0) or UPDATE matches.
Swaps(r) ==
    /\ Readable
    /\ seq = base[r]
    /\ base[r] = 0 => account = "live"

\* The outcome is read back inside the transaction.
Outcome(r) ==
    LET status == IF ~Readable THEN "skipped"
                  ELSE IF seq' = base[r] + 1 /\ lastRead' = val[r] THEN "applied"
                  ELSE "conflict"
    IN answers' = [answers EXCEPT ![r] =
                     [status |-> status, value |-> lastRead', version |-> seq']]

Write(r) ==
    /\ pc[r] = "write"
    /\ \/ /\ Swaps(r)
          /\ lastRead' = val[r]
          /\ seq' = base[r] + 1
       \/ /\ ~Swaps(r)
          /\ UNCHANGED row
    /\ Outcome(r)
    /\ Goto(r, "done")
    /\ UNCHANGED <<world, val, base, limit>>

-----------------------------------------------------------------------------
\* What happens around the requests.

NewMessage ==
    /\ ever < MaxId
    /\ ever' = ever + 1
    /\ newest' = ever + 1
    /\ UNCHANGED <<member, account, row, pc, val, base, limit, answers>>

\* A takedown or a block hides the newest items.
Hide ==
    /\ \E n \in Ids : n < newest /\ newest' = n
    /\ UNCHANGED <<ever, member, account, row, pc, val, base, limit, answers>>

\* leave / remove_member, and joining (again): the row is kept.
LeaveChannel ==
    /\ member = "in" /\ member' = "out"
    /\ UNCHANGED <<newest, ever, account, row, pc, val, base, limit, answers>>

JoinChannel ==
    /\ member = "out" /\ member' = "in"
    /\ UNCHANGED <<newest, ever, account, row, pc, val, base, limit, answers>>

\* delete_user_account deletes the position and the membership.
DeleteAccount ==
    /\ account = "live" /\ account' = "gone"
    /\ member' = "out"
    /\ lastRead' = 0 /\ seq' = 0
    /\ UNCHANGED <<newest, ever, pc, val, base, limit, answers>>

Init ==
    /\ newest = 0 /\ ever = 0
    /\ member = "in" /\ account = "live"
    /\ lastRead = 0 /\ seq = 0
    /\ pc = [r \in Requests |-> "new"]
    /\ val = [r \in Requests |-> 0]
    /\ base = [r \in Requests |-> 0]
    /\ limit = [r \in Requests |-> 0]
    /\ answers = [r \in Requests |-> NoAnswer]

Next ==
    \/ \E r \in Requests : CheckReadable(r) \/ CheckVisible(r) \/ CheckStored(r) \/ Write(r)
    \/ NewMessage \/ Hide \/ LeaveChannel \/ JoinChannel \/ DeleteAccount

Spec == Init /\ [][Next]_vars

-----------------------------------------------------------------------------
(* Properties *)

TypeOK ==
    /\ newest \in Ids /\ ever \in Ids
    /\ member \in {"in", "out"} /\ account \in {"live", "gone"}
    /\ lastRead \in Ids /\ seq \in 0..MaxSeq
    /\ pc \in [Requests -> {"new", "visible", "stored", "write", "done"}]
    /\ val \in [Requests -> Ids]
    /\ base \in [Requests -> Bases]
    /\ limit \in [Requests -> Ids]
    /\ DOMAIN answers = Requests

\* _write: "a PUT that authenticated, then lost to delete_user_account, would
\* otherwise re-create a deleted user's rows".
NoGhostPosition == account = "gone" => seq = 0

\* _check_bounds: "a fabricated value is at most the newest visible item": no device
\* is ever served a position past the end of the channel.
NotPastTheEnd == lastRead <= ever
=============================================================================
