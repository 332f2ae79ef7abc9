----------------------------- MODULE Moderation -----------------------------
(***************************************************************************)
(* domain/moderation_service.py: the reports on ONE message, resolved by   *)
(* concurrent moderators, and one member's block of another.  Each SELECT  *)
(* is a step of its own and sees what is committed; the writes of a        *)
(* request and its COMMIT are one step under SQLite's writer lock.  The    *)
(* checks are made on what was read, not on what is there at the COMMIT.   *)
(***************************************************************************)
EXTENDS Naturals

CONSTANTS
    Reporters,   \* at most one report each (UNIQUE message, reporter)
    Requests,
    Kinds        \* which requests are made

ModerationConstants ==
    Kinds \subseteq {"report", "takedown", "dismiss", "block", "unblock"}

Labels == {"none", "pending", "taken_down", "dismissed"}

VARIABLES
    label,       \* message_reports: reporter -> resolution, "none" = no row
    hidden,      \* messages.deleted_at: "no" or "yes"
    retracted,   \* message_retractions of the message: "none", "one" or "more"
    block,       \* user_blocks row of the pair: "no" or "yes"
    kind, step, answer,   \* a request: what it is, where it is, how it ended
    about,       \* the report it acts on
    seenLabel, sawRetraction   \* what its SELECTs returned

tables == <<label, hidden, retracted, block>>
reads == <<seenLabel, sawRetraction>>
vars == <<tables, kind, step, answer, about, reads>>

Goto(r, s) == step' = [step EXCEPT ![r] = s]

Answer(r, a) == Goto(r, "done") /\ answer' = [answer EXCEPT ![r] = a]

Go(r, s) == Goto(r, s) /\ UNCHANGED answer

-----------------------------------------------------------------------------
\* The first SELECT of a request.
Read(r, k, p) ==
    /\ step[r] = "new" /\ k \in Kinds
    /\ kind' = [kind EXCEPT ![r] = k]
    /\ about' = [about EXCEPT ![r] = p]
    /\ seenLabel' = [seenLabel EXCEPT ![r] = label[p]]
    /\ UNCHANGED <<tables, sawRetraction>>

\* report_message: an existing report is returned as it is.
ReportRead(r, p) ==
    /\ Read(r, "report", p)
    /\ IF label[p] = "none" THEN Go(r, "write") ELSE Answer(r, "ok")

\* block_user: an existing block is enough.
BlockRead(r, p) ==
    /\ Read(r, "block", p)
    /\ IF block = "no" THEN Go(r, "write") ELSE Answer(r, "ok")

\* dismiss_report: the same resolution again is a no-op, another one a conflict.
DismissRead(r, p) ==
    /\ Read(r, "dismiss", p) /\ label[p] # "none"
    /\ CASE label[p] = "pending"   -> Go(r, "write")
         [] label[p] = "dismissed" -> Answer(r, "ok")
         [] OTHER                  -> Answer(r, "conflict")

\* take_down_message: pending, or taken down already and perhaps to be healed.
TakeDownRead(r, p) ==
    /\ Read(r, "takedown", p) /\ label[p] # "none"
    /\ IF label[p] = "dismissed" THEN Answer(r, "conflict") ELSE Go(r, "select")

\* ... is there a retraction yet?
TakeDownSelect(r) ==
    /\ step[r] = "select" /\ Go(r, "write")
    /\ sawRetraction' = [sawRetraction EXCEPT ![r] = retracted]
    /\ UNCHANGED <<tables, kind, about, seenLabel>>

-----------------------------------------------------------------------------
Write(r, k) ==
    /\ step[r] = "write" /\ kind[r] = k
    /\ UNCHANGED <<kind, about, reads>>

Relabel(r, l) == label' = [label EXCEPT ![about[r]] = l]

\* The UNIQUE constraint refuses a second row; nothing catches the IntegrityError.
ReportInsert(r) ==
    /\ Write(r, "report")
    /\ \/ /\ label[about[r]] = "none"
          /\ Relabel(r, "pending") /\ Answer(r, "ok")
       \/ /\ label[about[r]] # "none"
          /\ Answer(r, "error") /\ UNCHANGED label
    /\ UNCHANGED <<hidden, retracted, block>>

BlockInsert(r) ==
    /\ Write(r, "block")
    /\ block' = "yes"
    /\ Answer(r, IF block = "no" THEN "ok" ELSE "error")
    /\ UNCHANGED <<label, hidden, retracted>>

\* unblock_user: a DELETE of whatever is there.
Unblock(r) ==
    /\ step[r] = "new" /\ "unblock" \in Kinds
    /\ block' = "no" /\ Answer(r, "ok")
    /\ kind' = [kind EXCEPT ![r] = "unblock"]
    /\ UNCHANGED <<label, hidden, retracted, about, reads>>

DismissCommit(r) ==
    /\ Write(r, "dismiss")
    /\ Relabel(r, "dismissed") /\ Answer(r, "ok")
    /\ UNCHANGED <<hidden, retracted, block>>

\* Mutant of Retract: only the first takedown emits a retraction.
RetractFirstTime(r) ==
    IF seenLabel[r] = "pending" /\ sawRetraction[r] = "none"
    THEN retracted' = IF retracted = "none" THEN "one" ELSE "more"
    ELSE UNCHANGED retracted

\* A retraction is appended iff none was seen.
Retract(r) ==
    IF sawRetraction[r] = "none"
    THEN retracted' = IF retracted = "none" THEN "one" ELSE "more"
    ELSE UNCHANGED retracted

TakeDownCommit(r) ==
    /\ Write(r, "takedown")
    /\ Answer(r, "ok")
    /\ Retract(r)
    /\ IF seenLabel[r] = "pending"
       THEN hidden' = "yes" /\ Relabel(r, "taken_down")
       ELSE UNCHANGED <<hidden, label>>
    /\ UNCHANGED block

\* RetractionOrderingError, before anything is written.
TakeDownRefused(r) ==
    /\ Write(r, "takedown") /\ sawRetraction[r] = "none"
    /\ Answer(r, "error") /\ UNCHANGED tables

-----------------------------------------------------------------------------
\* A database may hold a takedown that is older than retractions (migration 0016).
Init ==
    /\ \/ label = [p \in Reporters |-> "none"] /\ hidden = "no"
       \/ \E p \in Reporters :
             /\ label = [q \in Reporters |-> IF q = p THEN "taken_down" ELSE "none"]
             /\ hidden = "yes"
    /\ retracted = "none" /\ block = "no"
    /\ kind = [r \in Requests |-> "report"]
    /\ step = [r \in Requests |-> "new"]
    /\ answer = [r \in Requests |-> "none"]
    /\ about \in [Requests -> {CHOOSE p \in Reporters : TRUE}]
    /\ seenLabel = [r \in Requests |-> "none"]
    /\ sawRetraction = [r \in Requests |-> "none"]

Next == \E r \in Requests :
    \/ \E p \in Reporters : ReportRead(r, p) \/ BlockRead(r, p) \/ DismissRead(r, p) \/ TakeDownRead(r, p)
    \/ TakeDownSelect(r)
    \/ ReportInsert(r) \/ BlockInsert(r) \/ Unblock(r)
    \/ DismissCommit(r) \/ TakeDownCommit(r) \/ TakeDownRefused(r)

Spec == Init /\ [][Next]_vars

-----------------------------------------------------------------------------
(* Properties *)

TypeOK ==
    /\ label \in [Reporters -> Labels]
    /\ hidden \in {"no", "yes"} /\ block \in {"no", "yes"}
    /\ retracted \in {"none", "one", "more"}
    /\ kind \in [Requests -> {"report", "takedown", "dismiss", "block", "unblock"}]
    /\ step \in [Requests -> {"new", "select", "write", "done"}]
    /\ answer \in [Requests -> {"none", "ok", "conflict", "error"}]
    /\ about \in [Requests -> Reporters]
    /\ seenLabel \in [Requests -> Labels]
    /\ sawRetraction \in [Requests -> {"none", "one", "more"}]

\* take_down_message "SELF-HEALS a missing retraction": whichever reports are resolved
\* how and in which order, once a takedown answered ok the message is hidden and a
\* retraction tells the clients that already have it.
TakeDownTakesEffect ==
    (\E r \in Requests : kind[r] = "takedown" /\ answer[r] = "ok")
        => hidden = "yes" /\ retracted # "none"

\* take_down_message: "A report resolves EXACTLY ONCE, to one outcome".
ResolvesOnce ==
    [][ \A p \in Reporters :
          label[p] \in {"taken_down", "dismissed"} => label'[p] = label[p] ]_vars

\* block_user: "A repeat block is a no-op"; "under the current single-writer SQLite
\* deployment there is no race".
RepeatBlockIsNoOp ==
    \A r \in Requests : kind[r] = "block" => answer[r] # "error"
=============================================================================
