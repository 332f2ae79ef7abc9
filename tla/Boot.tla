-------------------------------- MODULE Boot --------------------------------
(***************************************************************************)
(* From the container's start to serving: migrate.py (run before the       *)
(* server by the entrypoint), worker_guard.py (an flock beside the         *)
(* database) and db.verify_schema, on ONE data volume that containers of   *)
(* several images may mount at once.                                       *)
(*                                                                         *)
(* The migration runs before the lock is taken, and a revision's           *)
(* statements are not one transaction: a crash leaves a part of them.      *)
(***************************************************************************)
EXTENDS Integers

CONSTANTS
    Containers,
    Head,        \* Containers -> newest revision in the container's image
    Baseline,    \* BASELINE_REVISION, the schema before alembic; 0 is no stamp
    Blind,       \* revisions whose changes compare_metadata does not see (CHECKs)
    MultiWorker, \* containers that run with GATEWAY_ALLOW_MULTIWORKER
    MaxBoots, MaxFaults

BootConstants ==
    /\ Baseline \in Nat \ {0} /\ Head \in [Containers -> Nat]
    /\ \A c \in Containers : Head[c] >= Baseline
    /\ Blind \subseteq Nat /\ MultiWorker \subseteq Containers
    /\ MaxBoots \in Nat /\ MaxFaults \in Nat

VARIABLES
    file,        \* "absent", "bare" (no users table), "island", or "fresh": built from bare
    stamp,       \* alembic_version, 0 without one
    schema,      \* the revision whose tables are there
    shape,       \* "whole", "half" (a revision in progress or cut) or "drifted"
    flock,       \* containers whose process has the lock file locked
    step, at,    \* a container: where it is, the revision alembic has brought it to
    boots, faults,
    disturbed,   \* history: containers under which the volume was changed
    restamped    \* history: an adoption has overwritten the stamp of a migration

volume == <<file, stamp, schema, shape>>
bounds == <<boots, faults>>
history == <<disturbed, restamped>>
vars == <<volume, flock, step, at, bounds, history>>

Goto(c, s) == step' = [step EXCEPT ![c] = s]

Refuse(c) == Goto(c, "down") /\ flock' = flock \ {c}

Serving == {c \in Containers : step[c] = "serving"}

Migrating ==
    {c \in Containers :
        step[c] \in {"look", "diff", "adopt", "status", "upgrade", "stamp"}}

-----------------------------------------------------------------------------
(* migrate.run *)

\* require_database_file and the list of tables: users must be there, and without
\* alembic_version the database is to be adopted.  Nothing is created.
Start(c) ==
    /\ step[c] = "down" /\ boots < MaxBoots /\ boots' = boots + 1
    /\ file \in {"island", "fresh"}
    /\ Goto(c, "look") \/ (stamp = 0 /\ Goto(c, "diff"))
    /\ disturbed' = disturbed \ {c}
    /\ UNCHANGED <<volume, flock, at, faults, restamped>>

StartRefused(c) ==
    /\ step[c] = "down" /\ boots < MaxBoots /\ boots' = boots + 1
    /\ file \in {"absent", "bare"}
    /\ UNCHANGED <<volume, flock, step, at, faults, history>>

\* An empty alembic_version is adopted too.
Look(c) ==
    /\ step[c] = "look"
    /\ Goto(c, IF stamp = 0 THEN "diff" ELSE "status")
    /\ UNCHANGED <<volume, flock, at, bounds, history>>

\* Mutant: whatever has no stamp is taken for the baseline.
DiffUnchecked(c) ==
    /\ step[c] = "diff"
    /\ Goto(c, "adopt")
    /\ UNCHANGED <<volume, flock, at, bounds, history>>

\* What compare_metadata can see of the volume is the baseline's.
LooksBaseline == shape # "drifted" /\ \A v \in (Baseline + 1)..schema : v \in Blind

\* The diff against a scratch baseline, by then perhaps of a volume another container
\* migrates: of a revision in progress it may see something or nothing.
Diff(c) ==
    /\ step[c] = "diff"
    /\ \/ /\ LooksBaseline
          /\ Goto(c, "adopt") /\ UNCHANGED flock
       \/ /\ ~LooksBaseline \/ (shape = "half" /\ schema + 1 \notin Blind)
          /\ Refuse(c)
    /\ UNCHANGED <<volume, at, bounds, history>>

\* command.stamp writes the baseline over whatever stamp is there by then, unless it is
\* one this image does not know.
Adopt(c) ==
    /\ step[c] = "adopt"
    /\ \/ /\ stamp <= Baseline
          /\ stamp' = Baseline
          /\ Goto(c, "status") /\ UNCHANGED <<flock, history>>
       \/ /\ Baseline < stamp /\ stamp <= Head[c]
          /\ stamp' = Baseline
          /\ restamped' = TRUE /\ disturbed' = disturbed \cup Serving
          /\ Goto(c, "status") /\ UNCHANGED flock
       \/ /\ stamp > Head[c]
          /\ Refuse(c) /\ UNCHANGED <<stamp, history>>
    /\ UNCHANGED <<file, schema, shape, at, bounds>>

\* schema_status: a stamp this image does not know is a newer image's.
Status(c) ==
    /\ step[c] = "status"
    /\ \/ /\ stamp > Head[c]
          /\ Refuse(c) /\ UNCHANGED at
       \/ /\ stamp <= Head[c]
          /\ at' = [at EXCEPT ![c] = stamp]
          /\ Goto(c, "upgrade") /\ UNCHANGED flock
    /\ UNCHANGED <<volume, bounds, history>>

\* command.upgrade, one revision at a time: its statements ...
Upgrade(c) ==
    /\ step[c] = "upgrade" /\ at[c] < Head[c]
    /\ schema = at[c] /\ shape \in {"whole", "drifted"}
    /\ shape' = IF shape = "drifted" THEN "drifted" ELSE "half"
    /\ Goto(c, "stamp")
    /\ UNCHANGED <<file, stamp, schema, flock, at, bounds, history>>

\* ... which fail on what is already there, or tolerate it, ...
UpgradeAgain(c) ==
    /\ step[c] = "upgrade" /\ at[c] < Head[c]
    /\ \/ /\ schema # at[c] \/ shape = "half"
          /\ Refuse(c)
       \/ /\ schema > at[c] \/ (schema = at[c] /\ shape = "half")
          /\ Goto(c, "stamp") /\ UNCHANGED flock
    /\ UNCHANGED <<volume, at, bounds, history>>

\* ... and the stamp, an UPDATE that must find the revision it started from.
Stamp(c) ==
    /\ step[c] = "stamp"
    /\ \/ /\ stamp = at[c]
          /\ stamp' = at[c] + 1
          /\ IF schema > at[c] THEN UNCHANGED <<schema, shape>>
             ELSE /\ schema' = at[c] + 1
                  /\ shape' = IF shape = "drifted" THEN "drifted" ELSE "whole"
          /\ file' = IF file = "bare" THEN "fresh" ELSE file
          /\ at' = [at EXCEPT ![c] = @ + 1]
          /\ disturbed' = disturbed \cup Serving
          /\ Goto(c, "upgrade") /\ UNCHANGED flock
       \/ /\ stamp # at[c]
          /\ Refuse(c) /\ UNCHANGED <<volume, at, disturbed>>
    /\ UNCHANGED <<bounds, restamped>>

Migrated(c) ==
    /\ step[c] = "upgrade" /\ at[c] = Head[c]
    /\ Goto(c, "lock")
    /\ UNCHANGED <<volume, flock, at, bounds, history>>

-----------------------------------------------------------------------------
(* lifespan *)

\* Mutant: the lock is taken after a look at it that does not count.
LockAnyway(c) ==
    /\ step[c] = "lock"
    /\ flock' = flock \cup {c} /\ Goto(c, "verify")
    /\ UNCHANGED <<volume, at, bounds, history>>

\* acquire_single_worker_lock: LOCK_NB, a second worker does not wait.  It does nothing
\* where several workers are allowed.
Lock(c) ==
    /\ step[c] = "lock"
    /\ \/ c \in MultiWorker /\ Goto(c, "verify") /\ UNCHANGED flock
       \/ c \notin MultiWorker /\ flock = {} /\ flock' = {c} /\ Goto(c, "verify")
       \/ c \notin MultiWorker /\ flock # {} /\ Refuse(c)
    /\ UNCHANGED <<volume, at, bounds, history>>

\* verify_schema: file, stamp and users table again, under the lock.
Verify(c) ==
    /\ step[c] = "verify"
    /\ \/ /\ file \in {"island", "fresh"} /\ stamp = Head[c]
          /\ Goto(c, "serving") /\ UNCHANGED flock
       \/ /\ file \in {"absent", "bare"} \/ stamp # Head[c]
          /\ Refuse(c)
    /\ UNCHANGED <<volume, at, bounds, history>>

\* Shutdown releases the lock, and so does a crash, wherever it comes.
Stop(c) ==
    /\ step[c] # "down"
    /\ Refuse(c)
    /\ UNCHANGED <<volume, at, bounds, history>>

-----------------------------------------------------------------------------
(* The volume's own accidents, and the operator *)

\* The database is lost or damaged, not within the moments of a migration.
Lose(f) ==
    /\ faults < MaxFaults /\ faults' = faults + 1
    /\ Migrating = {}
    /\ file' = f /\ stamp' = 0 /\ schema' = 0 /\ shape' = "whole"
    /\ disturbed' = disturbed \cup Serving /\ restamped' = FALSE
    /\ UNCHANGED <<flock, step, at, boots>>

\* "take the stack down, restore the newest backup, then start"
Restore(v) ==
    /\ \A c \in Containers : step[c] = "down"
    /\ faults < MaxFaults /\ faults' = faults + 1
    /\ file' = "island" /\ stamp' = v /\ schema' = v /\ shape' = "whole"
    /\ restamped' = FALSE
    /\ UNCHANGED <<flock, step, at, boots, disturbed>>

-----------------------------------------------------------------------------
Revisions == UNION {Baseline..Head[c] : c \in Containers}

\* A volume of standup or of an older image, or one from before alembic.
Init ==
    /\ file = "island"
    /\ \/ stamp \in Revisions /\ schema = stamp /\ shape = "whole"
       \/ stamp = 0 /\ schema = Baseline /\ shape \in {"whole", "drifted"}
    /\ flock = {} /\ step = [c \in Containers |-> "down"]
    /\ at = [c \in Containers |-> 0]
    /\ boots = 0 /\ faults = 0 /\ disturbed = {} /\ restamped = FALSE

BootStep(c) ==
    \/ Start(c) \/ StartRefused(c)
    \/ Look(c) \/ Diff(c) \/ Adopt(c) \/ Status(c)
    \/ Upgrade(c) \/ UpgradeAgain(c) \/ Stamp(c) \/ Migrated(c)
    \/ Lock(c) \/ Verify(c) \/ Stop(c)

Next ==
    \/ \E c \in Containers : BootStep(c)
    \/ \E f \in {"absent", "bare"} : Lose(f)
    \/ \E v \in Revisions : Restore(v)

Spec == Init /\ [][Next]_vars

-----------------------------------------------------------------------------
(* Properties *)

TypeOK ==
    /\ file \in {"absent", "bare", "island", "fresh"}
    /\ stamp \in Nat /\ schema \in Nat /\ shape \in {"whole", "half", "drifted"}
    /\ flock \subseteq Containers /\ disturbed \subseteq Containers
    /\ restamped \in BOOLEAN
    /\ step \in [Containers -> {"down", "look", "diff", "adopt", "status", "upgrade", "stamp",
                                "lock", "verify", "serving"}]
    /\ at \in [Containers -> Nat]

\* migrate.py and worker_guard.py: one worker serves a volume at a time, or one of them was
\* told not to mind; and what it serves is the island of the volume, never a new one in its
\* place, with the schema of its image and nothing drifted, after any crash in the middle
\* of a migration, any order of newer and older images and any loss and restore.  Three
\* things the guards cannot see: a container that finishes a migration under one that
\* serves (the lock comes after the migration), the statements of a newer image's revision
\* that was cut before its stamp, and an adoption that stamps the baseline over another
\* container's migration ("NOT safe against two migrators racing"): from there on the
\* stamp says nothing of the schema.
ServesTheIsland ==
    \A c \in Serving :
        /\ \A d \in Serving \ {c} : {c, d} \cap MultiWorker # {}
        /\ c \notin disturbed =>
              /\ file = "island" /\ stamp = Head[c]
              /\ ~restamped =>
                    /\ schema = Head[c]
                    /\ \/ shape = "whole"
                       \/ shape = "half" /\ \E d \in Containers : Head[d] > Head[c]
=============================================================================
