------------------------------ MODULE Actuation ------------------------------
(***************************************************************************)
(* domain/actuation.py: verify_and_advance, the door of a robot's bridge,  *)
(* called by handler threads for envelopes that the room may deliver any   *)
(* number of times, and SeqHighWater, the store that survives the bridge's *)
(* crashes.                                                                *)
(*                                                                         *)
(* One lock covers a handler from the comparison of the sequence number to *)
(* the end of _persist; other handlers verify meanwhile.  The rename is    *)
(* visible at os.replace; a power loss takes it back unless the directory  *)
(* has been synced.                                                        *)
(***************************************************************************)
EXTENDS Integers

CONSTANTS
    Handlers,
    Envelopes,        \* envelopes in the room, authentic or not
    Robot,            \* Envelopes -> robot it is addressed to
    Seq,              \* Envelopes -> sequence number
    SignedAt,         \* Envelopes -> time of the signature
    Authentic,        \* envelopes with a valid signature of an allowed commander, for an
                      \* allowed command and with the frozen set of keys
    Mine,             \* robots this bridge serves (expected_robot_id of a call)
    MaxAge, Skew,
    MaxNow, MaxFaults

Robots == {Robot[e] : e \in Envelopes}

ActuationConstants ==
    /\ Seq \in [Envelopes -> Nat] /\ SignedAt \in [Envelopes -> Nat]
    /\ Authentic \subseteq Envelopes
    /\ MaxAge \in Nat /\ Skew \in Nat /\ MaxNow \in Nat /\ MaxFaults \in Nat

VARIABLES
    marks,       \* SeqHighWater._marks: robot -> greatest sequence number, -1 for none
    store,       \* the store file as it can be read
    synced,      \* the store file as a power loss leaves it
    lock,        \* handlers that hold SeqHighWater._lock
    step, held,  \* a handler: where it is, with which envelope
    before,      \* prev, in _check_and_advance
    now,
    faults,
    actuated,    \* history: <<robot, seq>> the robot carried out
    unsynced     \* history: <<robot, seq>> admitted although the directory was not synced

file == <<store, synced>>
locals == <<step, held, before>>
history == <<actuated, unsynced>>
vars == <<marks, file, lock, locals, now, faults, history>>

At(h) == <<Robot[held[h]], Seq[held[h]]>>

Goto(h, s) == step' = [step EXCEPT ![h] = s]

-----------------------------------------------------------------------------
\* The age of an envelope when verify_actuation reads it, both bounds included.
Fresh(e) == now - SignedAt[e] <= MaxAge /\ SignedAt[e] - now <= Skew

\* verify_actuation: no state is touched before an envelope has passed every check.
Verify(h, e) ==
    /\ step[h] = "idle"
    /\ e \in Authentic /\ Robot[e] \in Mine /\ Fresh(e)
    /\ held' = [held EXCEPT ![h] = e]
    /\ Goto(h, "verified")
    /\ UNCHANGED <<marks, file, lock, before, now, faults, history>>

\* _check_and_advance under the lock: the mark moves in memory, then _persist.
Advance(h) ==
    /\ step[h] = "verified" /\ lock = {}
    /\ Seq[held[h]] > marks[Robot[held[h]]]
    /\ lock' = {h}
    /\ marks' = [marks EXCEPT ![Robot[held[h]]] = Seq[held[h]]]
    /\ before' = [before EXCEPT ![h] = marks[Robot[held[h]]]]
    /\ Goto(h, "persist")
    /\ UNCHANGED <<file, held, now, faults, history>>

\* A replay, or an envelope that a later one overtook.
Drop(h) ==
    /\ step[h] = "verified" /\ lock = {}
    /\ Seq[held[h]] <= marks[Robot[held[h]]]
    /\ Goto(h, "idle")
    /\ UNCHANGED <<marks, file, lock, held, before, now, faults, history>>

\* Mutant: a write that fails is only logged.
PersistFailsOpen(h) ==
    /\ step[h] = "persist"
    /\ faults < MaxFaults /\ faults' = faults + 1
    /\ lock' = {}
    /\ Goto(h, "admitted")
    /\ UNCHANGED <<marks, file, held, before, now, history>>

\* An OSError before os.replace: the file is what it was, the mark is rolled back.
PersistFails(h) ==
    /\ step[h] = "persist"
    /\ faults < MaxFaults /\ faults' = faults + 1
    /\ marks' = [marks EXCEPT ![Robot[held[h]]] = before[h]]
    /\ lock' = {}
    /\ Goto(h, "idle")
    /\ UNCHANGED <<file, held, before, now, history>>

\* os.replace: the whole map, in one rename.
Replace(h) ==
    /\ step[h] = "persist"
    /\ store' = marks
    /\ Goto(h, "sync")
    /\ UNCHANGED <<marks, synced, lock, held, before, now, faults, history>>

\* fsync of the directory; the call is admitted.
SyncDir(h) ==
    /\ step[h] = "sync"
    /\ synced' = store
    /\ lock' = {}
    /\ Goto(h, "admitted")
    /\ UNCHANGED <<marks, store, held, before, now, faults, history>>

\* Its failure is swallowed: the rename stands, for now.
SyncFails(h) ==
    /\ step[h] = "sync"
    /\ faults < MaxFaults /\ faults' = faults + 1
    /\ unsynced' = unsynced \cup {At(h)}
    /\ lock' = {}
    /\ Goto(h, "admitted")
    /\ UNCHANGED <<marks, file, held, before, now, actuated>>

\* The bridge carries out what verify_and_advance returned.
Actuate(h) ==
    /\ step[h] = "admitted"
    /\ actuated' = actuated \cup {At(h)}
    /\ Goto(h, "idle")
    /\ UNCHANGED <<marks, file, lock, held, before, now, faults, unsynced>>

-----------------------------------------------------------------------------
\* Mutant: the marks are only in memory.
LoadNothing == marks' = [r \in Robots |-> -1]

\* SeqHighWater.__init__: the new process reads the file; no file is no mark.
Load == marks' = store'

\* The handlers of the old process are gone, the lock with them.
Restarted ==
    /\ faults < MaxFaults /\ faults' = faults + 1
    /\ step' = [h \in Handlers |-> "idle"]
    /\ lock' = {}
    /\ Load
    /\ UNCHANGED <<held, before, now, history>>

Crash == UNCHANGED file /\ Restarted

PowerLoss == store' = synced /\ UNCHANGED synced /\ Restarted

Tick ==
    /\ now < MaxNow /\ now' = now + 1
    /\ UNCHANGED <<marks, file, lock, locals, faults, history>>

-----------------------------------------------------------------------------
Init ==
    /\ marks = [r \in Robots |-> -1] /\ store = marks /\ synced = marks
    /\ lock = {}
    /\ step = [h \in Handlers |-> "idle"]
    /\ held \in [Handlers -> {CHOOSE e \in Envelopes : TRUE}]
    /\ before = [h \in Handlers |-> -1]
    /\ now = 0 /\ faults = 0
    /\ actuated = {} /\ unsynced = {}

HandlerStep(h) ==
    \/ \E e \in Envelopes : Verify(h, e)
    \/ Advance(h) \/ Drop(h)
    \/ PersistFails(h) \/ Replace(h) \/ SyncDir(h) \/ SyncFails(h)
    \/ Actuate(h)

Next ==
    \/ \E h \in Handlers : HandlerStep(h)
    \/ Crash \/ PowerLoss \/ Tick

Spec == Init /\ [][Next]_vars

-----------------------------------------------------------------------------
(* Properties *)

Marks == [Robots -> Nat \cup {-1}]

TypeOK ==
    /\ marks \in Marks /\ store \in Marks /\ synced \in Marks
    /\ lock \subseteq Handlers
    /\ step \in [Handlers -> {"idle", "verified", "persist", "sync", "admitted"}]
    /\ held \in [Handlers -> Envelopes]
    /\ before \in [Handlers -> Nat \cup {-1}]
    /\ now \in Nat /\ faults \in Nat
    /\ actuated \subseteq Robots \X Nat /\ unsynced \subseteq Robots \X Nat

\* "The seq guard is at-most-once": an envelope that the robot carried out is not carried
\* out again, however often the room delivers it, to however many threads at once, and
\* whatever write fails or process dies in between.  The one exception is the named
\* tradeoff of _persist: a number that was admitted although the directory could not be
\* synced.
AtMostOnce ==
    \A h \in Handlers : step[h] = "admitted" /\ At(h) \notin unsynced =>
        /\ At(h) \notin actuated
        /\ \A g \in Handlers \ {h} : step[g] = "admitted" => At(g) # At(h)
=============================================================================
