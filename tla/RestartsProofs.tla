--------------------------- MODULE RestartsProofs ---------------------------
(***************************************************************************)
(* For any containers, images and revisions, and any handlers, envelopes   *)
(* and clocks: one worker serves a volume, its own island at its image's   *)
(* schema, and the robot carries out an envelope at most once.             *)
(***************************************************************************)
EXTENDS Restarts, TLAPS

-----------------------------------------------------------------------------
(* The bridge *)

\* The handlers that hold the lock, and those on whose word the robot will move.
Locking == {"persist", "sync"}
Past == {"persist", "sync", "admitted"}

BridgeTyped ==
    /\ marks \in [Bridge!Robots -> Int] /\ store \in [Bridge!Robots -> Int]
    /\ synced \in [Bridge!Robots -> Int]
    /\ DOMAIN step = Handlers /\ DOMAIN held = Handlers /\ DOMAIN before = Handlers
    /\ \A h \in Handlers : step[h] # "idle" => held[h] \in Envelopes

\* What a power loss leaves is behind the file, the file behind the marks: also behind
\* the mark that a failed write will roll back to.
LockInv ==
    /\ \A h \in Handlers : step[h] \in Locking => lock = {h}
    /\ \A r \in Bridge!Robots : synced[r] <= store[r] /\ store[r] <= marks[r]
    /\ \A h \in Handlers :
          /\ step[h] = "persist" =>
                /\ before[h] \in Int /\ store[Robot[held[h]]] <= before[h]
                /\ marks[Robot[held[h]]] = Seq[held[h]]
          /\ step[h] = "sync" => store[Robot[held[h]]] = Seq[held[h]]

\* What was admitted outlives a power loss, and nobody past the comparison has a number
\* that was admitted before.
AdmitInv ==
    /\ \A p \in actuated \ unsynced : p \in Bridge!Robots \X Nat /\ p[2] <= synced[p[1]]
    /\ \A h \in Handlers : step[h] = "admitted" /\ Bridge!At(h) \notin unsynced =>
          Seq[held[h]] <= synced[Robot[held[h]]]
    /\ \A h \in Handlers : step[h] \in Past /\ Bridge!At(h) \notin unsynced =>
          /\ Bridge!At(h) \notin actuated
          /\ \A g \in Handlers \ {h} : step[g] = "admitted" => Bridge!At(g) # Bridge!At(h)

BridgeInv == BridgeTyped /\ LockInv /\ AdmitInv

\* The sequence numbers are numbers, the robots those of the envelopes.
LEMMA Numbered == \A e \in Envelopes : Seq[e] \in Nat /\ Robot[e] \in Bridge!Robots
BY ProgramConstants DEF Bridge!ActuationConstants, Bridge!Robots

\* The comparison under the lock: a number above the mark was never admitted.
LEMMA AdvanceKeeps ==
  ASSUME BridgeInv, NEW h \in Handlers, Bridge!Advance(h)
  PROVE  BridgeInv'
<1> DEFINE r == Robot[held[h]]
           n == Seq[held[h]]
<1>1. /\ step[h] = "verified" /\ lock = {} /\ lock' = {h} /\ n > marks[r]
      /\ marks' = [marks EXCEPT ![r] = n]
      /\ before' = [before EXCEPT ![h] = marks[r]]
      /\ step' = [step EXCEPT ![h] = "persist"]
      /\ UNCHANGED <<store, synced, held, actuated, unsynced>>
  BY DEF Bridge!Advance, Bridge!Goto, Bridge!file, Bridge!history
<1>2. n \in Nat /\ r \in Bridge!Robots /\ held[h] \in Envelopes
  BY <1>1, Numbered DEF BridgeInv, BridgeTyped
<1>3. \A g \in Handlers : step[g] \notin Locking
  BY <1>1 DEF BridgeInv, LockInv
<1>4. BridgeTyped'
  BY <1>1, <1>2 DEF BridgeInv, BridgeTyped
<1>5. LockInv'
  BY <1>1, <1>2, <1>3 DEF BridgeInv, BridgeTyped, LockInv, Locking
<1>6. AdmitInv'
  <2>1. \A g : Bridge!At(g)' = Bridge!At(g)
    BY <1>1 DEF Bridge!At
  <2>2. n > synced[r]
    BY <1>1, <1>2 DEF BridgeInv, BridgeTyped, LockInv
  <2>3. Bridge!At(h) = <<r, n>>
    BY DEF Bridge!At
  <2>4. \A p \in actuated \ unsynced : p # <<r, n>>
    BY <1>2, <2>2 DEF BridgeInv, BridgeTyped, AdmitInv
  <2>5. ASSUME NEW g \in Handlers, step[g] = "admitted", Bridge!At(g) \notin unsynced
        PROVE  Bridge!At(g) # <<r, n>>
    <3>1. Seq[held[g]] <= synced[Robot[held[g]]] /\ Seq[held[g]] \in Nat /\ Robot[held[g]] \in Bridge!Robots
      BY <2>5, Numbered DEF BridgeInv, BridgeTyped, AdmitInv
    <3>2. QED
      BY <1>2, <2>2, <3>1 DEF Bridge!At, BridgeInv, BridgeTyped
  <2>6. QED
    BY <1>1, <1>3, <2>1, <2>3, <2>4, <2>5 DEF BridgeInv, BridgeTyped, AdmitInv, Past, Locking
<1>7. QED
  BY <1>4, <1>5, <1>6 DEF BridgeInv

\* The write and its failures.
LEMMA PersistKeeps ==
  ASSUME BridgeInv, NEW h \in Handlers,
         Bridge!PersistFails(h) \/ Bridge!Replace(h) \/ Bridge!SyncDir(h) \/ Bridge!SyncFails(h)
  PROVE  BridgeInv'
<1> USE DEF Bridge!Goto, Bridge!file, Bridge!history
<1>1. \A g : Bridge!At(g)' = Bridge!At(g)
  BY DEF Bridge!At, Bridge!PersistFails, Bridge!Replace, Bridge!SyncDir, Bridge!SyncFails
<1>2. step[h] \in Locking /\ (\A g \in Handlers \ {h} : step[g] \notin Locking)
  BY DEF Bridge!PersistFails, Bridge!Replace, Bridge!SyncDir, Bridge!SyncFails, BridgeInv,
     LockInv, Locking
<1>3. held[h] \in Envelopes /\ Seq[held[h]] \in Nat /\ Robot[held[h]] \in Bridge!Robots
  BY <1>2, Numbered DEF BridgeInv, BridgeTyped, Locking
<1>4. CASE Bridge!PersistFails(h)
  <2>1. BridgeTyped'
    BY <1>3, <1>4 DEF BridgeInv, BridgeTyped, LockInv, Bridge!PersistFails
  <2>2. LockInv'
    BY <1>2, <1>3, <1>4 DEF BridgeInv, BridgeTyped, LockInv, Bridge!PersistFails, Locking
  <2>3. AdmitInv'
    BY <1>1, <1>4 DEF BridgeInv, BridgeTyped, AdmitInv, Bridge!PersistFails, Past
  <2>4. QED
    BY <2>1, <2>2, <2>3 DEF BridgeInv
<1>5. CASE Bridge!Replace(h)
  <2>1. BridgeTyped'
    BY <1>3, <1>5 DEF BridgeInv, BridgeTyped, Bridge!Replace
  <2>2. LockInv'
    BY <1>2, <1>3, <1>5 DEF BridgeInv, BridgeTyped, LockInv, Bridge!Replace, Locking
  <2>3. AdmitInv'
    BY <1>1, <1>5 DEF BridgeInv, BridgeTyped, AdmitInv, Bridge!Replace, Past
  <2>4. QED
    BY <2>1, <2>2, <2>3 DEF BridgeInv
<1>6. CASE Bridge!SyncDir(h)
  <2>1. /\ step[h] = "sync" /\ synced' = store /\ lock' = {}
        /\ step' = [step EXCEPT ![h] = "admitted"]
        /\ UNCHANGED <<marks, store, held, before, actuated, unsynced>>
    BY <1>6 DEF Bridge!SyncDir
  <2>2. BridgeTyped'
    BY <1>3, <2>1 DEF BridgeInv, BridgeTyped
  <2>3. LockInv'
    BY <1>2, <1>3, <2>1 DEF BridgeInv, BridgeTyped, LockInv, Locking
  <2>4. \A r \in Bridge!Robots : synced[r] <= synced'[r] /\ synced[r] \in Int /\ synced'[r] \in Int
    BY <2>1 DEF BridgeInv, BridgeTyped, LockInv
  <2>5. \A p \in actuated' \ unsynced' : p \in Bridge!Robots \X Nat /\ p[2] <= synced'[p[1]]
    BY <2>1, <2>4 DEF BridgeInv, AdmitInv
  <2>6. ASSUME NEW g \in Handlers, step'[g] = "admitted", Bridge!At(g)' \notin unsynced'
        PROVE  Seq[held'[g]] <= synced'[Robot[held'[g]]]
    <3>1. CASE g = h
      BY <1>3, <2>1, <3>1 DEF BridgeInv, BridgeTyped, LockInv
    <3>2. CASE g # h
      <4>1. /\ step[g] = "admitted" /\ Bridge!At(g) \notin unsynced
            /\ Seq[held[g]] \in Nat /\ Robot[held[g]] \in Bridge!Robots
        BY <1>1, <2>1, <2>6, <3>2, Numbered DEF BridgeInv, BridgeTyped
      <4>2. QED
        BY <2>1, <2>4, <4>1 DEF BridgeInv, AdmitInv
    <3>3. QED
      BY <3>1, <3>2
  <2>7. ASSUME NEW g \in Handlers, step'[g] \in Past, Bridge!At(g)' \notin unsynced'
        PROVE  /\ Bridge!At(g)' \notin actuated'
               /\ \A k \in Handlers \ {g} : step'[k] = "admitted" => Bridge!At(k)' # Bridge!At(g)'
    <3>1. step[h] \in Past /\ step[g] \in Past /\ Bridge!At(g) \notin unsynced
      BY <1>1, <2>1, <2>7 DEF Past, BridgeInv, BridgeTyped
    <3>2. CASE g = h
      BY <1>1, <2>1, <3>1, <3>2 DEF BridgeInv, BridgeTyped, AdmitInv
    <3>3. CASE g # h
      <4>1. step[g] = "admitted"
        BY <1>2, <3>1, <3>3 DEF Past, Locking
      <4>2. QED
        BY <1>1, <2>1, <3>1, <3>3, <4>1 DEF BridgeInv, BridgeTyped, AdmitInv
    <3>4. QED
      BY <3>2, <3>3
  <2>8. QED
    BY <2>2, <2>3, <2>5, <2>6, <2>7 DEF BridgeInv, AdmitInv
<1>7. CASE Bridge!SyncFails(h)
  <2>1. /\ step[h] = "sync" /\ unsynced' = unsynced \cup {Bridge!At(h)} /\ lock' = {}
        /\ step' = [step EXCEPT ![h] = "admitted"]
        /\ UNCHANGED <<marks, store, synced, held, before, actuated>>
    BY <1>7 DEF Bridge!SyncFails
  <2>2. BridgeTyped'
    BY <1>3, <2>1 DEF BridgeInv, BridgeTyped
  <2>3. LockInv'
    BY <1>2, <1>3, <2>1 DEF BridgeInv, BridgeTyped, LockInv, Locking
  <2>4. AdmitInv'
    BY <1>1, <2>1 DEF BridgeInv, BridgeTyped, AdmitInv, Past
  <2>5. QED
    BY <2>2, <2>3, <2>4 DEF BridgeInv
<1>8. QED
  BY <1>4, <1>5, <1>6, <1>7

\* The steps outside the lock, and the deaths of the process.
LEMMA BridgeKeeps ==
  ASSUME BridgeInv, Bridge!Next
  PROVE  BridgeInv'
<1> USE DEF Bridge!Goto, Bridge!file, Bridge!locals, Bridge!history
<1>1. ASSUME NEW h \in Handlers, NEW e \in Envelopes, Bridge!Verify(h, e) PROVE BridgeInv'
  <2>1. \A g \in Handlers : step'[g] \in Past => step[g] = step'[g] /\ held'[g] = held[g]
    BY <1>1 DEF Bridge!Verify, Past, BridgeInv, BridgeTyped
  <2>2. \A g \in Handlers : step'[g] \in Past => Bridge!At(g)' = Bridge!At(g)
    BY <2>1 DEF Bridge!At
  <2>3. BridgeTyped'
    BY <1>1 DEF BridgeInv, BridgeTyped, Bridge!Verify
  <2>4. LockInv'
    BY <1>1, <2>1 DEF BridgeInv, BridgeTyped, LockInv, Bridge!Verify, Past, Locking
  <2>5. AdmitInv'
    BY <1>1, <2>1, <2>2 DEF BridgeInv, AdmitInv, Bridge!Verify, Past
  <2>6. QED
    BY <2>3, <2>4, <2>5 DEF BridgeInv
<1>2. ASSUME NEW h \in Handlers, Bridge!Drop(h) PROVE BridgeInv'
  BY <1>2 DEF BridgeInv, BridgeTyped, LockInv, AdmitInv, Bridge!Drop, Bridge!At, Past, Locking
<1>3. ASSUME NEW h \in Handlers, Bridge!Actuate(h) PROVE BridgeInv'
  <2>1. /\ step[h] = "admitted" /\ actuated' = actuated \cup {Bridge!At(h)}
        /\ step' = [step EXCEPT ![h] = "idle"]
        /\ UNCHANGED <<marks, store, synced, lock, held, before, unsynced>>
    BY <1>3 DEF Bridge!Actuate
  <2>2. \A g : Bridge!At(g)' = Bridge!At(g)
    BY <2>1 DEF Bridge!At
  <2>3. Seq[held[h]] \in Nat /\ Robot[held[h]] \in Bridge!Robots
    BY <2>1, Numbered DEF BridgeInv, BridgeTyped
  <2>4. BridgeTyped' /\ LockInv'
    BY <2>1 DEF BridgeInv, BridgeTyped, LockInv, Locking
  <2>5. \A p \in actuated' \ unsynced' : p \in Bridge!Robots \X Nat /\ p[2] <= synced'[p[1]]
    <3>1. SUFFICES ASSUME Bridge!At(h) \notin unsynced
                   PROVE  /\ Bridge!At(h) \in Bridge!Robots \X Nat
                          /\ Bridge!At(h)[2] <= synced[Bridge!At(h)[1]]
      BY <2>1 DEF BridgeInv, AdmitInv
    <3>2. QED
      BY <2>1, <2>3, <3>1 DEF BridgeInv, AdmitInv, Bridge!At
  <2>6. QED
    BY <2>1, <2>2, <2>4, <2>5 DEF BridgeInv, BridgeTyped, AdmitInv, Past
<1>4. CASE Bridge!Crash \/ Bridge!PowerLoss
  BY <1>4 DEF BridgeInv, BridgeTyped, LockInv, AdmitInv, Bridge!Crash, Bridge!PowerLoss,
     Bridge!Restarted, Bridge!Load, Past, Locking
<1>5. CASE Bridge!Tick
  BY <1>5 DEF BridgeInv, BridgeTyped, LockInv, AdmitInv, Bridge!Tick, Bridge!At
<1>6. QED
  BY <1>1, <1>2, <1>3, <1>4, <1>5, AdvanceKeeps, PersistKeeps DEF Bridge!Next, Bridge!HandlerStep

\* verify_and_advance: the robot carries out an envelope at most once, for any number of
\* handler threads, deliveries, failed writes, crashes and power losses.
THEOREM RobotActsAtMostOnce == Spec => []AtMostOnce
<1>1. Init => BridgeInv
  BY DEF Init, Bridge!Init, BridgeInv, BridgeTyped, LockInv, AdmitInv, Past, Locking
<1>2. BridgeInv /\ [Next]_vars => BridgeInv'
  <2>1. SUFFICES ASSUME BridgeInv, [Next]_vars PROVE BridgeInv'
    OBVIOUS
  <2>2. CASE BridgeStep
    BY <2>1, <2>2, BridgeKeeps DEF BridgeStep
  <2>3. CASE UNCHANGED bridgeVars
    BY <2>1, <2>3 DEF bridgeVars, BridgeInv, BridgeTyped, LockInv, AdmitInv, Bridge!At
  <2>4. QED
    BY <2>1, <2>2, <2>3 DEF Next, GatewayStep, vars
<1>3. BridgeInv => AtMostOnce
  BY DEF BridgeInv, AdmitInv, AtMostOnce, Bridge!AtMostOnce, Past
<1>4. QED
  BY <1>1, <1>2, <1>3, PTL DEF Spec

-----------------------------------------------------------------------------
(* The gateway *)

Stages == {"down", "look", "diff", "adopt", "status", "upgrade", "stamp", "lock", "verify",
           "serving"}

\* Past the adoption of a volume without a stamp.
Stamped == {"status", "upgrade", "stamp"}

\* Only the holder of the lock verifies or serves, and who runs without it.
FlockInv ==
    /\ bootStep \in [Containers -> Stages] /\ at \in [Containers -> Nat] /\ stamp \in Nat
    /\ schema \in Nat
    /\ \A c \in Containers \ MultiWorker :
          bootStep[c] \in {"verify", "serving"} => flock = {c}

\* Who migrates has the volume's island before it, who adopts has not seen it drifted,
\* and who is past that has it stamped.  But for an adoption that overtook a migration,
\* the stamp of an island is its schema, and a revision in progress is one of a newer image.
VolumeInv ==
    /\ file \in {"absent", "bare", "island"}
    /\ Gateway!Migrating # {} => file = "island"
    /\ \A c \in Containers : bootStep[c] \in Stamped => stamp # 0
    /\ \A c \in Containers : bootStep[c] = "adopt" => shape # "drifted"
    /\ file = "island" /\ stamp = 0 => schema = Baseline /\ shape \in {"whole", "drifted"}
    /\ shape \in {"whole", "half", "drifted"} /\ (stamp = 0 \/ stamp >= Baseline)
    /\ restamped = FALSE /\ file = "island" /\ stamp # 0 =>
          schema = stamp /\ shape \in {"whole", "half"}
    /\ shape = "half" => \E d \in Containers : Head[d] > schema

\* What is served is what was verified, unless the volume was changed since.
ServeInv ==
    \A c \in Containers : bootStep[c] = "serving" /\ c \notin disturbed =>
        file = "island" /\ stamp = Head[c]

BootInv == FlockInv /\ VolumeInv /\ ServeInv

\* The steps of one container.
LEMMA BootKeeps ==
  ASSUME BootInv, NEW c \in Containers, Gateway!BootStep(c)
  PROVE  BootInv'
<1> USE ProgramConstants DEF Gateway!BootConstants, BootInv, FlockInv, VolumeInv, ServeInv,
        Gateway!volume, Gateway!bounds, Gateway!Goto, Gateway!Refuse, Gateway!Migrating,
        Gateway!Serving, Gateway!history, Stages, Stamped
<1>1. CASE Gateway!Start(c)
  BY <1>1 DEF Gateway!Start
<1>2. CASE Gateway!StartRefused(c)
  BY <1>2 DEF Gateway!StartRefused
<1>3. CASE Gateway!Adopt(c)
  <2>1. CASE stamp > Head[c]
    BY <1>3, <2>1 DEF Gateway!Adopt
  <2>2. CASE Baseline < stamp /\ stamp <= Head[c]
    <3>1. /\ bootStep[c] = "adopt" /\ bootStep' = [bootStep EXCEPT ![c] = "status"]
          /\ stamp' = Baseline /\ restamped' = TRUE
          /\ disturbed' = disturbed \cup {d \in Containers : bootStep[d] = "serving"}
          /\ UNCHANGED <<file, schema, shape, at, flock>>
      BY <1>3, <2>2 DEF Gateway!Adopt
    <3>2. QED
      BY <2>2, <3>1
  <2>3. CASE stamp <= Baseline
    <3>1. /\ bootStep[c] = "adopt" /\ bootStep' = [bootStep EXCEPT ![c] = "status"]
          /\ stamp' = Baseline
          /\ UNCHANGED <<file, schema, shape, at, flock, disturbed, restamped>>
      BY <1>3, <2>3 DEF Gateway!Adopt
    <3>2. file = "island" /\ shape # "drifted"
      BY <3>1
    <3>3. stamp = 0 \/ stamp = Baseline
      BY <2>3
    <3>4. QED
      BY <3>1, <3>2, <3>3
  <2>4. stamp > Head[c] \/ (Baseline < stamp /\ stamp <= Head[c]) \/ stamp <= Baseline
    <3>1. stamp \in Nat /\ Head[c] \in Nat /\ Baseline \in Nat
      OBVIOUS
    <3>2. QED
      BY <3>1
  <2>5. QED
    BY <2>1, <2>2, <2>3, <2>4
<1>13. CASE Gateway!Look(c)
  BY <1>13 DEF Gateway!Look
<1>14. CASE Gateway!Diff(c)
  BY <1>14 DEF Gateway!Diff, Gateway!LooksBaseline
<1>4. CASE Gateway!Status(c)
  BY <1>4 DEF Gateway!Status
<1>5. CASE Gateway!Upgrade(c)
  BY <1>5 DEF Gateway!Upgrade
<1>6. CASE Gateway!UpgradeAgain(c)
  BY <1>6 DEF Gateway!UpgradeAgain
<1>7. CASE Gateway!Stamp(c)
  BY <1>7 DEF Gateway!Stamp
<1>8. CASE Gateway!Migrated(c)
  BY <1>8 DEF Gateway!Migrated
<1>9. CASE Gateway!Lock(c)
  <2>1. CASE c \in MultiWorker
    BY <1>9, <2>1 DEF Gateway!Lock
  <2>2. CASE c \notin MultiWorker /\ flock = {}
    BY <1>9, <2>2 DEF Gateway!Lock
  <2>3. CASE c \notin MultiWorker /\ flock # {}
    BY <1>9, <2>3 DEF Gateway!Lock
  <2>4. QED
    BY <2>1, <2>2, <2>3
<1>10. CASE Gateway!Verify(c)
  BY <1>10 DEF Gateway!Verify
<1>11. CASE Gateway!Stop(c)
  BY <1>11 DEF Gateway!Stop
<1>12. QED
  BY <1>1, <1>2, <1>3, <1>4, <1>5, <1>6, <1>7, <1>8, <1>9, <1>10, <1>11,
     <1>13, <1>14 DEF Gateway!BootStep

\* The volume is lost or restored.
LEMMA VolumeKeeps ==
  ASSUME BootInv, (\E f \in {"absent", "bare"} : Gateway!Lose(f))
                     \/ (\E v \in Gateway!Revisions : Gateway!Restore(v))
  PROVE  BootInv'
<1>1. \A v \in Gateway!Revisions : v \in Nat \ {0} /\ v >= Baseline
  BY ProgramConstants DEF Gateway!Revisions, Gateway!BootConstants
<1>2. ASSUME NEW f \in {"absent", "bare"}, Gateway!Lose(f) PROVE BootInv'
  BY <1>2 DEF Gateway!Lose, BootInv, FlockInv, VolumeInv, ServeInv, Gateway!Migrating,
     Gateway!Serving, Stamped, Stages
<1>3. ASSUME NEW v \in Gateway!Revisions, Gateway!Restore(v) PROVE BootInv'
  BY <1>1, <1>3 DEF Gateway!Restore, BootInv, FlockInv, VolumeInv, ServeInv, Gateway!Migrating,
     Gateway!Serving, Stamped, Stages
<1>4. QED
  BY <1>2, <1>3

\* migrate.run, acquire_single_worker_lock and verify_schema: at most one worker serves,
\* and only the volume's own island at its image's schema, for any images, crashes,
\* losses and restores.
THEOREM OneWorkerServesTheIsland == Spec => []ServesTheIsland
<1>1. Init => BootInv
  <2>1. \A v \in Gateway!Revisions : v \in Nat \ {0} /\ v >= Baseline
    BY ProgramConstants DEF Gateway!Revisions, Gateway!BootConstants
  <2>2. QED
    BY <2>1, ProgramConstants DEF Init, Gateway!Init, Gateway!BootConstants, BootInv, FlockInv, VolumeInv, ServeInv, Gateway!Migrating,
       Stages, Stamped
<1>2. BootInv /\ [Next]_vars => BootInv'
  <2>1. SUFFICES ASSUME BootInv, [Next]_vars PROVE BootInv'
    OBVIOUS
  <2>2. CASE GatewayStep
    BY <2>1, <2>2, BootKeeps, VolumeKeeps DEF GatewayStep, Gateway!Next
  <2>3. CASE UNCHANGED bootVars
    BY <2>1, <2>3 DEF bootVars, BootInv, FlockInv, VolumeInv, ServeInv, Gateway!Migrating
  <2>4. QED
    BY <2>1, <2>2, <2>3 DEF Next, BridgeStep, vars
<1>3. BootInv => ServesTheIsland
  <2>1. SUFFICES ASSUME BootInv, NEW c \in Containers, bootStep[c] = "serving"
                 PROVE  /\ \A d \in Containers \ {c} :
                              bootStep[d] = "serving" => {c, d} \cap MultiWorker # {}
                        /\ c \notin disturbed =>
                              /\ file = "island" /\ stamp = Head[c]
                              /\ ~restamped =>
                                    /\ schema = Head[c]
                                    /\ \/ shape = "whole"
                                       \/ shape = "half" /\ \E d \in Containers : Head[d] > Head[c]
    BY DEF ServesTheIsland, Gateway!ServesTheIsland, Gateway!Serving
  <2>2. \A d \in Containers \ {c} : bootStep[d] = "serving" => {c, d} \cap MultiWorker # {}
    BY <2>1 DEF BootInv, FlockInv
  <2>3. Head[c] # 0
    BY ProgramConstants DEF Gateway!BootConstants
  <2>4. QED
    BY <2>1, <2>2, <2>3 DEF BootInv, VolumeInv, ServeInv
<1>4. QED
  BY <1>1, <1>2, <1>3, PTL DEF Spec
=============================================================================
