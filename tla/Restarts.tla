------------------------------ MODULE Restarts ------------------------------
(***************************************************************************)
(* The two programs whose state outlives their process: the gateway's      *)
(* container on its data volume (Boot) and the robot's bridge on its       *)
(* sequence store (Actuation).  They share nothing, so a behaviour is one  *)
(* of either.                                                              *)
(***************************************************************************)
EXTENDS Integers

CONSTANTS
    Programs,
    Containers, Head, Baseline, Blind, MultiWorker, MaxBoots,
    Handlers, Envelopes, Robot, Seq, SignedAt, Authentic, Mine, MaxAge, Skew, MaxNow,
    MaxFaults

VARIABLES
    program, faults,
    file, stamp, schema, shape, flock, bootStep, at, boots, disturbed, restamped,
    marks, store, synced, lock, step, held, before, now, actuated, unsynced

bootVars == <<file, stamp, schema, shape, flock, bootStep, at, boots, disturbed, restamped>>
bridgeVars == <<marks, store, synced, lock, step, held, before, now, actuated, unsynced>>
vars == <<program, faults, bootVars, bridgeVars>>

Gateway == INSTANCE Boot WITH step <- bootStep
Bridge == INSTANCE Actuation

ASSUME ProgramConstants ==
    /\ Programs \subseteq {"gateway", "bridge"}
    /\ Gateway!BootConstants
    /\ Bridge!ActuationConstants

-----------------------------------------------------------------------------
\* The volume of a gateway that is not at work is one plain island.
Init ==
    /\ program \in Programs
    /\ Gateway!Init /\ (program # "gateway" => stamp = Baseline)
    /\ Bridge!Init

GatewayStep ==
    /\ program = "gateway" /\ Gateway!Next
    /\ UNCHANGED <<program, bridgeVars>>

BridgeStep ==
    /\ program = "bridge" /\ Bridge!Next
    /\ UNCHANGED <<program, bootVars>>

Next == GatewayStep \/ BridgeStep

Spec == Init /\ [][Next]_vars

-----------------------------------------------------------------------------
(* Properties *)

\* Boot: one worker serves, the volume's own island, at its image's schema, with the
\* exceptions stated there.
ServesTheIsland == Gateway!ServesTheIsland

\* Actuation: the robot carries out an envelope at most once.
AtMostOnce == Bridge!AtMostOnce
=============================================================================
