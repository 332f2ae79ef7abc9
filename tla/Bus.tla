-------------------------------- MODULE Bus ---------------------------------
(***************************************************************************)
(* The two halves of the gateway's place on the aiko bus: which topics it  *)
(* listens to (BusTopology) and what it does with an echo of its own       *)
(* message on one of them (EchoRelay).                                     *)
(*                                                                         *)
(* Both have the ChatServer going away and coming back, each as far as it  *)
(* matters there, and no other state in common: the echo table of          *)
(* domain/echo.py is kept when the client detaches.  A behaviour is one of *)
(* one half.                                                               *)
(***************************************************************************)
EXTENDS Integers, Sequences, SequencesExt

CONSTANTS
    Halves,
    Channels, Reserved, Floor, Msgs, MaxEpoch, MaxEdits, Restarts,
    Keys, TTL, MaxDelay, MaxNow, MaxSends, MaxForeign, MaxOutages

VARIABLES
    half,
    epoch, listed, edits, reported, discovery, share, server, subscribed, handlers,
    consumer, loop, events, worker, ingest, chan, rows, stored,
    now, up, seen, outbox, topic, sent, published, ingested, failed, swallowed, foreign,
    posted, outages

topologyVars == <<epoch, listed, edits, reported, discovery, share, server, subscribed,
                  handlers, consumer, loop, events, worker, ingest, chan, rows, stored>>
echoVars == <<now, up, seen, outbox, topic, sent, published, ingested, failed, swallowed,
              foreign, posted, outages>>
vars == <<half, topologyVars, echoVars>>

Top  == INSTANCE BusTopology
Echo == INSTANCE EchoRelay

ASSUME BusConstants ==
    /\ Halves \subseteq {"topology", "echo"}
    /\ Top!TopologyConstants
    /\ Echo!EchoConstants

-----------------------------------------------------------------------------
Init == half \in Halves /\ Top!Init /\ Echo!Init

TopologyStep ==
    /\ half = "topology" /\ Top!Next
    /\ UNCHANGED <<half, echoVars>>

EchoStep ==
    /\ half = "echo" /\ Echo!Next
    /\ UNCHANGED <<half, topologyVars>>

Next == TopologyStep \/ EchoStep

Spec == Init /\ [][Next]_vars

\* The aiko event loop, the asyncio loop and its tasks keep running.
FairSpec == Spec /\ Top!Fairness

-----------------------------------------------------------------------------
(* Properties *)

\* BusTopology: the drained gateway listens to no dead topic, and unless a late removal
\* detached it relays the running ChatServer's list, and of its floor what the share did
\* not remove.
RelayMirrorsList == Top!RelayMirrorsList

\* BusTopology: every listed channel the client was told of gets its row.
ListedGetsRow == Top!ListedGetsRow

\* EchoRelay: an echo of an own message is never a second row of it.
NoSecondRow == Echo!NoSecondRow

\* EchoRelay: while the ChatServer stays up, a drained bus has left for every message of
\* another participant a row or an ingest that was logged as failed.
ForeignKept == Echo!ForeignKept
=============================================================================
