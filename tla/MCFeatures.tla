----------------------------- MODULE MCFeatures -----------------------------
(* Instances of Features for TLC. *)
EXTENDS Features, TLC

Symmetric == Permutations(Requests) \cup Permutations(Origins)

\* The names order the directory other than the ids do.
MCName == [c \in Comms |-> 10 - c]
=============================================================================
