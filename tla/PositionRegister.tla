-------------------------- MODULE PositionRegister --------------------------
(***************************************************************************)
(* What PUT /v1/read-positions promises for one position, with no          *)
(* statement about how it is stored: a versioned register that is changed  *)
(* by compare-and-swap and whose answers are true when they are given.     *)
(* read_positions_service, module docstring: "A write says `set this       *)
(* channel's watermark, editing the version I last saw`"; "The island      *)
(* applies it only if that is still the version it holds".                 *)
(***************************************************************************)
EXTENDS Integers

CONSTANTS Requests, Values, Versions, NoAnswer

VARIABLES
    value,      \* the watermark, 0 while there is none
    version,    \* 0 = no position
    answers     \* request -> what it was told

Answer(r, a) == answers' = [answers EXCEPT ![r] = a]

\* The swap.
Applied(r, v, b) ==
    /\ version = b
    /\ value' = v
    /\ version' = b + 1
    /\ Answer(r, [status |-> "applied", value |-> v, version |-> b + 1])

\* The register already holds what the request would have produced.
Confirmed(r, v, b) ==
    /\ version = b + 1 /\ value = v
    /\ Answer(r, [status |-> "applied", value |-> v, version |-> b + 1])
    /\ UNCHANGED <<value, version>>

\* The request edited another version: it is told the one that is held.
Conflict(r, b) ==
    /\ version # b
    /\ Answer(r, [status |-> "conflict", value |-> value, version |-> version])
    /\ UNCHANGED <<value, version>>

\* Nothing is written for somebody who cannot read the channel, and nothing for a
\* deleted account.
Refused(r) ==
    /\ \E s \in {"skipped", "conflict"} :
          /\ s = "conflict" => version = 0
          /\ Answer(r, [status |-> s, value |-> value, version |-> version])
    /\ UNCHANGED <<value, version>>

\* The account is deleted and its position with it.
Clear ==
    /\ value' = 0 /\ version' = 0
    /\ UNCHANGED answers

Init ==
    /\ value = 0 /\ version = 0
    /\ answers = [r \in Requests |-> NoAnswer]

Next ==
    \/ \E r \in Requests, v \in Values, b \in Versions :
          Applied(r, v, b) \/ Confirmed(r, v, b) \/ Conflict(r, b)
    \/ \E r \in Requests : Refused(r)
    \/ Clear

Spec == Init /\ [][Next]_<<value, version, answers>>
=============================================================================
