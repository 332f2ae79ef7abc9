------------------------------ MODULE Accounts ------------------------------
(***************************************************************************)
(* What belongs to an account: its place among the members of a channel    *)
(* (Memberships), its keys and their recovery (Recovery), its read         *)
(* positions (ReadPositions).                                              *)
(*                                                                         *)
(* They meet in delete_user_account, which each module has as an action of *)
(* its own; they write no row of each other's, so the requests of one      *)
(* behaviour are those of one area.                                        *)
(***************************************************************************)
EXTENDS Integers, FiniteSets

CONSTANTS
    Areas,
    Users, Requests, AddRoles, OpenJoin, None,
    Devices, Owner, Nonces, Kinds, MaxRecoveries, NoRow,
    Writers, MaxId, MaxSeq, Privacy, NoAnswer       \* Writers: the requests of positions

VARIABLES
    area,
    role, accounts, memberStep, target, asRole, readRole, overlooked,
    standing, gen, policy, holder, since, tokens,
    nonces, approved, pending, opened, finalized, cancelled, pc, session,
    newest, ever, member, account, lastRead, seq, putStep, val, base, limit, answers

memberVars == <<role, accounts, memberStep, target, asRole, readRole, overlooked>>
recoveryVars == <<standing, gen, policy, holder, since, tokens, nonces, approved, pending,
                  opened, finalized, cancelled, pc, session>>
positionVars == <<newest, ever, member, account, lastRead, seq, putStep, val, base, limit,
                  answers>>
vars == <<area, memberVars, recoveryVars, positionVars>>

Mem == INSTANCE Memberships WITH pc <- memberStep
Rec == INSTANCE Recovery
Pos == INSTANCE ReadPositions WITH Requests <- Writers, pc <- putStep

ASSUME AccountConstants ==
    /\ Areas \subseteq {"members", "recovery", "positions"}
    /\ Mem!MembershipConstants
    /\ Rec!RecoveryConstants
    /\ Pos!PositionConstants

-----------------------------------------------------------------------------
\* A channel that is not at work has one plain roster.
Init ==
    /\ area \in Areas
    /\ Mem!Init /\ (area # "members" => role = [u \in Users |-> "admin"])
    /\ Rec!Init
    /\ Pos!Init

MemberStep ==
    /\ area = "members" /\ Mem!Next
    /\ UNCHANGED <<area, recoveryVars, positionVars>>

RecoveryStep ==
    /\ area = "recovery" /\ Rec!Next
    /\ UNCHANGED <<area, memberVars, positionVars>>

PositionStep ==
    /\ area = "positions" /\ Pos!Next
    /\ UNCHANGED <<area, memberVars, recoveryVars>>

Next == MemberStep \/ RecoveryStep \/ PositionStep

Spec == Init /\ [][Next]_vars

-----------------------------------------------------------------------------
(* Properties *)

\* Memberships: a channel is never without an admin who has an account, unless an admin
\* was added behind a request that had read the user as none, or after his deletion.
NeverOrphaned == Mem!NeverOrphaned

\* Recovery: a recovery is vetoed or finalized, and re-keys once.
OneOutcome == Rec!OneOutcome

\* Recovery: an accepted session is of a device that has its passkey.
SessionsMatchKeys == Rec!SessionsMatchKeys

\* Recovery: a running veto window ends by the owner's veto, at its deadline or with the
\* account, and a deleted account stays deleted.
OwnerDecides == [][Rec!OwnersStep]_vars

\* ReadPositions: a deleted account has no position.
NoGhostPosition == Pos!NoGhostPosition

\* ReadPositions: no position is past the end of the channel.
NotPastTheEnd == Pos!NotPastTheEnd

\* The service implements the promised compare-and-swap register: a version is
\* written once, by a request that named the version before it, and every answer
\* is true of the register at the moment of the COMMIT.
Register == INSTANCE PositionRegister
    WITH Requests <- Writers, value <- lastRead, version <- seq,
         Values <- Pos!Ids, Versions <- Pos!Bases
IsRegister == Register!Spec
=============================================================================
