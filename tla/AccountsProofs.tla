--------------------------- MODULE AccountsProofs ---------------------------
(***************************************************************************)
(* For any users, devices and requests: a channel never loses its last     *)
(* admin, unless one is added behind a request that took him for none; a   *)
(* recovery has one outcome, an accepted session has its passkey, and the  *)
(* owner's decisions stand; PUT /v1/read-positions is a compare-and-swap   *)
(* register that a deleted account does not have.                          *)
(***************************************************************************)
EXTENDS Accounts, FiniteSetTheorems, TLAPS

-----------------------------------------------------------------------------
(* Memberships *)

\* An admin's account exists.
AdminsHaveAccounts == \A u \in Users : role[u] = "admin" => u \in accounts

\* What a DELETE relies on: whoever is an admin now was one when the request read it.
AdminSeen ==
    \A r \in Requests :
        memberStep[r] \in {"delete", "erase"} /\ role[target[r]] = "admin"
            => readRole[r] = "admin"

Roster == Mem!HasAdmin /\ AdminsHaveAccounts /\ AdminSeen

MemberInv == Mem!TypeOK /\ (overlooked = FALSE => Roster)

\* Removing one row while two admins exist, or the row of somebody who is no admin,
\* leaves an admin with an account.
LEMMA RemovalKeepsAdmin ==
    ASSUME Mem!TypeOK, Roster, NEW t \in Users, role[t] = "admin" => Mem!MoreThanOneAdmin,
           role' = [role EXCEPT ![t] = "none"],
           accounts' \in {accounts, accounts \ {t}}
    PROVE  Mem!HasAdmin' /\ AdminsHaveAccounts'
<1>1. PICK u \in Users : u # t /\ role[u] = "admin"
    BY DEF Roster, Mem!TypeOK, Mem!HasAdmin, Mem!MoreThanOneAdmin
<1>2. role'[u] = "admin" /\ u \in accounts'
    BY <1>1 DEF Mem!TypeOK, Roster, AdminsHaveAccounts
<1>3. Mem!HasAdmin'
    BY <1>2 DEF Mem!HasAdmin
<1>4. AdminsHaveAccounts'
    BY DEF Mem!TypeOK, Roster, AdminsHaveAccounts
<1> QED
    BY <1>3, <1>4

\* The invariant holds at the start ...
LEMMA MemberInit == Init => MemberInv
<1>1. SUFFICES ASSUME Mem!Init PROVE MemberInv
    BY DEF Init
<1>2. Mem!TypeOK
    BY <1>1 DEF Mem!Init, Mem!TypeOK, Mem!Roles
<1>3. Roster
    BY <1>1 DEF Mem!Init, Roster, Mem!HasAdmin, AdminsHaveAccounts, AdminSeen
<1>4. QED
    BY <1>2, <1>3 DEF MemberInv

\* ... and every step of every request keeps it.  A step that only reads moves no row, and
\* what it reads is what is there.
LEMMA ReadKeeps ==
    ASSUME MemberInv, NEW r \in Requests,
           \/ Mem!AddRequest(r) \/ Mem!AddLookup(r) \/ Mem!JoinRequest(r)
           \/ Mem!RemoveRequest(r) \/ Mem!LeaveRequest(r) \/ Mem!ReadRole(r)
           \/ Mem!EraseRequest(r)
    PROVE  MemberInv'
<1> USE AccountConstants DEF Mem!MembershipConstants
<1>1. UNCHANGED <<role, accounts, overlooked>>
    BY DEF Mem!AddRequest, Mem!AddLookup, Mem!JoinRequest, Mem!RemoveRequest, Mem!LeaveRequest,
       Mem!ReadRole, Mem!EraseRequest
<1>2. Mem!TypeOK'
  <2>1. CASE Mem!AddRequest(r)
    BY <2>1 DEF Mem!AddRequest, Mem!Goto, MemberInv, Mem!TypeOK
  <2>2. CASE Mem!AddLookup(r)
    BY <2>2 DEF Mem!AddLookup, Mem!Goto, MemberInv, Mem!TypeOK
  <2>3. CASE Mem!JoinRequest(r)
    BY <2>3 DEF Mem!JoinRequest, Mem!Goto, MemberInv, Mem!TypeOK
  <2>4. CASE Mem!RemoveRequest(r)
    BY <2>4 DEF Mem!RemoveRequest, Mem!Goto, MemberInv, Mem!TypeOK
  <2>5. CASE Mem!LeaveRequest(r)
    BY <2>5 DEF Mem!LeaveRequest, Mem!Goto, MemberInv, Mem!TypeOK
  <2>6. CASE Mem!ReadRole(r)
    BY <2>6 DEF Mem!ReadRole, Mem!Goto, MemberInv, Mem!TypeOK
  <2>7. CASE Mem!EraseRequest(r)
    BY <2>7 DEF Mem!EraseRequest, Mem!Goto, MemberInv, Mem!TypeOK
  <2>8. QED
    BY <2>1, <2>2, <2>3, <2>4, <2>5, <2>6, <2>7
<1>3. ASSUME overlooked' = FALSE PROVE Roster'
  <2>1. Roster
    BY <1>1, <1>3 DEF MemberInv
  <2>2. Mem!HasAdmin' /\ AdminsHaveAccounts'
    BY <1>1, <2>1 DEF Roster, Mem!HasAdmin, AdminsHaveAccounts
  <2>3. AdminSeen'
    <3>1. CASE Mem!AddRequest(r) \/ Mem!AddLookup(r) \/ Mem!JoinRequest(r)
      BY <2>1, <3>1 DEF Roster, AdminSeen, Mem!AddRequest, Mem!AddLookup, Mem!JoinRequest,
         Mem!Goto, MemberInv, Mem!TypeOK
    <3>2. CASE Mem!RemoveRequest(r) \/ Mem!LeaveRequest(r)
      BY <2>1, <3>2 DEF Roster, AdminSeen, Mem!RemoveRequest, Mem!LeaveRequest, Mem!Goto,
         MemberInv, Mem!TypeOK
    <3>3. CASE Mem!ReadRole(r)
      BY <2>1, <3>3 DEF Roster, AdminSeen, Mem!ReadRole, Mem!Goto, MemberInv, Mem!TypeOK
    <3>4. CASE Mem!EraseRequest(r)
      BY <2>1, <3>4 DEF Roster, AdminSeen, Mem!EraseRequest, Mem!Goto, MemberInv, Mem!TypeOK
    <3>5. QED
      BY <3>1, <3>2, <3>3, <3>4
  <2>4. QED
    BY <2>2, <2>3 DEF Roster
<1>4. QED
    BY <1>2, <1>3 DEF MemberInv

\* A row that comes in while nothing is overlooked makes no admin that a pending DELETE
\* has read as something else.
LEMMA InsertKeeps == ASSUME MemberInv, NEW r \in Requests, Mem!Insert(r) PROVE MemberInv'
<1> USE AccountConstants DEF Mem!MembershipConstants
<1>1. /\ target[r] \in Users /\ asRole[r] \in Mem!Roles
      /\ UNCHANGED <<accounts, target, asRole, readRole>>
      /\ memberStep' = [memberStep EXCEPT ![r] = "done"]
    BY DEF Mem!Insert, Mem!Goto, MemberInv, Mem!TypeOK, Mem!Roles
<1>2. CASE role[target[r]] = "none"
  <2>1. /\ role' = [role EXCEPT ![target[r]] = asRole[r]]
        /\ overlooked' = \/ overlooked
                         \/ /\ asRole[r] = "admin"
                            /\ target[r] \notin accounts \/ Mem!PassesFor(target[r])
    BY <1>2 DEF Mem!Insert
  <2>2. Mem!TypeOK'
    BY <1>1, <2>1 DEF MemberInv, Mem!TypeOK
  <2>3. ASSUME overlooked' = FALSE PROVE Roster'
    <3>1. /\ ~overlooked
          /\ asRole[r] = "admin" => target[r] \in accounts /\ ~Mem!PassesFor(target[r])
      BY <2>1, <2>3
    <3>2. Roster
      BY <3>1 DEF MemberInv, Mem!TypeOK
    <3>3. \A u \in Users : role'[u] = IF u = target[r] THEN asRole[r] ELSE role[u]
      BY <1>1, <2>1 DEF MemberInv, Mem!TypeOK
    <3>4. Mem!HasAdmin' /\ AdminsHaveAccounts'
      BY <1>1, <1>2, <3>1, <3>2, <3>3
         DEF Roster, Mem!HasAdmin, AdminsHaveAccounts, MemberInv, Mem!TypeOK
    <3>5. AdminSeen'
      <4>1. SUFFICES ASSUME NEW q \in Requests, memberStep'[q] \in {"delete", "erase"},
                            role'[target[q]] = "admin"
                     PROVE  readRole[q] = "admin"
        BY <1>1 DEF AdminSeen
      <4>2. q # r /\ memberStep[q] \in {"delete", "erase"} /\ target[q] \in Users
        BY <1>1, <4>1 DEF MemberInv, Mem!TypeOK
      <4>3. CASE target[q] = target[r]
        BY <3>1, <3>3, <4>1, <4>2, <4>3 DEF Mem!PassesFor
      <4>4. CASE target[q] # target[r]
        BY <3>2, <3>3, <4>1, <4>2, <4>4 DEF Roster, AdminSeen
      <4>5. QED
        BY <4>3, <4>4
    <3>6. QED
      BY <3>4, <3>5 DEF Roster
  <2>4. QED
    BY <2>2, <2>3 DEF MemberInv
<1>3. CASE role[target[r]] # "none"
  <2>1. UNCHANGED <<role, overlooked>>
    BY <1>3 DEF Mem!Insert
  <2>2. Mem!TypeOK'
    BY <1>1, <2>1 DEF MemberInv, Mem!TypeOK
  <2>3. Roster => Roster'
    BY <1>1, <2>1 DEF Roster, Mem!HasAdmin, AdminsHaveAccounts, AdminSeen, MemberInv, Mem!TypeOK
  <2>4. QED
    BY <2>1, <2>2, <2>3 DEF MemberInv
<1>4. QED
    BY <1>2, <1>3

\* A removal or a departure ...
LEMMA DeleteKeeps == ASSUME MemberInv, NEW r \in Requests, Mem!Delete(r) PROVE MemberInv'
<1>1. /\ target[r] \in Users /\ UNCHANGED <<accounts, target, asRole, readRole, overlooked>>
      /\ memberStep[r] = "delete" /\ memberStep' = [memberStep EXCEPT ![r] = "done"]
    BY DEF Mem!Delete, Mem!Goto, MemberInv, Mem!TypeOK
<1>2. role' \in {role, [role EXCEPT ![target[r]] = "none"]}
    BY DEF Mem!Delete
<1>3. Mem!TypeOK'
    BY <1>1, <1>2 DEF MemberInv, Mem!TypeOK, Mem!Roles
<1>4. ASSUME Roster PROVE Roster'
  <2>1. AdminSeen'
    BY <1>1, <1>2, <1>4 DEF Roster, AdminSeen, MemberInv, Mem!TypeOK
  <2>2. Mem!HasAdmin' /\ AdminsHaveAccounts'
    <3>1. CASE readRole[r] = "admin" => Mem!MoreThanOneAdmin
      <4>1. role[target[r]] = "admin" => Mem!MoreThanOneAdmin
        BY <1>1, <1>4, <3>1 DEF Roster, AdminSeen
      <4>2. role' = [role EXCEPT ![target[r]] = "none"]
        BY <3>1 DEF Mem!Delete
      <4>3. QED
        BY <1>1, <1>4, <4>1, <4>2, RemovalKeepsAdmin DEF MemberInv
    <3>2. CASE ~(readRole[r] = "admin" => Mem!MoreThanOneAdmin)
      BY <1>1, <1>4, <3>2 DEF Mem!Delete, Roster, Mem!HasAdmin, AdminsHaveAccounts
    <3>3. QED
      BY <3>1, <3>2
  <2>3. QED
    BY <2>1, <2>2 DEF Roster
<1>5. QED
    BY <1>1, <1>3, <1>4 DEF MemberInv

\* ... and a deletion of the account.
LEMMA EraseKeeps == ASSUME MemberInv, NEW r \in Requests, Mem!Erase(r) PROVE MemberInv'
<1>1. /\ target[r] \in Users /\ UNCHANGED <<target, asRole, readRole, overlooked>>
      /\ memberStep[r] = "erase" /\ memberStep' = [memberStep EXCEPT ![r] = "done"]
    BY DEF Mem!Erase, Mem!Goto, MemberInv, Mem!TypeOK
<1>2. \/ UNCHANGED <<role, accounts>>
      \/ /\ role' = [role EXCEPT ![target[r]] = "none"] /\ accounts' = accounts \ {target[r]}
         /\ readRole[r] = "admin" /\ role[target[r]] = "admin" => Mem!MoreThanOneAdmin
    BY DEF Mem!Erase
<1>3. Mem!TypeOK'
    BY <1>1, <1>2 DEF MemberInv, Mem!TypeOK, Mem!Roles
<1>4. ASSUME Roster PROVE Roster'
  <2>1. AdminSeen'
    BY <1>1, <1>2, <1>4 DEF Roster, AdminSeen, MemberInv, Mem!TypeOK
  <2>2. Mem!HasAdmin' /\ AdminsHaveAccounts'
    <3>1. CASE UNCHANGED <<role, accounts>>
      BY <1>4, <3>1 DEF Roster, Mem!HasAdmin, AdminsHaveAccounts
    <3>2. CASE ~UNCHANGED <<role, accounts>>
      <4>1. role[target[r]] = "admin" => Mem!MoreThanOneAdmin
        BY <1>1, <1>2, <1>4, <3>2 DEF Roster, AdminSeen
      <4>2. role' = [role EXCEPT ![target[r]] = "none"] /\ accounts' = accounts \ {target[r]}
        BY <1>2, <3>2
      <4>3. QED
        BY <1>1, <1>4, <4>1, <4>2, RemovalKeepsAdmin DEF MemberInv
    <3>3. QED
      BY <3>1, <3>2
  <2>3. QED
    BY <2>1, <2>2 DEF Roster
<1>5. QED
    BY <1>1, <1>3, <1>4 DEF MemberInv

LEMMA MemberKeeps == ASSUME MemberInv, [Next]_vars PROVE MemberInv'
<1>1. ASSUME NEW r \in Requests,
             \/ Mem!AddRequest(r) \/ Mem!AddLookup(r) \/ Mem!JoinRequest(r)
             \/ Mem!RemoveRequest(r) \/ Mem!LeaveRequest(r) \/ Mem!ReadRole(r)
             \/ Mem!EraseRequest(r)
      PROVE  MemberInv'
    BY <1>1, ReadKeeps
<1>2. ASSUME NEW r \in Requests, Mem!Insert(r) \/ Mem!Delete(r) \/ Mem!Erase(r)
      PROVE  MemberInv'
    BY <1>2, InsertKeeps, DeleteKeeps, EraseKeeps
<1>3. CASE UNCHANGED memberVars
    BY <1>3 DEF memberVars, MemberInv, Mem!TypeOK, Roster, Mem!HasAdmin, AdminsHaveAccounts,
       AdminSeen
<1> QED
    BY <1>1, <1>2, <1>3 DEF Next, MemberStep, PositionStep, RecoveryStep, vars, Mem!Next

\* memberships_service "never orphan" / accounts_service "never left admin-less": with any
\* roles added, no interleaving of adds, joins, removals, departures and account deletions
\* leaves the channel without an admin, but for an admin who was added behind a request
\* that had read him as none, or after his account was deleted.
THEOREM ChannelKeepsAnAdmin == Spec => []NeverOrphaned
<1>1. Init => MemberInv
    BY MemberInit
<1>2. MemberInv /\ [Next]_vars => MemberInv'
    BY MemberKeeps
<1>3. MemberInv => NeverOrphaned
    BY DEF MemberInv, Mem!TypeOK, Roster, NeverOrphaned, Mem!NeverOrphaned
<1> QED
    BY <1>1, <1>2, <1>3, PTL DEF Spec

-----------------------------------------------------------------------------
(* Recovery *)

PendingRows == [id : Nat, device : Devices, window : {"running", "passed"}]

\* A pending row is younger than every outcome; finalizing and the generation count alike.
OutcomeInv ==
    /\ opened \in Nat /\ gen \in Nat
    /\ finalized \subseteq 1..opened /\ cancelled \subseteq 1..opened
    /\ pending # NoRow =>
          pending \in PendingRows /\ pending.id \in 1..opened \ (finalized \cup cancelled)
    /\ OneOutcome

\* The generations handed out are in the past, and whoever has the current one of an
\* account that is not gone has its passkey, banned or not.
TokenInv ==
    /\ gen \in Nat /\ opened \in Nat
    /\ DOMAIN holder = Devices
    /\ pending # NoRow => pending \in PendingRows
    /\ \A t \in tokens : /\ t[1] \in Devices /\ t[2] \in Nat /\ t[2] <= gen
                         /\ t[2] = gen /\ standing # "gone" => holder[t[1]] = "mine"

\* The finite sets of the instance are those of this module.
LEMMA RecoveryCounts ==
  /\ \A S : Rec!Cardinality(S) = Cardinality(S)
  /\ \A n \in Nat : \A S \in SUBSET (1..n) : IsFiniteSet(S)
<1>1. \A S : Rec!Cardinality(S) = Cardinality(S)
  BY DEF Rec!Cardinality, Cardinality
<1>2. ASSUME NEW n \in Nat, NEW S \in SUBSET (1..n) PROVE IsFiniteSet(S)
  <2>1. 1 \in Int /\ n \in Int
    OBVIOUS
  <2>2. IsFiniteSet(1..n)
    BY <2>1, FS_Interval
  <2>3. QED
    BY <2>2, FS_Subset
<1>3. QED
  BY <1>1, <1>2

\* A step that opens and ends no recovery.
LEMMA OutcomeFrame ==
  ASSUME OutcomeInv, UNCHANGED <<gen, opened, finalized, cancelled>>,
         \/ UNCHANGED pending
         \/ pending' = NoRow
         \/ pending # NoRow /\ pending' = [pending EXCEPT !.window = "passed"]
  PROVE  OutcomeInv'
BY DEF OutcomeInv, OneOutcome, Rec!OneOutcome, PendingRows

\* finalize_recovery: the row it matched has no outcome yet.
LEMMA OutcomeFinalizes ==
  ASSUME OutcomeInv, NEW i \in Rec!Ids, Rec!Finalize(i)
  PROVE  OutcomeInv'
<1>1. /\ pending # NoRow /\ pending.id = i /\ pending' = NoRow /\ gen' = gen + 1
      /\ finalized' = finalized \cup {i} /\ UNCHANGED <<opened, cancelled>>
  BY DEF Rec!Finalize, Rec!Due, Rec!Rekey
<1>2. i \in 1..opened /\ i \notin finalized /\ i \notin cancelled
  BY <1>1 DEF OutcomeInv
<1>3. IsFiniteSet(finalized) /\ Cardinality(finalized) = gen
  BY RecoveryCounts DEF OutcomeInv, OneOutcome, Rec!OneOutcome
<1>4. Cardinality(finalized') = gen'
  BY <1>1, <1>2, <1>3, FS_AddElement
<1>5. QED
  BY <1>1, <1>2, <1>4, RecoveryCounts DEF OutcomeInv, OneOutcome, Rec!OneOutcome

\* Each step of Recovery keeps OutcomeInv.
LEMMA OutcomeKeeps ==
  ASSUME OutcomeInv, Rec!Next
  PROVE  OutcomeInv'
<1> USE DEF Rec!account, Rec!keys, Rec!recovery, Rec!requests, Rec!Done
<1>1. ASSUME NEW r \in Requests,
             Rec!Authenticate(r) \/ Rec!Enroll(r) \/ Rec!AddPasskey(r) \/ Rec!Delete(r)
                \/ Rec!FinishRead(r)
      PROVE  OutcomeInv'
  BY <1>1, OutcomeFrame DEF Rec!Authenticate, Rec!Enroll, Rec!AddPasskey, Rec!Delete,
     Rec!FinishRead
<1>2. ASSUME NEW r \in Requests, Rec!Finish(r) PROVE OutcomeInv'
  <2>1. CASE UNCHANGED <<opened, pending>>
    BY <1>2, <2>1, OutcomeFrame DEF Rec!Finish
  <2>2. CASE ~UNCHANGED <<opened, pending>>
    <3>1. PICK d \in Devices : pending' = Rec!Row(opened + 1, d) /\ opened' = opened + 1
      BY <1>2, <2>2 DEF Rec!Finish
    <3>2. /\ pending'.id = opened + 1 /\ pending' \in PendingRows
          /\ UNCHANGED <<gen, finalized, cancelled>>
      BY <1>2, <3>1 DEF Rec!Finish, Rec!Row, PendingRows, OutcomeInv
    <3>3. QED
      BY <3>1, <3>2 DEF OutcomeInv, OneOutcome, Rec!OneOutcome
  <2>3. QED
    BY <2>1, <2>2
<1>3. ASSUME NEW r \in Requests, Rec!Cancel(r) PROVE OutcomeInv'
  BY <1>3 DEF Rec!Cancel, OutcomeInv, OneOutcome, Rec!OneOutcome
<1>4. ASSUME NEW d \in Devices, Rec!SignIn(d) \/ Rec!RegisterElsewhere(d) PROVE OutcomeInv'
  BY <1>4, OutcomeFrame DEF Rec!SignIn, Rec!RegisterElsewhere
<1>5. ASSUME NEW n \in Nonces,
             Rec!StartRecovery(n) \/ Rec!NonceExpires(n) \/ \E d \in Devices : Rec!Approve(n, d)
      PROVE  OutcomeInv'
  BY <1>5, OutcomeFrame DEF Rec!StartRecovery, Rec!NonceExpires, Rec!Approve
<1>6. ASSUME NEW i \in Rec!Ids, Rec!Finalize(i) \/ Rec!FinalizeGone(i) PROVE OutcomeInv'
  BY <1>6, OutcomeFrame, OutcomeFinalizes DEF Rec!FinalizeGone
<1>7. CASE Rec!WindowPasses \/ Rec!Ban \/ Rec!Unban
  BY <1>7, OutcomeFrame DEF Rec!WindowPasses, Rec!Ban, Rec!Unban
<1>8. QED
  BY <1>1, <1>2, <1>3, <1>4, <1>5, <1>6, <1>7 DEF Rec!Next

\* recovery_service, "There is no interleaving where both an owner-cancel and a finalize
\* win": for any devices, guardians' approvals, requests and polls of finalize.
THEOREM RecoveriesEndOnce == Spec => []OneOutcome
<1>1. Init => OutcomeInv
  BY RecoveryCounts, FS_EmptySet DEF Init, Rec!Init, OutcomeInv, OneOutcome, Rec!OneOutcome
<1>2. OutcomeInv /\ [Next]_vars => OutcomeInv'
  <2>1. SUFFICES ASSUME OutcomeInv, [Next]_vars PROVE OutcomeInv'
    OBVIOUS
  <2>2. CASE RecoveryStep
    BY <2>1, <2>2, OutcomeKeeps DEF RecoveryStep
  <2>3. CASE UNCHANGED recoveryVars
    BY <2>1, <2>3, OutcomeFrame DEF recoveryVars
  <2>4. QED
    BY <2>1, <2>2, <2>3 DEF Next, MemberStep, PositionStep, vars
<1>3. OutcomeInv => OneOutcome
  BY DEF OutcomeInv
<1>4. QED
  BY <1>1, <1>2, <1>3, PTL DEF Spec

\* Each step of Recovery keeps TokenInv: a device loses its passkey only by a purge, which
\* comes with the account's end or with a new generation.
LEMMA TokenKeeps ==
  ASSUME TokenInv, Rec!Next
  PROVE  TokenInv'
<1> USE DEF Rec!account, Rec!keys, Rec!recovery, Rec!requests, Rec!Done, TokenInv
<1>1. ASSUME NEW r \in Requests, Rec!Authenticate(r) \/ Rec!Enroll(r) \/ Rec!FinishRead(r) \/ Rec!Cancel(r)
      PROVE  TokenInv'
  BY <1>1 DEF Rec!Authenticate, Rec!Enroll, Rec!FinishRead, Rec!Cancel
<1>2. ASSUME NEW r \in Requests, Rec!AddPasskey(r) PROVE TokenInv'
  BY <1>2 DEF Rec!AddPasskey
<1>3. ASSUME NEW r \in Requests, Rec!Delete(r) PROVE TokenInv'
  BY <1>3 DEF Rec!Delete
<1>4. ASSUME NEW r \in Requests, Rec!Finish(r) PROVE TokenInv'
  <2>1. pending' = pending \/ \E d \in Devices : pending' = Rec!Row(opened + 1, d)
    BY <1>4 DEF Rec!Finish
  <2>2. pending' # NoRow => pending' \in PendingRows
    BY <2>1 DEF Rec!Row, PendingRows
  <2>3. opened' = opened \/ opened' = opened + 1
    BY <1>4 DEF Rec!Finish
  <2>4. UNCHANGED <<standing, gen, holder, tokens>>
    BY <1>4 DEF Rec!Finish
  <2>5. opened' \in Nat
    BY <2>3
  <2>6. QED
    BY <2>2, <2>4, <2>5
<1>5. ASSUME NEW d \in Devices, Rec!SignIn(d) \/ Rec!RegisterElsewhere(d) PROVE TokenInv'
  BY <1>5 DEF Rec!SignIn, Rec!RegisterElsewhere
<1>6. ASSUME NEW n \in Nonces,
             Rec!StartRecovery(n) \/ Rec!NonceExpires(n) \/ \E d \in Devices : Rec!Approve(n, d)
      PROVE  TokenInv'
  BY <1>6 DEF Rec!StartRecovery, Rec!NonceExpires, Rec!Approve
<1>7. ASSUME NEW i \in Rec!Ids, Rec!Finalize(i) PROVE TokenInv'
  <2>1. /\ pending # NoRow /\ gen' = gen + 1 /\ pending' = NoRow
        /\ holder' = [e \in Devices |-> IF e = pending.device THEN "mine" ELSE Rec!Purged(e)]
        /\ tokens' = tokens \cup {<<pending.device, gen + 1>>}
    BY <1>7 DEF Rec!Finalize, Rec!Due, Rec!Rekey
  <2>2. pending.device \in Devices /\ opened' = opened
    BY <1>7, <2>1 DEF PendingRows, Rec!Finalize
  <2>3. QED
    BY <2>1, <2>2
<1>8. ASSUME NEW i \in Rec!Ids, Rec!FinalizeGone(i) PROVE TokenInv'
  BY <1>8 DEF Rec!FinalizeGone
<1>9. CASE Rec!WindowPasses \/ Rec!Ban \/ Rec!Unban
  BY <1>9 DEF Rec!WindowPasses, Rec!Ban, Rec!Unban, PendingRows
<1>10. QED
  BY <1>1, <1>2, <1>3, <1>4, <1>5, <1>6, <1>7, <1>8, <1>9 DEF Rec!Next

\* finalize_recovery, "a lost device riding a 30d refresh token past a clean re-key is
\* closed": for any devices and any interleaving, an accepted token's device has a passkey.
THEOREM AcceptedTokensHaveKeys == Spec => []SessionsMatchKeys
<1>1. Init => TokenInv
  BY AccountConstants DEF Init, Rec!Init, TokenInv, Rec!RecoveryConstants
<1>2. TokenInv /\ [Next]_vars => TokenInv'
  <2>1. SUFFICES ASSUME TokenInv, [Next]_vars PROVE TokenInv'
    OBVIOUS
  <2>2. CASE RecoveryStep
    BY <2>1, <2>2, TokenKeeps DEF RecoveryStep
  <2>3. CASE UNCHANGED recoveryVars
    BY <2>1, <2>3 DEF recoveryVars, TokenInv
  <2>4. QED
    BY <2>1, <2>2, <2>3 DEF Next, MemberStep, PositionStep, vars
<1>3. TokenInv => SessionsMatchKeys
  BY DEF TokenInv, SessionsMatchKeys, Rec!SessionsMatchKeys, Rec!Authentic
<1>4. QED
  BY <1>1, <1>2, <1>3, PTL DEF Spec

\* finish_recovery, cancel_recovery, delete_user_account: for any interleaving a running veto
\* window ends only by the owner's veto, its deadline or the account's end, and nothing
\* re-keys or admits anybody to a deleted account.
THEOREM OwnersDecide == Spec => OwnerDecides
<1>1. [Next]_vars => [Rec!OwnersStep]_vars
  <2>1. SUFFICES ASSUME Next PROVE Rec!OwnersStep \/ UNCHANGED vars
    OBVIOUS
  <2>2. CASE MemberStep
    BY <2>2 DEF MemberStep, recoveryVars, Rec!OwnersStep
  <2>3. CASE RecoveryStep
    <3> USE DEF Rec!OwnersStep, Rec!account, Rec!keys, Rec!recovery, Rec!requests, Rec!Done
    <3>1. ASSUME NEW r \in Requests,
                 Rec!Authenticate(r) \/ Rec!Enroll(r) \/ Rec!AddPasskey(r) \/ Rec!FinishRead(r)
          PROVE  Rec!OwnersStep
      BY <3>1 DEF Rec!Authenticate, Rec!Enroll, Rec!AddPasskey, Rec!FinishRead
    <3>2. ASSUME NEW r \in Requests, Rec!Delete(r) PROVE Rec!OwnersStep
      BY <3>2 DEF Rec!Delete
    <3>3. ASSUME NEW r \in Requests, Rec!Finish(r) PROVE Rec!OwnersStep
      BY <3>3 DEF Rec!Finish, Rec!Reclaimable
    <3>4. ASSUME NEW r \in Requests, Rec!Cancel(r) PROVE Rec!OwnersStep
      BY <3>4 DEF Rec!Cancel
    <3>5. ASSUME NEW d \in Devices, Rec!SignIn(d) \/ Rec!RegisterElsewhere(d) PROVE Rec!OwnersStep
      BY <3>5 DEF Rec!SignIn, Rec!RegisterElsewhere
    <3>6. ASSUME NEW n \in Nonces,
                 Rec!StartRecovery(n) \/ Rec!NonceExpires(n) \/ \E d \in Devices : Rec!Approve(n, d)
          PROVE  Rec!OwnersStep
      BY <3>6 DEF Rec!StartRecovery, Rec!NonceExpires, Rec!Approve
    <3>7. ASSUME NEW i \in Rec!Ids, Rec!Finalize(i) \/ Rec!FinalizeGone(i) PROVE Rec!OwnersStep
      BY <3>7 DEF Rec!Finalize, Rec!FinalizeGone, Rec!Due
    <3>8. CASE Rec!WindowPasses \/ Rec!Ban \/ Rec!Unban
      BY <3>8 DEF Rec!WindowPasses, Rec!Ban, Rec!Unban
    <3>9. QED
      BY <2>3, <3>1, <3>2, <3>3, <3>4, <3>5, <3>6, <3>7, <3>8 DEF RecoveryStep, Rec!Next
  <2>4. CASE PositionStep
    BY <2>4 DEF PositionStep, recoveryVars, Rec!OwnersStep
  <2>5. QED
    BY <2>1, <2>2, <2>3, <2>4 DEF Next
<1>2. QED
  BY <1>1, PTL DEF Spec, OwnerDecides

-----------------------------------------------------------------------------
(* Read positions *)

\* Every variable is in its set at the start ...
LEMMA PositionInit == Init => Pos!TypeOK
BY AccountConstants DEF Init, Pos!Init, Pos!PositionConstants, Pos!TypeOK, Pos!Ids, Pos!Bases

\* ... and one step per action keeps it there.
LEMMA PositionTypes == Pos!TypeOK /\ [Next]_vars => Pos!TypeOK'
<1> SUFFICES ASSUME Pos!TypeOK, [Next]_vars PROVE Pos!TypeOK'
    OBVIOUS
<1> USE AccountConstants DEF Pos!PositionConstants, Pos!TypeOK, Pos!Ids, Pos!Bases, Pos!Goto,
   Pos!world, Pos!row
<1>1. ASSUME NEW r \in Writers, Pos!CheckReadable(r) PROVE Pos!TypeOK'
    BY <1>1 DEF Pos!CheckReadable
<1>2. ASSUME NEW r \in Writers, Pos!CheckVisible(r) PROVE Pos!TypeOK'
    BY <1>2 DEF Pos!CheckVisible
<1>3. ASSUME NEW r \in Writers, Pos!CheckStored(r) PROVE Pos!TypeOK'
    BY <1>3 DEF Pos!CheckStored
<1>4. ASSUME NEW r \in Writers, Pos!Write(r) PROVE Pos!TypeOK'
  <2>1. lastRead' \in Pos!Ids /\ seq' \in 0..MaxSeq
    BY <1>4 DEF Pos!Write
  <2>2. DOMAIN answers' = Writers
    BY <1>4 DEF Pos!Write, Pos!Outcome
  <2> QED
    BY <1>4, <2>1, <2>2 DEF Pos!Write
<1>5. CASE Pos!NewMessage
    BY <1>5 DEF Pos!NewMessage
<1>6. CASE Pos!Hide
    BY <1>6 DEF Pos!Hide
<1>7. CASE Pos!LeaveChannel \/ Pos!JoinChannel
    BY <1>7 DEF Pos!LeaveChannel, Pos!JoinChannel
<1>8. CASE Pos!DeleteAccount
    BY <1>8 DEF Pos!DeleteAccount
<1>9. CASE UNCHANGED positionVars
    BY <1>9 DEF positionVars
<1> QED
    BY <1>1, <1>2, <1>3, <1>4, <1>5, <1>6, <1>7, <1>8, <1>9 DEF Next, PositionStep, MemberStep,
       RecoveryStep, vars, Pos!Next

\* The account that is gone has no position.
LEMMA GhostStep == Pos!TypeOK /\ NoGhostPosition /\ [Next]_vars => NoGhostPosition'
<1> SUFFICES ASSUME Pos!TypeOK, NoGhostPosition, [Next]_vars PROVE NoGhostPosition'
    OBVIOUS
<1> USE DEF NoGhostPosition, Pos!NoGhostPosition, Pos!world, Pos!row
<1>1. ASSUME NEW r \in Writers, Pos!Write(r) PROVE NoGhostPosition'
    BY <1>1 DEF Pos!Write, Pos!Swaps, Pos!TypeOK
<1>2. ASSUME NEW r \in Writers, Pos!CheckReadable(r) \/ Pos!CheckVisible(r) \/ Pos!CheckStored(r)
      PROVE  NoGhostPosition'
    BY <1>2 DEF Pos!CheckReadable, Pos!CheckVisible, Pos!CheckStored
<1>3. CASE Pos!NewMessage \/ Pos!Hide \/ Pos!LeaveChannel \/ Pos!JoinChannel \/ Pos!DeleteAccount
    BY <1>3 DEF Pos!NewMessage, Pos!Hide, Pos!LeaveChannel, Pos!JoinChannel, Pos!DeleteAccount
<1>4. CASE UNCHANGED positionVars
    BY <1>4 DEF positionVars
<1> QED
    BY <1>1, <1>2, <1>3, <1>4 DEF Next, PositionStep, MemberStep, RecoveryStep, vars, Pos!Next

\* read_positions_service._write: no PUT that was authenticated before the account
\* was deleted re-creates a position of it.
THEOREM DeletedAccountHasNoPosition == Spec => []NoGhostPosition
<1>1. Init => Pos!TypeOK /\ NoGhostPosition
    BY PositionInit DEF Init, Pos!Init, NoGhostPosition, Pos!NoGhostPosition
<1>2. Pos!TypeOK /\ NoGhostPosition /\ [Next]_vars => (Pos!TypeOK /\ NoGhostPosition)'
    BY PositionTypes, GhostStep
<1> QED
    BY <1>1, <1>2, PTL DEF Spec

\* What the SELECTs of _check_bounds saw, and what is about to be written, was in
\* the channel at some time.
Bounded ==
    /\ newest <= ever
    /\ \A r \in Writers : limit[r] <= ever
    /\ \A r \in Writers : putStep[r] = "write" => val[r] <= ever

\* In a public channel no position is past the end.
LEMMA BoundedStep ==
    ASSUME Privacy = "public", Pos!TypeOK, Bounded, NotPastTheEnd, [Next]_vars
    PROVE  Bounded' /\ NotPastTheEnd'
<1> USE AccountConstants DEF Pos!PositionConstants, Bounded, NotPastTheEnd, Pos!NotPastTheEnd,
   Pos!TypeOK, Pos!Ids, Pos!Goto, Pos!world, Pos!row
<1>1. ASSUME NEW r \in Writers, Pos!CheckReadable(r) PROVE Bounded' /\ NotPastTheEnd'
    BY <1>1 DEF Pos!CheckReadable, Pos!Readable
<1>2. ASSUME NEW r \in Writers, Pos!CheckVisible(r) PROVE Bounded' /\ NotPastTheEnd'
    BY <1>2 DEF Pos!CheckVisible
<1>3. ASSUME NEW r \in Writers, Pos!CheckStored(r) PROVE Bounded' /\ NotPastTheEnd'
    BY <1>3 DEF Pos!CheckStored
<1>4. ASSUME NEW r \in Writers, Pos!Write(r) PROVE Bounded' /\ NotPastTheEnd'
    BY <1>4 DEF Pos!Write
<1>5. CASE Pos!NewMessage \/ Pos!Hide \/ Pos!LeaveChannel \/ Pos!JoinChannel \/ Pos!DeleteAccount
    BY <1>5 DEF Pos!NewMessage, Pos!Hide, Pos!LeaveChannel, Pos!JoinChannel, Pos!DeleteAccount
<1>6. CASE UNCHANGED positionVars
    BY <1>6 DEF positionVars
<1> QED
    BY <1>1, <1>2, <1>3, <1>4, <1>5, <1>6 DEF Next, PositionStep, MemberStep, RecoveryStep,
       vars, Pos!Next

\* read_positions_service._check_bounds: in a channel everybody may read, concurrent
\* writes, deletions and blocks never store a position past the channel's end.
THEOREM PublicPositionsAreBounded ==
    ASSUME Privacy = "public" PROVE Spec => []NotPastTheEnd
<1>1. Init => Pos!TypeOK /\ Bounded /\ NotPastTheEnd
  <2>1. Init => Bounded /\ NotPastTheEnd
    BY DEF Init, Pos!Init, Bounded, NotPastTheEnd, Pos!NotPastTheEnd
  <2> QED
    BY <2>1, PositionInit
<1>2. Pos!TypeOK /\ Bounded /\ NotPastTheEnd /\ [Next]_vars
        => (Pos!TypeOK /\ Bounded /\ NotPastTheEnd)'
    BY PositionTypes, BoundedStep
<1> QED
    BY <1>1, <1>2, PTL DEF Spec

\* Every step of the service is a step of the register, or changes nothing it shows.
LEMMA RegisterStep ==
    Pos!TypeOK /\ NoGhostPosition /\ [Next]_vars
        => [Register!Next]_<<lastRead, seq, answers>>
<1> SUFFICES ASSUME Pos!TypeOK, NoGhostPosition, [Next]_vars
             PROVE  [Register!Next]_<<lastRead, seq, answers>>
    OBVIOUS
<1>1. ASSUME NEW r \in Writers, Pos!Write(r) PROVE Register!Next
  <2> DEFINE told(s) == [status |-> s, value |-> lastRead', version |-> seq']
  <2>1. val[r] \in Pos!Ids /\ base[r] \in Pos!Bases
    BY DEF Pos!TypeOK
  <2>2. PICK s \in {"skipped", "applied", "conflict"} :
            /\ answers' = [answers EXCEPT ![r] = told(s)]
            /\ s = "skipped" <=> ~Pos!Readable
            /\ s = "applied" <=> Pos!Readable /\ seq' = base[r] + 1 /\ lastRead' = val[r]
    BY <1>1 DEF Pos!Write, Pos!Outcome
  <2>3. CASE Pos!Swaps(r)
    <3>1. /\ lastRead' = val[r] /\ seq' = base[r] + 1 /\ seq = base[r]
          /\ s = "applied"
        BY <1>1, <2>2, <2>3 DEF Pos!Write, Pos!Swaps
    <3>2. Register!Applied(r, val[r], base[r])
        BY <2>2, <3>1 DEF Register!Applied, Register!Answer
    <3> QED
        BY <2>1, <3>2 DEF Register!Next
  <2>4. CASE ~Pos!Swaps(r) /\ s = "applied"
    <3>1. /\ lastRead' = lastRead /\ seq' = seq
          /\ seq = base[r] + 1 /\ lastRead = val[r]
        BY <1>1, <2>2, <2>4 DEF Pos!Write, Pos!row
    <3>2. Register!Confirmed(r, val[r], base[r])
        BY <2>2, <2>4, <3>1 DEF Register!Confirmed, Register!Answer
    <3> QED
        BY <2>1, <3>2 DEF Register!Next
  <2>5. CASE ~Pos!Swaps(r) /\ s = "skipped"
    <3>1. lastRead' = lastRead /\ seq' = seq
        BY <1>1, <2>5 DEF Pos!Write, Pos!row
    <3>2. Register!Refused(r)
        BY <2>2, <2>5, <3>1 DEF Register!Refused, Register!Answer
    <3> QED
        BY <3>2 DEF Register!Next
  <2>6. CASE ~Pos!Swaps(r) /\ s = "conflict"
    <3>1. lastRead' = lastRead /\ seq' = seq
        BY <1>1, <2>6 DEF Pos!Write, Pos!row
    <3>2. CASE seq # base[r]
      <4>1. Register!Conflict(r, base[r])
        BY <2>2, <2>6, <3>1, <3>2 DEF Register!Conflict, Register!Answer
      <4> QED
        BY <2>1, <4>1 DEF Register!Next
    <3>3. CASE seq = base[r]
      <4>1. seq = 0
        BY <2>2, <2>6, <3>3 DEF Pos!Swaps, NoGhostPosition, Pos!NoGhostPosition, Pos!TypeOK
      <4>2. Register!Refused(r)
        BY <2>2, <2>6, <3>1, <4>1 DEF Register!Refused, Register!Answer
      <4> QED
        BY <4>2 DEF Register!Next
    <3> QED
        BY <3>2, <3>3
  <2> QED
    BY <2>2, <2>3, <2>4, <2>5, <2>6
<1>2. ASSUME NEW r \in Writers, Pos!CheckReadable(r) \/ Pos!CheckVisible(r) \/ Pos!CheckStored(r)
      PROVE  UNCHANGED <<lastRead, seq, answers>>
    BY <1>2 DEF Pos!CheckReadable, Pos!CheckVisible, Pos!CheckStored, Pos!row
<1>3. CASE Pos!NewMessage \/ Pos!Hide \/ Pos!LeaveChannel \/ Pos!JoinChannel
    BY <1>3 DEF Pos!NewMessage, Pos!Hide, Pos!LeaveChannel, Pos!JoinChannel, Pos!row
<1>4. CASE Pos!DeleteAccount
    BY <1>4 DEF Pos!DeleteAccount, Register!Clear, Register!Next
<1>5. CASE UNCHANGED positionVars
    BY <1>5 DEF positionVars, Pos!row
<1> QED
    BY <1>1, <1>2, <1>3, <1>4, <1>5 DEF Next, PositionStep, MemberStep, RecoveryStep, vars,
       Pos!Next

\* PUT /v1/read-positions implements the compare-and-swap register of module
\* PositionRegister: versions are written once and every answer is true.
THEOREM ServiceIsRegister == Spec => IsRegister
<1>1. Init => Register!Init
    BY DEF Init, Pos!Init, Register!Init
<1>2. Init => Pos!TypeOK /\ NoGhostPosition
    BY PositionInit DEF Init, Pos!Init, NoGhostPosition, Pos!NoGhostPosition
<1>3. Pos!TypeOK /\ NoGhostPosition /\ [Next]_vars => (Pos!TypeOK /\ NoGhostPosition)'
    BY PositionTypes, GhostStep
<1> QED
    BY <1>1, <1>2, <1>3, RegisterStep, PTL DEF Spec, IsRegister, Register!Spec
=============================================================================
