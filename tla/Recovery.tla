------------------------------ MODULE Recovery ------------------------------
(***************************************************************************)
(* Social recovery of ONE passkey account (domain/recovery_service.py with *)
(* rest/recovery.py), against what else changes its keys and sessions:     *)
(* adding a passkey, passkey sign-in (rest/auth.py), bans and deletion.    *)
(*                                                                         *)
(* An authenticated request is a SELECT (auth_session) and then a          *)
(* transaction; the two are separate steps.  A transaction begins with a   *)
(* write, so it is one step under SQLite's writer lock.  The k-of-n        *)
(* signature check is abstracted to the set of approvals the guardians     *)
(* gave; wall-clock deadlines to "running" and "passed".                   *)
(***************************************************************************)
EXTENDS Naturals, FiniteSets

CONSTANTS
    Devices,         \* authenticators; a device holds one passkey credential
    Owner,           \* the device that created the account
    Nonces,          \* recover challenges
    Requests,        \* authenticated or multi-step HTTP requests
    Kinds,           \* which of those requests are made
    MaxRecoveries,   \* bound on the pending rows ever opened
    NoRow

RecoveryConstants ==
    /\ Owner \in Devices
    /\ MaxRecoveries \in Nat
    /\ Kinds \subseteq {"add", "cancel", "delete", "enroll", "finish"}

Gens == 0..MaxRecoveries
Ids == 1..MaxRecoveries

VARIABLES
    standing,    \* users row: "active", "banned" (banned_at) or "gone"
    gen,         \* users.token_generation
    policy,      \* recovery_policies: "none" or "set"
    holder,      \* passkey_credentials: device -> "free", "mine" or "other" account
    since,       \* generation of the session that enrolled a credential (history)
    tokens,      \* <<device, generation>> of the JWTs handed out
    nonces,      \* passkey_challenges: "unissued", "live" or "burned"
    approved,    \* <<nonce, device>> signed by k distinct guardians
    pending,     \* pending_recovery: the account's row or NoRow
    opened,      \* recoveries opened so far; the next id is opened + 1
    finalized, cancelled,   \* ids with that outcome (history)
    pc, session             \* a request: its step and the JWT it presented

account == <<standing, gen, policy>>
keys == <<holder, since, tokens>>
recovery == <<nonces, approved, pending, opened, finalized, cancelled>>
requests == <<pc, session>>
vars == <<account, keys, recovery, requests>>

-----------------------------------------------------------------------------
\* auth_session.resolve_session_user: the row exists, the generation is current, no ban.
Authentic(t) == t \in tokens /\ t[2] = gen /\ standing = "active"

\* The SELECT of get_current_user for a request that will act later.
Authenticate(r) ==
    /\ pc[r] = "new"
    /\ \E t \in tokens, kind \in Kinds \ {"finish"} :
          /\ Authentic(t)
          /\ session' = [session EXCEPT ![r] = t]
          /\ pc' = [pc EXCEPT ![r] = kind]
    /\ UNCHANGED <<account, keys, recovery>>

Done(r) ==
    /\ pc' = [pc EXCEPT ![r] = "done"]
    /\ UNCHANGED session

-----------------------------------------------------------------------------
\* enroll_policy: a first policy is stored, a second one refused.
Enroll(r) ==
    /\ pc[r] = "enroll" /\ Done(r)
    /\ policy' = "set"
    /\ UNCHANGED <<standing, gen, keys, recovery>>

\* passkey_add_finish, link_passkey_credential: credential_id is UNIQUE; a bad
\* challenge or attestation, or a credential somebody has, changes nothing.
AddPasskey(r) ==
    /\ pc[r] = "add" /\ Done(r)
    /\ \/ \E d \in Devices :
             /\ holder[d] = "free"
             /\ holder' = [holder EXCEPT ![d] = "mine"]
             /\ since' = [since EXCEPT ![d] = session[r][2]]
       \/ UNCHANGED <<holder, since>>
    /\ UNCHANGED <<account, tokens, recovery>>

\* passkey_authenticate_finish: one transaction from the challenge to the tokens.
SignIn(d) ==
    /\ holder[d] = "mine" /\ standing = "active"
    /\ tokens' = tokens \cup {<<d, gen>>}
    /\ UNCHANGED <<account, holder, since, recovery, requests>>

\* Another account registers this authenticator first.
RegisterElsewhere(d) ==
    /\ holder[d] = "free"
    /\ holder' = [holder EXCEPT ![d] = "other"]
    /\ UNCHANGED <<account, since, tokens, recovery, requests>>

\* passkey_service.purge_user_credentials: every credential of this account.
Purged(d) == IF holder[d] = "other" THEN "other" ELSE "free"

\* delete_user_account: credentials, pending row and policy go with the user row,
\* unless the user is the sole admin of some channel.
Delete(r) ==
    /\ pc[r] = "delete" /\ Done(r)
    /\ \/ /\ standing' = "gone" /\ policy' = "none"
          /\ holder' = [d \in Devices |-> Purged(d)]
          /\ pending' = NoRow
       \/ UNCHANGED <<standing, policy, holder, pending>>
    /\ UNCHANGED <<gen, since, tokens, nonces, approved, opened, finalized, cancelled>>

Ban ==
    /\ standing = "active" /\ standing' = "banned"
    /\ UNCHANGED <<gen, policy, keys, recovery, requests>>

Unban ==
    /\ standing = "banned" /\ standing' = "active"
    /\ UNCHANGED <<gen, policy, keys, recovery, requests>>

-----------------------------------------------------------------------------
\* start_recovery: a single-use nonce, for an account with a policy.
StartRecovery(n) ==
    /\ standing # "gone" /\ policy = "set"
    /\ nonces[n] = "unissued"
    /\ nonces' = [nonces EXCEPT ![n] = "live"]
    /\ UNCHANGED <<account, keys, approved, pending, opened, finalized, cancelled, requests>>

NonceExpires(n) ==
    /\ nonces[n] = "live"
    /\ nonces' = [nonces EXCEPT ![n] = "burned"]
    /\ UNCHANGED <<account, keys, approved, pending, opened, finalized, cancelled, requests>>

\* k guardians sign approval_bytes: this nonce, this credential.
Approve(n, d) ==
    /\ nonces[n] = "live"
    /\ approved' = approved \cup {<<n, d>>}
    /\ UNCHANGED <<account, keys, nonces, pending, opened, finalized, cancelled, requests>>

\* recover_finish reads the account and its policy ...
FinishRead(r) ==
    /\ pc[r] = "new" /\ "finish" \in Kinds
    /\ standing # "gone" /\ policy = "set"
    /\ pc' = [pc EXCEPT ![r] = "finish"]
    /\ UNCHANGED <<account, keys, recovery, session>>

Row(i, d) == [id |-> i, device |-> d, window |-> "running"]

\* Mutant of Reclaimable: a live row may be replaced.
ReclaimAny == TRUE

\* The guarded DELETE of (d) leaves no live row.
Reclaimable == pending # NoRow => pending.window = "passed"

\* ... and then burns the nonce, verifies the quorum, reclaims an expired row and
\* opens a new one; a refusal (of any of these) rolls the burn back.
Finish(r) ==
    /\ pc[r] = "finish" /\ Done(r)
    /\ \/ \E n \in Nonces, d \in Devices :
             /\ nonces[n] = "live" /\ <<n, d>> \in approved
             /\ Reclaimable /\ opened < MaxRecoveries
             /\ nonces' = [nonces EXCEPT ![n] = "burned"]
             /\ opened' = opened + 1
             /\ pending' = Row(opened + 1, d)
       \/ UNCHANGED <<nonces, opened, pending>>
    /\ UNCHANGED <<account, keys, approved, finalized, cancelled>>

\* The veto deadline passes.
WindowPasses ==
    /\ pending # NoRow /\ pending.window = "running"
    /\ pending' = [pending EXCEPT !.window = "passed"]
    /\ UNCHANGED <<account, keys, nonces, approved, opened, finalized, cancelled, requests>>

\* cancel_recovery.
Cancel(r) ==
    /\ pc[r] = "cancel" /\ Done(r)
    /\ pending' = NoRow
    /\ cancelled' = IF pending = NoRow THEN cancelled ELSE cancelled \cup {pending.id}
    /\ UNCHANGED <<account, keys, nonces, approved, opened, finalized>>

-----------------------------------------------------------------------------
\* finalize_recovery: the guarded DELETE matched this recovery's row.
Due(i) == pending # NoRow /\ pending.id = i /\ pending.window = "passed"

\* The account vanished: the row is cleaned up and nothing else happens.
FinalizeGone(i) ==
    /\ Due(i) /\ standing = "gone"
    /\ pending' = NoRow
    /\ UNCHANGED <<account, keys, nonces, approved, opened, finalized, cancelled, requests>>

\* Purge, enroll the staged credential, bump the generation, mint a session.
Rekey(d) ==
    /\ gen' = gen + 1
    /\ holder' = [e \in Devices |-> IF e = d THEN "mine" ELSE Purged(e)]
    /\ since' = [since EXCEPT ![d] = gen + 1]
    /\ tokens' = tokens \cup {<<d, gen + 1>>}

\* Mutants of Finalize: the row stays; old sessions stay; a vanished account is
\* re-keyed like any other.
FinalizeKeepsRow(i) ==
    /\ Due(i) /\ standing # "gone" /\ holder[pending.device] # "other"
    /\ gen < MaxRecoveries /\ Rekey(pending.device)
    /\ finalized' = finalized \cup {i}
    /\ UNCHANGED <<standing, policy, nonces, approved, pending, opened, cancelled, requests>>

FinalizeKeepsSessions(i) ==
    /\ Due(i) /\ standing # "gone" /\ holder[pending.device] # "other"
    /\ holder' = [e \in Devices |-> IF e = pending.device THEN "mine" ELSE Purged(e)]
    /\ tokens' = tokens \cup {<<pending.device, gen>>}
    /\ finalized' = finalized \cup {i} /\ pending' = NoRow
    /\ UNCHANGED <<account, since, nonces, approved, opened, cancelled, requests>>

FinalizeUnchecked(i) ==
    /\ Due(i) /\ holder[pending.device] # "other"
    /\ Rekey(pending.device)
    /\ finalized' = finalized \cup {i} /\ pending' = NoRow
    /\ UNCHANGED <<standing, policy, nonces, approved, opened, cancelled, requests>>

\* One commit.  A staged credential that belongs to another account by now makes the
\* INSERT fail and everything roll back.
Finalize(i) ==
    /\ Due(i) /\ standing # "gone"
    /\ holder[pending.device] # "other"
    /\ Rekey(pending.device)
    /\ finalized' = finalized \cup {i}
    /\ pending' = NoRow
    /\ UNCHANGED <<standing, policy, nonces, approved, opened, cancelled, requests>>

-----------------------------------------------------------------------------
Init ==
    /\ standing = "active" /\ gen = 0 /\ policy = "none"
    /\ holder = [d \in Devices |-> IF d = Owner THEN "mine" ELSE "free"]
    /\ since = [d \in Devices |-> 0]
    /\ tokens = {<<Owner, 0>>}
    /\ nonces = [n \in Nonces |-> "unissued"]
    /\ approved = {} /\ pending = NoRow /\ opened = 0
    /\ finalized = {} /\ cancelled = {}
    /\ pc = [r \in Requests |-> "new"]
    /\ session = [r \in Requests |-> <<Owner, 0>>]

Next ==
    \/ \E r \in Requests : \/ Authenticate(r) \/ Enroll(r) \/ AddPasskey(r) \/ Delete(r)
                           \/ FinishRead(r) \/ Finish(r) \/ Cancel(r)
    \/ \E d \in Devices : SignIn(d) \/ RegisterElsewhere(d)
    \/ \E n \in Nonces : StartRecovery(n) \/ NonceExpires(n) \/ \E d \in Devices : Approve(n, d)
    \/ \E i \in Ids : Finalize(i) \/ FinalizeGone(i)
    \/ WindowPasses \/ Ban \/ Unban

Spec == Init /\ [][Next]_vars

-----------------------------------------------------------------------------
(* Properties *)

TypeOK ==
    /\ standing \in {"active", "banned", "gone"}
    /\ gen \in Gens /\ policy \in {"none", "set"}
    /\ holder \in [Devices -> {"free", "mine", "other"}]
    /\ since \in [Devices -> Gens]
    /\ tokens \subseteq Devices \X Gens
    /\ nonces \in [Nonces -> {"unissued", "live", "burned"}]
    /\ approved \subseteq Nonces \X Devices
    /\ pending \in [id : Ids, device : Devices, window : {"running", "passed"}] \cup {NoRow}
    /\ opened \in 0..MaxRecoveries
    /\ finalized \subseteq Ids /\ cancelled \subseteq Ids
    /\ pc \in [Requests -> {"new", "done"} \cup Kinds]
    /\ session \in [Requests -> Devices \X Gens]

\* recovery_service: "There is no interleaving where both an owner-cancel and a
\* finalize win"; and however often finalize is polled, a recovery re-keys once.
OneOutcome ==
    /\ finalized \cap cancelled = {}
    /\ Cardinality(finalized) = gen

\* What the owner decided, a recovery does not undo.  "veto_deadline is set at row birth and
\* never advanced; a second finish while a row is live is rejected": before the deadline a
\* pending recovery ends only by the owner's veto or with the account.  And "a deleted
\* account can never be recovered afterward" (accounts_service).
OwnersStep ==
    /\ (pending # NoRow /\ pending.window = "running" /\ pending' # pending) =>
          \/ pending' = [pending EXCEPT !.window = "passed"]
          \/ pending' = NoRow /\ (pending.id \in cancelled' \/ standing' = "gone")
    /\ standing = "gone" => standing' = "gone" /\ gen' = gen /\ tokens' = tokens

\* finalize_recovery: "a lost device riding a 30d refresh token past a clean re-key is
\* closed": an accepted token belongs to a device that still has its passkey.
SessionsMatchKeys ==
    \A t \in tokens : Authentic(t) => holder[t[1]] = "mine"

\* finalize_recovery "revokes the old passkeys AND old signing keys (clean re-key on the
\* new device)": no credential was enrolled by a session older than the re-key.
CleanRekey ==
    \A d \in Devices : holder[d] = "mine" => since[d] = gen

\* finalize_recovery: "If such a flag is ever added, it MUST also be checked here": a
\* suspended account is not re-keyed and gets no session.
OnlyGoodStandingIsRekeyed ==
    [][ gen' # gen => standing = "active" ]_vars
=============================================================================
