------------------------------ MODULE Devices -------------------------------
(***************************************************************************)
(* The registered push devices (domain/devices_service.py) and the wake of *)
(* a called user's devices (domain/push_service.py), which awaits Apple    *)
(* and Google (domain/apns.py, domain/fcm.py) between reading the device   *)
(* rows and deleting the ones reported dead.  Meanwhile handsets register  *)
(* again, change hands, log out, and tokens die and come back.             *)
(*                                                                         *)
(* A SELECT is a step of its own; the DELETEs of a reap hold the writer    *)
(* lock until their COMMIT and are one step, and so is a registration      *)
(* (INSERT in a savepoint, then the UPDATE of the row it collided with).   *)
(***************************************************************************)
EXTENDS Integers, FiniteSets, Sequences

CONSTANTS
    Users,        \* accounts that may hold a handset
    Callees,      \* the users the modelled calls are for
    ApnsTokens,   \* tokens Apple issued ...
    VoipTokens,   \* ... those of them from the VoIP registry
    FcmTokens,    \* tokens Google issued
    Wakes,        \* tasks of _in_flight
    GateOpen,     \* END_WAKE_VOIP_GATE_OPEN
    NoUser,
    MaxClock      \* bound on registrations and token deaths

ASSUME DeviceConstants ==
    /\ Callees \subseteq Users /\ NoUser \notin Users
    /\ ApnsTokens \cap FcmTokens = {} /\ VoipTokens \subseteq ApnsTokens
    /\ GateOpen \in BOOLEAN /\ MaxClock \in Nat

Tokens == ApnsTokens \cup FcmTokens

VARIABLES
    clock,      \* the instants registrations and deaths are told apart by
    row,        \* device_tokens by token: [id, user, updated]; id 0 is no row
    valid,      \* tokens their provider routes to an installed app (external)
    died,       \* when a token last became invalid, 0 never (external)
    bars,       \* per callee: what forbids a wake in the database
    pc,         \* a wake: "none", "checking" or "sending"
    check,      \* a wake: the next of BarOrder to read
    whom,       \* a wake: user_id
    verb,       \* a wake: CALL_INVITE or CALL_END
    excluded,   \* a wake: the callee is in exclude_user_ids
    dlv,        \* a wake: its deliveries by token [step, id, updated, since]
    holder,     \* last registrant of a token that still works, or NoUser (history)
    standing    \* bars that have held ever since a wake was scheduled (history)

wake == <<pc, check, whom, verb, excluded, dlv>>
db == <<row, bars>>
provider == <<valid, died>>
vars == <<clock, db, provider, wake, holder, standing>>

NoRow == [id |-> 0, user |-> NoUser, updated |-> 0]

-----------------------------------------------------------------------------
(* devices_service *)

\* A new row, or the token's row moved to this user with a fresh updated_at.
Registered(t, u, at) ==
    [id |-> IF row[t] = NoRow THEN at ELSE row[t].id, user |-> u, updated |-> at]

Register(u, t) ==
    /\ clock < MaxClock /\ clock' = clock + 1
    /\ row' = [row EXCEPT ![t] = Registered(t, u, clock')]
    /\ holder' = [holder EXCEPT ![t] = IF t \in valid THEN u ELSE NoUser]
    /\ UNCHANGED <<bars, provider, wake, standing>>

\* The rows a DELETE for user u and tokens ts matches.
RowsOf(u, ts) == {t \in ts : row[t].user = u}

Forget(u, ts) ==
    /\ row' = [t \in Tokens |-> IF t \in RowsOf(u, ts) THEN NoRow ELSE row[t]]
    /\ holder' = [t \in Tokens |-> IF t \in ts /\ holder[t] = u THEN NoUser ELSE holder[t]]
    /\ UNCHANGED <<clock, bars, provider, wake, standing>>

\* Logout: may come after the next user's login on the same handset.
Unregister(u, t) == Forget(u, {t})

\* Part of the account's deletion.
PurgeUserDevices(u) == Forget(u, Tokens)

-----------------------------------------------------------------------------
(* The providers *)

\* The app is uninstalled, or the token rotated.
TokenDies(t) ==
    /\ t \in valid /\ clock < MaxClock /\ clock' = clock + 1
    /\ valid' = valid \ {t}
    /\ died' = [died EXCEPT ![t] = clock']
    /\ holder' = [holder EXCEPT ![t] = NoUser]
    /\ UNCHANGED <<db, wake, standing>>

\* Reinstalled, and the provider issues the same token (Google is said not to).
TokenReturns(t) ==
    /\ t \in Tokens \ valid
    /\ valid' = valid \cup {t}
    /\ UNCHANGED <<clock, db, died, wake, holder, standing>>

-----------------------------------------------------------------------------
(* wake_for_message *)

\* _recipients, then _spoken_here: one SELECT each, in this order.
BarOrder == <<"left", "banned", "blocked", "unspoken">>
Bars == {BarOrder[k] : k \in 1..4}

Bar(u, b) ==
    /\ b \in Bars \ ({"unspoken"} \cup bars[u])
    /\ bars' = [bars EXCEPT ![u] = @ \cup {b}]
    /\ UNCHANGED <<clock, row, provider, wake, holder, standing>>

Unbar(u, b) ==
    /\ b \in bars[u]
    /\ bars' = [bars EXCEPT ![u] = @ \ {b}]
    /\ standing' = [w \in Wakes |-> IF whom[w] = u THEN standing[w] \ {b} ELSE standing[w]]
    /\ UNCHANGED <<clock, row, provider, wake, holder>>

NoDelivery == [step |-> "none", id |-> 0, updated |-> 0, since |-> 0]

\* schedule_wake: a task for an accepted call message of a direct message.
Schedule(w, u, kind) ==
    /\ pc[w] = "none"
    /\ pc' = [pc EXCEPT ![w] = "checking"]
    /\ check' = [check EXCEPT ![w] = 1]
    /\ whom' = [whom EXCEPT ![w] = u]
    /\ verb' = [verb EXCEPT ![w] = kind]
    /\ excluded' = [excluded EXCEPT ![w] = "blocked" \in bars[u]]
    /\ standing' = [standing EXCEPT ![w] = bars[u]]
    /\ UNCHANGED <<clock, db, provider, dlv, holder>>

\* The task is over and its locals are gone.
Over(ws) ==
    /\ pc' = [w \in Wakes |-> IF w \in ws THEN "none" ELSE pc[w]]
    /\ check' = [w \in Wakes |-> IF w \in ws THEN 0 ELSE check[w]]
    /\ whom' = [w \in Wakes |-> IF w \in ws THEN NoUser ELSE whom[w]]
    /\ verb' = [w \in Wakes |-> IF w \in ws THEN "none" ELSE verb[w]]
    /\ excluded' = [w \in Wakes |-> IF w \in ws THEN FALSE ELSE excluded[w]]
    /\ dlv' = [w \in Wakes |-> IF w \in ws THEN [t \in Tokens |-> NoDelivery] ELSE dlv[w]]
    /\ standing' = [w \in Wakes |-> IF w \in ws THEN {} ELSE standing[w]]

\* Mutant: the accounts are not asked for a ban.
ForbiddenUnlessBan(w, b) == b # "banned" /\ (b \in bars[whom[w]] \/ (b = "blocked" /\ excluded[w]))

Forbidden(w, b) == b \in bars[whom[w]] \/ (b = "blocked" /\ excluded[w])

ReadBar(w) ==
    /\ pc[w] = "checking" /\ check[w] \in 1..4
    /\ IF Forbidden(w, BarOrder[check[w]])
       THEN Over({w})
       ELSE /\ check' = [check EXCEPT ![w] = @ + 1]
            /\ UNCHANGED <<pc, whom, verb, excluded, dlv, standing>>
    /\ UNCHANGED <<clock, db, provider, holder>>

\* plan_deliveries: which of the callee's rows this kind of wake goes to.
Sendable(w, t) ==
    /\ row[t] # NoRow /\ row[t].user = whom[w]
    /\ t \in ApnsTokens /\ verb[w] = "end" => t \in VoipTokens /\ GateOpen

\* _wake_user: the rows are read once; the limiter may refuse, or no device be left.
Plan(w) ==
    LET plan == {t \in Tokens : Sendable(w, t)} IN
    /\ pc[w] = "checking" /\ check[w] = 5
    /\ \/ plan # {}
          /\ pc' = [pc EXCEPT ![w] = "sending"]
          /\ dlv' = [dlv EXCEPT ![w] = [t \in Tokens |->
                       IF t \in plan
                       THEN [step |-> "planned", id |-> row[t].id,
                             updated |-> row[t].updated, since |-> 0]
                       ELSE NoDelivery]]
          /\ UNCHANGED <<check, whom, verb, excluded, standing>>
       \/ Over({w})
    /\ UNCHANGED <<clock, db, provider, holder>>

Step(w, t, step, since) ==
    /\ dlv' = [dlv EXCEPT ![w][t] = [step |-> step, id |-> @.id,
                                     updated |-> @.updated, since |-> since]]
    /\ UNCHANGED <<clock, db, provider, pc, check, whom, verb, excluded, holder, standing>>

\* _send_one runs as a task of its own; fcm.send may wait on a mint before it posts.
Post(w, t) == dlv[w][t].step = "planned" /\ Step(w, t, "posted", 0)

\* DELIVERED, REJECTED, TRANSIENT or an exception: none says that the token is dead.
AnswerAlive(w, t) == dlv[w][t].step \in {"planned", "posted"} /\ Step(w, t, "over", 0)

\* apns._reap_order: a 410 is dated with the death Apple saw, which may be over by now,
\* or it has no timestamp and no order to reap comes of it.
AnswerDeadApns(w, t) ==
    /\ t \in ApnsTokens /\ dlv[w][t].step = "posted" /\ died[t] > 0
    /\ \/ Step(w, t, "dead", died[t])
       \/ Step(w, t, "over", 0)

\* UNREGISTERED: no date, and true of the token when it is said.
AnswerDeadFcm(w, t) ==
    /\ t \in FcmTokens \ valid /\ dlv[w][t].step = "posted"
    /\ Step(w, t, "dead", 0)

\* Mutant: the row is found by its id.
DeadById(w, t) ==
    /\ dlv[w][t].step = "dead" /\ row[t].id = dlv[w][t].id
    /\ t \in ApnsTokens => row[t].updated <= dlv[w][t].since

\* The WHERE of the reaper's DELETE.
DeadStill(w, t) ==
    /\ dlv[w][t].step = "dead" /\ row[t].id = dlv[w][t].id
    /\ row[t].updated = dlv[w][t].updated
    /\ t \in ApnsTokens => row[t].updated <= dlv[w][t].since

\* All sends have answered (gather): the dead rows go in one transaction, or the
\* transaction fails and is rolled back.
Reap(w) ==
    /\ pc[w] = "sending"
    /\ \A t \in Tokens : dlv[w][t].step \notin {"planned", "posted"}
    /\ \/ row' = [t \in Tokens |-> IF DeadStill(w, t) THEN NoRow ELSE row[t]]
       \/ UNCHANGED row
    /\ Over({w})
    /\ UNCHANGED <<clock, bars, provider, holder>>

\* aclose at shutdown: what is still in flight is cancelled, and the process restarts.
Restart ==
    /\ Over(Wakes)
    /\ UNCHANGED <<clock, db, provider, holder>>

-----------------------------------------------------------------------------
Init ==
    /\ clock = 0
    /\ row = [t \in Tokens |-> NoRow]
    /\ valid = Tokens /\ died = [t \in Tokens |-> 0]
    /\ bars = [u \in Callees |-> {"unspoken"}]
    /\ pc = [w \in Wakes |-> "none"] /\ check = [w \in Wakes |-> 0]
    /\ whom = [w \in Wakes |-> NoUser] /\ verb = [w \in Wakes |-> "none"]
    /\ excluded = [w \in Wakes |-> FALSE]
    /\ dlv = [w \in Wakes |-> [t \in Tokens |-> NoDelivery]]
    /\ holder = [t \in Tokens |-> NoUser]
    /\ standing = [w \in Wakes |-> {}]

DeviceStep(u, t) == Register(u, t) \/ Unregister(u, t)

Deliver(w, t) ==
    Post(w, t) \/ AnswerAlive(w, t) \/ AnswerDeadApns(w, t) \/ AnswerDeadFcm(w, t)

WakeStep(w) ==
    \/ \E u \in Callees, kind \in {"invite", "end"} : Schedule(w, u, kind)
    \/ ReadBar(w) \/ Plan(w) \/ Reap(w)
    \/ \E t \in Tokens : Deliver(w, t)

Next ==
    \/ \E u \in Users, t \in Tokens : DeviceStep(u, t)
    \/ \E u \in Users : PurgeUserDevices(u)
    \/ \E t \in Tokens : TokenDies(t) \/ TokenReturns(t)
    \/ \E u \in Callees, b \in Bars : Bar(u, b) \/ Unbar(u, b)
    \/ \E w \in Wakes : WakeStep(w)
    \/ Restart

Spec == Init /\ [][Next]_vars

-----------------------------------------------------------------------------
(* Properties *)

Deliveries ==
    [step : {"none", "planned", "posted", "over", "dead"}, id : Nat, updated : Nat, since : Nat]

TypeOK ==
    /\ clock \in 0..MaxClock
    /\ row \in [Tokens -> [id : Nat, user : Users \cup {NoUser}, updated : Nat]]
    /\ valid \subseteq Tokens /\ died \in [Tokens -> Nat]
    /\ bars \in [Callees -> SUBSET Bars]
    /\ pc \in [Wakes -> {"none", "checking", "sending"}] /\ check \in [Wakes -> 0..5]
    /\ whom \in [Wakes -> Users \cup {NoUser}] /\ verb \in [Wakes -> {"none", "invite", "end"}]
    /\ excluded \in [Wakes -> BOOLEAN]
    /\ dlv \in [Wakes -> [Tokens -> Deliveries]]
    /\ holder \in [Tokens -> Users \cup {NoUser}]
    /\ standing \in [Wakes -> SUBSET Bars]

\* The reaper is "the only irreversible operation in the module": whoever registered a
\* token last, and has not logged out, stays registered as long as the token works,
\* whatever verdicts about the token's past, or the previous owner's logout, come late.
RegistrationSurvives ==
    \A t \in Tokens : holder[t] # NoUser => row[t] # NoRow /\ row[t].user = holder[t]

Posts(w, t) == dlv[w][t].step = "planned" /\ dlv'[w][t].step = "posted"

\* The trust boundary of the wake: a callee whose leave, ban or block, or who never
\* spoke in the room, has held ever since the call was accepted is not rung.
BarredIsNotRung ==
    [][\A w \in Wakes, t \in Tokens : Posts(w, t) => standing[w] = {}]_vars

\* models.DeviceToken: "a push must always reach the CURRENT owner".
RingsCurrentOwner ==
    [][\A w \in Wakes, t \in Tokens : Posts(w, t) => row[t].user = whom[w]]_vars
=============================================================================
