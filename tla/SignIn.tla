------------------------------- MODULE SignIn -------------------------------
(***************************************************************************)
(* The doors to an account (rest/auth.py): native social sign-in with a    *)
(* server-issued nonce, the OAuth broker (start, callback, exchange), the  *)
(* claim of a handle by a new identity, password and passkey registration, *)
(* and the change of a handle (domain/users_service.py).                   *)
(*                                                                         *)
(* A transaction begins with a write and is one step under SQLite's writer *)
(* lock; a read before it or after it is a step of its own.  A refusal     *)
(* before the first write changes nothing and is no step.  The expiry of a *)
(* code is a step, so clocks are not needed; a verifier and its S256       *)
(* challenge are the app that made them; a provider's answer is any        *)
(* identity, a failure, or late.                                           *)
(***************************************************************************)
EXTENDS Naturals, FiniteSets

CONSTANTS
    Users,             \* ids of accounts, each given out once
    Idents,            \* (provider, sub) pairs
    Handles,           \* usernames
    AutoHandles,       \* the ones _new_auto_handle draws
    Wire,              \* _sanitize_aiko_username: handle -> name on the bus
    BusNames,          \* aiko_usernames, those of older rows included
    Apps,              \* app installations, each with its own verifier
    Nonces,            \* social_nonces
    Flows,             \* oauth_states
    Codes,             \* oauth_handoffs
    Requests,          \* HTTP requests that read before or between writes
    NonceRequired, SocialEnabled, OpenRegistration,   \* settings
    MaxOld,            \* bound on the accounts from before
    None

ASSUME SignInConstants ==
    /\ AutoHandles \subseteq Handles
    /\ DOMAIN Wire = Handles /\ \A h \in Handles : Wire[h] \in BusNames
    /\ {NonceRequired, SocialEnabled, OpenRegistration} \subseteq BOOLEAN
    /\ None \notin Users \cup Idents \cup Handles \cup BusNames \cup Apps \cup Flows \cup Nonces

VARIABLES
    standing,      \* users row: "free", "active", "banned" or "gone"
    handle, wire,  \* users.username, users.aiko_username
    stamp,         \* handle_assigned ("assigned") or the age of handle_changed_at
    swaps,         \* chosen handles given up in the running cooldown (history)
    links,         \* social_identities
    nonce, answered,     \* social_nonces; sign-ins with an id_token of it (history)
    flow, starter,       \* oauth_states and their app_challenge
    code, content,       \* oauth_handoffs and their payload
    prov,          \* identities with a provisioning token in hand
    pc, local,     \* a request and what it holds across an await
    grant,         \* the session a request was answered with
    redeemed       \* <<flow, app, request>> of the exchanges answered (history)

users == <<standing, handle, wire, stamp, swaps>>
native == <<nonce, answered>>
broker == <<flow, starter, code, content>>
requests == <<pc, local, grant, redeemed>>
vars == <<users, links, native, broker, prov, requests>>

Status == {"unissued", "live", "consumed", "expired"}
Exists(u) == standing[u] \in {"active", "banned"}

\* The payload of a handoff and the locals of a handler.
Held(f, i, u, a) == [flow |-> f, ident |-> i, user |-> u, app |-> a]
Nothing == Held(None, None, None, None)

\* Rows from before: their names are unique, and aiko_username need not be the one of
\* the handle.
OldRows(old) ==
    /\ standing = [u \in Users |-> IF u \in old THEN "active" ELSE "free"]
    /\ handle \in [Users -> Handles \cup {None}]
    /\ wire \in [Users -> BusNames \cup {None}]
    /\ \A u \in Users \ old : handle[u] = None /\ wire[u] = None
    /\ \A u \in old :
          /\ handle[u] # None /\ wire[u] # None
          /\ \A v \in old \ {u} : handle[u] # handle[v] /\ wire[u] # wire[v]

Init ==
    /\ \E old \in SUBSET Users : Cardinality(old) <= MaxOld /\ OldRows(old)
    /\ stamp = [u \in Users |-> "never"]
    /\ swaps = [u \in Users |-> 0]
    /\ links = {}
    /\ nonce = [n \in Nonces |-> "unissued"]
    /\ answered = [n \in Nonces |-> 0]
    /\ flow = [f \in Flows |-> "unissued"]
    /\ starter = [f \in Flows |-> None]
    /\ code = [c \in Codes |-> "unissued"]
    /\ content = [c \in Codes |-> Nothing]
    /\ prov = {}
    /\ pc = [r \in Requests |-> "new"]
    /\ local = [r \in Requests |-> Nothing]
    /\ grant = [r \in Requests |-> Nothing]
    /\ redeemed = {}

Goto(r, step, held) ==
    /\ pc' = [pc EXCEPT ![r] = step]
    /\ local' = [local EXCEPT ![r] = held]

-----------------------------------------------------------------------------
(* Accounts *)

\* UNIQUE(username) and UNIQUE(aiko_username) against the other rows.
Taken(h, u) ==
    \E v \in Users \ {u} : Exists(v) /\ (handle[v] = h \/ wire[v] = Wire[h])

\* The INSERT of a users row, which fails on a taken name.
CreateUser(u, h, s) ==
    /\ standing[u] = "free" /\ ~Taken(h, u)
    /\ standing' = [standing EXCEPT ![u] = "active"]
    /\ handle' = [handle EXCEPT ![u] = h]
    /\ wire' = [wire EXCEPT ![u] = Wire[h]]
    /\ stamp' = [stamp EXCEPT ![u] = s]
    /\ UNCHANGED swaps

\* _require_may_provision_account.
MayProvision(door) == IF door = "social" THEN SocialEnabled ELSE OpenRegistration

\* register, create_user.  Like the other two doors it answers with the tokens of the
\* row it has inserted.
Register(u, h) ==
    /\ MayProvision("password")
    /\ CreateUser(u, h, "never")
    /\ UNCHANGED <<links, native, broker, prov, requests>>

\* passkey_register_finish, create_passkey_account: it draws until a handle is free.
\* The challenge and the credential are Recovery's.
RegisterPasskey(u, h) ==
    /\ MayProvision("passkey")
    /\ h \in AutoHandles
    /\ CreateUser(u, h, "assigned")
    /\ UNCHANGED <<links, native, broker, prov, requests>>

\* Mutant: no UNIQUE(provider, provider_sub).
LinkAnyway(i, u) == links' = links \cup {<<i, u>>}

\* The INSERT of a social_identities row, in the transaction of its user.
Link(i, u) ==
    /\ \A v \in Users : <<i, v>> \notin links
    /\ links' = links \cup {<<i, u>>}

\* social_claim, create_social_user.  The provisioning token is not single-use.
Claim(i, u, h) ==
    /\ SocialEnabled /\ MayProvision("social")
    /\ i \in prov
    /\ CreateUser(u, h, "never")
    /\ Link(i, u)
    /\ UNCHANGED <<native, broker, prov, requests>>

\* ban_user, unban_user.
Ban(u) ==
    /\ standing[u] = "active" /\ standing' = [standing EXCEPT ![u] = "banned"]
    /\ UNCHANGED <<handle, wire, stamp, swaps, links, native, broker, prov, requests>>

Unban(u) ==
    /\ standing[u] = "banned" /\ standing' = [standing EXCEPT ![u] = "active"]
    /\ UNCHANGED <<handle, wire, stamp, swaps, links, native, broker, prov, requests>>

\* delete_user_account, by a request that may have authenticated before a ban.
DeleteAccount(u) ==
    /\ Exists(u)
    /\ standing' = [standing EXCEPT ![u] = "gone"]
    /\ handle' = [handle EXCEPT ![u] = None]
    /\ wire' = [wire EXCEPT ![u] = None]
    /\ stamp' = [stamp EXCEPT ![u] = "never"]
    /\ swaps' = [swaps EXCEPT ![u] = 0]
    /\ links' = {l \in links : l[2] # u}
    /\ UNCHANGED <<native, broker, prov, requests>>

-----------------------------------------------------------------------------
(* PATCH /v1/me *)

\* get_current_user; the row it loads is not consulted again.
PatchStart(r, u) ==
    /\ pc[r] = "new" /\ standing[u] = "active"
    /\ Goto(r, "patch", Held(None, None, u, None))
    /\ UNCHANGED <<users, links, native, broker, prov, grant, redeemed>>

\* update_profile: the SET decides whether there is a change.
Changes(u, h) == Exists(u) /\ handle[u] # h /\ stamp[u] # "recent"

\* Mutant: only the first change is stamped.
StampFirst(u) == IF stamp[u] = "assigned" THEN "never"
                 ELSE IF stamp[u] = "past" THEN "past" ELSE "recent"

\* The first change away from an assigned handle leaves handle_changed_at NULL.
Stamp(u) == IF stamp[u] = "assigned" THEN "never" ELSE "recent"

\* Mutant: aiko_username is left behind.
RenameVisible(u, h) ==
    /\ handle' = [handle EXCEPT ![u] = h]
    /\ UNCHANGED wire

Rename(u, h) ==
    /\ handle' = [handle EXCEPT ![u] = h]
    /\ wire' = [wire EXCEPT ![u] = Wire[h]]

\* One UPDATE ... RETURNING and a COMMIT: 200 with a change, ...
PatchApply(r) ==
    /\ pc[r] = "patch"
    /\ LET u == local[r].user IN
       \E h \in Handles :
          /\ Changes(u, h) /\ ~Taken(h, u)
          /\ Rename(u, h)
          /\ stamp' = [stamp EXCEPT ![u] = Stamp(u)]
          /\ swaps' = [swaps EXCEPT ![u] = IF stamp[u] = "assigned" THEN @ ELSE @ + 1]
    /\ Goto(r, "done", Nothing)
    /\ UNCHANGED <<standing, links, native, broker, prov, grant, redeemed>>

\* ... 200 without one, 401 (AccountGone), 409 (HandleTaken) or 429 (cooldown).
PatchRefuse(r) ==
    /\ pc[r] = "patch"
    /\ \E h \in Handles : ~Changes(local[r].user, h) \/ Taken(h, local[r].user)
    /\ Goto(r, "done", Nothing)
    /\ UNCHANGED <<users, links, native, broker, prov, grant, redeemed>>

\* handle_change_cooldown_seconds have passed.
CoolDown(u) ==
    /\ stamp[u] = "recent"
    /\ stamp' = [stamp EXCEPT ![u] = "past"]
    /\ swaps' = [swaps EXCEPT ![u] = 0]
    /\ UNCHANGED <<standing, handle, wire, links, native, broker, prov, requests>>

-----------------------------------------------------------------------------
(* Native sign-in *)

\* POST /v1/auth/nonce.  The rows it sweeps have expired and stay as unusable.
IssueNonce(n) ==
    /\ SocialEnabled
    /\ nonce[n] = "unissued" /\ nonce' = [nonce EXCEPT ![n] = "live"]
    /\ UNCHANGED <<users, links, answered, broker, prov, requests>>

\* get_user_by_social; both reads see one state, or the account is gone between them
\* and the identity is new.
Known(i) == {u \in Users : <<i, u>> \in links /\ Exists(u)}

\* verify_id_token: a nonce in the request must be the nonce claim of the token.  The
\* provider signs any identity with whatever nonce the app gave it, or none.
VerifyIdToken(claim, n) == n # None => claim = n

\* consume_nonce, without a commit.
ConsumeNonce(n) ==
    /\ NonceRequired => n # None /\ nonce[n] = "live"
    /\ nonce' = IF NonceRequired THEN [nonce EXCEPT ![n] = "consumed"] ELSE nonce

\* social for an id_token of identity i: tokens for a known account, a provisioning
\* token for a new identity.  Nonce and outcome commit together.
Social(r, n, claim, i) ==
    /\ SocialEnabled /\ pc[r] = "new"
    /\ VerifyIdToken(claim, n)
    /\ ConsumeNonce(n)
    /\ \/ /\ Known(i) = {}
          /\ prov' = prov \cup {i}
          /\ UNCHANGED grant
       \/ \E u \in Known(i) :
             /\ standing[u] = "active"
             /\ grant' = [grant EXCEPT ![r] = Held(None, i, u, None)]
             /\ UNCHANGED prov
    /\ answered' = [m \in Nonces |-> IF m = claim THEN answered[m] + 1 ELSE answered[m]]
    /\ Goto(r, "done", Nothing)
    /\ UNCHANGED <<users, links, broker, redeemed>>

\* Mutant: the nonce is committed before the account is looked at.
SocialBurned(r, n, claim, i) ==
    /\ SocialEnabled /\ pc[r] = "new"
    /\ VerifyIdToken(claim, n)
    /\ ConsumeNonce(n)
    /\ \E u \in Known(i) : standing[u] = "banned"
    /\ Goto(r, "done", Nothing)
    /\ UNCHANGED <<users, links, answered, broker, prov, grant, redeemed>>

\* _deny_if_banned raises and the session rolls back: the nonce stays usable.
SocialSuspended(r, n, claim, i) ==
    /\ SocialEnabled /\ pc[r] = "new"
    /\ VerifyIdToken(claim, n)
    /\ NonceRequired => n # None /\ nonce[n] = "live"
    /\ \E u \in Known(i) : standing[u] = "banned"
    /\ Goto(r, "done", Nothing)
    /\ UNCHANGED <<users, links, native, broker, prov, grant, redeemed>>

-----------------------------------------------------------------------------
(* The OAuth broker *)

\* oauth_start, create_state with the app's challenge.
StartFlow(f, a) ==
    /\ SocialEnabled
    /\ flow[f] = "unissued" /\ flow' = [flow EXCEPT ![f] = "live"]
    /\ starter' = [starter EXCEPT ![f] = a]
    /\ UNCHANGED <<users, links, native, code, content, prov, requests>>

\* consume_state: a guarded UPDATE and a COMMIT before the provider is asked.
ConsumeState(f) ==
    /\ flow[f] = "live"
    /\ flow' = [flow EXCEPT ![f] = "consumed"]

Callback(r, f) ==
    /\ SocialEnabled /\ pc[r] = "new"
    /\ ConsumeState(f)
    /\ Goto(r, "exchange", Held(f, None, None, None))
    /\ UNCHANGED <<users, links, native, starter, code, content, prov, grant, redeemed>>

\* exchange_code raises, or the provider names an identity whose account is banned.
CallbackFails(r) ==
    /\ pc[r] = "exchange"
    /\ Goto(r, "done", Nothing)
    /\ UNCHANGED <<users, links, native, broker, prov, grant, redeemed>>

\* exchange_code returns identity i; what _resolve_identity finds is kept.
CallbackResolve(r, i) ==
    /\ pc[r] = "exchange"
    /\ \E u \in Users \cup {None} :
          /\ IF Known(i) = {} THEN u = None
             ELSE u \in Known(i) /\ standing[u] = "active"
          /\ Goto(r, "store", Held(local[r].flow, i, u, None))
    /\ UNCHANGED <<users, links, native, broker, prov, grant, redeemed>>

\* create_handoff.
CallbackStore(r, c) ==
    /\ pc[r] = "store"
    /\ code[c] = "unissued" /\ code' = [code EXCEPT ![c] = "live"]
    /\ content' = [content EXCEPT ![c] = local[r]]
    /\ Goto(r, "done", Nothing)
    /\ UNCHANGED <<users, links, native, flow, starter, prov, grant, redeemed>>

\* Mutant: the handoff is read without being marked.
ReadHandoff(c) == code[c] = "live" /\ UNCHANGED code

\* consume_handoff: a guarded UPDATE and a COMMIT.
ConsumeHandoff(c) ==
    /\ code[c] = "live"
    /\ code' = [code EXCEPT ![c] = "consumed"]

\* oauth_exchange by app a.  Another app's verifier burns the code.
ExchangeForeign(r, c, a) ==
    /\ SocialEnabled /\ pc[r] = "new"
    /\ ConsumeHandoff(c)
    /\ a # starter[content[c].flow]
    /\ Goto(r, "done", Nothing)
    /\ UNCHANGED <<users, links, native, flow, starter, content, prov, grant, redeemed>>

\* A provisioning payload is answered with a provisioning token ...
ExchangeNew(r, c, a) ==
    /\ SocialEnabled /\ pc[r] = "new"
    /\ ConsumeHandoff(c)
    /\ a = starter[content[c].flow] /\ content[c].user = None
    /\ prov' = prov \cup {content[c].ident}
    /\ redeemed' = redeemed \cup {<<content[c].flow, a, r>>}
    /\ Goto(r, "done", Nothing)
    /\ UNCHANGED <<users, links, native, flow, starter, content, grant>>

\* ... and for a known account the users row is read again, ...
ExchangeKnown(r, c, a) ==
    /\ SocialEnabled /\ pc[r] = "new"
    /\ ConsumeHandoff(c)
    /\ a = starter[content[c].flow] /\ content[c].user # None
    /\ Goto(r, "load", Held(content[c].flow, content[c].ident, content[c].user, a))
    /\ UNCHANGED <<users, links, native, flow, starter, content, prov, grant, redeemed>>

\* Mutant: the user_id of the payload is trusted.
Admits(u) == standing[u] \in {"active", "banned", "gone"}

\* get_by_id, _deny_if_banned.
Admitted(u) == standing[u] = "active"

\* ... which may be gone or banned by now.
ExchangeMint(r) ==
    /\ pc[r] = "load" /\ Admitted(local[r].user)
    /\ grant' = [grant EXCEPT ![r] = local[r]]
    /\ redeemed' = redeemed \cup {<<local[r].flow, local[r].app, r>>}
    /\ Goto(r, "done", Nothing)
    /\ UNCHANGED <<users, links, native, broker, prov>>

ExchangeRefuse(r) ==
    /\ pc[r] = "load" /\ ~Admitted(local[r].user)
    /\ Goto(r, "done", Nothing)
    /\ UNCHANGED <<users, links, native, broker, prov, grant, redeemed>>

-----------------------------------------------------------------------------
\* expires_at passes, or the exp of a provisioning token.
ExpireNonce(n) ==
    /\ nonce[n] = "live" /\ nonce' = [nonce EXCEPT ![n] = "expired"]
    /\ UNCHANGED <<users, links, answered, broker, prov, requests>>

ExpireFlow(f) ==
    /\ flow[f] = "live" /\ flow' = [flow EXCEPT ![f] = "expired"]
    /\ UNCHANGED <<users, links, native, starter, code, content, prov, requests>>

ExpireCode(c) ==
    /\ code[c] = "live" /\ code' = [code EXCEPT ![c] = "expired"]
    /\ UNCHANGED <<users, links, native, flow, starter, content, prov, requests>>

ExpireToken(i) ==
    /\ i \in prov /\ prov' = prov \ {i}
    /\ UNCHANGED <<users, links, native, broker, requests>>

-----------------------------------------------------------------------------
AccountStep(u) ==
    \/ \E h \in Handles :
          Register(u, h) \/ RegisterPasskey(u, h) \/ \E i \in Idents : Claim(i, u, h)
    \/ Ban(u) \/ Unban(u) \/ DeleteAccount(u) \/ CoolDown(u)

RequestStep(r) ==
    \/ \E u \in Users : PatchStart(r, u)
    \/ PatchApply(r) \/ PatchRefuse(r)
    \/ \E n, claim \in Nonces \cup {None}, i \in Idents :
          Social(r, n, claim, i) \/ SocialSuspended(r, n, claim, i)
    \/ \E f \in Flows : Callback(r, f)
    \/ CallbackFails(r)
    \/ \E i \in Idents : CallbackResolve(r, i)
    \/ \E c \in Codes : CallbackStore(r, c)
    \/ \E c \in Codes, a \in Apps :
          ExchangeForeign(r, c, a) \/ ExchangeNew(r, c, a) \/ ExchangeKnown(r, c, a)
    \/ ExchangeMint(r) \/ ExchangeRefuse(r)

CodeStep ==
    \/ \E n \in Nonces : IssueNonce(n) \/ ExpireNonce(n)
    \/ \E f \in Flows : ExpireFlow(f) \/ \E a \in Apps : StartFlow(f, a)
    \/ \E c \in Codes : ExpireCode(c)
    \/ \E i \in Idents : ExpireToken(i)

Next ==
    \/ \E u \in Users : AccountStep(u)
    \/ \E r \in Requests : RequestStep(r)
    \/ CodeStep

Spec == Init /\ [][Next]_vars

-----------------------------------------------------------------------------
(* Properties *)

Holdings ==
    [flow : Flows \cup {None}, ident : Idents \cup {None},
     user : Users \cup {None}, app : Apps \cup {None}]

TypeOK ==
    /\ standing \in [Users -> {"free", "active", "banned", "gone"}]
    /\ handle \in [Users -> Handles \cup {None}]
    /\ wire \in [Users -> BusNames \cup {None}]
    /\ stamp \in [Users -> {"assigned", "never", "recent", "past"}]
    /\ swaps \in [Users -> Nat]
    /\ links \subseteq Idents \X Users
    /\ nonce \in [Nonces -> Status]
    /\ answered \in [Nonces -> Nat]
    /\ flow \in [Flows -> Status]
    /\ starter \in [Flows -> Apps \cup {None}]
    /\ code \in [Codes -> Status]
    /\ content \in [Codes -> Holdings]
    /\ prov \subseteq Idents
    /\ pc \in [Requests -> {"new", "patch", "exchange", "store", "load", "done"}]
    /\ local \in [Requests -> Holdings]
    /\ grant \in [Requests -> Holdings]
    /\ redeemed \subseteq Flows \X Apps \X Requests

\* /social (ATOMIC-WITH-OUTCOME): where nonces are required, a nonce is burned by the one
\* sign-in its id_tokens are good for; a refused attempt leaves it for the retry.
NonceForOutcome ==
    NonceRequired =>
        \A n \in Nonces : answered[n] = IF nonce[n] = "consumed" THEN 1 ELSE 0

\* consume_state and consume_handoff together with the app_challenge they carry: a
\* broker flow is answered at most once, to the app that started it, however often
\* callback and exchange are repeated.
StarterRedeemsOnce ==
    \A x \in redeemed :
        /\ x[2] = starter[x[1]]
        /\ \A y \in redeemed : x[1] = y[1] => x = y

\* oauth_exchange and _resolve_identity: tokens are minted for an account that is
\* there and not banned, and that is the identity's, although the handoff names an
\* account looked up long before.
SessionIsTheIdentitys ==
    [][\A r \in Requests :
          grant'[r] # grant[r] =>
              /\ standing[grant'[r].user] = "active"
              /\ <<grant'[r].ident, grant'[r].user>> \in links]_vars

\* models.SocialIdentity: "a provider subject maps to exactly one local user", over
\* any number of claims with one provisioning token, deletions and re-claims; a link
\* never outlives its account.
IdentityIsOneAccount ==
    \A l, m \in links : Exists(l[2]) /\ (l[1] = m[1] => l = m)

\* create_user and its siblings, update_profile: no two accounts share a handle or a
\* name on the bus, and aiko_username moves with the handle and never without it: an
\* account that keeps its handle keeps its bus name, even one that is not the sanitised
\* handle ("aiko_username (which need not equal the sanitised handle on every row)").
NamesAreOwned ==
    [][\A u \in Users : Exists(u)' =>
          /\ wire'[u] = IF Exists(u) /\ handle'[u] = handle[u] THEN wire[u]
                         ELSE Wire[handle'[u]]
          /\ \A v \in Users \ {u} :
                Exists(v)' => handle'[u] # handle'[v] /\ wire'[u] # wire'[v]]_vars

\* update_profile: within one cooldown a chosen handle is given up at most once,
\* whatever PATCHes overlap.
OneChangePerWindow == \A u \in Users : swaps[u] <= 1
=============================================================================
