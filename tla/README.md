# Verification of the aiko chat gateway

TLA+ models of `src/src/aiko_gateway`, the gateway ("island") between chat
clients (REST and WebSocket), a SQLite database and the aiko message bus. The
models are checked with TLC on small instances; every invariant and every action
property of the runs is also proved with TLAPS for every instance, and TLC alone
answers for the three liveness properties.

## 1. The system

One process, one asyncio loop, one SQLite file, and a second thread that runs
the aiko bus client. What makes it hard is the same everywhere:

* **Coroutines interleave at every `await`.** A request authenticates, reads,
  and writes later; between the steps every other request runs.
* **SQLite serialises writers, not requests.** The driver opens a transaction at
  the first write. A SELECT before it runs outside any transaction and takes no
  lock; from the first INSERT/UPDATE/DELETE (even one that matches no row) to
  the COMMIT nobody else writes. So the models make *each SELECT a step of its
  own* and *first write .. COMMIT one step*. A SAVEPOINT that no write precedes is
  itself the transaction: its RELEASE commits, and what follows is a second one.
  DDL commits by itself, so a migration's revision is not atomic. `FOR UPDATE` is inert and foreign
  keys are not enforced, as in the deployed configuration.
* **Callbacks of the bus come from another thread** through
  `call_soon_threadsafe`, a FIFO; every bus message becomes a task of its own.
* **A WebSocket authenticates once**, at the handshake.

### Components

| component | state | operations | what must be right | module |
|---|---|---|---|---|
| WebSocket endpoint and hub (`realtime/`) | registered connections, `subscribed` sets | handshake, subscribe (fence, suback), send, fanout, leave | nothing falls between catch-up and live delivery; a retry is one message; blocks hold | `Delivery`, `Sessions` |
| message store (`domain/messages_service.py`, `ids.py`) | `messages`, `message_retractions` | create_outbound, persist_inbound, latest_ulids, history pages | as above; the pages a client walks have no hole | `Delivery`, `HistoryPages` |
| echo suppression (`domain/echo.py`) | pending echoes with expiry | mark_sent, is_own_echo, evict | no second row of an own message, no foreign message lost | `EchoRelay` |
| bus client and reconcile (`aiko/client.py`, `main.py`, `channels_service.py`) | attachment, subscriptions, share consumer, work queue, `channels` | discovery callbacks, share events, worker, ingest upsert | relays what the running ChatServer lists; every listed channel gets a row | `BusTopology` |
| memberships (`memberships_service.py`, `acl.py`) | `memberships` | add, join, remove, leave | a channel never loses its last admin | `Memberships` |
| account deletion (`accounts_service.py`) | everything of a user | delete | nothing of the account comes back | `Memberships`, `ReadPositions`, `Recovery`, `Sessions` |
| read positions (`read_positions_service.py`) | `channel_read_positions` | PUT as compare-and-swap | a register; never past the end; no ghost rows | `ReadPositions` implements `PositionRegister` |
| social recovery (`recovery_service.py`), passkeys, tokens | policy, challenges, pending row, credentials, `token_generation` | enroll, start, finish, veto, finalize, add passkey, sign in | one outcome; clean re-key; the dead stay dead | `Recovery` |
| revocation of live sessions (`rest/moderation.py`, `rest/auth.py`, `rest/recovery.py`, `hub.disconnect_user`) | hub, users row | ban, delete, re-key, walk the sockets | no registered socket outlives its session | `Sessions` |
| moderation (`moderation_service.py`) | reports, retractions, blocks, bans | report, take down, dismiss, block | a takedown takes effect, however reports are resolved | `Moderation`, `Delivery` |
| push devices and wakes (`push_service.py`, `devices_service.py`, `apns.py`) | `device_tokens`, wakes in flight | register, log out, purge, wake (check, plan, send, reap), shutdown | no working registration is reaped; nobody barred is rung | `Devices` |
| sign-in and handles (`rest/auth.py`, `users_service.py`, `nonce_service.py`, `state_service.py`, `handoff_service.py`, `oauth_broker.py`) | `users`, `social_identities`, `social_nonces`, `oauth_states`, `oauth_handoffs`, provisioning tokens | nonce, native sign-in, broker start / callback / exchange, claim, registration, PATCH of a handle | one-time codes are spent once, with their outcome; a session is for the proven identity's live account; names on the bus are owned | `SignIn` |
| FCM authorization (`fcm.py`) | auth phase, strikes, the mint in flight | tick, mint, send, classify | silence is silent; late answers do no harm | `FcmAuth` |
| reactions (`reactions_service.py`, `rest/reactions.py`) | `message_reactions` | add, remove, aggregate, purge | a viewer sees the own reaction; a frame announces what is stored | `Reactions` |
| communities (`communities_service.py`) | `communities`, `community_memberships` | join, discover, purge | the stored count is the rows; paging neither loses nor repeats | `Communities` |
| direct messages (`dm_service.py`) | a `channels` row per pair, `memberships` | open, leave | one room; who left comes back only by an own request | `DirectMessages` |
| signing keys (`signing_keys_service.py`, `rest/keys.py`) | `signing_keys` | register, record on first use, revoke, purge | the cap holds; answers are true | `SigningKeys` |
| boot (`migrate.py`, `worker_guard.py`, `db.py`) | database file, `alembic_version`, lock file | refuse, adopt, upgrade, lock, verify | one worker serves the volume's own island at its image's schema | `Boot` |
| actuation (`actuation.py`) | high-water marks in memory and on disk | verify, advance, persist, load | an envelope is carried out at most once | `Actuation` |

The other components (rate limit, peers, LiveKit, configuration, ...) are listed
with the reason in `PROJECT.json` and in section 8.

How they interact: `send` stores (message store), marks (echo), publishes (bus)
and fans out (hub); `ingest` takes bus messages, asks echo, stores, fans out;
a takedown stores a retraction and fans it out; a ban, a deletion and a re-key
change the users row and then walk the hub; a deletion erases from every table;
a call message stored by `send` schedules a wake of the callee's devices, whose
Android half asks the FCM authorization for a bearer; the broker's callback
leaves a handoff that the app's exchange reads against the users row of that time;
a page of history carries the aggregate of its messages' reactions; the container's
entrypoint migrates, and only then the server takes the lock.

## 2. Modules

Each `X.tla` is the specification; `MCX.tla`, where there is one, adds what TLC needs
(functions given to constants, symmetry); `X_<question>.cfg` or `MCX_<question>.cfg` is
one instance and one question,
`XProofs.tla` the theorems. `Accounts`, `Bus`, `Features` and `Restarts` compose modules
and carry their assumptions on the constants. Definitions that `PROJECT.json` calls mutants are
plausible bugs of the definition they precede; each checked property is broken
by one.

* **Delivery** - one channel. A connection is a process with a program counter
  through `ws_endpoint`, `_handle_subscribe` and `_handle_send`; each bus message
  and each takedown is another. Ids are a set with an order; `Ms` gives the
  millisecond of an id: `new_ulid` mints any free id of the current or a later
  millisecond, so ids of one millisecond come in any order. Fence = greatest
  visible message, then (a second SELECT) greatest retraction, then the suback.
  `live` is what was pushed to a socket. Frame validation, signatures and
  mentions are a refusal without effect. In `RemoveMember` an admin outside
  `Users` removes the member.
* **EchoRelay** - keys are (channel, username, body) triples, the only thing the
  gateway can compare. The bus is external: FIFO, delay at most `MaxDelay`, and
  an outage loses what is in flight. `TTL > MaxDelay` as in the code's choice of
  a generous TTL; ticks of time, expiry at `exp <= now` as in `_evict`. The list of
  a key's expiries is the set of its entries, each with the number of its send, so that
  `Oldest` is the head and equal expiries stay two. A message that is no echo gets a
  row, or its ingest fails and is logged (`failed`), as main.py:97 has it.
* **BusTopology** - incarnations of the ChatServer are epochs; a topic is
  (epoch, channel). The aiko thread runs one callback at a time; the loop's FIFO,
  the worker's queue and the ingest tasks are separate. `Restarts` says in which
  orders discovery may report a restart (client.py:63: there is no ordering contract);
  the runs have all three, and `reported` keeps the last.
* **Bus** - BusTopology and EchoRelay, a behaviour is one of either half: they share
  no state, and the echo table is not touched when the client detaches.
* **Memberships** - one private channel. A request is authenticate/check, then
  SELECTs, then one conditional write. `readRole` is the role as it was read. Members and
  admins are added; `overlooked` is history: an admin row came in for an account already
  gone, or behind a request that had read the account as no admin.
* **PositionRegister** - the promise: a compare-and-swap register with answers.
  **ReadPositions** - one user, one channel; bounds check in two SELECTs, then
  `_write`, read-back and COMMIT in one step.
* **Recovery** - one account, its devices, its pending row. k-of-n signatures are
  "these guardians approved this nonce for this device"; a deadline is "running"
  or "passed". `since` records the generation of the session that enrolled a key.
* **Accounts** - Memberships, Recovery and ReadPositions, which meet in
  `delete_user_account` only; each has it as an action over the rows it erases, and a
  behaviour is the requests of one `area`.
* **Sessions** - one account's sockets against concurrent revocations; the walk
  of `disconnect_user` takes a snapshot and then awaits each close.
* **Moderation** - one message with several reports, and one pair's block.
  `Init` includes a database with a takedown older than retractions.
* **Devices** - registrations and token deaths take stamps from one clock, so two
  never read the same instant; `row` is keyed by the (unique) token. A wake reads
  what forbids it one SELECT at a time (`BarOrder`), plans from the rows as read,
  posts and awaits each device, and reaps with the code's WHERE. The providers are
  external: Apple may report a death that is over, with or without its date;
  Google reports what is so at that moment. A token of either may come back.
  `holder` is history: who registered a working token last.
* **SignIn** - every door to an account. A request that reads before or between
  writes is a process; the rest are single transactions. The three tables of
  one-time codes are one status each (unissued, live, consumed, expired), consumed by
  a guarded UPDATE. A verifier and its challenge are the app that made them; an
  id_token is an identity and its nonce claim; the provider answers with any
  identity, fails, or is late. `Wire` is `_sanitize_aiko_username`: two handles may
  be one name on the bus. `Init` has accounts from before with any unique bus name
  (users_service.py:394: `aiko_username` "need not equal the sanitised handle on every
  row"). `stamp` is the age of `handle_changed_at`; `swaps`,
  `answered` and `redeemed` are history. Ban and deletion come at any time.
* **HistoryPages** - one channel, a client's walk forward from a watermark or backward
  from the newest row. A page is two SELECTs, each limited, merged and cut again;
  `stood` is the rows the viewer could see since the walk began.
* **Reactions** - one message. `Upserted` is the ON CONFLICT clause; `kept` is the
  viewer's reactions that stood while the three SELECTs ran. Which reactors are the
  oldest is left open: any sample of the right size. The cap per user is a check
  before the INSERT: two devices can exceed it, and no property says otherwise.
* **Communities** - the INSERT of a join is committed at its savepoint's RELEASE, the
  count by the COMMIT after it: `cut` counts the joins a crash left between the two
  (`join` calls them one transaction: section 5).
  The keyset cursor is <<sort key, id>>; `moved` is what changed during the walk.
* **DirectMessages** - one pair (or notes to self). The loser of the race to create
  the room reads `me.id` after a rollback that expired it, as rest/auth.py:717 says
  of the same situation: it ends in an error and the client's retry adopts the room.
* **SigningKeys** - one account. A conflict inside the savepoint keeps the writer
  lock, so the row that was met is still there when it is touched.
* **Features** - the seven modules whose actors are requests at one server
  (Moderation, Reactions, HistoryPages, Communities, DirectMessages, SigningKeys,
  Sessions), instantiated over one `accounts` table. They write no other row of each
  other's, and each module has the takedown or the deletion that reaches it as an
  action, so a behaviour is the requests of one `feature`, chosen in `Init`: the
  product of all seven would add interleavings of steps that commute.
* **Boot** - containers with images of different age on one volume. An adoption looks,
  compares and stamps in steps of their own, and its stamp overwrites whatever is there
  by then; the comparison does not see the revisions in `Blind` (CHECK constraints). A
  revision is its statements, then its stamp; a crash between leaves `shape = "half"`.
  `MultiWorker` is the containers that run with GATEWAY_ALLOW_MULTIWORKER, for which the
  lock does nothing. What the code cannot see is in the property as an exception: a
  volume changed under a container that serves (`disturbed`; the lock is taken after the
  migration), the leftovers of a newer image's revision that was never stamped, and an
  adoption that overwrote another container's migration (`restamped`), which migrate.py:89-93
  names ("NOT safe against two migrators racing"): the stamp still is the image's, the
  schema need not be.
* **Actuation** - handler threads of a robot's bridge. The lock spans comparison,
  memory, rename and sync; `synced` is the file that a power loss leaves. A failed
  directory sync is swallowed by the code, the one exception of `AtMostOnce`.
* **Restarts** - Boot and Actuation, the two programs whose state outlives them; a
  behaviour is one of either (`program`).
* **FcmAuth** - the transition table, one operator per event, applied by the mint
  and by the answers of sends. Monotonic clock: equal readings are possible, an
  answer takes at least one tick, failures may be immediate. Windows and lifetimes
  are constants in ticks; a lifetime 0 is a token shorter than the skew.

## 3. Runs

| run | instance | shows |
|---|---|---|
| `delivery_fence` | 1 socket, 2 bus messages, 1 takedown, 2 users, 3 ids in 2 ms | `NoMessageGap`, `NoRetractionGap`: what is stored is under the fence or pushed; `BlockRespected` |
| `delivery_send` | 2 sockets of one user, 1 client id, 1 takedown, fair | `SentOnce`; `StoredIsFannedOut` unless the handler died on its socket |
| `fcm_table` | 2 senders, 7 instants, lifetimes 0 and 3, windows 1, 2 and 3, fair | `SilenceIsSilent`, `DenialsCoalesce`, `GoodTokenIsKept`, `RefusedIsNotReused`, `WaitersAreReleased` |
| `devices_reap` | 1 Apple and 1 Android token, 2 owners, 1 wake at a time, 4 stamps | `RegistrationSurvives`, `BarredIsNotRung` |
| `echo_rows` | 2 keys, 2 sends and 1 foreign message each, 1 outage, TTL 3, delay 2 | `NoSecondRow`; `ForeignKept` (a row, or an ingest that failed) while there was no outage |
| `bus_relay` | 2 channels (one reserved), 3 incarnations reported in all three orders, 1 edit, 1 message, fair | `RelayMirrorsList` (no dead topic, nothing unlisted; all that is listed unless the last removal came late), `ListedGetsRow` |
| `accounts_races` | 3 users, 4 requests, any roster; 2 devices, 2 nonces, 2 recoveries, 4 requests | `NeverOrphaned`, members and admins being added, unless an admin was overlooked; `OneOutcome`, `SessionsMatchKeys`, `OwnerDecides` (a running recovery is not replaced, a deleted account stays deleted) |
| `accounts_positions` | 3 requests, ids 0..2, versions 0..2 | `NoGhostPosition`, `NotPastTheEnd`, and refinement `IsRegister` |
| `features_requests` | 2 users, 2 requests (4 of moderation over 2 reports, 3 of direct messages and of keys), 2 emojis with caps of 1, 4 ids in pages of 2, 2 communities in pages of 1, 3 keys with a cap of 2, 2 sockets and 2 revocations, 1 crash | `TakeDownTakesEffect`, `MineIsProjected`, `AnnouncedIsPersisted`, `NoHoleBehindCursor`, `CountIsRows`, `UnmovedIsListedOnce`, `LeaverStaysOut`, `RegistrationIsExact`, `RegisteredIsDropped` |
| `restarts_faults` | 3 containers (an old image that opted out of the lock, two new), 4 boots; 3 handlers, 4 envelopes for 2 robots, 4 instants; 3 faults | `ServesTheIsland`, `AtMostOnce` |
| `signin_doors` | 2 accounts, of which one may be from before, 2 identities, 3 handles (two of one bus name) and an older bus name, 2 apps, 2 flows, 2 handoffs, 1 nonce, 3 requests | `NonceForOutcome`, `StarterRedeemsOnce`, `SessionIsTheIdentitys`, `IdentityIsOneAccount`, `NamesAreOwned`, `OneChangePerWindow` |

**Why these bounds.** Every race in this code is between two or three requests
over one row: two is enough for "both read, both write", a third request is the
one that changed what was read (promotion, rejoin, another revocation). Three ids
over two milliseconds give an id inversion inside a millisecond, below and above
a fence. Three incarnations of the ChatServer are a restart during a restart. Two
sends and a foreign message of one key are the case the echo counter exists for; a delay
of TTL - 1 is the last at which an echo is still recognised.
Four stamps are a registration, a death, a registration again and a handover; two
wakes only meet at the row, where a logout already plays the other wake's part.
Two senders that may call again are a late answer, a newer token and a caller that
waits on the next mint. In `signin_doors` three requests are a callback, an exchange
and its repetition, or a sign-in beside two PATCHes; an account id is given out once,
so two are a deletion and the re-claim of its identity, or two owners of one name. One
account from before (`MaxOld`) meets a new one; the theorem has any number.

In `features_requests` caps and pages are one or two, so that two users or two
requests already reach them; four ids are two full pages with an id inversion between
them. In `restarts_faults` three faults are a crash, its repetition during the
recovery, and a power loss or a restore; four boots are every container and one again.

**Fairness.** `Delivery!FairSpec`: weak fairness of every step of a handler that
has started, because asyncio runs every ready coroutine; none for clients, peers,
blocks or moderators. `Bus!FairSpec` (`BusTopology!Fairness`): weak fairness of the aiko thread's
callbacks, of the loop, the worker and each ingest task; none for the ChatServer.
`FcmAuth!FairSpec`: weak fairness of the end of a mint, which `asyncio.wait_for`
bounds, and of a woken waiter; none for callers, answers or the clock.
Deadlock is checked for `Devices` and `FcmAuth`, which never stop; the other
instances end when their requests are done and say `CHECK_DEADLOCK FALSE`.

**Symmetry** (`MCAccounts`, `MCFeatures`, `MCRestarts`, `MCSignIn`)
is used in safety runs only, over sets the specifications treat alike.

## 4. Theorems

For every value of the constants that the modules' `ASSUME`s allow. Each proof is an
inductive invariant over the variables of one component and the remark that the steps
of the others leave them alone.

* `DeliveryProofs`: `TypeCorrect`, `NoMessageIsMissed`, `NoRetractionIsMissed`,
  `BlocksAreRespected`, `EachIsSentOnce`.
  The invariant adds to the properties: a task's row is stored and minted
  (`RowKnown`, `IdInv`), its author is the task's user (`AuthorInv`), an exclusion
  set read later names everybody blocked at that time or blocked since
  (`ExcludeInv`), and a socket past its subscribe step stays in `subscribed`
  (`SubInv`). `MessageGapInv` says for each point of the subscribe sequence what
  is owed: before the message query nothing; after it, a visible stored message
  is at most `top`, or has its fanout still ahead, or is in `live`. The suback
  turns `top` into the fence and the property remains. `OpenInv`: who is in no block
  with the author now, or is not excluded by a fanout under way, is among those the
  message has been open to. `OnceInv`: a client id has one row, and only the connection
  that created it may still publish it.
* `AccountsProofs`, members: `ChannelKeepsAnAdmin`, whatever roles are added. Invariant,
  as long as no admin was overlooked (`Roster`): some live account is admin, a request
  that read "admin" deletes only while there are two, and a row read as member is no admin
  when it is deleted. `Memberships_promote` shows that the exception happens.
  Recovery: `RecoveriesEndOnce` (`OutcomeInv`: the pending row is younger than every
  outcome, and finalized recoveries and generations count alike),
  `AcceptedTokensHaveKeys` (`TokenInv`: no generation handed out is ahead, and who has
  the current one of an account that is not gone has its passkey), `OwnersDecide`.
  Positions: `DeletedAccountHasNoPosition`;
  `PublicPositionsAreBounded`, for a public channel (a value past its checks is at most
  `limit` or a value stored before, both at most `ever`); `ReadPositions_rejoin` shows
  that it fails in a private one. `ServiceIsRegister`, the refinement:
  initial states map, and every step is a register operation or a stutter.
* `BusProofs`, relay: `RelayFollowsTheList`, for every order of discovery's reports. The
  property is about drained queues; the invariant is about what the queues hold: consumer,
  dict and handlers are of one topic path (`AttachInv`), the last discovery callback
  attaches to the running incarnation or, where the removal came late, detaches
  (`DiscoveryInv`), and what the share last says of a channel is what the list says
  (`ShareInv`).
  Echoes: `OwnMessagesHaveOneRow` and `ForeignMessagesAreKept`, assuming
  `MaxDelay < TTL`. The two counters that `NoSecondRow` compares say nothing of the
  messages in flight. `RowInv` counts them, for every time `t` whose marks are alive:
  the rows that came in, plus the own messages on the bus sent since `t`, are no more
  than the foreign messages delivered plus the marks made since `t`. The quantifier over
  `t` is what makes it inductive: a foreign message consumes the *oldest* mark, so no
  younger message loses its own. At `t = now + 1` nothing flies and nothing is marked.
  `ConsumedOnce` and `KeptInv` are the bookkeeping behind `ForeignKept`. Counting rests
  on four lemmas on the elements of a sequence (`CountAppend`, `CountTail`, ...).
* `DevicesProofs`: `WorkingRegistrationsSurvive`, for any number of wakes in flight.
  Invariant: no stamp is ahead of the clock (`Stamped`); a working registration has
  its row and is younger than the token's last death (`Held`); a verdict of Apple's
  is not dated after that death (`Dated`); a verdict of Google's about the row as it
  stands means that nobody holds the token (`Undated`). So the reaper's WHERE matches
  no working registration (`ReapsNoHeldRow`). `BarredAreNotRung`, an action property:
  what has stood since a wake was scheduled still stands and is none of the bars its
  checks have passed (`RungInv`), so after the fourth check nothing has stood.
* `FcmAuthProofs`: `WindowsAreSilent`, `OneRingOneStrike`, `NewerTokenSurvives`,
  `RefusedStaysOut`. Invariant: no time is ahead of the clock and the last denial
  ended before the current phase began (`Clocked`); tokens are numbered as issued and
  the cached one is not refused (`Issued`); a mint is in flight only without a token,
  and no send is younger than it (`OneFlight`); a send with an older token began
  before the cached one was issued (`OlderIsEarlier`).
* `SignInProofs`: `NonceBurnedWithOutcome`, `FlowAnsweredOnce`, `OneAccountPerIdentity`,
  `BusNamesAreOwned`, `CooldownHolds`, `MintedForTheIdentity`, for every setting of
  the three switches and any accounts from before. Invariant: names are unique (`Named`),
  so that `BusNamesAreOwned`, an action property, is left with the bus name moving with
  the handle; an account's stamp says how many changes its
  window has seen (`Windowed`); a flow is in one place only, in its request, in one
  handoff, in the exchange that loads the account, or answered (`Custody`), so two
  answers would need two places; who holds an account's id holds an identity that is
  linked to it, or the account is gone for good (`Deeds`), so the users row alone,
  read again at the exchange, decides. One frame lemma per part says which actions
  touch it.
* `FeaturesProofs`, one invariant per feature. `LeaversStayOut` needs only
  that steps are per request (`DmTyped`): members are added by a create, which finds no
  room, or by an ensure, which is of the caller. `RegistrationsAreExact` adds that the
  stored keys are a finite set (`KeysTyped`), so that an insert below the cap stays
  within it. `RegisteredAreDropped`: a registered socket is past its handshake
  (`PastHandshake`), and a socket that became invalid while registered is in the
  snapshot of a request still walking, or that request has yet to take it.
  `TakeDownsTakeEffect`: a report is marked
  taken down only with the message hidden, and what a request read of either stays true
  (`ModKnown`). `AnnouncementsArePersisted`: every signature in the table was
  noted, and so was what a request has read back to announce (`RxKnown`).
  `OwnReactionsAreShown`: what the viewer kept since the aggregate began is in the table,
  then counted, then among its own (`MineInv`), and the caps cannot cut it.
  `CountsAreRows`: the count and the joins between their two transactions, or cut off
  there, add up to the rows (`CountsOwed`), and only a crash cuts (`CutInv`); it needs
  finitely many users and communities.
  `UnmovedAreListedOnce` and `PagesLeaveNoHole` are about limited SELECTs. What
  `ORDER BY .. LIMIT n` returns is proved once, for any strict total order on a finite
  set (`PriorGrows`, `LimitCuts`): at most `n` rows, and whatever is left out comes after a full
  page. `WalkInv`: an unmoved community is listed when the cursor passes it, once.
  `PageInv`: between the two SELECTs of a page, a message that stood and was left out is
  behind a full page.
* `RestartsProofs`: `RobotActsAtMostOnce`. `LockInv`: what a power loss leaves is behind
  the file, the file behind the marks, and so is the mark a failed write rolls back to;
  `AdmitInv`: an admitted number is synced, and nobody past the comparison has a number
  that was admitted. `OneWorkerServesTheIsland`: only the holder of the lock, or who
  opted out of it, verifies or serves (`FlockInv`); unless an adoption overtook a migration,
  a stamp is the schema and a half revision is of a newer image, and who adopts has not
  seen the volume drifted (`VolumeInv`); what is served was verified (`ServeInv`).

Assumptions on the constants are names' types and distinctness, and that tables, channels,
users and requests are finite. A theorem that needs more says so in its `ASSUME`:
`Privacy = "public"` (`PublicPositionsAreBounded`) and `MaxDelay < TTL` (the two on echoes).
Both are needed. TLC violates the property under `ReadPositions_rejoin`, and `NoSecondRow`
as soon as `TTL = MaxDelay`, which is what the generous `_TTL_SECONDS` is for.

Attempting a proof changed a model once: `Report` of BusTopology was a CASE whose guards
overlapped at epoch 0, which TLC resolves silently and the prover does not; it is now an
IF for the first start.

Checked by TLC only: the liveness properties `StoredIsFannedOut`, `ListedGetsRow` and
`WaitersAreReleased`, since fairness and ENABLED are beyond the prover.

## 5. Disagreements between code and documentation

Found while modelling. The property is in the module, the instance in the configuration
(which lists several to be checked one at a time), and TLC reports the violation. They are no runs: a run here is something the
code keeps.

| property (configuration) | the repository says | what happens |
|---|---|---|
| `LiveOnlyToMembers` (`MCDelivery_refuted`) | hub.py:10-12 "a non-member can never appear in `subscribed`" | the set is filled under the ACL and never revised: a removed member keeps receiving |
| `NoRelayLost` (`BusTopology_refuted`) | client.py:156-158 "no relay lost" | worker and ingest both miss the new channel; the ingest's INSERT fails and the message is dropped |
| `HasAdmin` (`Memberships_promote`) | memberships_service.py:14 "never orphan" | the last-admin condition depends on a role read before a promotion; an add after a deletion leaves an admin row without account |
| `PublishedBeforeAck` (`MCDelivery_refuted`) | ws.py:5-6 "publish to bus -> ack sender" | the ack comes first; a socket dying there leaves an unpublished message a retry does not repair |
| `OneRetractionPerMessage` (`MCDelivery_refuted`) | moderation_service.py:440 "race-free under the single-writer SQLite deployment" | two resolves both see none |
| `DropsOnlyPublished` (`EchoRelay_outage`) | echo.py:59-60 | a send without ChatServer leaves its mark |
| `RestartRebinds` (`BusTopology_refuted`) | client.py:78-80 | a late remove of the old server detaches from the new one |
| `NotPastTheEnd` (`ReadPositions_rejoin`) | read_positions_service.py:52-54 | bounds skipped while out, written after rejoining |
| `CleanRekey` (`Recovery_refuted`) | recovery_service.py:455-456 | a passkey added by a request that authenticated before the re-key |
| `OnlyGoodStandingIsRekeyed` (`Recovery_refuted`) | recovery_service.py:507-511 "it MUST also be checked here" | `banned_at` exists and is not checked |
| `NoneSurvives` (`Sessions_survive`) | rest/moderation.py:242-245 | a socket between handshake and register is not in the snapshot |
| `ResolvesOnce` (`Moderation_refuted`) | moderation_service.py:381 "EXACTLY ONCE" | two moderators, two outcomes |
| `RingsCurrentOwner` (`Devices_owner`) | models.py:1050 "a push must always reach the CURRENT owner" | the rows are read once; a handset that changes hands while the send waits on a mint rings for its previous owner |
| `JoinIsOneTransaction` (`MCFeatures_refuted`) | communities_service.py:302-305 "The whole join (conditional insert + member_count bump ...) runs in ONE transaction" | the RELEASE of the savepoint commits the row; others see it without its count, and a crash before the second commit leaves the count short for good |
| `RepeatBlockIsNoOp` (`Moderation_refuted`) | moderation_service.py:124-129 "there is no race" | the second INSERT raises |

## 6. Abstractions

One channel, one account or one message per model: the code keys every row and
every lock by them, and no property relates two. Payloads, names and frames are
model values. HTTP status codes are kept only where a property tells them apart.
Expiry is an action that may happen at any time, except in `EchoRelay` and
`FcmAuth`, whose subject is time. Bounds are named constants in the guards.

## 7. Plan

Done: every component that keeps state of its own and has a protocol, and a theorem for
every safety property of the runs. What would add most from here:

1. Type correctness of the other modules as theorems, as `TypeCorrect` is for Delivery:
   the proofs carry the part of it that they use (`BusTyped`, `ComTyped`, ...), not all.
2. The parts of partly modelled components named in `PROJECT.json`: the anonymising of a
   deleted account's messages, the retention purge.
3. Properties for the hazards without one, which the code is known to have (section 5):
   the subscription of a removed member (hub.py:81), the socket that dies at its ack
   (ws.py:225), the request that authenticated before a re-key (rest/auth.py:700).

## 8. Not modelled

* Rate limit: a counter per key, read and written without an await; every module has
  its refusal as a request without effect. At its cap of keys the oldest window is
  forgotten, which no other component depends on.
* Peers and gossip, update nudge: periodic tasks whose results are only listed.
* LiveKit rooms and tokens: calls to an external server, no state here.
* The JWKS cache of the OAuth providers: a cached key set behind a library's check.
* Island identity, configuration, capabilities, mentions, wire types, redaction,
  errors, deployment scripts: input, output and formatting without a protocol.
* WebAuthn, OAuth providers, Ed25519 - the libraries' business: a valid signature is
  membership in a set.
* Parts of modelled components: in `SignIn` there is one provider (GitHub, without
  PKCE towards it), `display_name` is left out, and `/login` and `/refresh`, which only
  read, are no actions; listings (communities, direct messages, keys, reports) only
  read; the retention purge is not a request.
