------------------------------ MODULE FcmAuth -------------------------------
(***************************************************************************)
(* The island's authority to push to Android (domain/fcm.py): one          *)
(* immutable AuthState, one pure transition function, a single mint in     *)
(* flight that all callers share, and sends whose answers come back late   *)
(* and in any order.  The clock is the monotonic one: it never runs back,  *)
(* two readings may be equal, and an answer of Google's takes at least one *)
(* tick to come.                                                           *)
(***************************************************************************)
EXTENDS Naturals, FiniteSets

CONSTANTS
    Senders,       \* concurrent calls of send(), one per Android device of a ring
    Lifetimes,     \* max(expires_in - _ACCESS_TOKEN_SKEW_SECONDS, 0), in ticks
    FlatBackoff,   \* _OAUTH_FAILURE_BACKOFF_SECONDS
    GrantBase,     \* _GRANT_BACKOFF_BASE_SECONDS
    DeniedBase,    \* _DENIED_BACKOFF_BASE_SECONDS
    Cap,           \* _BACKOFF_CAP_SECONDS
    MaxNow         \* bound on the clock

ASSUME FcmConstants ==
    /\ Lifetimes \subseteq Nat
    /\ {FlatBackoff, GrantBase, DeniedBase, Cap} \subseteq Nat \ {0}
    /\ MaxNow \in Nat

VARIABLES
    now,         \* time.monotonic()
    st,          \* _state: AuthState
    flight,      \* _mint_flight: "none" or "flying" (a done task counts as none)
    flightAt,    \* when the mint in flight was posted
    minted,      \* tokens Google has issued: 1..minted
    call,        \* a sender: "idle", "waiting" and "woken" (on the mint), "posted"
    bearer,      \* token a posted send carries
    sentAt,      \* sent_at of a posted send
    refused,     \* bearers a 401 has refused (history)
    lapsed       \* when the last denial window ended (history)

mint == <<flight, flightAt, minted>>
sends == <<call, bearer, sentAt>>
past == <<refused, lapsed>>
vars == <<now, st, mint, sends, past>>

NoToken == 0

-----------------------------------------------------------------------------
(* transition(state, event, now), one operator per event that changes something. *)

Enter(phase, token, until, strikes) ==
    [phase |-> phase, token |-> token, until |-> until, strikes |-> strikes, since |-> now]

Grow(base, strikes) ==
    LET exponent == IF strikes <= 1 THEN 0 ELSE IF strikes > 17 THEN 16 ELSE strikes - 1
        grown == base * 2 ^ exponent
    IN  IF grown > Cap THEN Cap ELSE grown

\* Mutant: the phase is replaced and keeps the time its predecessor was entered.
TickKeepsSince == IF st.phase # "Empty" /\ now >= st.until
                  THEN [st EXCEPT !.phase = "Empty", !.token = NoToken, !.until = 0]
                  ELSE st

\* A deadline that has passed ends its phase, whichever it is.
Tick == IF st.phase # "Empty" /\ now >= st.until
        THEN Enter("Empty", NoToken, 0, st.strikes)
        ELSE st

\* A denial is ended by time only: while it lasts every other event is kept out.
UnlessDenied(next) == IF st.phase = "SendDenied" THEN st ELSE next

OnMinted(token, life) == UnlessDenied(Enter("Cached", token, now + life, st.strikes))

OnMintFailed(window) == UnlessDenied(Enter("MintBackoff", NoToken, now + window, st.strikes + 1))

\* Mutant: an answer of an earlier phase counts.
OnDeniedStale(sent) ==
    UnlessDenied(Enter("SendDenied", NoToken,
                       now + Grow(DeniedBase, st.strikes + 1), st.strikes + 1))

OnDenied(sent) ==
    IF sent < st.since THEN st
    ELSE UnlessDenied(Enter("SendDenied", NoToken,
                            now + Grow(DeniedBase, st.strikes + 1), st.strikes + 1))

\* Mutants: a 401 clears whatever is cached; a 401 clears nothing.
OnRefusedAny(token) == IF st.phase = "Cached" THEN Enter("Empty", NoToken, 0, st.strikes) ELSE st
OnRefusedKept(token) == st

OnRefused(token) ==
    IF st.phase = "Cached" /\ st.token = token
    THEN Enter("Empty", NoToken, 0, st.strikes)
    ELSE st

OnDelivered ==
    IF st.phase \in {"Empty", "Cached"}
    THEN [phase |-> st.phase, token |-> st.token, until |-> st.until,
          strikes |-> 0, since |-> st.since]
    ELSE st

-----------------------------------------------------------------------------
(* _access_token and send *)

Post(s, token) ==
    /\ call' = [call EXCEPT ![s] = "posted"]
    /\ bearer' = [bearer EXCEPT ![s] = token]
    /\ sentAt' = [sentAt EXCEPT ![s] = now]

Return(s) ==
    /\ call' = [call EXCEPT ![s] = "idle"]
    /\ bearer' = [bearer EXCEPT ![s] = NoToken]
    /\ sentAt' = [sentAt EXCEPT ![s] = 0]

\* The Tick every call starts with; the history notes where a denial ended.
Ticked ==
    /\ st' = Tick
    /\ lapsed' = IF st.phase = "SendDenied" /\ Tick.phase # "SendDenied" THEN now ELSE lapsed
    /\ UNCHANGED <<now, refused>>

\* Have: the cached token is used without an await in between.
CallHave(s) ==
    /\ call[s] = "idle" /\ Ticked
    /\ Tick.phase = "Cached"
    /\ Post(s, Tick.token)
    /\ UNCHANGED mint

\* Silent: TRANSIENT for the device, and nothing leaves the island.
CallSilent(s) ==
    /\ call[s] = "idle" /\ Ticked
    /\ Tick.phase \in {"MintBackoff", "SendDenied"}
    /\ UNCHANGED <<mint, sends>>

\* Mint: the first caller starts the flight, the others wait on the same one.
CallMint(s) ==
    /\ call[s] = "idle" /\ Ticked
    /\ Tick.phase = "Empty"
    /\ call' = [call EXCEPT ![s] = "waiting"]
    /\ flight' = "flying"
    /\ flightAt' = IF flight = "flying" THEN flightAt ELSE now
    /\ UNCHANGED <<minted, bearer, sentAt>>

\* Mutant: one of the callers that share the flight is woken.
WakeOneWaiter ==
    LET first == CHOOSE s \in Senders : call[s] = "waiting"
    IN  call' = [call EXCEPT ![first] = "woken"]

\* The flight is done: whoever waited on it is scheduled.
WakeWaiters ==
    call' = [s \in Senders |-> IF call[s] = "waiting" THEN "woken" ELSE call[s]]

\* _mint_once: its one event is applied and the task is done, in one step.
MintAnswered ==
    /\ flight = "flying" /\ now > flightAt
    /\ \/ /\ minted' = minted + 1
          /\ \E life \in Lifetimes : st' = OnMinted(minted', life)
       \/ /\ st' = OnMintFailed(Grow(GrantBase, st.strikes + 1))
          /\ UNCHANGED minted
    /\ flight' = "none" /\ WakeWaiters
    /\ UNCHANGED <<now, flightAt, bearer, sentAt, past>>

\* An unusable credential or an unreadable answer backs off for a flat time; a
\* transport error, a timeout, a 429 or a 5xx (Blinked) says nothing about the key.
MintFailed ==
    /\ flight = "flying"
    /\ \/ st' = OnMintFailed(FlatBackoff)
       \/ UNCHANGED st
    /\ flight' = "none" /\ WakeWaiters
    /\ UNCHANGED <<now, flightAt, minted, bearer, sentAt, past>>

\* Mutant: the waiters take the token the mint returned, not the one the state has.
ResumeWithMint(s) ==
    /\ call[s] = "woken"
    /\ IF minted > 0 THEN Post(s, minted)
       ELSE Return(s)
    /\ UNCHANGED <<now, st, mint, past>>

\* A waiter reads the state, some time after the flight was done and without a Tick.
Resume(s) ==
    /\ call[s] = "woken"
    /\ IF st.phase = "Cached" THEN Post(s, st.token)
       ELSE Return(s)
    /\ UNCHANGED <<now, st, mint, past>>

\* classify_send and _apply: the auth event of an answer.
Answered(s) ==
    /\ call[s] = "posted" /\ now > sentAt[s]
    /\ \/ st' = OnDelivered /\ UNCHANGED refused
       \/ st' = OnDenied(sentAt[s]) /\ UNCHANGED refused
       \/ st' = OnRefused(bearer[s]) /\ refused' = refused \cup {bearer[s]}
    /\ Return(s)
    /\ UNCHANGED <<now, mint, lapsed>>

\* Blinked (transport error included), DeviceLocal and Unclassified change nothing.
AnsweredAside(s) ==
    /\ call[s] = "posted"
    /\ Return(s)
    /\ UNCHANGED <<now, st, mint, past>>

Advance ==
    /\ now < MaxNow /\ now' = now + 1
    /\ UNCHANGED <<st, mint, sends, past>>

-----------------------------------------------------------------------------
Init ==
    /\ now = 0
    /\ st = [phase |-> "Empty", token |-> NoToken, until |-> 0, strikes |-> 0, since |-> 0]
    /\ flight = "none" /\ flightAt = 0 /\ minted = 0
    /\ call = [s \in Senders |-> "idle"]
    /\ bearer = [s \in Senders |-> NoToken]
    /\ sentAt = [s \in Senders |-> 0]
    /\ refused = {} /\ lapsed = 0

Next ==
    \/ \E s \in Senders : \/ CallHave(s) \/ CallSilent(s) \/ CallMint(s) \/ Resume(s)
                          \/ Answered(s) \/ AnsweredAside(s)
    \/ MintAnswered \/ MintFailed \/ Advance

Spec == Init /\ [][Next]_vars

\* asyncio runs a scheduled waiter; asyncio.wait_for ends a mint after _TIMEOUT_SECONDS.
Fairness ==
    /\ WF_vars(MintAnswered \/ MintFailed)
    /\ \A s \in Senders : WF_vars(Resume(s))

FairSpec == Spec /\ Fairness

-----------------------------------------------------------------------------
(* Properties *)

Phases == {"Empty", "Cached", "MintBackoff", "SendDenied"}

TypeOK ==
    /\ now \in 0..MaxNow
    /\ st \in [phase : Phases, token : Nat, until : Nat, strikes : Nat, since : 0..MaxNow]
    /\ flight \in {"none", "flying"} /\ flightAt \in 0..MaxNow /\ minted \in Nat
    /\ call \in [Senders -> {"idle", "waiting", "woken", "posted"}]
    /\ bearer \in [Senders -> Nat] /\ sentAt \in [Senders -> 0..MaxNow]
    /\ refused \subseteq Nat /\ lapsed \in 0..MaxNow

Posts(s) == call[s] # "posted" /\ call'[s] = "posted"

Answers(s) == call[s] = "posted" /\ call'[s] = "idle"

\* A back-off or a denial whose deadline has not come.
Window == st.phase \in {"MintBackoff", "SendDenied"} /\ ~(now >= st.until)

\* get: "Silent means: send nothing and mint nothing".  While a window runs no sender,
\* not even one that waited on a mint when it opened, posts to FCM, and no mint starts.
SilenceIsSilent ==
    [][ Window =>
          /\ \A s \in Senders : ~Posts(s)
          /\ flight = "none" => flight' = "none" ]_vars

\* "concurrent 403s from one ring COALESCE here: one fact, one strike": a denial window
\* is opened only by a send that began after the one before it ended, however late the
\* other answers of the earlier ring come.
DenialsCoalesce ==
    [][ st.phase # "SendDenied" /\ st'.phase = "SendDenied" =>
          \E s \in Senders : Answers(s) /\ sentAt[s] >= lapsed ]_vars

\* "a late 401 wiping a newer token": a token leaves the cache when it expires or on the
\* answer to a send that carried it, never on late news of an older token.
GoodTokenIsKept ==
    [][ st.phase = "Cached" /\ <<st'.phase, st'.token>> # <<st.phase, st.token>> =>
          \/ now >= st.until
          \/ \E s \in Senders : Answers(s) /\ bearer[s] = st.token ]_vars

\* "a 401 that never cleared the cache": once a 401 for a bearer is in, no send begins
\* with it.
RefusedIsNotReused ==
    [][ \A s \in Senders : Posts(s) => bearer'[s] \notin refused ]_vars

\* _mint_once is bounded "not only by the client": nobody waits on a mint for ever.
WaitersAreReleased ==
    \A s \in Senders : call[s] = "waiting" ~> call[s] # "waiting"
=============================================================================
