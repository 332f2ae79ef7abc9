---------------------------- MODULE FcmAuthProofs ---------------------------
(***************************************************************************)
(* The four action properties of the FCM auth machine for any number of    *)
(* concurrent sends, any token lifetimes and any windows.  SilenceIsSilent *)
(* follows from the actions alone; the others need to know how the tokens  *)
(* and the times of the sends in flight relate to the phase.               *)
(***************************************************************************)
EXTENDS FcmAuth, TLAPS

\* The clock is never behind a time that was read from it.
Clocked ==
    /\ now \in Nat /\ st.since \in Nat /\ flightAt \in Nat /\ lapsed \in Nat
    /\ sentAt \in [Senders -> Nat]
    /\ st.since <= now /\ flightAt <= now /\ lapsed <= st.since
    /\ \A s \in Senders : sentAt[s] <= now

\* Tokens are numbered as they are issued; the cached one is not a refused one.
Issued ==
    /\ minted \in Nat
    /\ call \in [Senders -> {"idle", "waiting", "woken", "posted"}]
    /\ bearer \in [Senders -> 0..minted]
    /\ refused \subseteq 0..minted
    /\ st.phase = "Cached" => st.token \in (0..minted) \ refused

\* A mint is in flight only while there is no token, so no send is younger than it.
OneFlight ==
    flight = "flying" =>
        /\ st.phase \in {"Empty", "SendDenied"}
        /\ \A s \in Senders : call[s] = "posted" => sentAt[s] <= flightAt

\* A send with an older token began before the cached one was issued.
OlderIsEarlier ==
    st.phase = "Cached" =>
        \A s \in Senders :
            call[s] = "posted" /\ bearer[s] # st.token => sentAt[s] < st.since

IInv == Clocked /\ Issued /\ OneFlight /\ OlderIsEarlier

-----------------------------------------------------------------------------
\* Tick keeps the state or ends a phase whose deadline has passed.
LEMMA TickIs ==
    \/ Tick = st
    \/ /\ st.phase # "Empty" /\ now >= st.until
       /\ Tick.phase = "Empty" /\ Tick.since = now
BY DEF Tick, Enter

\* A fresh island has no token, no send and no history.
LEMMA InitIInv == Init => IInv
BY DEF Init, IInv, Clocked, Issued, OneFlight, OlderIsEarlier, NoToken

\* The start of every call.
LEMMA TickedStep ==
    ASSUME Clocked, Ticked
    PROVE  /\ now' = now /\ refused' = refused
           /\ st' = Tick /\ st'.since \in Nat /\ st'.since <= now
           /\ lapsed' \in Nat /\ lapsed' <= st'.since
BY TickIs DEF Ticked, Clocked

LEMMA CallHaveStep ==
    ASSUME IInv, NEW s \in Senders, CallHave(s)
    PROVE  IInv'
<1>1. Tick = st /\ st.phase = "Cached"
  BY TickIs DEF CallHave
<1>2. /\ now' = now /\ refused' = refused /\ st' = st
      /\ lapsed' \in Nat /\ lapsed' <= st.since
  BY <1>1, TickedStep DEF CallHave, IInv
<1>3. UNCHANGED <<flight, flightAt, minted>>
  BY DEF CallHave, mint
<1>4. /\ call' = [call EXCEPT ![s] = "posted"]
      /\ bearer' = [bearer EXCEPT ![s] = st.token]
      /\ sentAt' = [sentAt EXCEPT ![s] = now]
  BY <1>1 DEF CallHave, Post
<1>5. Clocked'
  BY <1>2, <1>3, <1>4 DEF IInv, Clocked
<1>6. Issued'
  BY <1>1, <1>2, <1>3, <1>4 DEF IInv, Issued
<1>7. OneFlight'
  BY <1>1, <1>2, <1>3 DEF IInv, OneFlight
<1>8. OlderIsEarlier'
  BY <1>1, <1>2, <1>4 DEF IInv, Issued, Clocked, OlderIsEarlier
<1>9. QED
  BY <1>5, <1>6, <1>7, <1>8 DEF IInv

LEMMA CallSilentStep ==
    ASSUME IInv, NEW s \in Senders, CallSilent(s)
    PROVE  IInv'
<1>1. st' = st /\ st.phase \in {"MintBackoff", "SendDenied"}
  BY TickIs DEF CallSilent, Ticked
<1>2. now' = now /\ refused' = refused /\ lapsed' \in Nat /\ lapsed' <= st.since
  BY <1>1, TickedStep DEF CallSilent, IInv
<1>3. UNCHANGED <<flight, flightAt, minted, call, bearer, sentAt>>
  BY DEF CallSilent, mint, sends
<1>4. QED
  BY <1>1, <1>2, <1>3 DEF IInv, Clocked, Issued, OneFlight, OlderIsEarlier

LEMMA CallMintStep ==
    ASSUME IInv, NEW s \in Senders, CallMint(s)
    PROVE  IInv'
<1>1. st'.phase = "Empty" /\ now' = now /\ refused' = refused
  BY TickedStep DEF CallMint, IInv, Ticked
<1>2. Clocked'
  BY TickedStep DEF CallMint, IInv, Clocked
<1>3. Issued'
  BY <1>1 DEF CallMint, IInv, Issued
<1>4. OneFlight'
  BY <1>1 DEF CallMint, IInv, Clocked, Issued, OneFlight
<1>5. QED
  BY <1>1, <1>2, <1>3, <1>4 DEF IInv, OlderIsEarlier

\* The answer of the token endpoint comes after every send in flight began.
LEMMA MintStep ==
    ASSUME IInv, MintAnswered \/ MintFailed
    PROVE  IInv'
<1>1. /\ flight = "flying" /\ flight' = "none"
      /\ UNCHANGED <<now, flightAt, bearer, sentAt, refused, lapsed>>
      /\ call' = [s \in Senders |-> IF call[s] = "waiting" THEN "woken" ELSE call[s]]
  BY DEF MintAnswered, MintFailed, WakeWaiters, past
<1>2. \A s \in Senders : call'[s] = "posted" <=> call[s] = "posted"
  BY <1>1 DEF IInv, Issued
<1>3. call' \in [Senders -> {"idle", "waiting", "woken", "posted"}]
  BY <1>1 DEF IInv, Issued
<1>4. \/ st' = st /\ minted' \in {minted, minted + 1}
      \/ st'.phase = "MintBackoff" /\ st'.since = now /\ minted' = minted
      \/ /\ now > flightAt /\ minted' = minted + 1
         /\ st'.phase = "Cached" /\ st'.since = now /\ st'.token = minted'
  BY DEF MintAnswered, MintFailed, OnMinted, OnMintFailed, UnlessDenied, Enter
<1>5. Clocked'
  BY <1>1, <1>4 DEF IInv, Clocked
<1>6. Issued'
  BY <1>1, <1>3, <1>4 DEF IInv, Issued, OneFlight
<1>7. OlderIsEarlier'
  BY <1>1, <1>2, <1>4 DEF IInv, Clocked, OneFlight, OlderIsEarlier
<1>8. QED
  BY <1>1, <1>5, <1>6, <1>7 DEF IInv, OneFlight

LEMMA ResumeStep ==
    ASSUME IInv, NEW s \in Senders, Resume(s)
    PROVE  IInv'
<1>1. UNCHANGED <<now, st, flight, flightAt, minted, refused, lapsed>>
  BY DEF Resume, mint, past
<1>2. CASE st.phase = "Cached" /\ Post(s, st.token)
  BY <1>1, <1>2 DEF Post, IInv, Clocked, Issued, OneFlight, OlderIsEarlier
<1>3. CASE st.phase # "Cached" /\ Return(s)
  BY <1>1, <1>3 DEF Return, NoToken, IInv, Clocked, Issued, OneFlight, OlderIsEarlier
<1>4. QED
  BY <1>2, <1>3 DEF Resume

\* What the answer to a send may do to the state.
LEMMA AnswerIs ==
    ASSUME NEW s \in Senders, Answered(s)
    PROVE  /\ \/ refused' = refused
              \/ refused' = refused \cup {bearer[s]} /\ st' = OnRefused(bearer[s])
           /\ \/ st' = st
              \/ st'.phase = st.phase /\ st'.token = st.token /\ st'.since = st.since
              \/ st'.phase = "SendDenied" /\ st'.since = now /\ ~(sentAt[s] < st.since)
              \/ /\ st'.phase = "Empty" /\ st'.since = now
                 /\ st.phase = "Cached" /\ st.token = bearer[s]
BY DEF Answered, OnDelivered, OnDenied, OnRefused, UnlessDenied, Enter

LEMMA AnsweredStep ==
    ASSUME IInv, NEW s \in Senders, Answered(s)
    PROVE  IInv'
<1>1. UNCHANGED <<now, flight, flightAt, minted, lapsed>> /\ Return(s) /\ call[s] = "posted"
  BY DEF Answered, mint
<1>2. Clocked'
  BY <1>1, AnswerIs DEF IInv, Clocked, Return
<1>3. Issued'
  <2>1. st'.phase = "Cached" => st'.token \in (0..minted) \ refused'
    <3>1. CASE refused' = refused
      BY <3>1, AnswerIs DEF IInv, Issued
    <3>2. CASE refused' = refused \cup {bearer[s]} /\ st' = OnRefused(bearer[s])
      BY <3>2 DEF IInv, Issued, OnRefused, Enter
    <3>3. QED
      BY <3>1, <3>2, AnswerIs
  <2>2. refused' \subseteq 0..minted
    <3>1. bearer[s] \in 0..minted /\ refused \subseteq 0..minted
      BY DEF IInv, Issued
    <3>2. refused' = refused \/ refused' = refused \cup {bearer[s]}
      BY AnswerIs
    <3>3. QED
      BY <3>1, <3>2
  <2>3. QED
    BY <1>1, <2>1, <2>2 DEF IInv, Issued, Return, NoToken
<1>4. OneFlight' /\ OlderIsEarlier'
  BY <1>1, AnswerIs DEF IInv, Issued, Clocked, OneFlight, OlderIsEarlier, Return
<1>5. QED
  BY <1>2, <1>3, <1>4 DEF IInv

LEMMA NextIInv == IInv /\ [Next]_vars => IInv'
<1>1. SUFFICES ASSUME IInv, [Next]_vars PROVE IInv'
  OBVIOUS
<1>2. ASSUME NEW s \in Senders, AnsweredAside(s) PROVE IInv'
  BY <1>1, <1>2 DEF AnsweredAside, Return, NoToken, mint, past,
                    IInv, Clocked, Issued, OneFlight, OlderIsEarlier
<1>3. CASE Advance
  BY <1>1, <1>3 DEF Advance, mint, sends, past, IInv, Clocked, Issued, OneFlight, OlderIsEarlier
<1>4. CASE UNCHANGED vars
  BY <1>1, <1>4 DEF vars, mint, sends, past, IInv, Clocked, Issued, OneFlight, OlderIsEarlier
<1>5. QED
  BY <1>1, <1>2, <1>3, <1>4, CallHaveStep, CallSilentStep, CallMintStep, MintStep,
     ResumeStep, AnsweredStep DEF Next

-----------------------------------------------------------------------------
\* Who posts, and with what.
LEMMA PostIs ==
    ASSUME Issued, [Next]_vars, NEW s \in Senders, Posts(s)
    PROVE  st.phase = "Cached" /\ bearer'[s] = st.token
<1>1. ASSUME NEW r \in Senders, CallHave(r) PROVE st.phase = "Cached" /\ bearer'[s] = st.token
  <2>1. s = r
    BY <1>1 DEF CallHave, Post, Posts, Issued
  <2>2. QED
    BY <1>1, <2>1, TickIs DEF CallHave, Post, Issued
<1>2. ASSUME NEW r \in Senders, Resume(r) PROVE st.phase = "Cached" /\ bearer'[s] = st.token
  BY <1>2 DEF Resume, Post, Return, Posts, Issued
<1>3. ASSUME NEW r \in Senders, CallSilent(r) \/ CallMint(r) \/ Answered(r) \/ AnsweredAside(r)
      PROVE  FALSE
  BY <1>3 DEF CallSilent, CallMint, Answered, AnsweredAside, Return, Posts, Issued, sends
<1>4. ~(MintAnswered \/ MintFailed \/ Advance \/ UNCHANGED vars)
  BY DEF MintAnswered, MintFailed, WakeWaiters, Advance, vars, sends, Posts, Issued
<1>5. QED
  BY <1>1, <1>2, <1>3, <1>4 DEF Next

\* A window is silent for every sender, the ones that waited on a mint included.
THEOREM WindowsAreSilent == Spec => SilenceIsSilent
<1> DEFINE Act == Window =>
                    /\ \A s \in Senders : ~Posts(s)
                    /\ flight = "none" => flight' = "none"
<1>1. ASSUME IInv, [Next]_vars PROVE Act
  <2>1. SUFFICES ASSUME Window
                 PROVE  /\ \A s \in Senders : ~Posts(s)
                        /\ flight = "none" => flight' = "none"
    OBVIOUS
  <2>2. \A s \in Senders : ~Posts(s)
    BY <1>1, <2>1, PostIs DEF IInv, Window
  <2>3. ASSUME NEW s \in Senders, CallMint(s) PROVE FALSE
    BY <2>1, <2>3 DEF CallMint, Tick, Window
  <2>4. flight = "none" => flight' = "none"
    BY <1>1, <2>3 DEF Next, CallHave, CallSilent, Resume, Answered, AnsweredAside,
                      MintAnswered, MintFailed, Advance, mint, vars
  <2>5. QED
    BY <2>2, <2>4
<1>2. QED
  BY InitIInv, NextIInv, <1>1, PTL DEF Spec, SilenceIsSilent

\* The 403s of one ring open one window and count one strike.
THEOREM OneRingOneStrike == Spec => DenialsCoalesce
<1> DEFINE Act == st.phase # "SendDenied" /\ st'.phase = "SendDenied" =>
                    \E s \in Senders : Answers(s) /\ sentAt[s] >= lapsed
<1>1. ASSUME IInv, [Next]_vars PROVE Act
  <2>1. SUFFICES ASSUME st.phase # "SendDenied", st'.phase = "SendDenied"
                 PROVE  \E s \in Senders : Answers(s) /\ sentAt[s] >= lapsed
    OBVIOUS
  <2>2. ASSUME NEW s \in Senders, Answered(s) PROVE Answers(s) /\ sentAt[s] >= lapsed
    <3>1. Answers(s)
      BY <1>1, <2>2 DEF Answered, Return, Answers, IInv, Issued
    <3>2. ~(sentAt[s] < st.since)
      BY <2>1, <2>2, AnswerIs
    <3>3. QED
      BY <1>1, <3>1, <3>2 DEF IInv, Clocked
  <2>3. ASSUME NEW s \in Senders, CallHave(s) \/ CallSilent(s) \/ CallMint(s) PROVE FALSE
    BY <2>1, <2>3, TickIs DEF CallHave, CallSilent, CallMint, Ticked
  <2>4. ~(MintAnswered \/ MintFailed)
    BY <2>1 DEF MintAnswered, MintFailed, OnMinted, OnMintFailed, UnlessDenied, Enter
  <2>5. QED
    BY <1>1, <2>1, <2>2, <2>3, <2>4 DEF Next, Resume, AnsweredAside, Advance, vars
<1>2. QED
  BY InitIInv, NextIInv, <1>1, PTL DEF Spec, DenialsCoalesce

\* Late news of an older token never costs the island its newer one.
THEOREM NewerTokenSurvives == Spec => GoodTokenIsKept
<1> DEFINE Act == st.phase = "Cached" /\ <<st'.phase, st'.token>> # <<st.phase, st.token>> =>
                    \/ now >= st.until
                    \/ \E s \in Senders : Answers(s) /\ bearer[s] = st.token
<1>1. ASSUME IInv, [Next]_vars PROVE Act
  <2>1. SUFFICES ASSUME st.phase = "Cached", ~(st'.phase = st.phase /\ st'.token = st.token)
                 PROVE  \/ now >= st.until
                        \/ \E s \in Senders : Answers(s) /\ bearer[s] = st.token
    OBVIOUS
  <2>2. ASSUME NEW s \in Senders, Answered(s) PROVE Answers(s) /\ bearer[s] = st.token
    <3>1. Answers(s) /\ call[s] = "posted"
      BY <1>1, <2>2 DEF Answered, Return, Answers, IInv, Issued
    <3>2. bearer[s] = st.token
      BY <1>1, <2>1, <2>2, <3>1, AnswerIs DEF IInv, OlderIsEarlier
    <3>3. QED
      BY <3>1, <3>2
  <2>3. ASSUME NEW s \in Senders, CallHave(s) \/ CallSilent(s) \/ CallMint(s)
        PROVE  now >= st.until
    BY <2>1, <2>3, TickIs DEF CallHave, CallSilent, CallMint, Ticked
  <2>4. ~(MintAnswered \/ MintFailed)
    BY <1>1, <2>1 DEF MintAnswered, MintFailed, IInv, OneFlight
  <2>5. QED
    BY <1>1, <2>1, <2>2, <2>3, <2>4 DEF Next, Resume, AnsweredAside, Advance, vars
<1>2. QED
  BY InitIInv, NextIInv, <1>1, PTL DEF Spec, GoodTokenIsKept

\* A bearer a 401 has refused is never sent again.
THEOREM RefusedStaysOut == Spec => RefusedIsNotReused
<1> DEFINE Act == \A s \in Senders : Posts(s) => bearer'[s] \notin refused
<1>1. ASSUME IInv, [Next]_vars PROVE Act
  BY <1>1, PostIs DEF IInv, Issued
<1>2. QED
  BY InitIInv, NextIInv, <1>1, PTL DEF Spec, RefusedIsNotReused
=============================================================================
