---------------------------- MODULE DevicesProofs ---------------------------
(***************************************************************************)
(* RegistrationSurvives for any users, tokens and number of concurrent     *)
(* wakes.  The invariant alone is not inductive: that a reap matches no    *)
(* working registration rests on what the verdicts in flight can say.      *)
(*                                                                         *)
(* BarredIsNotRung likewise: that nobody barred is rung rests on which     *)
(* bars a wake has already read.                                           *)
(***************************************************************************)
EXTENDS Devices, TLAPS

\* The part of TypeOK the argument uses.
Typed ==
    /\ clock \in Nat
    /\ row \in [Tokens -> [id : Nat, user : Users \cup {NoUser}, updated : Nat]]
    /\ died \in [Tokens -> Nat]
    /\ dlv \in [Wakes -> [Tokens -> Deliveries]]
    /\ holder \in [Tokens -> Users \cup {NoUser}]

\* No stamp is from the future, so a registration is newer than all there are.
Stamped ==
    /\ \A t \in Tokens : row[t].updated <= clock /\ died[t] <= clock
    /\ \A w \in Wakes, t \in Tokens : dlv[w][t].updated <= clock

\* A working registration has its row, and the token was registered after its last death.
Held ==
    \A t \in Tokens : holder[t] # NoUser =>
        /\ row[t] # NoRow /\ row[t].user = holder[t]
        /\ t \in valid /\ died[t] < row[t].updated

\* Apple's date is not later than the token's last death.
Dated ==
    \A w \in Wakes, t \in ApnsTokens : dlv[w][t].step = "dead" => dlv[w][t].since <= died[t]

\* Google's verdict is about a row that has not worked since it was read.
Undated ==
    \A w \in Wakes, t \in FcmTokens :
        dlv[w][t].step = "dead" /\ row[t].updated = dlv[w][t].updated => holder[t] = NoUser

IInv == Typed /\ Stamped /\ Held /\ Dated /\ Undated

-----------------------------------------------------------------------------
\* Every token is from one of the two providers.
LEMMA ApnsInTokens == ApnsTokens \subseteq Tokens
BY DEF Tokens

LEMMA FcmInTokens == FcmTokens \subseteq Tokens
BY DEF Tokens

\* Initially there is no row, no delivery and no holder.
LEMMA InitIInv == Init => IInv
BY DeviceConstants
   DEF Init, IInv, Typed, Stamped, Held, Dated, Undated, NoRow, NoDelivery, Deliveries, Tokens

\* A registration takes a stamp no delivery in flight has seen.
LEMMA RegisterStep ==
    ASSUME IInv, NEW u \in Users, NEW t \in Tokens, Register(u, t)
    PROVE  IInv'
<1> USE DeviceConstants DEF IInv, Register, Registered, NoRow, Tokens
<1>1. Typed'
  BY DEF Typed, wake, provider
<1>2. Stamped'
  BY DEF Typed, Stamped, Deliveries, wake, provider
<1>3. Held'
  BY DEF Typed, Stamped, Held, provider
<1>4. Dated'
  BY DEF Dated, wake, provider
<1>5. Undated'
  <2>1. SUFFICES ASSUME NEW w \in Wakes, NEW f \in FcmTokens,
                        dlv'[w][f].step = "dead", row'[f].updated = dlv'[w][f].updated
                 PROVE  holder'[f] = NoUser
    BY DEF Undated
  <2>2. dlv' = dlv /\ dlv[w][f].updated <= clock /\ dlv[w][f].updated \in Nat
    BY DEF wake, Stamped, Typed, Deliveries
  <2>3. f # t
    BY <2>1, <2>2 DEF Typed
  <2>4. QED
    BY <2>1, <2>2, <2>3 DEF Undated, Typed
<1>6. QED
  BY <1>1, <1>2, <1>3, <1>4, <1>5

\* A logout or a purge takes the rows of its own user only.
LEMMA ForgetStep ==
    ASSUME IInv, NEW u \in Users, NEW ts \in SUBSET Tokens, Forget(u, ts)
    PROVE  IInv'
<1> USE DeviceConstants DEF IInv, Forget, RowsOf, NoRow, Tokens
<1>1. Typed'
  BY DEF Typed, wake, provider
<1>2. Stamped'
  BY DEF Typed, Stamped, wake, provider
<1>3. Held'
  BY DEF Typed, Held, provider
<1>4. Dated'
  BY DEF Dated, wake, provider
<1>5. Undated'
  <2>1. SUFFICES ASSUME NEW w \in Wakes, NEW f \in FcmTokens,
                        dlv'[w][f].step = "dead", row'[f].updated = dlv'[w][f].updated
                 PROVE  holder'[f] = NoUser
    BY DEF Undated
  <2>2. dlv' = dlv
    BY DEF wake
  <2>3. CASE row'[f] = row[f]
    BY <2>1, <2>2, <2>3 DEF Undated, Typed
  <2>4. CASE f \in ts /\ row[f].user = u
    BY <2>4 DEF Held, Typed
  <2>5. QED
    BY <2>3, <2>4 DEF Typed
<1>6. QED
  BY <1>1, <1>2, <1>3, <1>4, <1>5

\* A death is dated later than everything and ends the working registration; a token
\* that comes back has no holder before it is registered again.
LEMMA ProviderStep ==
    ASSUME IInv, NEW t \in Tokens, TokenDies(t) \/ TokenReturns(t)
    PROVE  IInv'
<1> USE DeviceConstants DEF IInv
<1>1. CASE TokenDies(t)
  <2> USE <1>1 DEF TokenDies, db, wake, Tokens
  <2>1. Typed'
    BY DEF Typed
  <2>2. Stamped'
    BY DEF Typed, Stamped, Deliveries
  <2>3. Held'
    BY DEF Typed, Held
  <2>4. Dated'
    BY DEF Typed, Stamped, Dated, Deliveries
  <2>5. Undated'
    BY DEF Typed, Undated
  <2>6. QED
    BY <2>1, <2>2, <2>3, <2>4, <2>5
<1>2. CASE TokenReturns(t)
  BY <1>2 DEF TokenReturns, db, wake, Typed, Stamped, Held, Dated, Undated
<1>3. QED
  BY <1>1, <1>2

\* A step that leaves rows, tokens and holders alone and ends some wakes.
LEMMA OverStep ==
    ASSUME IInv, NEW ws \in SUBSET Wakes, Over(ws),
           UNCHANGED <<clock, row, valid, died, holder>>
    PROVE  IInv'
<1>1. \A w \in Wakes, t \in Tokens : dlv'[w][t] = dlv[w][t] \/ dlv'[w][t] = NoDelivery
  BY DEF Over
<1>2. Typed'
  BY DEF IInv, Typed, Over, NoDelivery, Deliveries
<1>3. Stamped'
  BY <1>1 DEF IInv, Typed, Stamped, NoDelivery, Deliveries
<1>4. Held' /\ Dated' /\ Undated'
  BY <1>1, ApnsInTokens, FcmInTokens DEF IInv, Held, Dated, Undated, NoDelivery
<1>5. QED
  BY <1>2, <1>3, <1>4 DEF IInv

\* plan_deliveries copies the stamps of the rows it read.
LEMMA PlanStep ==
    ASSUME IInv, NEW w \in Wakes, Plan(w)
    PROVE  IInv'
<1> DEFINE plan == {t \in Tokens : Sendable(w, t)}
<1>1. CASE Over({w})
  BY <1>1, OverStep DEF Plan, db, provider
<1>2. CASE dlv' = [dlv EXCEPT ![w] = [t \in Tokens |->
                       IF t \in plan
                       THEN [step |-> "planned", id |-> row[t].id,
                             updated |-> row[t].updated, since |-> 0]
                       ELSE NoDelivery]]
  <2>1. UNCHANGED <<clock, row, valid, died, holder>>
    BY DEF Plan, db, provider
  <2>2. Typed'
    BY <1>2, <2>1 DEF IInv, Typed, NoDelivery, Deliveries
  <2>3. \A v \in Wakes, t \in Tokens :
           \/ dlv'[v][t] = dlv[v][t]
           \/ dlv'[v][t].step # "dead" /\ dlv'[v][t].updated \in {0, row[t].updated}
    BY <1>2 DEF IInv, Typed, NoDelivery
  <2>4. Stamped'
    <3>1. \A t \in Tokens : row[t].updated \in Nat /\ row[t].updated <= clock /\ 0 <= clock
      BY DEF IInv, Typed, Stamped
    <3>2. QED
      BY <2>1, <2>3, <3>1 DEF IInv, Stamped
  <2>5. Held' /\ Dated' /\ Undated'
    BY <2>1, <2>3, ApnsInTokens, FcmInTokens DEF IInv, Held, Dated, Undated
  <2>6. QED
    BY <2>2, <2>4, <2>5 DEF IInv
<1>3. QED
  BY <1>1, <1>2 DEF Plan

\* A verdict of Apple's carries the date of the death; one of Google's is about a token
\* that nobody holds at that moment.
LEMMA DeliverStep ==
    ASSUME IInv, NEW w \in Wakes, NEW t \in Tokens, Deliver(w, t)
    PROVE  IInv'
<1>1. PICK step \in {"posted", "over", "dead"}, since \in Nat :
         /\ Step(w, t, step, since)
         /\ step = "dead" => /\ t \in ApnsTokens => since <= died[t]
                             /\ t \in FcmTokens => t \notin valid
  BY DeviceConstants
     DEF Deliver, Post, AnswerAlive, AnswerDeadApns, AnswerDeadFcm, IInv, Typed
<1>2. UNCHANGED <<clock, row, valid, died, holder>>
  BY <1>1 DEF Step, db, provider
<1>3. Typed'
  BY <1>1, <1>2 DEF IInv, Typed, Step, Deliveries
<1>4. \A v \in Wakes, x \in Tokens :
         /\ dlv'[v][x].updated = dlv[v][x].updated
         /\ \/ dlv'[v][x].step = dlv[v][x].step /\ dlv'[v][x].since = dlv[v][x].since
            \/ x = t /\ dlv'[v][x].step = step /\ dlv'[v][x].since = since
  BY <1>1 DEF IInv, Typed, Step, Deliveries
<1>5. Stamped' /\ Held'
  BY <1>2, <1>4 DEF IInv, Stamped, Held
<1>6. Dated'
  BY <1>1, <1>2, <1>4, ApnsInTokens DEF IInv, Dated
<1>7. Undated'
  BY <1>1, <1>2, <1>4, FcmInTokens DEF IInv, Held, Undated
<1>8. QED
  BY <1>3, <1>5, <1>6, <1>7 DEF IInv

\* What the reaper's WHERE matches is nobody's working registration.
LEMMA ReapsNoHeldRow ==
    ASSUME IInv, NEW w \in Wakes, NEW t \in Tokens, DeadStill(w, t)
    PROVE  holder[t] = NoUser
<1>1. CASE t \in ApnsTokens
  BY <1>1 DEF IInv, Typed, Held, Dated, DeadStill, Deliveries
<1>2. CASE t \in FcmTokens
  BY <1>2 DEF IInv, Undated, DeadStill
<1>3. QED
  BY <1>1, <1>2 DEF Tokens

LEMMA ReapStep ==
    ASSUME IInv, NEW w \in Wakes, Reap(w)
    PROVE  IInv'
<1>1. UNCHANGED <<clock, valid, died, holder>> /\ Over({w})
  BY DEF Reap, provider
<1>2. CASE UNCHANGED row
  BY <1>1, <1>2, OverStep
<1>3. CASE row' = [t \in Tokens |-> IF DeadStill(w, t) THEN NoRow ELSE row[t]]
  <2>1. \A t \in Tokens :
           row'[t] = row[t] \/ (row'[t] = NoRow /\ holder[t] = NoUser)
    BY <1>3, ReapsNoHeldRow
  <2>2. \A v \in Wakes, t \in Tokens : dlv'[v][t] = dlv[v][t] \/ dlv'[v][t] = NoDelivery
    BY <1>1 DEF Over
  <2>3. Typed'
    BY <1>1, <1>3 DEF IInv, Typed, Over, NoDelivery, Deliveries, NoRow
  <2>4. Stamped'
    <3>1. \A t \in Tokens : row'[t].updated <= clock
      BY <2>1 DEF IInv, Typed, Stamped, NoRow
    <3>2. \A v \in Wakes, t \in Tokens : dlv'[v][t].updated <= clock
      BY <2>2 DEF IInv, Typed, Stamped, NoDelivery
    <3>3. QED
      BY <1>1, <3>1, <3>2 DEF IInv, Stamped
  <2>5. Held'
    BY <1>1, <2>1 DEF IInv, Held
  <2>6. Dated' /\ Undated'
    BY <1>1, <2>1, <2>2, ApnsInTokens, FcmInTokens DEF IInv, Dated, Undated, NoDelivery
  <2>7. QED
    BY <2>3, <2>4, <2>5, <2>6 DEF IInv
<1>4. QED
  BY <1>2, <1>3 DEF Reap

\* One case per operation.
LEMMA NextIInv == IInv /\ [Next]_vars => IInv'
<1>1. SUFFICES ASSUME IInv, [Next]_vars PROVE IInv'
  OBVIOUS
<1>2. ASSUME NEW u \in Users, NEW t \in Tokens, DeviceStep(u, t) PROVE IInv'
  BY <1>1, <1>2, RegisterStep, ForgetStep DEF DeviceStep, Unregister
<1>3. ASSUME NEW u \in Users, PurgeUserDevices(u) PROVE IInv'
  BY <1>1, <1>3, ForgetStep DEF PurgeUserDevices
<1>4. ASSUME NEW t \in Tokens, TokenDies(t) \/ TokenReturns(t) PROVE IInv'
  BY <1>1, <1>4, ProviderStep
<1>5. ASSUME UNCHANGED <<clock, row, valid, died, dlv, holder>> PROVE IInv'
  BY <1>1, <1>5 DEF IInv, Typed, Stamped, Held, Dated, Undated
<1>6. ASSUME NEW u \in Callees, NEW b \in Bars, Bar(u, b) \/ Unbar(u, b) PROVE IInv'
  BY <1>5, <1>6 DEF Bar, Unbar, provider, wake
<1>7. ASSUME NEW w \in Wakes, WakeStep(w) PROVE IInv'
  <2>1. ASSUME NEW u \in Callees, NEW kind \in {"invite", "end"}, Schedule(w, u, kind) PROVE IInv'
    BY <1>5, <2>1 DEF Schedule, db, provider
  <2>2. CASE ReadBar(w)
    BY <1>1, <1>5, <2>2, OverStep DEF ReadBar, db, provider
  <2>3. QED
    BY <1>1, <1>7, <2>1, <2>2, PlanStep, ReapStep, DeliverStep DEF WakeStep
<1>8. CASE Restart
  BY <1>1, <1>8, OverStep DEF Restart, db, provider
<1>9. CASE UNCHANGED vars
  BY <1>5, <1>9 DEF vars, db, provider, wake
<1>10. QED
  BY <1>1, <1>2, <1>3, <1>4, <1>6, <1>7, <1>8, <1>9 DEF Next

\* Whatever dies, returns, changes hands and is reported dead, and however many wakes
\* are in flight: the reaper and the logouts leave every working registration its row.
THEOREM WorkingRegistrationsSurvive == Spec => []RegistrationSurvives
<1>1. IInv => RegistrationSurvives
  BY DEF IInv, Held, RegistrationSurvives
<1>2. QED
  BY InitIInv, NextIInv, <1>1, PTL DEF Spec

-----------------------------------------------------------------------------
(* Who is rung *)

\* Bars are sets of the names BarOrder lists; a wake has one callee.
WakeTyped ==
    /\ bars \in [Callees -> SUBSET Bars] /\ standing \in [Wakes -> SUBSET Bars]
    /\ pc \in [Wakes -> {"none", "checking", "sending"}] /\ DOMAIN check = Wakes
    /\ DOMAIN whom = Wakes /\ DOMAIN dlv = Wakes
    /\ \A w \in Wakes : DOMAIN dlv[w] = Tokens

\* What stood since a wake was scheduled still stands, and its checks have passed no
\* bar that stood; nothing is delivered before the last of them.
Checked(w) ==
    /\ pc[w] # "none" => whom[w] \in Callees /\ standing[w] \subseteq bars[whom[w]]
    /\ pc[w] = "checking" =>
          check[w] \in 1..5 /\ \A k \in 1..4 : k < check[w] => BarOrder[k] \notin standing[w]
    /\ pc[w] = "sending" => standing[w] = {}
    /\ pc[w] # "sending" => \A t \in Tokens : dlv[w][t].step = "none"

RungInv == WakeTyped /\ \A w \in Wakes : Checked(w)

\* A wake that is over has nothing to keep.
LEMMA OverKeepsRung ==
  ASSUME RungInv, NEW ws \in SUBSET Wakes, Over(ws), UNCHANGED bars PROVE RungInv'
<1>1. WakeTyped'
  BY DEF RungInv, WakeTyped, Over
<1>2. ASSUME NEW w \in Wakes PROVE Checked(w)'
  <2>1. CASE w \in ws
    <3>1. pc'[w] = "none" /\ \A t \in Tokens : dlv'[w][t].step = "none"
      BY <2>1 DEF Over, NoDelivery
    <3>2. QED
      BY <3>1 DEF Checked
  <2>2. CASE w \notin ws
    <3>1. /\ pc'[w] = pc[w] /\ check'[w] = check[w] /\ whom'[w] = whom[w]
          /\ dlv'[w] = dlv[w] /\ standing'[w] = standing[w]
      BY <2>2 DEF Over
    <3>2. QED
      BY <3>1 DEF RungInv, Checked
  <2>3. QED
    BY <2>1, <2>2
<1>3. QED
  BY <1>1, <1>2 DEF RungInv

\* A lifted bar stands no longer; a new one was not there when the wake was scheduled.
LEMMA BarKeepsRung ==
  ASSUME RungInv, NEW u \in Callees, NEW b \in Bars, Bar(u, b) \/ Unbar(u, b)
  PROVE  RungInv'
<1>1. UNCHANGED wake
  BY DEF Bar, Unbar
<1>2. WakeTyped'
  BY <1>1 DEF RungInv, WakeTyped, Bar, Unbar, wake
<1>3. ASSUME NEW w \in Wakes PROVE Checked(w)'
  <2>1. standing'[w] \in SUBSET standing[w]
    BY DEF Bar, Unbar, RungInv, WakeTyped
  <2>2. ASSUME pc[w] # "none" PROVE standing'[w] \subseteq bars'[whom[w]]
    <3>1. whom[w] \in Callees /\ standing[w] \subseteq bars[whom[w]]
      BY <2>2 DEF RungInv, Checked
    <3>2. CASE Bar(u, b)
      <4>1. bars[whom[w]] \subseteq bars'[whom[w]]
        BY <3>1, <3>2 DEF Bar, RungInv, WakeTyped
      <4>2. QED
        BY <2>1, <3>1, <4>1
    <3>3. CASE Unbar(u, b) /\ whom[w] = u
      <4>1. standing'[w] = standing[w] \ {b} /\ bars'[u] = bars[u] \ {b}
        BY <3>3 DEF Unbar, RungInv, WakeTyped
      <4>2. QED
        BY <3>1, <3>3, <4>1
    <3>4. CASE Unbar(u, b) /\ whom[w] # u
      <4>1. bars'[whom[w]] = bars[whom[w]]
        BY <3>1, <3>4 DEF Unbar, RungInv, WakeTyped
      <4>2. QED
        BY <2>1, <3>1, <4>1
    <3>5. QED
      BY <3>2, <3>3, <3>4
  <2>3. QED
    BY <1>1, <2>1, <2>2 DEF RungInv, Checked, wake
<1>4. QED
  BY <1>2, <1>3 DEF RungInv

\* A wake is scheduled with every bar ahead of it.
LEMMA ScheduleKeepsRung ==
  ASSUME RungInv, NEW v \in Wakes, NEW u \in Callees, NEW kind, Schedule(v, u, kind)
  PROVE  RungInv'
<1>1. WakeTyped'
  BY DEF RungInv, WakeTyped, Schedule, db
<1>2. ASSUME NEW w \in Wakes PROVE Checked(w)'
  <2>1. CASE w = v
    <3>1. /\ pc[w] = "none" /\ pc'[w] = "checking" /\ check'[w] = 1 /\ whom'[w] = u
          /\ standing'[w] = bars[u] /\ UNCHANGED <<dlv, bars>>
      BY <2>1 DEF Schedule, RungInv, WakeTyped, db
    <3>2. \A t \in Tokens : dlv[w][t].step = "none"
      BY <3>1 DEF RungInv, Checked
    <3>3. QED
      BY <3>1, <3>2 DEF Checked
  <2>2. CASE w # v
    <3>1. /\ pc'[w] = pc[w] /\ check'[w] = check[w] /\ whom'[w] = whom[w]
          /\ standing'[w] = standing[w] /\ UNCHANGED <<dlv, bars>>
      BY <2>2 DEF Schedule, RungInv, WakeTyped, db
    <3>2. QED
      BY <3>1 DEF RungInv, Checked
  <2>3. QED
    BY <2>1, <2>2
<1>3. QED
  BY <1>1, <1>2 DEF RungInv

\* A check that goes on has read that its bar is not there.
LEMMA ReadKeepsRung == ASSUME RungInv, NEW v \in Wakes, ReadBar(v) PROVE RungInv'
<1>1. CASE Forbidden(v, BarOrder[check[v]])
  <2>1. Over({v}) /\ UNCHANGED bars
    BY <1>1 DEF ReadBar, db
  <2>2. QED
    BY <2>1, OverKeepsRung
<1>2. CASE ~Forbidden(v, BarOrder[check[v]])
  <2>1. /\ pc[v] = "checking" /\ check[v] \in 1..4
        /\ check' = [check EXCEPT ![v] = @ + 1]
        /\ UNCHANGED <<pc, whom, dlv, standing, bars>>
    BY <1>2 DEF ReadBar, db
  <2>2. BarOrder[check[v]] \notin standing[v]
    BY <1>2, <2>1 DEF Forbidden, RungInv, Checked
  <2>3. WakeTyped'
    BY <2>1 DEF RungInv, WakeTyped
  <2>4. ASSUME NEW w \in Wakes PROVE Checked(w)'
    <3>1. CASE w = v
      <4>1. check'[v] = check[v] + 1 /\ check'[v] \in 1..5
        BY <2>1 DEF RungInv, WakeTyped
      <4>2. ASSUME NEW k \in 1..4, k < check'[v] PROVE BarOrder[k] \notin standing[v]
        <5>1. k < check[v] \/ k = check[v]
          BY <2>1, <4>1, <4>2
        <5>2. QED
          BY <2>1, <2>2, <5>1 DEF RungInv, Checked
      <4>3. QED
        BY <2>1, <3>1, <4>1, <4>2 DEF RungInv, Checked
    <3>2. CASE w # v
      <4>1. check'[w] = check[w]
        BY <2>1, <3>2 DEF RungInv, WakeTyped
      <4>2. QED
        BY <2>1, <4>1 DEF RungInv, Checked
    <3>3. QED
      BY <3>1, <3>2
  <2>5. QED
    BY <2>3, <2>4 DEF RungInv
<1>3. QED
  BY <1>1, <1>2

\* Who plans has passed all four checks: nothing has stood.
LEMMA PlanKeepsRung == ASSUME RungInv, NEW v \in Wakes, Plan(v) PROVE RungInv'
<1>1. CASE Over({v})
  BY <1>1, OverKeepsRung DEF Plan, db
<1> DEFINE plan == {t \in Tokens : Sendable(v, t)}
           d == [t \in Tokens |-> IF t \in plan
                                  THEN [step |-> "planned", id |-> row[t].id,
                                        updated |-> row[t].updated, since |-> 0]
                                  ELSE NoDelivery]
<1>2. CASE /\ pc' = [pc EXCEPT ![v] = "sending"] /\ dlv' = [dlv EXCEPT ![v] = d]
           /\ UNCHANGED <<check, whom, standing>>
  <2>1. pc[v] = "checking" /\ check[v] = 5 /\ UNCHANGED bars
    BY DEF Plan, db
  <2>2. standing[v] = {}
    <3>1. \A k \in 1..4 : BarOrder[k] \notin standing[v]
      BY <2>1 DEF RungInv, Checked
    <3>2. standing[v] \in SUBSET Bars
      BY DEF RungInv, WakeTyped
    <3>3. QED
      BY <3>1, <3>2 DEF Bars
  <2>3. WakeTyped'
    BY <1>2, <2>1 DEF RungInv, WakeTyped
  <2>4. ASSUME NEW w \in Wakes PROVE Checked(w)'
    <3>1. CASE w = v
      <4>1. pc'[w] = "sending"
        BY <1>2, <3>1 DEF RungInv, WakeTyped
      <4>2. QED
        BY <1>2, <2>1, <2>2, <3>1, <4>1 DEF RungInv, Checked
    <3>2. CASE w # v
      <4>1. pc'[w] = pc[w] /\ dlv'[w] = dlv[w]
        BY <1>2, <3>2 DEF RungInv, WakeTyped
      <4>2. QED
        BY <1>2, <2>1, <4>1 DEF RungInv, Checked
    <3>3. QED
      BY <3>1, <3>2
  <2>5. QED
    BY <2>3, <2>4 DEF RungInv
<1>3. QED
  BY <1>1, <1>2 DEF Plan

\* Answers come for what was sent.
LEMMA DeliverKeepsRung ==
  ASSUME RungInv, NEW v \in Wakes, NEW s \in Tokens, Deliver(v, s) PROVE RungInv'
<1>1. PICK step, since : Step(v, s, step, since)
  BY DEF Deliver, Post, AnswerAlive, AnswerDeadApns, AnswerDeadFcm
<1>2. dlv[v][s].step # "none" /\ UNCHANGED <<pc, check, whom, standing, bars>>
  BY DEF Deliver, Post, AnswerAlive, AnswerDeadApns, AnswerDeadFcm, Step, db
<1>3. pc[v] = "sending"
  BY <1>2 DEF RungInv, Checked
<1>4. WakeTyped' /\ \A w \in Wakes : w # v => dlv'[w] = dlv[w]
  BY <1>1, <1>2 DEF Step, RungInv, WakeTyped
<1>5. ASSUME NEW w \in Wakes PROVE Checked(w)'
  BY <1>2, <1>3, <1>4 DEF RungInv, Checked
<1>6. QED
  BY <1>4, <1>5 DEF RungInv

\* Every step keeps it.
LEMMA RungSteps == RungInv /\ [Next]_vars => RungInv'
<1>1. SUFFICES ASSUME RungInv, [Next]_vars PROVE RungInv'
  OBVIOUS
<1>2. CASE UNCHANGED <<bars, wake, standing>>
  BY <1>1, <1>2 DEF RungInv, WakeTyped, Checked, wake
<1>3. CASE \E u \in Callees, b \in Bars : Bar(u, b) \/ Unbar(u, b)
  BY <1>1, <1>3, BarKeepsRung
<1>4. ASSUME NEW w \in Wakes, WakeStep(w) PROVE RungInv'
  <2>1. CASE Reap(w)
    BY <1>1, <2>1, OverKeepsRung DEF Reap
  <2>2. QED
    BY <1>1, <1>4, <2>1, ScheduleKeepsRung, ReadKeepsRung, PlanKeepsRung, DeliverKeepsRung
       DEF WakeStep
<1>5. CASE Restart
  BY <1>1, <1>5, OverKeepsRung DEF Restart, db
<1>6. QED
  BY <1>1, <1>2, <1>3, <1>4, <1>5
     DEF Next, vars, db, DeviceStep, Register, Unregister, PurgeUserDevices, Forget, TokenDies,
         TokenReturns

\* push_service: whatever bars come and go while a wake runs, a callee under one that has
\* stood since the call was accepted is not rung.
THEOREM BarredAreNotRung == Spec => BarredIsNotRung
<1>1. Init => RungInv
  BY DEF Init, RungInv, WakeTyped, Checked, Bars, NoDelivery, BarOrder
<1>2. RungInv => \A w \in Wakes, t \in Tokens : Posts(w, t) => standing[w] = {}
  BY DEF RungInv, Checked, Posts
<1>3. QED
  BY <1>1, <1>2, RungSteps, PTL DEF Spec, BarredIsNotRung
=============================================================================
