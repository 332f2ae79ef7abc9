---------------------------- MODULE SignInProofs ----------------------------
(***************************************************************************)
(* For any number of accounts, identities, handles, apps, codes and        *)
(* requests, and for every setting of the three switches.                  *)
(***************************************************************************)
EXTENDS SignIn, TLAPS

USE SignInConstants

-----------------------------------------------------------------------------
(* Types *)

\* What a request holds at a stage, and what an issued handoff says.
Shape ==
    /\ \A r \in Requests :
          /\ pc[r] \in {"exchange", "store", "load"} => local[r].flow \in Flows
          /\ pc[r] \in {"store", "load"} => local[r].ident \in Idents
          /\ pc[r] = "load" => local[r].user \in Users /\ local[r].app \in Apps
          /\ pc[r] = "patch" => local[r].user \in Users
    /\ \A c \in Codes :
          code[c] # "unissued" => content[c].flow \in Flows /\ content[c].ident \in Idents

Typed == TypeOK /\ Shape

\* Initially nothing is held.
LEMMA InitTyped == Init => Typed
BY DEF Init, OldRows, Typed, TypeOK, Shape, Holdings, Held, Nothing, Status

\* One step per action.
LEMMA TypedStep == Typed /\ [Next]_vars => Typed'
<1>1. SUFFICES ASSUME Typed, [Next]_vars PROVE Typed'
  OBVIOUS
<1>2. ASSUME NEW u \in Users, NEW h \in Handles, Register(u, h) PROVE Typed'
  BY <1>1, <1>2 DEF Typed, TypeOK, Shape, Holdings, Status, Register, CreateUser,
     users, native, broker, requests
<1>3. ASSUME NEW u \in Users, NEW h \in Handles, RegisterPasskey(u, h) PROVE Typed'
  BY <1>1, <1>3 DEF Typed, TypeOK, Shape, Holdings, Status, RegisterPasskey,
     CreateUser, users, native, broker, requests
<1>4. ASSUME NEW i \in Idents, NEW u \in Users, NEW h \in Handles, Claim(i, u, h)
     PROVE Typed'
  BY <1>1, <1>4 DEF Typed, TypeOK, Shape, Holdings, Status, Claim, CreateUser, Link,
     users, native, broker, requests
<1>5. ASSUME NEW u \in Users, Ban(u) PROVE Typed'
  BY <1>1, <1>5 DEF Typed, TypeOK, Shape, Holdings, Status, Ban, users, native,
     broker, requests
<1>6. ASSUME NEW u \in Users, Unban(u) PROVE Typed'
  BY <1>1, <1>6 DEF Typed, TypeOK, Shape, Holdings, Status, Unban, users, native,
     broker, requests
<1>7. ASSUME NEW u \in Users, DeleteAccount(u) PROVE Typed'
  BY <1>1, <1>7 DEF Typed, TypeOK, Shape, Holdings, Status, DeleteAccount, users,
     native, broker, requests
<1>8. ASSUME NEW u \in Users, CoolDown(u) PROVE Typed'
  BY <1>1, <1>8 DEF Typed, TypeOK, Shape, Holdings, Status, CoolDown, users, native,
     broker, requests
<1>9. ASSUME NEW r \in Requests, NEW u \in Users, PatchStart(r, u) PROVE Typed'
  BY <1>1, <1>9 DEF Typed, TypeOK, Shape, Holdings, Status, PatchStart, Goto, Held,
     users, native, broker, requests
<1>10. ASSUME NEW r \in Requests, PatchApply(r) PROVE Typed'
  <2>1. PICK h \in Handles :
           /\ Rename(local[r].user, h)
           /\ stamp' = [stamp EXCEPT ![local[r].user] = Stamp(local[r].user)]
           /\ swaps' = [swaps EXCEPT ![local[r].user] =
                           IF stamp[local[r].user] = "assigned" THEN @ ELSE @ + 1]
    BY <1>10 DEF PatchApply
  <2>2. TypeOK'
    BY <1>1, <1>10, <2>1 DEF Typed, TypeOK, Shape, Holdings, PatchApply, Rename, Stamp,
       Goto, Held, Nothing, native, broker
  <2>3. Shape'
    BY <1>1, <1>10 DEF Typed, TypeOK, Shape, PatchApply, Goto, Held, Nothing, broker
  <2>4. QED
    BY <2>2, <2>3 DEF Typed
<1>11. ASSUME NEW r \in Requests, PatchRefuse(r) PROVE Typed'
  BY <1>1, <1>11 DEF Typed, TypeOK, Shape, Holdings, Status, PatchRefuse, Goto,
     Held, Nothing, users, native, broker, requests
<1>12. ASSUME NEW r \in Requests, NEW n \in Nonces \cup {None},
     NEW claim \in Nonces \cup {None}, NEW i \in Idents, Social(r, n, claim, i) PROVE Typed'
  <2>0. nonce' = nonce \/ nonce' = [nonce EXCEPT ![n] = "consumed"]
    BY <1>12, Zenon DEF Social, ConsumeNonce
  <2>1. nonce' \in [Nonces -> Status] /\ answered' \in [Nonces -> Nat]
    <3>1. nonce' \in [Nonces -> Status]
      BY <1>1, <2>0 DEF Typed, TypeOK, Status
    <3>2. answered' = [m \in Nonces |-> IF m = claim THEN answered[m] + 1 ELSE answered[m]]
      BY <1>12 DEF Social
    <3>3. QED
      BY <1>1, <3>1, <3>2 DEF Typed, TypeOK
  <2>2. prov' \subseteq Idents /\ grant' \in [Requests -> Holdings]
    <3>1. \/ prov' = prov \cup {i} /\ grant' = grant
          \/ \E u \in Users :
                prov' = prov /\ grant' = [grant EXCEPT ![r] = Held(None, i, u, None)]
      BY <1>12 DEF Social, Known
    <3>2. \A u \in Users : Held(None, i, u, None) \in Holdings
      BY DEF Held, Holdings
    <3>3. QED
      BY <1>1, <3>1, <3>2 DEF Typed, TypeOK
  <2>3. Shape' /\ pc' \in [Requests -> {"new", "patch", "exchange", "store", "load", "done"}]
        /\ local' \in [Requests -> Holdings]
    BY <1>1, <1>12 DEF Typed, TypeOK, Shape, Holdings, Social, Goto, Held, Nothing, broker
  <2>4. QED
    BY <1>1, <1>12, <2>1, <2>2, <2>3 DEF Typed, TypeOK, Social, users, broker
<1>13. ASSUME NEW r \in Requests, NEW n \in Nonces \cup {None},
     NEW claim \in Nonces \cup {None}, NEW i \in Idents, SocialSuspended(r, n, claim, i) PROVE Typed'
  BY <1>1, <1>13 DEF Typed, TypeOK, Shape, Holdings, Status, SocialSuspended, Goto,
     Held, Nothing, users, native, broker, requests
<1>14. ASSUME NEW r \in Requests, NEW f \in Flows, Callback(r, f) PROVE Typed'
  BY <1>1, <1>14 DEF Typed, TypeOK, Shape, Holdings, Status, Callback, ConsumeState,
     Goto, Held, users, native, broker, requests
<1>15. ASSUME NEW r \in Requests, CallbackFails(r) PROVE Typed'
  BY <1>1, <1>15 DEF Typed, TypeOK, Shape, Holdings, Status, CallbackFails, Goto,
     Held, Nothing, users, native, broker, requests
<1>16. ASSUME NEW r \in Requests, NEW i \in Idents, CallbackResolve(r, i) PROVE
     Typed'
  BY <1>1, <1>16 DEF Typed, TypeOK, Shape, Holdings, Status, CallbackResolve, Goto,
     Held, users, native, broker, requests
<1>17. ASSUME NEW r \in Requests, NEW c \in Codes, CallbackStore(r, c) PROVE Typed'
  BY <1>1, <1>17 DEF Typed, TypeOK, Shape, Holdings, Status, CallbackStore, Goto,
     Held, Nothing, users, native, broker, requests
<1>18. ASSUME NEW r \in Requests, NEW c \in Codes, NEW a \in Apps,
     ExchangeForeign(r, c, a) PROVE Typed'
  BY <1>1, <1>18 DEF Typed, TypeOK, Shape, Holdings, Status, ExchangeForeign,
     ConsumeHandoff, Goto, Held, Nothing, users, native, broker, requests
<1>19. ASSUME NEW r \in Requests, NEW c \in Codes, NEW a \in Apps,
     ExchangeNew(r, c, a) PROVE Typed'
  BY <1>1, <1>19 DEF Typed, TypeOK, Shape, Holdings, Status, ExchangeNew,
     ConsumeHandoff, Goto, Held, Nothing, users, native, broker, requests
<1>20. ASSUME NEW r \in Requests, NEW c \in Codes, NEW a \in Apps,
     ExchangeKnown(r, c, a) PROVE Typed'
  BY <1>1, <1>20 DEF Typed, TypeOK, Shape, Holdings, Status, ExchangeKnown,
     ConsumeHandoff, Goto, Held, users, native, broker, requests
<1>21. ASSUME NEW r \in Requests, ExchangeMint(r) PROVE Typed'
  BY <1>1, <1>21 DEF Typed, TypeOK, Shape, Holdings, Status, ExchangeMint, Goto,
     Held, Nothing, users, native, broker, requests
<1>22. ASSUME NEW r \in Requests, ExchangeRefuse(r) PROVE Typed'
  BY <1>1, <1>22 DEF Typed, TypeOK, Shape, Holdings, Status, ExchangeRefuse, Goto,
     Held, Nothing, users, native, broker, requests
<1>23. ASSUME NEW n \in Nonces, IssueNonce(n) PROVE Typed'
  BY <1>1, <1>23 DEF Typed, TypeOK, Shape, Holdings, Status, IssueNonce, users,
     native, broker, requests
<1>24. ASSUME NEW n \in Nonces, ExpireNonce(n) PROVE Typed'
  BY <1>1, <1>24 DEF Typed, TypeOK, Shape, Holdings, Status, ExpireNonce, users,
     native, broker, requests
<1>25. ASSUME NEW f \in Flows, NEW a \in Apps, StartFlow(f, a) PROVE Typed'
  BY <1>1, <1>25 DEF Typed, TypeOK, Shape, Holdings, Status, StartFlow, users,
     native, broker, requests
<1>26. ASSUME NEW f \in Flows, ExpireFlow(f) PROVE Typed'
  BY <1>1, <1>26 DEF Typed, TypeOK, Shape, Holdings, Status, ExpireFlow, users,
     native, broker, requests
<1>27. ASSUME NEW c \in Codes, ExpireCode(c) PROVE Typed'
  BY <1>1, <1>27 DEF Typed, TypeOK, Shape, Holdings, Status, ExpireCode, users,
     native, broker, requests
<1>28. ASSUME NEW i \in Idents, ExpireToken(i) PROVE Typed'
  BY <1>1, <1>28 DEF Typed, TypeOK, Shape, Holdings, Status, ExpireToken, users,
     native, broker, requests
<1>29. CASE UNCHANGED vars
  BY <1>1, <1>29 DEF Typed, TypeOK, Shape, Holdings, Status, vars, users, native,
     broker, requests
<1>30. QED
  BY <1>1, <1>2, <1>3, <1>4, <1>5, <1>6, <1>7, <1>8, <1>9, <1>10, <1>11, <1>12,
     <1>13, <1>14, <1>15, <1>16, <1>17, <1>18, <1>19, <1>20, <1>21, <1>22, <1>23,
     <1>24, <1>25, <1>26, <1>27, <1>28, <1>29 DEF Next, AccountStep, RequestStep,
     CodeStep

-----------------------------------------------------------------------------
(* The table of accounts *)

\* Every account that exists has a handle and a name on the bus, which no other has.
Named ==
    \A u \in Users : Exists(u) =>
        /\ handle[u] \in Handles
        /\ \A v \in Users \ {u} : Exists(v) => handle[u] # handle[v] /\ wire[u] # wire[v]

\* A handle given up in the running cooldown has left its stamp.
Windowed ==
    /\ OneChangePerWindow
    /\ \A u \in Users : stamp[u] # "recent" \/ standing[u] = "free" => swaps[u] = 0

AccountsKept == UNCHANGED <<users, links>>

\* Of the requests only the UPDATE of a profile touches the table.
LEMMA AccountFrame ==
    ASSUME [Next]_vars
    PROVE  \/ \E u \in Users : AccountStep(u)
           \/ \E r \in Requests : PatchApply(r)
           \/ AccountsKept
<1>1. ASSUME NEW r \in Requests, RequestStep(r) PROVE PatchApply(r) \/ AccountsKept
  BY <1>1 DEF RequestStep, PatchStart, PatchRefuse, Social, SocialSuspended,
     Callback, CallbackFails, CallbackResolve, CallbackStore, ExchangeForeign,
     ExchangeNew, ExchangeKnown, ExchangeMint, ExchangeRefuse, AccountsKept
<1>2. CASE CodeStep
  BY <1>2 DEF CodeStep, IssueNonce, ExpireNonce, StartFlow, ExpireFlow, ExpireCode,
     ExpireToken, AccountsKept
<1>3. CASE UNCHANGED vars
  BY <1>3 DEF vars, AccountsKept
<1>4. QED
  BY <1>1, <1>2, <1>3 DEF Next

\* Through every door: an INSERT or UPDATE that passes the UNIQUE columns keeps the
\* names apart.
LEMMA NamedStep == Typed /\ Named /\ [Next]_vars => Named'
<1>1. SUFFICES ASSUME Typed, Named, [Next]_vars PROVE Named'
  OBVIOUS
<1>2. ASSUME NEW u \in Users, NEW h \in Handles, Register(u, h) PROVE Named'
  BY <1>1, <1>2 DEF Named, Exists, Typed, TypeOK, Taken, Register,
     CreateUser, users, native, broker, requests
<1>3. ASSUME NEW u \in Users, NEW h \in Handles, RegisterPasskey(u, h) PROVE Named'
  BY <1>1, <1>3 DEF Named, Exists, Typed, TypeOK, Taken,
     RegisterPasskey, CreateUser, users, native, broker, requests
<1>4. ASSUME NEW i \in Idents, NEW u \in Users, NEW h \in Handles, Claim(i, u, h)
     PROVE Named'
  BY <1>1, <1>4 DEF Named, Exists, Typed, TypeOK, Taken, Claim,
     CreateUser, Link, users, native, broker, requests
<1>5. ASSUME NEW u \in Users, Ban(u) PROVE Named'
  BY <1>1, <1>5 DEF Named, Exists, Typed, TypeOK, Taken, Ban, users,
     native, broker, requests
<1>6. ASSUME NEW u \in Users, Unban(u) PROVE Named'
  BY <1>1, <1>6 DEF Named, Exists, Typed, TypeOK, Taken, Unban,
     users, native, broker, requests
<1>7. ASSUME NEW u \in Users, DeleteAccount(u) PROVE Named'
  BY <1>1, <1>7 DEF Named, Exists, Typed, TypeOK, Taken,
     DeleteAccount, users, native, broker, requests
<1>8. ASSUME NEW u \in Users, CoolDown(u) PROVE Named'
  BY <1>1, <1>8 DEF Named, Exists, Typed, TypeOK, Taken, CoolDown,
     users, native, broker, requests
<1>9. ASSUME NEW r \in Requests, PatchApply(r) PROVE Named'
  <2> DEFINE u == local[r].user
  <2>1. PICK h \in Handles :
           /\ Changes(u, h) /\ ~Taken(h, u)
           /\ handle' = [handle EXCEPT ![u] = h]
           /\ wire' = [wire EXCEPT ![u] = Wire[h]]
           /\ stamp' = [stamp EXCEPT ![u] = Stamp(u)]
           /\ swaps' = [swaps EXCEPT ![u] = IF stamp[u] = "assigned" THEN @ ELSE @ + 1]
    BY <1>9 DEF PatchApply, Rename
  <2>2. u \in Users /\ standing' = standing /\ links' = links
    BY <1>1, <1>9 DEF Typed, Shape, PatchApply
  <2> HIDE DEF u
  <2>3. QED
    BY <1>1, <2>1, <2>2 DEF Named, Exists, Typed, TypeOK, Taken, Changes
<1>10. CASE AccountsKept
  BY <1>1, <1>10 DEF AccountsKept, Named, Exists, Typed, TypeOK, Taken, users
<1>11. QED
  BY AccountFrame, <1>1, <1>2, <1>3, <1>4, <1>5, <1>6, <1>7, <1>8, <1>9, <1>10 DEF
     AccountStep

\* A row of social_identities is made with its account and goes with it.
LEMMA LinkedStep == Typed /\ IdentityIsOneAccount /\ [Next]_vars => IdentityIsOneAccount'
<1>1. SUFFICES ASSUME Typed, IdentityIsOneAccount, [Next]_vars PROVE IdentityIsOneAccount'
  OBVIOUS
<1>2. ASSUME NEW u \in Users, NEW h \in Handles, Register(u, h) PROVE
     IdentityIsOneAccount'
  BY <1>1, <1>2 DEF IdentityIsOneAccount, Exists, Typed, TypeOK, Register,
     CreateUser, users, native, broker, requests
<1>3. ASSUME NEW u \in Users, NEW h \in Handles, RegisterPasskey(u, h) PROVE
     IdentityIsOneAccount'
  BY <1>1, <1>3 DEF IdentityIsOneAccount, Exists, Typed, TypeOK, RegisterPasskey,
     CreateUser, users, native, broker, requests
<1>4. ASSUME NEW i \in Idents, NEW u \in Users, NEW h \in Handles, Claim(i, u, h)
     PROVE IdentityIsOneAccount'
  BY <1>1, <1>4 DEF IdentityIsOneAccount, Exists, Typed, TypeOK, Claim, CreateUser,
     Link, users, native, broker, requests
<1>5. ASSUME NEW u \in Users, Ban(u) PROVE IdentityIsOneAccount'
  BY <1>1, <1>5 DEF IdentityIsOneAccount, Exists, Typed, TypeOK, Ban, users, native,
     broker, requests
<1>6. ASSUME NEW u \in Users, Unban(u) PROVE IdentityIsOneAccount'
  BY <1>1, <1>6 DEF IdentityIsOneAccount, Exists, Typed, TypeOK, Unban, users,
     native, broker, requests
<1>7. ASSUME NEW u \in Users, DeleteAccount(u) PROVE IdentityIsOneAccount'
  BY <1>1, <1>7 DEF IdentityIsOneAccount, Exists, Typed, TypeOK, DeleteAccount,
     users, native, broker, requests
<1>8. ASSUME NEW u \in Users, CoolDown(u) PROVE IdentityIsOneAccount'
  BY <1>1, <1>8 DEF IdentityIsOneAccount, Exists, Typed, TypeOK, CoolDown, users,
     native, broker, requests
<1>9. ASSUME NEW r \in Requests, PatchApply(r) PROVE IdentityIsOneAccount'
  BY <1>1, <1>9 DEF IdentityIsOneAccount, Exists, PatchApply
<1>10. CASE AccountsKept
  BY <1>1, <1>10 DEF AccountsKept, IdentityIsOneAccount, Exists, Typed, TypeOK, users
<1>11. QED
  BY AccountFrame, <1>1, <1>2, <1>3, <1>4, <1>5, <1>6, <1>7, <1>8, <1>9, <1>10 DEF
     AccountStep

\* The stamp stops a second change; the cooldown clears both.
LEMMA WindowedStep == Typed /\ Windowed /\ [Next]_vars => Windowed'
<1>1. SUFFICES ASSUME Typed, Windowed, [Next]_vars PROVE Windowed'
  OBVIOUS
<1>2. ASSUME NEW u \in Users, NEW h \in Handles, Register(u, h) PROVE Windowed'
  BY <1>1, <1>2 DEF Windowed, OneChangePerWindow, Typed, TypeOK, Exists, Register,
     CreateUser, users, native, broker, requests
<1>3. ASSUME NEW u \in Users, NEW h \in Handles, RegisterPasskey(u, h) PROVE
     Windowed'
  BY <1>1, <1>3 DEF Windowed, OneChangePerWindow, Typed, TypeOK, Exists,
     RegisterPasskey, CreateUser, users, native, broker, requests
<1>4. ASSUME NEW i \in Idents, NEW u \in Users, NEW h \in Handles, Claim(i, u, h)
     PROVE Windowed'
  BY <1>1, <1>4 DEF Windowed, OneChangePerWindow, Typed, TypeOK, Exists, Claim,
     CreateUser, Link, users, native, broker, requests
<1>5. ASSUME NEW u \in Users, Ban(u) PROVE Windowed'
  BY <1>1, <1>5 DEF Windowed, OneChangePerWindow, Typed, TypeOK, Exists, Ban, users,
     native, broker, requests
<1>6. ASSUME NEW u \in Users, Unban(u) PROVE Windowed'
  BY <1>1, <1>6 DEF Windowed, OneChangePerWindow, Typed, TypeOK, Exists, Unban,
     users, native, broker, requests
<1>7. ASSUME NEW u \in Users, DeleteAccount(u) PROVE Windowed'
  BY <1>1, <1>7 DEF Windowed, OneChangePerWindow, Typed, TypeOK, Exists,
     DeleteAccount, users, native, broker, requests
<1>8. ASSUME NEW u \in Users, CoolDown(u) PROVE Windowed'
  BY <1>1, <1>8 DEF Windowed, OneChangePerWindow, Typed, TypeOK, Exists, CoolDown,
     users, native, broker, requests
<1>9. ASSUME NEW r \in Requests, PatchApply(r) PROVE Windowed'
  <2> DEFINE u == local[r].user
  <2>1. PICK h \in Handles :
           /\ Changes(u, h) /\ ~Taken(h, u)
           /\ handle' = [handle EXCEPT ![u] = h]
           /\ wire' = [wire EXCEPT ![u] = Wire[h]]
           /\ stamp' = [stamp EXCEPT ![u] = Stamp(u)]
           /\ swaps' = [swaps EXCEPT ![u] = IF stamp[u] = "assigned" THEN @ ELSE @ + 1]
    BY <1>9 DEF PatchApply, Rename
  <2>2. u \in Users /\ standing' = standing /\ links' = links
    BY <1>1, <1>9 DEF Typed, Shape, PatchApply
  <2> HIDE DEF u
  <2>3. QED
    BY <1>1, <2>1, <2>2 DEF Windowed, OneChangePerWindow, Typed, TypeOK, Changes,
       Exists, Stamp
<1>10. CASE AccountsKept
  BY <1>1, <1>10 DEF AccountsKept, Windowed, OneChangePerWindow, Typed, TypeOK, Exists, users
<1>11. QED
  BY AccountFrame, <1>1, <1>2, <1>3, <1>4, <1>5, <1>6, <1>7, <1>8, <1>9, <1>10 DEF
     AccountStep

-----------------------------------------------------------------------------
(* Where a broker flow is: with a callback, in a handoff, with an exchange, *)
(* or answered; in one place only.                                         *)

\* A callback that has consumed the state of its flow alone holds it ...
Travelling ==
    \A r \in Requests : pc[r] \in {"exchange", "store"} =>
        /\ flow[local[r].flow] = "consumed"
        /\ \A c \in Codes : code[c] # "unissued" => content[c].flow # local[r].flow
        /\ \A q \in Requests :
              q # r /\ pc[q] \in {"exchange", "store"} => local[q].flow # local[r].flow

\* ... until it is in one handoff, ...
Handed ==
    \A c \in Codes : code[c] # "unissued" =>
        /\ flow[content[c].flow] = "consumed"
        /\ \A d \in Codes : d # c /\ code[d] # "unissued" => content[d].flow # content[c].flow

\* ... which one exchange of its starter has consumed ...
Loading ==
    \A r \in Requests : pc[r] = "load" =>
        /\ \E c \in Codes : code[c] = "consumed" /\ content[c].flow = local[r].flow
        /\ local[r].app = starter[local[r].flow]
        /\ \A q \in Requests : q # r /\ pc[q] = "load" => local[q].flow # local[r].flow
        /\ \A x \in redeemed : x[1] # local[r].flow

\* ... and answered.
Spent ==
    /\ \A x \in redeemed : \E c \in Codes : code[c] = "consumed" /\ content[c].flow = x[1]
    /\ StarterRedeemsOnce

Custody == Travelling /\ Handed /\ Loading /\ Spent

FlowsKept ==
    /\ UNCHANGED <<flow, starter, code, content, redeemed>>
    /\ \A r \in Requests :
          (pc'[r] = pc[r] /\ local'[r] = local[r]) \/ pc'[r] \in {"done", "patch"}

BrokerStep ==
    \/ \E r \in Requests, f \in Flows : Callback(r, f)
    \/ \E r \in Requests, i \in Idents : CallbackResolve(r, i)
    \/ \E r \in Requests, c \in Codes : CallbackStore(r, c)
    \/ \E r \in Requests, c \in Codes, a \in Apps : ExchangeForeign(r, c, a)
    \/ \E r \in Requests, c \in Codes, a \in Apps : ExchangeNew(r, c, a)
    \/ \E r \in Requests, c \in Codes, a \in Apps : ExchangeKnown(r, c, a)
    \/ \E r \in Requests : ExchangeMint(r)
    \/ \E f \in Flows, a \in Apps : StartFlow(f, a)
    \/ \E f \in Flows : ExpireFlow(f)
    \/ \E c \in Codes : ExpireCode(c)

\* Every other step leaves the flows where they are, or ends a request.
LEMMA FlowFrame ==
    ASSUME TypeOK, [Next]_vars
    PROVE  BrokerStep \/ FlowsKept
<1>1. ASSUME NEW u \in Users, AccountStep(u) PROVE BrokerStep \/ FlowsKept
  BY <1>1 DEF AccountStep, Register, RegisterPasskey, Claim, Ban, Unban,
     DeleteAccount, CoolDown, BrokerStep, FlowsKept, TypeOK, broker, requests
<1>2. ASSUME NEW r \in Requests, RequestStep(r) PROVE BrokerStep \/ FlowsKept
  BY <1>2 DEF RequestStep, PatchStart, Goto, Held, PatchApply, Rename, Nothing,
     PatchRefuse, Social, ConsumeNonce, SocialSuspended, CallbackFails,
     ExchangeRefuse, BrokerStep, FlowsKept, TypeOK, broker, requests
<1>3. CASE CodeStep
  BY <1>3 DEF CodeStep, IssueNonce, ExpireNonce, ExpireToken, BrokerStep, FlowsKept,
     TypeOK, broker, requests
<1>4. CASE UNCHANGED vars
  BY <1>4 DEF vars, BrokerStep, FlowsKept, TypeOK, broker, requests
<1>5. QED
  BY <1>1, <1>2, <1>3, <1>4 DEF Next

\* One step per action of the broker, one per place under it.
LEMMA CustodyStep == Typed /\ Custody /\ [Next]_vars => Custody'
<1>1. SUFFICES ASSUME Typed, Custody, [Next]_vars PROVE Custody'
  OBVIOUS
<1>2. ASSUME NEW r \in Requests, NEW f \in Flows, Callback(r, f) PROVE Custody'
  <2>1. Travelling'
    BY <1>1, <1>2 DEF Custody, Travelling, Handed, Typed, TypeOK, Shape, Callback,
       ConsumeState, Goto, Held, broker, requests
  <2>2. Handed'
    BY <1>1, <1>2 DEF Custody, Handed, Travelling, Typed, TypeOK, Shape, Callback,
       ConsumeState, Goto, Held, broker, requests
  <2>3. Loading'
    BY <1>1, <1>2 DEF Custody, Loading, Handed, Spent, Typed, TypeOK, Shape, Callback,
       ConsumeState, Goto, Held, broker, requests
  <2>4. Spent'
    BY <1>1, <1>2 DEF Custody, Spent, StarterRedeemsOnce, Loading, Handed, Typed,
       TypeOK, Shape, Callback, ConsumeState, Goto, Held, broker, requests
  <2>5. QED
    BY <2>1, <2>2, <2>3, <2>4 DEF Custody
<1>3. ASSUME NEW r \in Requests, NEW i \in Idents, CallbackResolve(r, i) PROVE
     Custody'
  <2>1. Travelling'
    BY <1>1, <1>3 DEF Custody, Travelling, Handed, Typed, TypeOK, Shape,
       CallbackResolve, Goto, Held, broker, requests
  <2>2. Handed'
    BY <1>1, <1>3 DEF Custody, Handed, Travelling, Typed, TypeOK, Shape,
       CallbackResolve, Goto, Held, broker, requests
  <2>3. Loading'
    BY <1>1, <1>3 DEF Custody, Loading, Handed, Spent, Typed, TypeOK, Shape,
       CallbackResolve, Goto, Held, broker, requests
  <2>4. Spent'
    BY <1>1, <1>3 DEF Custody, Spent, StarterRedeemsOnce, Loading, Handed, Typed,
       TypeOK, Shape, CallbackResolve, Goto, Held, broker, requests
  <2>5. QED
    BY <2>1, <2>2, <2>3, <2>4 DEF Custody
<1>4. ASSUME NEW r \in Requests, NEW c \in Codes, CallbackStore(r, c) PROVE Custody'
  <2>1. Travelling'
    BY <1>1, <1>4 DEF Custody, Travelling, Handed, Typed, TypeOK, Shape,
       CallbackStore, Goto, Held, Nothing, broker, requests
  <2>2. Handed'
    BY <1>1, <1>4 DEF Custody, Handed, Travelling, Typed, TypeOK, Shape,
       CallbackStore, Goto, Held, Nothing, broker, requests
  <2>3. Loading'
    BY <1>1, <1>4 DEF Custody, Loading, Handed, Spent, Typed, TypeOK, Shape,
       CallbackStore, Goto, Held, Nothing, broker, requests
  <2>4. Spent'
    BY <1>1, <1>4 DEF Custody, Spent, StarterRedeemsOnce, Loading, Handed, Typed,
       TypeOK, Shape, CallbackStore, Goto, Held, Nothing, broker, requests
  <2>5. QED
    BY <2>1, <2>2, <2>3, <2>4 DEF Custody
<1>5. ASSUME NEW r \in Requests, NEW c \in Codes, NEW a \in Apps,
     ExchangeForeign(r, c, a) PROVE Custody'
  <2>1. Travelling'
    BY <1>1, <1>5 DEF Custody, Travelling, Handed, Typed, TypeOK, Shape,
       ExchangeForeign, ConsumeHandoff, Goto, Held, Nothing, broker, requests
  <2>2. Handed'
    BY <1>1, <1>5 DEF Custody, Handed, Travelling, Typed, TypeOK, Shape,
       ExchangeForeign, ConsumeHandoff, Goto, Held, Nothing, broker, requests
  <2>3. Loading'
    BY <1>1, <1>5 DEF Custody, Loading, Handed, Spent, Typed, TypeOK, Shape,
       ExchangeForeign, ConsumeHandoff, Goto, Held, Nothing, broker, requests
  <2>4. Spent'
    BY <1>1, <1>5 DEF Custody, Spent, StarterRedeemsOnce, Loading, Handed, Typed,
       TypeOK, Shape, ExchangeForeign, ConsumeHandoff, Goto, Held, Nothing, broker,
       requests
  <2>5. QED
    BY <2>1, <2>2, <2>3, <2>4 DEF Custody
<1>6. ASSUME NEW r \in Requests, NEW c \in Codes, NEW a \in Apps,
     ExchangeNew(r, c, a) PROVE Custody'
  <2>1. Travelling'
    BY <1>1, <1>6 DEF Custody, Travelling, Handed, Typed, TypeOK, Shape, ExchangeNew,
       ConsumeHandoff, Goto, Held, Nothing, broker, requests
  <2>2. Handed'
    BY <1>1, <1>6 DEF Custody, Handed, Travelling, Typed, TypeOK, Shape, ExchangeNew,
       ConsumeHandoff, Goto, Held, Nothing, broker, requests
  <2>3. Loading'
    BY <1>1, <1>6 DEF Custody, Loading, Handed, Spent, Typed, TypeOK, Shape,
       ExchangeNew, ConsumeHandoff, Goto, Held, Nothing, broker, requests
  <2>4. Spent'
    BY <1>1, <1>6 DEF Custody, Spent, StarterRedeemsOnce, Loading, Handed, Typed,
       TypeOK, Shape, ExchangeNew, ConsumeHandoff, Goto, Held, Nothing, broker,
       requests
  <2>5. QED
    BY <2>1, <2>2, <2>3, <2>4 DEF Custody
<1>7. ASSUME NEW r \in Requests, NEW c \in Codes, NEW a \in Apps,
     ExchangeKnown(r, c, a) PROVE Custody'
  <2>1. Travelling'
    BY <1>1, <1>7 DEF Custody, Travelling, Handed, Typed, TypeOK, Shape,
       ExchangeKnown, ConsumeHandoff, Goto, Held, broker, requests
  <2>2. Handed'
    BY <1>1, <1>7 DEF Custody, Handed, Travelling, Typed, TypeOK, Shape,
       ExchangeKnown, ConsumeHandoff, Goto, Held, broker, requests
  <2>3. Loading'
    BY <1>1, <1>7 DEF Custody, Loading, Handed, Spent, Typed, TypeOK, Shape,
       ExchangeKnown, ConsumeHandoff, Goto, Held, broker, requests
  <2>4. Spent'
    BY <1>1, <1>7 DEF Custody, Spent, StarterRedeemsOnce, Loading, Handed, Typed,
       TypeOK, Shape, ExchangeKnown, ConsumeHandoff, Goto, Held, broker, requests
  <2>5. QED
    BY <2>1, <2>2, <2>3, <2>4 DEF Custody
<1>8. ASSUME NEW r \in Requests, ExchangeMint(r) PROVE Custody'
  <2>1. Travelling'
    BY <1>1, <1>8 DEF Custody, Travelling, Handed, Typed, TypeOK, Shape, ExchangeMint,
       Goto, Held, Nothing, broker, requests
  <2>2. Handed'
    BY <1>1, <1>8 DEF Custody, Handed, Travelling, Typed, TypeOK, Shape, ExchangeMint,
       Goto, Held, Nothing, broker, requests
  <2>3. Loading'
    BY <1>1, <1>8 DEF Custody, Loading, Handed, Spent, Typed, TypeOK, Shape,
       ExchangeMint, Goto, Held, Nothing, broker, requests
  <2>4. Spent'
    BY <1>1, <1>8 DEF Custody, Spent, StarterRedeemsOnce, Loading, Handed, Typed,
       TypeOK, Shape, ExchangeMint, Goto, Held, Nothing, broker, requests
  <2>5. QED
    BY <2>1, <2>2, <2>3, <2>4 DEF Custody
<1>9. ASSUME NEW f \in Flows, NEW a \in Apps, StartFlow(f, a) PROVE Custody'
  <2>1. Travelling'
    BY <1>1, <1>9 DEF Custody, Travelling, Handed, Typed, TypeOK, Shape, StartFlow,
       broker, requests
  <2>2. Handed'
    BY <1>1, <1>9 DEF Custody, Handed, Travelling, Typed, TypeOK, Shape, StartFlow,
       broker, requests
  <2>3. Loading'
    BY <1>1, <1>9 DEF Custody, Loading, Handed, Spent, Typed, TypeOK, Shape,
       StartFlow, broker, requests
  <2>4. Spent'
    BY <1>1, <1>9 DEF Custody, Spent, StarterRedeemsOnce, Loading, Handed, Typed,
       TypeOK, Shape, StartFlow, broker, requests
  <2>5. QED
    BY <2>1, <2>2, <2>3, <2>4 DEF Custody
<1>10. ASSUME NEW f \in Flows, ExpireFlow(f) PROVE Custody'
  <2>1. Travelling'
    BY <1>1, <1>10 DEF Custody, Travelling, Handed, Typed, TypeOK, Shape, ExpireFlow,
       broker, requests
  <2>2. Handed'
    BY <1>1, <1>10 DEF Custody, Handed, Travelling, Typed, TypeOK, Shape, ExpireFlow,
       broker, requests
  <2>3. Loading'
    BY <1>1, <1>10 DEF Custody, Loading, Handed, Spent, Typed, TypeOK, Shape,
       ExpireFlow, broker, requests
  <2>4. Spent'
    BY <1>1, <1>10 DEF Custody, Spent, StarterRedeemsOnce, Loading, Handed, Typed,
       TypeOK, Shape, ExpireFlow, broker, requests
  <2>5. QED
    BY <2>1, <2>2, <2>3, <2>4 DEF Custody
<1>11. ASSUME NEW c \in Codes, ExpireCode(c) PROVE Custody'
  <2>1. Travelling'
    BY <1>1, <1>11 DEF Custody, Travelling, Handed, Typed, TypeOK, Shape, ExpireCode,
       broker, requests
  <2>2. Handed'
    BY <1>1, <1>11 DEF Custody, Handed, Travelling, Typed, TypeOK, Shape, ExpireCode,
       broker, requests
  <2>3. Loading'
    BY <1>1, <1>11 DEF Custody, Loading, Handed, Spent, Typed, TypeOK, Shape,
       ExpireCode, broker, requests
  <2>4. Spent'
    BY <1>1, <1>11 DEF Custody, Spent, StarterRedeemsOnce, Loading, Handed, Typed,
       TypeOK, Shape, ExpireCode, broker, requests
  <2>5. QED
    BY <2>1, <2>2, <2>3, <2>4 DEF Custody
<1>12. CASE FlowsKept
  BY <1>1, <1>12 DEF FlowsKept, Custody, Travelling, Handed, Loading, Spent,
     StarterRedeemsOnce
<1>13. QED
  BY FlowFrame, <1>1, <1>2, <1>3, <1>4, <1>5, <1>6, <1>7, <1>8, <1>9, <1>10, <1>11,
     <1>12 DEF Typed, BrokerStep

-----------------------------------------------------------------------------
(* Whose account a handoff names *)

\* The account that was found for the identity is still linked to it, or gone.
Owned(held) ==
    held.user # None =>
        /\ standing[held.user] # "free"
        /\ Exists(held.user) => <<held.ident, held.user>> \in links

Deeds ==
    /\ \A r \in Requests : pc[r] \in {"store", "load"} => Owned(local[r])
    /\ \A c \in Codes : code[c] # "unissued" => Owned(content[c])

DeedsKept ==
    /\ UNCHANGED <<standing, links, content>>
    /\ \A c \in Codes : code'[c] # "unissued" => code[c] # "unissued"
    /\ \A r \in Requests :
          (pc'[r] = pc[r] /\ local'[r] = local[r]) \/ pc'[r] \notin {"store", "load"}

DeedStep ==
    \/ \E u \in Users, h \in Handles : Register(u, h)
    \/ \E u \in Users, h \in Handles : RegisterPasskey(u, h)
    \/ \E i \in Idents, u \in Users, h \in Handles : Claim(i, u, h)
    \/ \E u \in Users : Ban(u)
    \/ \E u \in Users : Unban(u)
    \/ \E u \in Users : DeleteAccount(u)
    \/ \E r \in Requests, i \in Idents : CallbackResolve(r, i)
    \/ \E r \in Requests, c \in Codes : CallbackStore(r, c)
    \/ \E r \in Requests, c \in Codes, a \in Apps : ExchangeKnown(r, c, a)

\* Every other step looks nobody up and leaves the links alone.
LEMMA DeedFrame ==
    ASSUME TypeOK, [Next]_vars
    PROVE  DeedStep \/ DeedsKept
<1>1. ASSUME NEW u \in Users, AccountStep(u) PROVE DeedStep \/ DeedsKept
  BY <1>1 DEF AccountStep, CoolDown, DeedStep, DeedsKept, TypeOK, users, broker,
     requests
<1>2. ASSUME NEW r \in Requests, RequestStep(r) PROVE DeedStep \/ DeedsKept
  BY SMTT(30), <1>2 DEF RequestStep, PatchStart, Goto, Held, PatchApply, Rename, Nothing,
     PatchRefuse, Social, ConsumeNonce, SocialSuspended, Callback, ConsumeState,
     CallbackFails, ExchangeForeign, ConsumeHandoff, ExchangeNew, ExchangeMint,
     ExchangeRefuse, DeedStep, DeedsKept, TypeOK, users, broker, requests
<1>3. CASE CodeStep
  BY <1>3 DEF CodeStep, IssueNonce, ExpireNonce, StartFlow, ExpireFlow, ExpireCode,
     ExpireToken, DeedStep, DeedsKept, TypeOK, users, broker, requests
<1>4. CASE UNCHANGED vars
  BY <1>4 DEF vars, DeedStep, DeedsKept, TypeOK, users, broker, requests
<1>5. QED
  BY <1>1, <1>2, <1>3, <1>4 DEF Next

\* Ids are not given out twice, and a link goes only with its account.
LEMMA DeedsStep == Typed /\ Deeds /\ [Next]_vars => Deeds'
<1>1. SUFFICES ASSUME Typed, Deeds, [Next]_vars PROVE Deeds'
  OBVIOUS
<1>2. ASSUME NEW u \in Users, NEW h \in Handles, Register(u, h) PROVE Deeds'
  BY <1>1, <1>2 DEF Deeds, Owned, Exists, Typed, TypeOK, Shape, Register,
     CreateUser, users, native, broker, requests
<1>3. ASSUME NEW u \in Users, NEW h \in Handles, RegisterPasskey(u, h) PROVE Deeds'
  BY <1>1, <1>3 DEF Deeds, Owned, Exists, Typed, TypeOK, Shape, RegisterPasskey,
     CreateUser, users, native, broker, requests
<1>4. ASSUME NEW i \in Idents, NEW u \in Users, NEW h \in Handles, Claim(i, u, h)
     PROVE Deeds'
  BY <1>1, <1>4 DEF Deeds, Owned, Exists, Typed, TypeOK, Shape, Claim, CreateUser,
     Link, users, native, broker, requests
<1>5. ASSUME NEW u \in Users, Ban(u) PROVE Deeds'
  BY <1>1, <1>5 DEF Deeds, Owned, Exists, Typed, TypeOK, Shape, Ban, users, native,
     broker, requests
<1>6. ASSUME NEW u \in Users, Unban(u) PROVE Deeds'
  BY <1>1, <1>6 DEF Deeds, Owned, Exists, Typed, TypeOK, Shape, Unban, users,
     native, broker, requests
<1>7. ASSUME NEW u \in Users, DeleteAccount(u) PROVE Deeds'
  BY <1>1, <1>7 DEF Deeds, Owned, Exists, Typed, TypeOK, Shape, DeleteAccount,
     users, native, broker, requests
<1>8. ASSUME NEW r \in Requests, NEW i \in Idents, CallbackResolve(r, i) PROVE
     Deeds'
  <2>1. PICK u \in Users \cup {None} :
           /\ u # None => u \in Known(i)
           /\ Goto(r, "store", Held(local[r].flow, i, u, None))
    BY <1>8, SignInConstants DEF CallbackResolve
  <2>2. Owned(Held(local[r].flow, i, u, None))
    BY <2>1 DEF Owned, Held, Known, Exists
  <2>3. QED
    BY <1>1, <1>8, <2>1, <2>2 DEF Deeds, Owned, Exists, Typed, TypeOK, CallbackResolve,
       Goto, Held, users, broker
<1>9. ASSUME NEW r \in Requests, NEW c \in Codes, CallbackStore(r, c) PROVE Deeds'
  BY <1>1, <1>9 DEF Deeds, Owned, Exists, Typed, TypeOK, Shape, CallbackStore, Goto,
     Held, Nothing, users, native, broker, requests
<1>10. ASSUME NEW r \in Requests, NEW c \in Codes, NEW a \in Apps,
     ExchangeKnown(r, c, a) PROVE Deeds'
  BY <1>1, <1>10 DEF Deeds, Owned, Exists, Typed, TypeOK, Shape, ExchangeKnown,
     ConsumeHandoff, Goto, Held, users, native, broker, requests
<1>11. CASE DeedsKept
  BY <1>1, <1>11 DEF DeedsKept, Deeds, Owned, Exists
<1>12. QED
  BY DeedFrame, <1>1, <1>2, <1>3, <1>4, <1>5, <1>6, <1>7, <1>8, <1>9, <1>10, <1>11
     DEF Typed, DeedStep

-----------------------------------------------------------------------------
(* Nonces *)

\* Only a sign-in, the issue and the expiry touch a nonce.
LEMMA NonceFrame ==
    ASSUME [Next]_vars
    PROVE  \/ \E r \in Requests, n, claim \in Nonces \cup {None}, i \in Idents :
                 Social(r, n, claim, i)
           \/ \E n \in Nonces : IssueNonce(n) \/ ExpireNonce(n)
           \/ UNCHANGED native
<1>1. ASSUME NEW u \in Users, AccountStep(u) PROVE UNCHANGED native
  BY <1>1 DEF AccountStep, Register, RegisterPasskey, Claim, Ban, Unban,
     DeleteAccount, CoolDown
<1>2. ASSUME NEW r \in Requests, RequestStep(r)
      PROVE  \/ \E n, claim \in Nonces \cup {None}, i \in Idents : Social(r, n, claim, i)
             \/ UNCHANGED native
  BY <1>2 DEF RequestStep, PatchStart, PatchApply, PatchRefuse, SocialSuspended,
     Callback, CallbackFails, CallbackResolve, CallbackStore, ExchangeForeign,
     ExchangeNew, ExchangeKnown, ExchangeMint, ExchangeRefuse
<1>3. CASE CodeStep
  BY <1>3 DEF CodeStep, StartFlow, ExpireFlow, ExpireCode, ExpireToken
<1>4. CASE UNCHANGED vars
  BY <1>4 DEF vars
<1>5. QED
  BY <1>1, <1>2, <1>3, <1>4 DEF Next

\* Burn and outcome are one step.
LEMMA NonceStep == Typed /\ NonceForOutcome /\ [Next]_vars => NonceForOutcome'
<1>1. SUFFICES ASSUME Typed, NonceForOutcome, [Next]_vars, NonceRequired
               PROVE  \A n \in Nonces :
                         answered'[n] = IF nonce'[n] = "consumed" THEN 1 ELSE 0
  BY DEF NonceForOutcome
<1>2. \A n \in Nonces : answered[n] = IF nonce[n] = "consumed" THEN 1 ELSE 0
  BY <1>1 DEF NonceForOutcome
<1>3. ASSUME NEW r \in Requests, NEW m \in Nonces \cup {None},
             NEW claim \in Nonces \cup {None}, NEW i \in Idents, Social(r, m, claim, i)
      PROVE  \A n \in Nonces : answered'[n] = IF nonce'[n] = "consumed" THEN 1 ELSE 0
  <2>1. /\ m # None /\ nonce[m] = "live" /\ nonce' = [nonce EXCEPT ![m] = "consumed"]
        /\ VerifyIdToken(claim, m)
        /\ answered' = [k \in Nonces |-> IF k = claim THEN answered[k] + 1 ELSE answered[k]]
    BY <1>1, <1>3, Zenon DEF Social, ConsumeNonce
  <2>2. m \in Nonces /\ claim = m
    BY <2>1 DEF VerifyIdToken
  <2>3. QED
    BY <1>1, <1>2, <2>1, <2>2 DEF Typed, TypeOK
<1>4. ASSUME NEW m \in Nonces, IssueNonce(m) \/ ExpireNonce(m)
      PROVE  \A n \in Nonces : answered'[n] = IF nonce'[n] = "consumed" THEN 1 ELSE 0
  BY <1>1, <1>2, <1>4 DEF Typed, TypeOK, IssueNonce, ExpireNonce
<1>5. CASE UNCHANGED native
  BY <1>2, <1>5 DEF native
<1>6. QED
  BY <1>1, <1>3, <1>4, <1>5, NonceFrame

-----------------------------------------------------------------------------
(* Theorems *)

Inv == Typed /\ Named /\ IdentityIsOneAccount /\ Windowed /\ Custody /\ Deeds /\ NonceForOutcome

\* Initially the accounts are those from before, and there is no code and no request.
LEMMA InitInv == Init => Inv
<1>1. SUFFICES ASSUME Init PROVE Inv
  OBVIOUS
<1>2. Typed
  BY <1>1, InitTyped
<1>3. Named /\ IdentityIsOneAccount /\ Windowed
  BY <1>1 DEF Init, OldRows, Named, Exists, IdentityIsOneAccount, Windowed, OneChangePerWindow
<1>4. Custody /\ Deeds
  BY <1>1 DEF Init, Custody, Travelling, Handed, Loading, Spent, StarterRedeemsOnce, Deeds
<1>5. NonceForOutcome
  BY <1>1 DEF Init, NonceForOutcome
<1>6. QED
  BY <1>2, <1>3, <1>4, <1>5 DEF Inv

\* The conjuncts are kept each for itself, given the types.
THEOREM Invariance == Spec => []Inv
<1>1. Inv /\ [Next]_vars => Inv'
  BY TypedStep, NamedStep, LinkedStep, WindowedStep, CustodyStep, DeedsStep, NonceStep DEF Inv
<1>2. QED
  BY InitInv, <1>1, PTL DEF Spec

\* Every variable keeps its type (state of rest/auth.py and its tables).
THEOREM TypeCorrect == Spec => []TypeOK
<1>1. Inv => TypeOK
  BY DEF Inv, Typed
<1>2. QED
  BY Invariance, <1>1, PTL

\* However callbacks and exchanges are repeated (consume_state, consume_handoff,
\* app_challenge): a flow is answered once, to the app that started it.
THEOREM FlowAnsweredOnce == Spec => []StarterRedeemsOnce
<1>1. Inv => StarterRedeemsOnce
  BY DEF Inv, Custody, Spent
<1>2. QED
  BY Invariance, <1>1, PTL

\* A provider subject maps to one existing account (create_social_user,
\* delete_user_account).
THEOREM OneAccountPerIdentity == Spec => []IdentityIsOneAccount
<1>1. Inv => IdentityIsOneAccount
  BY DEF Inv
<1>2. QED
  BY Invariance, <1>1, PTL

\* A row that is there after a step was there with the same names, or has a name the
\* step gave it.
LEMMA NameStep ==
    ASSUME Inv, [Next]_vars, NEW u \in Users, Exists(u)'
    PROVE  wire'[u] = IF Exists(u) /\ handle'[u] = handle[u] THEN wire[u]
                      ELSE Wire[handle'[u]]
<1>1. ASSUME NEW v \in Users, AccountStep(v)
      PROVE  wire'[u] = IF Exists(u) /\ handle'[u] = handle[u] THEN wire[u]
                        ELSE Wire[handle'[u]]
  <2>1. ASSUME NEW h \in Handles, CreateUser(v, h, stamp'[v])
        PROVE  wire'[u] = IF Exists(u) /\ handle'[u] = handle[u] THEN wire[u]
                          ELSE Wire[handle'[u]]
    BY <2>1 DEF Inv, Typed, TypeOK, CreateUser, Exists
  <2>2. ASSUME NEW h \in Handles,
               Register(v, h) \/ RegisterPasskey(v, h) \/ \E i \in Idents : Claim(i, v, h)
        PROVE  CreateUser(v, h, stamp'[v])
    BY <2>2 DEF Register, RegisterPasskey, Claim, CreateUser, Inv, Typed, TypeOK
  <2>3. CASE Ban(v) \/ Unban(v) \/ DeleteAccount(v) \/ CoolDown(v)
    BY <2>3 DEF Ban, Unban, DeleteAccount, CoolDown, Inv, Typed, TypeOK, Exists
  <2>4. QED
    BY <1>1, <2>1, <2>2, <2>3 DEF AccountStep
<1>2. ASSUME NEW r \in Requests, PatchApply(r)
      PROVE  wire'[u] = IF Exists(u) /\ handle'[u] = handle[u] THEN wire[u]
                        ELSE Wire[handle'[u]]
  <2>1. PICK h \in Handles : Changes(local[r].user, h) /\ Rename(local[r].user, h)
    BY <1>2 DEF PatchApply
  <2>2. local[r].user \in Users /\ standing' = standing
    BY <1>2 DEF PatchApply, Inv, Typed, Shape
  <2>3. QED
    BY <2>1, <2>2 DEF Changes, Rename, Inv, Typed, TypeOK, Exists
<1>3. CASE AccountsKept
  BY <1>3 DEF AccountsKept, users, Exists
<1>4. QED
  BY AccountFrame, <1>1, <1>2, <1>3

\* Whatever rows there were before (create_user and its siblings, update_profile): names
\* stay apart, and the one on the bus moves with the handle and never without it.
THEOREM BusNamesAreOwned == Spec => NamesAreOwned
<1>1. Inv /\ [Next]_vars =>
        [\A u \in Users : Exists(u)' =>
            /\ wire'[u] = IF Exists(u) /\ handle'[u] = handle[u] THEN wire[u]
                           ELSE Wire[handle'[u]]
            /\ \A v \in Users \ {u} :
                  Exists(v)' => handle'[u] # handle'[v] /\ wire'[u] # wire'[v]]_vars
  <2>1. SUFFICES ASSUME Inv, [Next]_vars, NEW u \in Users, Exists(u)'
                 PROVE  /\ wire'[u] = IF Exists(u) /\ handle'[u] = handle[u] THEN wire[u]
                                       ELSE Wire[handle'[u]]
                        /\ \A v \in Users \ {u} :
                              Exists(v)' => handle'[u] # handle'[v] /\ wire'[u] # wire'[v]
    OBVIOUS
  <2>2. Named'
    BY <2>1, NamedStep DEF Inv
  <2>3. QED
    BY <2>1, <2>2, NameStep DEF Named
<1>2. QED
  BY Invariance, <1>1, PTL DEF Spec, NamesAreOwned

\* A chosen handle is given up at most once per cooldown (update_profile).
THEOREM CooldownHolds == Spec => []OneChangePerWindow
<1>1. Inv => OneChangePerWindow
  BY DEF Inv, Windowed
<1>2. QED
  BY Invariance, <1>1, PTL

\* A required nonce is burned by exactly one answered sign-in (/social).
THEOREM NonceBurnedWithOutcome == Spec => []NonceForOutcome
<1>1. Inv => NonceForOutcome
  BY DEF Inv
<1>2. QED
  BY Invariance, <1>1, PTL

\* The step that mints: _resolve_identity or oauth_exchange.
LEMMA MintStep ==
    ASSUME Inv, Next, NEW q \in Requests, grant'[q] # grant[q]
    PROVE  /\ standing[grant'[q].user] = "active"
           /\ <<grant'[q].ident, grant'[q].user>> \in links
<1>1. UNCHANGED grant \/ \E r \in Requests :
           \/ ExchangeMint(r)
           \/ \E n, claim \in Nonces \cup {None}, i \in Idents : Social(r, n, claim, i)
  <2>1. ASSUME NEW u \in Users, AccountStep(u) PROVE UNCHANGED grant
    BY <2>1 DEF AccountStep, Register, RegisterPasskey, Claim, Ban, Unban,
       DeleteAccount, CoolDown, requests
  <2>2. ASSUME NEW r \in Requests, RequestStep(r)
        PROVE  \/ UNCHANGED grant
               \/ ExchangeMint(r)
               \/ \E n, claim \in Nonces \cup {None}, i \in Idents : Social(r, n, claim, i)
    BY <2>2 DEF RequestStep, PatchStart, PatchApply, PatchRefuse, SocialSuspended,
       Callback, CallbackFails, CallbackResolve, CallbackStore, ExchangeForeign,
       ExchangeNew, ExchangeKnown, ExchangeRefuse
  <2>3. CASE CodeStep
    BY <2>3 DEF CodeStep, IssueNonce, ExpireNonce, StartFlow, ExpireFlow,
       ExpireCode, ExpireToken, requests
  <2>4. QED
    BY <2>1, <2>2, <2>3 DEF Next
<1>2. ASSUME NEW r \in Requests, NEW n \in Nonces \cup {None},
             NEW claim \in Nonces \cup {None}, NEW i \in Idents, Social(r, n, claim, i)
      PROVE  /\ standing[grant'[q].user] = "active"
             /\ <<grant'[q].ident, grant'[q].user>> \in links
  <2>1. PICK u \in Known(i) :
           standing[u] = "active" /\ grant' = [grant EXCEPT ![r] = Held(None, i, u, None)]
    BY <1>2 DEF Social
  <2>2. grant'[q] = Held(None, i, u, None)
    BY <2>1 DEF Inv, Typed, TypeOK
  <2>3. QED
    BY <2>1, <2>2 DEF Held, Known
<1>3. ASSUME NEW r \in Requests, ExchangeMint(r)
      PROVE  /\ standing[grant'[q].user] = "active"
             /\ <<grant'[q].ident, grant'[q].user>> \in links
  <2>1. grant'[q] = local[r] /\ standing[local[r].user] = "active" /\ pc[r] = "load"
    BY <1>3 DEF ExchangeMint, Admitted, Inv, Typed, TypeOK
  <2>2. local[r].user # None /\ Owned(local[r])
    BY <2>1 DEF Inv, Typed, Shape, Deeds
  <2>3. QED
    BY <2>1, <2>2 DEF Owned, Exists
<1>4. QED
  BY <1>1, <1>2, <1>3

\* Tokens are minted for the active account of the proven identity only, although the
\* handoff names an account found before a ban or a deletion.
THEOREM MintedForTheIdentity == Spec => SessionIsTheIdentitys
<1>1. Inv /\ [Next]_vars =>
        [\A r \in Requests :
            grant'[r] # grant[r] =>
                /\ standing[grant'[r].user] = "active"
                /\ <<grant'[r].ident, grant'[r].user>> \in links]_vars
  BY MintStep
<1>2. QED
  BY Invariance, <1>1, PTL DEF Spec, SessionIsTheIdentitys
=============================================================================
