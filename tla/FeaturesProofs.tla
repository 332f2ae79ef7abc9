---------------------------- MODULE FeaturesProofs ----------------------------
(***************************************************************************)
(* What every instance of Features keeps, whichever feature is at work:    *)
(* nobody is brought back into a direct message, a registration stores     *)
(* exactly the key it answers, revoked sockets are dropped, a takedown     *)
(* that answers has taken effect, announced reactions have been stored     *)
(* and one's own are shown, member counts are the rows, and neither the    *)
(* pages of the history nor those of the directory have a hole.            *)
(***************************************************************************)
EXTENDS Features, FiniteSetTheorems, WellFoundedInduction, TLAPS

-----------------------------------------------------------------------------
(* LIMIT *)

\* A nonempty set of numbers has a least one.
LEMMA LeastNumber ==
  ASSUME NEW T \in SUBSET Nat, T # {}
  PROVE  \E x \in T : \A y \in T : x <= y
<1>1. PICK x \in T : \A y \in T : <<y, x>> \notin OpToRel(<, Nat)
  BY NatLessThanWellFounded, WFMin, Zenon
<1>2. \A y \in T : ~(y < x)
  BY <1>1 DEF OpToRel
<1>3. \A y \in T : x \in Nat /\ y \in Nat /\ ~(y < x) => x <= y
  OBVIOUS
<1>4. QED
  BY <1>2, <1>3

\* R orders S strictly and totally.
Orders(R, S) ==
  /\ \A x \in S : <<x, x>> \notin R
  /\ \A x, y \in S : x # y => <<x, y>> \in R \/ <<y, x>> \in R
  /\ \A x, y, z \in S : <<x, y>> \in R /\ <<y, z>> \in R => <<x, z>> \in R

\* The rows of S before x, and what ORDER BY R LIMIT n returns of S.
Prior(R, S, x) == {y \in S : <<y, x>> \in R}
FirstOf(R, S, n) == {x \in S : Cardinality(Prior(R, S, x)) < n}

\* Whoever is earlier has fewer before it.
LEMMA PriorGrows ==
  ASSUME NEW R, NEW S, IsFiniteSet(S), Orders(R, S), NEW x \in S, NEW y \in S
  PROVE  /\ IsFiniteSet(Prior(R, S, x)) /\ Cardinality(Prior(R, S, x)) \in Nat
         /\ <<x, y>> \in R <=> Cardinality(Prior(R, S, x)) < Cardinality(Prior(R, S, y))
         /\ Cardinality(Prior(R, S, x)) < Cardinality(S)
<1>1. \A z \in S : /\ IsFiniteSet(Prior(R, S, z)) /\ Cardinality(Prior(R, S, z)) \in Nat
                   /\ Cardinality(Prior(R, S, z)) < Cardinality(S)
  <2>1. SUFFICES ASSUME NEW z \in S
                 PROVE  /\ IsFiniteSet(Prior(R, S, z)) /\ Cardinality(Prior(R, S, z)) \in Nat
                        /\ Cardinality(Prior(R, S, z)) < Cardinality(S)
    OBVIOUS
  <2>2. Prior(R, S, z) \in SUBSET S /\ z \notin Prior(R, S, z)
    BY DEF Prior, Orders
  <2>3. Cardinality(Prior(R, S, z)) <= Cardinality(S) /\ Cardinality(Prior(R, S, z)) # Cardinality(S)
    BY <2>2, FS_Subset
  <2>4. IsFiniteSet(Prior(R, S, z)) /\ Cardinality(Prior(R, S, z)) \in Nat /\ Cardinality(S) \in Nat
    BY <2>2, FS_Subset, FS_CardinalityType
  <2>5. QED
    BY <2>3, <2>4
<1>2. ASSUME NEW a \in S, NEW b \in S, <<a, b>> \in R
      PROVE  Cardinality(Prior(R, S, a)) < Cardinality(Prior(R, S, b))
  <2>1. Prior(R, S, a) \in SUBSET Prior(R, S, b) /\ a \in Prior(R, S, b) /\ a \notin Prior(R, S, a)
    BY <1>2 DEF Prior, Orders
  <2>2. /\ Cardinality(Prior(R, S, a)) <= Cardinality(Prior(R, S, b))
        /\ Cardinality(Prior(R, S, a)) # Cardinality(Prior(R, S, b))
    BY <1>1, <2>1, FS_Subset
  <2>3. QED
    BY <1>1, <2>2
<1>3. Cardinality(Prior(R, S, x)) < Cardinality(Prior(R, S, y)) => <<x, y>> \in R
  <2>1. x # y /\ <<y, x>> \in R
           => ~(Cardinality(Prior(R, S, x)) < Cardinality(Prior(R, S, y)))
    BY <1>1, <1>2
  <2>2. x = y => ~(Cardinality(Prior(R, S, x)) < Cardinality(Prior(R, S, y)))
    BY <1>1
  <2>3. QED
    BY <2>1, <2>2 DEF Orders
<1>4. QED
  BY <1>1, <1>2, <1>3

\* ORDER BY ... LIMIT n: its rows come before the others, there are n of them when there
\* are others, all when there are no more than n, and one of them is the last.
LEMMA LimitCuts ==
  ASSUME NEW R, NEW S, IsFiniteSet(S), Orders(R, S), NEW n \in Nat \ {0}
  PROVE  LET P == FirstOf(R, S, n)
         IN  /\ \A x \in P, y \in S \ P : <<x, y>> \in R
             /\ S \ P # {} => Cardinality(P) >= n
             /\ S # {} => P # {}
             /\ Cardinality(S) <= n => P = S
             /\ P # {} => \E m \in P : \A x \in P \ {m} : <<x, m>> \in R
<1> DEFINE P == FirstOf(R, S, n)
           rank(x) == Cardinality(Prior(R, S, x))
<1>1. /\ \A x \in S : rank(x) \in Nat /\ rank(x) < Cardinality(S)
      /\ \A x, y \in S : <<x, y>> \in R <=> rank(x) < rank(y)
  BY PriorGrows
<1>2. P = {x \in S : rank(x) < n} /\ Cardinality(S) \in Nat
  BY FS_CardinalityType DEF FirstOf
<1>3. \A x \in P, y \in S \ P : <<x, y>> \in R
  <2>1. SUFFICES ASSUME NEW x \in P, NEW y \in S \ P PROVE rank(x) < rank(y)
    BY <1>1, <1>2
  <2>2. x \in S /\ y \in S /\ rank(x) < n /\ ~(rank(y) < n) /\ rank(x) \in Nat /\ rank(y) \in Nat
    BY <1>1, <1>2
  <2>3. QED
    BY <2>2
<1>4. ASSUME NEW T \in SUBSET S, T # {}
      PROVE  \E m \in T : \A x \in T : rank(m) <= rank(x)
  <2>1. {rank(x) : x \in T} \in SUBSET Nat /\ {rank(x) : x \in T} # {}
    BY <1>1, <1>4
  <2>2. PICK k \in {rank(x) : x \in T} : \A l \in {rank(x) : x \in T} : k <= l
    BY <2>1, LeastNumber
  <2>3. QED
    BY <2>2
<1>5. S \ P # {} => Cardinality(P) >= n
  <2>1. SUFFICES ASSUME S \ P # {} PROVE Cardinality(P) >= n
    OBVIOUS
  <2>2. PICK m \in S \ P : \A x \in S \ P : rank(m) <= rank(x)
    BY <1>4, <2>1
  <2>3. \A y \in S \ P : <<y, m>> \notin R
    <3>1. SUFFICES ASSUME NEW y \in S \ P, rank(y) < rank(m) PROVE FALSE
      BY <1>1
    <3>2. rank(y) \in Nat /\ rank(m) \in Nat /\ rank(m) <= rank(y)
      BY <1>1, <2>2
    <3>3. QED
      BY <3>1, <3>2
  <2>4. Prior(R, S, m) = P
    BY <1>2, <1>3, <2>3 DEF Prior
  <2>5. rank(m) \in Nat /\ ~(rank(m) < n)
    BY <1>1, <1>2
  <2>6. QED
    BY <2>4, <2>5
<1>6. S # {} => P # {}
  <2>1. SUFFICES ASSUME S # {}, P = {} PROVE FALSE
    OBVIOUS
  <2>2. Cardinality(P) = 0
    BY <2>1, FS_EmptySet
  <2>3. QED
    BY <1>5, <2>1, <2>2
<1>7. Cardinality(S) <= n => P = S
  BY <1>1, <1>2
<1>8. P # {} => \E m \in P : \A x \in P \ {m} : <<x, m>> \in R
  <2>1. SUFFICES ASSUME P # {} PROVE \E m \in P : \A x \in P \ {m} : <<x, m>> \in R
    OBVIOUS
  <2>2. {n - rank(x) : x \in P} \in SUBSET Nat /\ {n - rank(x) : x \in P} # {}
    BY <1>1, <1>2, <2>1
  <2>3. PICK k \in {n - rank(x) : x \in P} : \A l \in {n - rank(x) : x \in P} : k <= l
    BY <2>2, LeastNumber
  <2>4. PICK m \in P : k = n - rank(m)
    BY <2>3
  <2>5. ASSUME NEW x \in P \ {m} PROVE <<x, m>> \in R
    <3>1. n - rank(m) <= n - rank(x)
      BY <2>3, <2>4
    <3>2. rank(x) \in Nat /\ rank(m) \in Nat /\ x \in S /\ m \in S
      BY <1>1, <1>2
    <3>3. ~(rank(m) < rank(x))
      BY <3>1, <3>2
    <3>4. QED
      BY <1>1, <3>2, <3>3 DEF Orders
  <2>6. QED
    BY <2>5
<1>9. QED
  BY <1>3, <1>5, <1>6, <1>7, <1>8

-----------------------------------------------------------------------------
(* Direct messages *)

DmTyped == DOMAIN dmStep = Owners

\* No step of Features changes which requests there are.
LEMMA DmTypedStep == DmTyped /\ [Next]_vars => DmTyped'
<1>1. SUFFICES ASSUME DmTyped, [Next]_vars PROVE DmTyped'
  OBVIOUS
<1>2. CASE DmStep
  BY <1>1, <1>2 DEF DmTyped, DmStep, Dm!Next, Dm!Requesting, Dm!OpenRequest, Dm!OpenLookup,
     Dm!OpenCreate, Dm!EnsureLookup, Dm!EnsureInsert, Dm!Leave, Dm!DeleteAccount, Dm!Purge, Dm!Goto
<1>3. CASE UNCHANGED dmStep
  BY <1>1, <1>3 DEF DmTyped
<1>4. DmStep \/ UNCHANGED dmStep
  BY <1>1 DEF Next, vars, dmVars, ModerationStep, ReactionStep, HistoryStep, CommunityStep,
     KeyStep, SessionStep
<1>5. QED
  BY <1>2, <1>3, <1>4

\* Only a create, which finds no room, and an ensure, which is of the caller, add members.
LEMMA DmReturns == DmTyped /\ [Next]_vars => [Dm!ReturnsBySelf]_vars
<1>1. SUFFICES ASSUME DmTyped, [Next]_vars, NEW u \in Users,
                      room = "dm", u \notin members, u \in members'
               PROVE  \E r \in Owners : me[r] = u /\ dmStep[r] # dmStep'[r]
  BY DEF Dm!ReturnsBySelf
<1>2. DmStep
  BY <1>1 DEF Next, vars, dmVars, ModerationStep, ReactionStep, HistoryStep, CommunityStep,
     KeyStep, SessionStep
<1>3. PICK r \in Owners : Dm!EnsureInsert(r)
  BY <1>1, <1>2 DEF DmStep, Dm!Next, Dm!Requesting, Dm!OpenRequest, Dm!OpenLookup,
     Dm!OpenCreate, Dm!EnsureLookup, Dm!Leave, Dm!DeleteAccount, Dm!Purge, Dm!tables
<1>4. me[r] = u
  BY <1>1, <1>3 DEF Dm!EnsureInsert
<1>5. dmStep[r] # dmStep'[r]
  BY <1>1, <1>3 DEF Dm!EnsureInsert, Dm!Goto, DmTyped
<1>6. QED
  BY <1>4, <1>5

\* dm_service's adopt path "ensures only the caller": for any requests of both members.
THEOREM LeaversStayOut == Spec => LeaverStaysOut
<1>1. Init => DmTyped
  BY DEF Init, Dm!Init, DmTyped
<1>2. QED
  BY <1>1, DmTypedStep, DmReturns, PTL DEF Spec, LeaverStaysOut

-----------------------------------------------------------------------------
(* Signing keys *)

KeysTyped == IsFiniteSet(keys) /\ DOMAIN keyStep = Owners

\* The finite sets of the instance are those of this module.
LEMMA SameCardinality ==
  \A S : Sk!IsFiniteSet(S) = IsFiniteSet(S) /\ Sk!Cardinality(S) = Cardinality(S)
BY DEF Sk!IsFiniteSet, IsFiniteSet, Sk!Cardinality, Cardinality

\* A step touches the keys of the account, never the requests there are.
LEMMA KeysTypedStep == KeysTyped /\ [Next]_vars => KeysTyped'
<1>1. SUFFICES ASSUME KeysTyped, [Next]_vars PROVE KeysTyped'
  OBVIOUS
<1>2. ASSUME NEW r \in Owners, NEW k \in Keys,
             Sk!RegisterLookup(r, k) \/ Sk!RecordSigningKey(r, k) \/ Sk!RevokeKey(r, k)
      PROVE  KeysTyped'
  BY <1>1, <1>2, FS_AddElement, FS_RemoveElement DEF KeysTyped, Sk!RegisterLookup,
     Sk!RecordSigningKey, Sk!RevokeKey, Sk!Goto
<1>3. ASSUME NEW r \in Owners, Sk!Touch(r) \/ Sk!Recheck(r) \/ Sk!ReadBack(r)
      PROVE  KeysTyped'
  BY <1>1, <1>3 DEF KeysTyped, Sk!Touch, Sk!Recheck, Sk!ReadBack, Sk!Goto
<1>4. ASSUME NEW r \in Owners, Sk!CappedInsert(r)
      PROVE  KeysTyped'
  BY <1>1, <1>4, FS_AddElement DEF KeysTyped, Sk!CappedInsert, Sk!Goto
<1>5. ASSUME Sk!PurgeUserKeys PROVE KeysTyped'
  BY <1>1, <1>5, FS_EmptySet DEF KeysTyped, Sk!PurgeUserKeys, Sk!Purge
<1>6. CASE KeyStep
  BY <1>2, <1>3, <1>4, <1>5, <1>6 DEF KeyStep, Sk!Next, Sk!Requesting, Sk!RegisterStep
<1>7. CASE UNCHANGED keyVars
  BY <1>1, <1>7 DEF KeysTyped, keyVars
<1>8. KeyStep \/ UNCHANGED keyVars
  BY <1>1 DEF Next, vars, ModerationStep, ReactionStep, HistoryStep, CommunityStep,
     DmStep, SessionStep
<1>9. QED
  BY <1>6, <1>7, <1>8

\* The INSERT counts in the statement that inserts: below the cap, one more reaches it.
LEMMA InsertWithinCap ==
  ASSUME KeysTyped, NEW r \in Owners, Sk!CappedInsert(r), keyStep'[r] = "readBack"
  PROVE  Cardinality(keys') <= MaxKeys
<1>1. Cardinality(keys) < MaxKeys /\ key[r] \notin keys /\ keys' = keys \cup {key[r]}
  BY SameCardinality DEF KeysTyped, Sk!CappedInsert, Sk!Goto
<1>2. IsFiniteSet(keys) /\ MaxKeys \in Nat
  BY FeatureConstants DEF Sk!SigningKeyConstants, KeysTyped
<1>3. Cardinality(keys) \in Nat /\ Cardinality(keys') = Cardinality(keys) + 1
  BY <1>1, <1>2, FS_AddElement, FS_CardinalityType
<1>4. QED
  BY <1>1, <1>2, <1>3

\* Each answer is given by a step that looked at the table, or wrote it.
LEMMA KeysExact == KeysTyped /\ [Next]_vars => [Sk!ExactStep]_vars
<1>1. SUFFICES ASSUME KeysTyped, [Next]_vars, NEW r \in Owners, KeyStep, keyStep'[r] # keyStep[r]
               PROVE  /\ keyStep[r] = "insert" /\ keyStep'[r] = "readBack"
                            => Cardinality(keys') <= MaxKeys
                      /\ keyStep'[r] = "registered" => key[r] \in keys'
                      /\ keyStep'[r] = "full" => key[r] \notin keys'
  <2>1. [Next]_vars => KeyStep \/ UNCHANGED keyVars
    BY DEF Next, vars, ModerationStep, ReactionStep, HistoryStep, CommunityStep, DmStep,
       SessionStep
  <2>2. QED
    BY <2>1, SameCardinality DEF Sk!ExactStep, keyVars
<1>2. Sk!PurgeUserKeys => FALSE
  BY <1>1 DEF Sk!PurgeUserKeys, Sk!Purge
<1>3. ASSUME NEW q \in Owners, NEW k \in Keys,
             Sk!RegisterLookup(q, k) \/ Sk!RecordSigningKey(q, k) \/ Sk!RevokeKey(q, k)
      PROVE  keyStep'[r] \in {"touch", "insert", "recorded", "revoked"}
  BY <1>1, <1>3 DEF KeysTyped, Sk!RegisterLookup, Sk!RecordSigningKey, Sk!RevokeKey, Sk!Goto
<1>4. ASSUME NEW q \in Owners, Sk!Touch(q) \/ Sk!Recheck(q) \/ Sk!ReadBack(q)
      PROVE  /\ keyStep[r] # "insert"
             /\ keyStep'[r] = "registered" => key[r] \in keys'
             /\ keyStep'[r] = "full" => key[r] \notin keys'
  BY <1>1, <1>4 DEF KeysTyped, Sk!Touch, Sk!Recheck, Sk!ReadBack, Sk!Goto
<1>5. ASSUME NEW q \in Owners, Sk!CappedInsert(q)
      PROVE  /\ q = r
             /\ keyStep'[r] = "registered" => key[r] \in keys'
             /\ keyStep'[r] # "full"
  BY <1>1, <1>5 DEF KeysTyped, Sk!CappedInsert, Sk!Goto
<1>6. ASSUME NEW q \in Owners, Sk!CappedInsert(q)
      PROVE  keyStep'[r] = "readBack" => Cardinality(keys') <= MaxKeys
  BY <1>1, <1>5, <1>6, InsertWithinCap
<1>7. QED
  BY <1>1, <1>2, <1>3, <1>4, <1>5, <1>6
     DEF KeyStep, Sk!Next, Sk!Requesting, Sk!RegisterStep

\* _capped_insert and the re-check after it, for any number of requests, keys and any cap.
THEOREM RegistrationsAreExact == Spec => RegistrationIsExact
<1>1. Init => KeysTyped
  BY FS_EmptySet DEF Init, Sk!Init, KeysTyped
<1>2. QED
  BY <1>1, KeysTypedStep, KeysExact, PTL DEF Spec, RegistrationIsExact

-----------------------------------------------------------------------------
(* Sessions *)

\* Only a socket past its handshake is on the Ses!hub.
PastHandshake == \A c \in conns : sock[c] \notin {"new", "resolved"}

\* One step per action keeps every variable in its set.
LEMMA SessionTypes == Ses!TypeOK /\ [Next]_vars => Ses!TypeOK'
<1>1. SUFFICES ASSUME Ses!TypeOK, [Next]_vars PROVE Ses!TypeOK'
  OBVIOUS
<1>2. ASSUME NEW c \in Conns, Ses!Resolve(c) PROVE Ses!TypeOK'
  BY <1>1, <1>2 DEF Ses!TypeOK, Ses!Resolve, Ses!Set, Ses!users, Ses!hub
<1>3. ASSUME NEW c \in Conns, Ses!Accept(c) PROVE Ses!TypeOK'
  BY <1>1, <1>3 DEF Ses!TypeOK, Ses!Accept, Ses!Set, Ses!users, Ses!hub
<1>4. ASSUME NEW c \in Conns, Ses!AcceptFails(c) PROVE Ses!TypeOK'
  BY <1>1, <1>4 DEF Ses!TypeOK, Ses!AcceptFails, Ses!Set, Ses!users, Ses!hub
<1>5. ASSUME NEW c \in Conns, Ses!Leave(c) PROVE Ses!TypeOK'
  BY <1>1, <1>5 DEF Ses!TypeOK, Ses!Leave, Ses!Set, Ses!users, Ses!hub
<1>6. ASSUME NEW e \in Revokers, Ses!Ban(e) PROVE Ses!TypeOK'
  BY <1>1, <1>6 DEF Ses!TypeOK, Ses!Ban, Ses!Goto, Ses!users, Ses!hub
<1>7. ASSUME NEW e \in Revokers, Ses!DeleteAccount(e) PROVE Ses!TypeOK'
  BY <1>1, <1>7 DEF Ses!TypeOK, Ses!DeleteAccount, Ses!Goto, Ses!users, Ses!hub
<1>8. ASSUME NEW e \in Revokers, Ses!Rekey(e) PROVE Ses!TypeOK'
  BY <1>1, <1>8 DEF Ses!TypeOK, Ses!Rekey, Ses!Goto, Ses!users, Ses!hub
<1>9. ASSUME NEW e \in Revokers, Ses!Snapshot(e) PROVE Ses!TypeOK'
  BY <1>1, <1>9 DEF Ses!TypeOK, Ses!Snapshot, Ses!Goto, Ses!users, Ses!hub
<1>10. ASSUME NEW e \in Revokers, Ses!Disconnect(e) PROVE Ses!TypeOK'
  <2>1. PICK c \in targets[e] :
           /\ targets' = [targets EXCEPT ![e] = @ \ {c}]
           /\ conns' = conns \ {c}
           /\ Ses!Set(c, IF sock[c] = "over" THEN "over" ELSE "closed")
    BY <1>10 DEF Ses!Disconnect, Ses!Drop
  <2>2. c \in Conns
    BY <1>1 DEF Ses!TypeOK
  <2>3. QED
    BY <1>1, <1>10, <2>1, <2>2 DEF Ses!TypeOK, Ses!Disconnect, Ses!Set, Ses!users
<1>11. ASSUME NEW e \in Revokers, Ses!Respond(e) PROVE Ses!TypeOK'
  BY <1>1, <1>11 DEF Ses!TypeOK, Ses!Respond, Ses!Goto, Ses!users, Ses!hub
<1>12. CASE Ses!Unban
  BY <1>1, <1>12 DEF Ses!TypeOK, Ses!Unban, Ses!users, Ses!hub
<1>13. CASE UNCHANGED sessionVars
  BY <1>1, <1>13 DEF Ses!TypeOK, sessionVars, Ses!users, Ses!hub
<1>14. QED
  BY <1>1, <1>2, <1>3, <1>4, <1>5, <1>6, <1>7, <1>8, <1>9, <1>10, <1>11, <1>12, <1>13
     DEF Next, SessionStep, ModerationStep, ReactionStep, HistoryStep, CommunityStep,
     DmStep, KeyStep, vars, Ses!Next, Ses!ConnStep, Ses!RevokerStep

\* ws_endpoint registers after accept, and no handshake starts over.
LEMMA HandshakeHolds == Ses!TypeOK /\ PastHandshake /\ [Next]_vars => PastHandshake'
<1>1. SUFFICES ASSUME Ses!TypeOK, PastHandshake, [Next]_vars PROVE PastHandshake'
  OBVIOUS
<1>2. ASSUME NEW c \in Conns, Ses!ConnStep(c) PROVE PastHandshake'
  BY <1>1, <1>2 DEF PastHandshake, Ses!TypeOK, Ses!ConnStep, Ses!Resolve, Ses!Accept,
     Ses!AcceptFails, Ses!Leave, Ses!Set, Ses!hub
<1>3. ASSUME NEW e \in Revokers, Ses!Ban(e) \/ Ses!DeleteAccount(e) \/ Ses!Rekey(e)
                              \/ Ses!Snapshot(e) \/ Ses!Respond(e)
      PROVE  PastHandshake'
  BY <1>1, <1>3 DEF PastHandshake, Ses!Ban, Ses!DeleteAccount, Ses!Rekey, Ses!Snapshot,
     Ses!Respond, Ses!hub
<1>4. ASSUME NEW e \in Revokers, Ses!Disconnect(e) PROVE PastHandshake'
  BY <1>1, <1>4 DEF PastHandshake, Ses!TypeOK, Ses!Disconnect, Ses!Drop, Ses!Set
<1>5. CASE Ses!Unban \/ UNCHANGED sessionVars
  BY <1>1, <1>5 DEF PastHandshake, Ses!Unban, sessionVars, Ses!hub
<1>6. QED
  BY <1>1, <1>2, <1>3, <1>4, <1>5 DEF Next, SessionStep, ModerationStep, ReactionStep,
     HistoryStep, CommunityStep,
     DmStep, KeyStep, vars, Ses!Next, Ses!RevokerStep

\* The three ways to be excused travel together: a revocation takes validity away and
\* brings a request that will drop the socket.
LEMMA DropHolds ==
  Ses!TypeOK /\ PastHandshake /\ RegisteredIsDropped /\ [Next]_vars => RegisteredIsDropped'
<1>1. SUFFICES ASSUME Ses!TypeOK, PastHandshake, RegisteredIsDropped, [Next]_vars,
                      NEW s \in Conns, s \in conns'
               PROVE  Ses!Valid(s)' \/ s \in late' \/ Ses!WillDrop(s)'
  <2>1. Ses!TypeOK /\ [Next]_vars => conns' \subseteq Conns
    BY SessionTypes DEF Ses!TypeOK
  <2>2. QED
    BY <2>1 DEF RegisteredIsDropped, Ses!RegisteredIsDropped
<1>a. s \in conns => Ses!Valid(s) \/ s \in late \/ Ses!WillDrop(s)
  BY <1>1 DEF RegisteredIsDropped, Ses!RegisteredIsDropped
<1>2. ASSUME NEW c \in Conns, Ses!Resolve(c)
      PROVE Ses!Valid(s)' \/ s \in late' \/ Ses!WillDrop(s)'
  <2>1. CASE s = c
    BY <1>1, <1>a, <1>2, <2>1 DEF Ses!Resolve, PastHandshake, Ses!hub
  <2>2. CASE s # c
    BY <1>1, <1>a, <1>2, <2>2 DEF Ses!Resolve, Ses!Valid, Ses!WillDrop, Ses!TypeOK,
       Ses!Set, Ses!users, Ses!hub
  <2>3. QED
    BY <2>1, <2>2
<1>3. ASSUME NEW c \in Conns, Ses!Accept(c)
      PROVE Ses!Valid(s)' \/ s \in late' \/ Ses!WillDrop(s)'
  BY <1>1, <1>a, <1>3 DEF Ses!Accept, Ses!Valid, Ses!WillDrop, Ses!TypeOK, Ses!Set,
     Ses!users, Ses!hub
<1>4. ASSUME NEW c \in Conns, Ses!AcceptFails(c)
      PROVE Ses!Valid(s)' \/ s \in late' \/ Ses!WillDrop(s)'
  BY <1>1, <1>a, <1>4 DEF Ses!AcceptFails, Ses!Valid, Ses!WillDrop, Ses!TypeOK, Ses!Set,
     Ses!users, Ses!hub
<1>5. ASSUME NEW c \in Conns, Ses!Leave(c)
      PROVE Ses!Valid(s)' \/ s \in late' \/ Ses!WillDrop(s)'
  BY <1>1, <1>a, <1>5 DEF Ses!Leave, Ses!Valid, Ses!WillDrop, Ses!TypeOK, Ses!Set,
     Ses!users, Ses!hub
<1>6. ASSUME NEW e \in Revokers, Ses!Ban(e) PROVE Ses!WillDrop(s)'
  BY <1>1, <1>6 DEF Ses!Ban, Ses!WillDrop, Ses!TypeOK, Ses!Goto
<1>7. ASSUME NEW e \in Revokers, Ses!DeleteAccount(e) PROVE Ses!WillDrop(s)'
  BY <1>1, <1>7 DEF Ses!DeleteAccount, Ses!WillDrop, Ses!TypeOK, Ses!Goto
<1>8. ASSUME NEW e \in Revokers, Ses!Rekey(e) PROVE Ses!WillDrop(s)'
  BY <1>1, <1>8 DEF Ses!Rekey, Ses!WillDrop, Ses!TypeOK, Ses!Goto
<1>9. ASSUME NEW e \in Revokers, Ses!Snapshot(e) PROVE Ses!WillDrop(s)'
  BY <1>1, <1>9 DEF Ses!Snapshot, Ses!WillDrop, Ses!TypeOK, Ses!Goto, Ses!hub
<1>10. ASSUME NEW e \in Revokers, Ses!Disconnect(e)
      PROVE Ses!Valid(s)' \/ s \in late' \/ Ses!WillDrop(s)'
  BY <1>1, <1>a, <1>10 DEF Ses!Disconnect, Ses!Drop, Ses!Valid, Ses!WillDrop, Ses!TypeOK,
     Ses!Set, Ses!users
<1>11. ASSUME NEW e \in Revokers, Ses!Respond(e)
      PROVE Ses!Valid(s)' \/ s \in late' \/ Ses!WillDrop(s)'
  BY <1>1, <1>a, <1>11 DEF Ses!Respond, Ses!Valid, Ses!WillDrop, Ses!TypeOK, Ses!Goto,
     Ses!users, Ses!hub
<1>12. CASE Ses!Unban
  BY <1>1, <1>a, <1>12 DEF Ses!Unban, Ses!Valid, Ses!WillDrop, Ses!users, Ses!hub
<1>13. CASE UNCHANGED sessionVars
  BY <1>1, <1>a, <1>13 DEF Ses!Valid, Ses!WillDrop, sessionVars, Ses!users, Ses!hub
<1>14. QED
  BY <1>1, <1>2, <1>3, <1>4, <1>5, <1>6, <1>7, <1>8, <1>9, <1>10, <1>11, <1>12, <1>13
     DEF Next, SessionStep, ModerationStep, ReactionStep, HistoryStep, CommunityStep,
     DmStep, KeyStep, vars, Ses!Next, Ses!ConnStep, Ses!RevokerStep

\* Hub.disconnect_user: a socket that was on the hub when the ban, the deletion or the
\* re-key committed is off it when the request answers.
THEOREM RegisteredAreDropped == Spec => []RegisteredIsDropped
<1>1. Init => Ses!TypeOK /\ PastHandshake /\ RegisteredIsDropped
  BY DEF Init, Ses!Init, Ses!TypeOK, PastHandshake, RegisteredIsDropped,
     Ses!RegisteredIsDropped
<1>2. Ses!TypeOK /\ PastHandshake /\ RegisteredIsDropped /\ [Next]_vars
        => (Ses!TypeOK /\ PastHandshake /\ RegisteredIsDropped)'
  BY SessionTypes, HandshakeHolds, DropHolds
<1>3. QED
  BY <1>1, <1>2, PTL DEF Spec

-----------------------------------------------------------------------------
(* Moderation *)

Requested(f) == DOMAIN f = Callers

ModTyped ==
    /\ label \in [Reporters -> Mod!Labels]
    /\ Requested(kind) /\ Requested(step) /\ Requested(answer)
    /\ Requested(seenLabel) /\ Requested(sawRetraction)

\* A report is marked taken down only with the message hidden, and what a request has
\* read of either stays true; a takedown gets to its COMMIT with one of two labels.
ModKnown ==
    /\ \A p \in Reporters : label[p] = "taken_down" => hidden = "yes"
    /\ \A r \in Callers :
          /\ seenLabel[r] = "taken_down" => hidden = "yes"
          /\ sawRetraction[r] # "none" => retracted # "none"
          /\ step[r] \in {"select", "write"} /\ kind[r] = "takedown"
                => seenLabel[r] \in {"pending", "taken_down"}
          /\ answer[r] # "none" => step[r] = "done"

ModInv == ModTyped /\ ModKnown /\ TakeDownTakesEffect

\* What the step of one request leaves to show.
Others(r) ==
    \A q \in Callers \ {r} :
        /\ kind'[q] = kind[q] /\ step'[q] = step[q] /\ answer'[q] = answer[q]
        /\ seenLabel'[q] = seenLabel[q] /\ sawRetraction'[q] = sawRetraction[q]

\* The SELECTs: what they return is noted, the tables stay.
LEMMA ModReads ==
  ASSUME ModInv, NEW r \in Callers, NEW p \in Reporters,
         \/ Mod!ReportRead(r, p) \/ Mod!BlockRead(r, p)
         \/ Mod!DismissRead(r, p) \/ Mod!TakeDownRead(r, p)
  PROVE  ModInv'
<1>1. PICK k : Mod!Read(r, k, p)
  BY DEF Mod!ReportRead, Mod!BlockRead, Mod!DismissRead, Mod!TakeDownRead
<1>2. answer[r] = "none"
  BY <1>1 DEF ModInv, ModKnown, Mod!Read
<1>3. /\ label' = label /\ hidden' = hidden /\ retracted' = retracted
      /\ kind' = [kind EXCEPT ![r] = k]
      /\ seenLabel' = [seenLabel EXCEPT ![r] = label[p]] /\ sawRetraction' = sawRetraction
  BY <1>1 DEF Mod!Read, Mod!tables
<1>4. ASSUME NEW s, NEW a, step' = [step EXCEPT ![r] = s],
             answer'[r] = a, \A q \in Callers \ {r} : answer'[q] = answer[q],
             Requested(answer'),
             a # "none" => s = "done",
             k = "takedown" => /\ a # "ok"
                               /\ s # "done" => label[p] \in {"pending", "taken_down"}
      PROVE  ModInv'
  <2>1. ModTyped'
    BY <1>3, <1>4 DEF ModInv, ModTyped, Requested
  <2>2. Others(r)
    BY <1>3, <1>4 DEF Others, ModInv, ModTyped, Requested
  <2>3. /\ kind'[r] = k /\ step'[r] = s /\ answer'[r] = a
        /\ seenLabel'[r] = label[p] /\ sawRetraction'[r] = sawRetraction[r]
    BY <1>3, <1>4 DEF ModInv, ModTyped, Requested
  <2>4. ModKnown'
    BY <1>3, <1>4, <2>2, <2>3 DEF Others, ModInv, ModKnown
  <2>5. TakeDownTakesEffect'
    BY <1>3, <1>4, <2>2, <2>3 DEF Others, ModInv, TakeDownTakesEffect,
       Mod!TakeDownTakesEffect
  <2>6. QED
    BY <2>1, <2>4, <2>5 DEF ModInv
<1>5. Requested(step) /\ Requested(answer) /\ Requested(kind) /\ label[p] \in Mod!Labels
  BY DEF ModInv, ModTyped
<1>6. CASE Mod!TakeDownRead(r, p)
  <2>1. k = "takedown"
    BY <1>3, <1>5, <1>6 DEF Mod!TakeDownRead, Mod!Read, Requested
  <2>2. CASE label[p] = "dismissed"
    BY <1>4, <1>5, <1>6, <2>2 DEF Mod!TakeDownRead, Mod!Answer, Mod!Goto, Requested
  <2>3. CASE label[p] # "dismissed"
    BY <1>2, <1>4, <1>5, <1>6, <2>3 DEF Mod!TakeDownRead, Mod!Go, Mod!Goto, Requested,
       Mod!Labels
  <2>4. QED
    BY <2>2, <2>3
<1>7. CASE Mod!ReportRead(r, p) \/ Mod!BlockRead(r, p) \/ Mod!DismissRead(r, p)
  <2>1. k # "takedown"
    BY <1>3, <1>5, <1>7 DEF Mod!ReportRead, Mod!BlockRead, Mod!DismissRead, Mod!Read,
       Requested
  <2>2. Mod!Go(r, "write") \/ \E a : Mod!Answer(r, a)
    BY <1>5, <1>7 DEF Mod!ReportRead, Mod!BlockRead, Mod!DismissRead, Mod!Labels
  <2>3. CASE Mod!Go(r, "write")
    BY <1>2, <1>4, <1>5, <2>1, <2>3 DEF Mod!Go, Mod!Goto, Requested
  <2>4. ASSUME NEW a, Mod!Answer(r, a) PROVE ModInv'
    BY <1>4, <1>5, <2>1, <2>4 DEF Mod!Answer, Mod!Goto, Requested
  <2>5. QED
    BY <2>2, <2>3, <2>4
<1>8. QED
  BY <1>6, <1>7

\* ... the one of the retraction too.
LEMMA ModSelects ==
  ASSUME ModInv, NEW r \in Callers, Mod!TakeDownSelect(r)
  PROVE  ModInv'
<1>1. /\ label' = label /\ hidden' = hidden /\ retracted' = retracted
      /\ kind' = kind /\ seenLabel' = seenLabel /\ answer' = answer
      /\ step[r] = "select" /\ step' = [step EXCEPT ![r] = "write"]
      /\ sawRetraction' = [sawRetraction EXCEPT ![r] = retracted]
  BY DEF Mod!TakeDownSelect, Mod!Go, Mod!Goto, Mod!tables
<1>2. ModTyped'
  BY <1>1 DEF ModInv, ModTyped, Requested
<1>3. Others(r) /\ step'[r] = "write" /\ sawRetraction'[r] = retracted
  BY <1>1 DEF Others, ModInv, ModTyped, Requested
<1>4. ModKnown'
  BY <1>1, <1>3 DEF Others, ModInv, ModKnown
<1>5. TakeDownTakesEffect'
  BY <1>1 DEF ModInv, TakeDownTakesEffect, Mod!TakeDownTakesEffect
<1>6. QED
  BY <1>2, <1>4, <1>5 DEF ModInv

\* The commits: the message is hidden before a takedown can answer ok, and is never shown
\* again; a retraction is never taken back.
LEMMA ModWrites ==
  ASSUME ModInv, NEW r \in Callers,
         \/ Mod!ReportInsert(r) \/ Mod!BlockInsert(r) \/ Mod!Unblock(r)
         \/ Mod!DismissCommit(r) \/ Mod!TakeDownCommit(r) \/ Mod!TakeDownRefused(r)
  PROVE  ModInv'
<1>1. PICK a : Mod!Answer(r, a)
  BY DEF Mod!ReportInsert, Mod!BlockInsert, Mod!Unblock, Mod!DismissCommit,
     Mod!TakeDownCommit, Mod!TakeDownRefused
<1>2. /\ step' = [step EXCEPT ![r] = "done"] /\ answer' = [answer EXCEPT ![r] = a]
      /\ seenLabel' = seenLabel /\ sawRetraction' = sawRetraction
      /\ kind' = kind \/ kind' = [kind EXCEPT ![r] = "unblock"]
  BY <1>1 DEF Mod!Answer, Mod!Goto, Mod!Write, Mod!reads, Mod!ReportInsert, Mod!BlockInsert,
     Mod!Unblock, Mod!DismissCommit, Mod!TakeDownCommit, Mod!TakeDownRefused
<1>3. /\ Others(r) /\ step'[r] = "done" /\ answer'[r] = a
      /\ seenLabel'[r] = seenLabel[r] /\ sawRetraction'[r] = sawRetraction[r]
  BY <1>2 DEF Others, ModInv, ModTyped, Requested
<1>4. ASSUME label' \in [Reporters -> Mod!Labels],
             \A p \in Reporters : label'[p] = "taken_down" => hidden' = "yes",
             hidden = "yes" => hidden' = "yes", retracted # "none" => retracted' # "none",
             kind'[r] = "takedown" /\ a = "ok" => hidden' = "yes" /\ retracted' # "none"
      PROVE  ModInv'
  <2>1. ModTyped'
    BY <1>2, <1>4 DEF ModInv, ModTyped, Requested
  <2>2. ModKnown'
    BY <1>3, <1>4 DEF Others, ModInv, ModKnown
  <2>3. TakeDownTakesEffect'
    BY <1>3, <1>4 DEF Others, ModInv, TakeDownTakesEffect, Mod!TakeDownTakesEffect
  <2>4. QED
    BY <2>1, <2>2, <2>3 DEF ModInv
<1>5. /\ label \in [Reporters -> Mod!Labels] /\ Requested(kind) /\ Requested(answer)
      /\ \A p \in Reporters : label[p] = "taken_down" => hidden = "yes"
  BY DEF ModInv, ModTyped, ModKnown
<1>6. CASE Mod!TakeDownCommit(r)
  <2>1. /\ seenLabel[r] \in {"pending", "taken_down"}
        /\ seenLabel[r] = "taken_down" => hidden = "yes"
        /\ sawRetraction[r] # "none" => retracted # "none"
    BY <1>6 DEF Mod!TakeDownCommit, Mod!Write, ModInv, ModKnown
  <2>2. hidden' = "yes"
    BY <1>6, <2>1 DEF Mod!TakeDownCommit
  <2>3. retracted' # "none"
    BY <1>6, <2>1 DEF Mod!TakeDownCommit, Mod!Retract
  <2>4. label' \in [Reporters -> Mod!Labels]
    BY <1>5, <1>6 DEF Mod!TakeDownCommit, Mod!Relabel, Mod!Labels
  <2>5. QED
    BY <1>4, <2>2, <2>3, <2>4
<1>7. CASE Mod!ReportInsert(r) \/ Mod!DismissCommit(r)
  <2>1. hidden' = hidden /\ retracted' = retracted /\ kind' = kind /\ kind[r] # "takedown"
    BY <1>7 DEF Mod!ReportInsert, Mod!DismissCommit, Mod!Write
  <2>2. PICK l \in {"pending", "dismissed"} : label' = label \/ Mod!Relabel(r, l)
    BY <1>7 DEF Mod!ReportInsert, Mod!DismissCommit
  <2>3. /\ label' \in [Reporters -> Mod!Labels]
        /\ \A p \in Reporters : label'[p] = "taken_down" => label[p] = "taken_down"
    BY <1>5, <2>2 DEF Mod!Relabel, Mod!Labels
  <2>4. QED
    BY <1>4, <1>5, <2>1, <2>3
<1>8. CASE Mod!BlockInsert(r) \/ Mod!Unblock(r) \/ Mod!TakeDownRefused(r)
  <2>1. label' = label /\ hidden' = hidden /\ retracted' = retracted
    BY <1>8 DEF Mod!BlockInsert, Mod!Unblock, Mod!TakeDownRefused, Mod!tables
  <2>2. kind'[r] = "takedown" => a # "ok"
    BY <1>2, <1>5, <1>8 DEF Mod!BlockInsert, Mod!Unblock, Mod!TakeDownRefused, Mod!Write,
       Mod!Answer, Requested
  <2>3. QED
    BY <1>4, <1>5, <2>1, <2>2
<1>9. QED
  BY <1>6, <1>7, <1>8

\* take_down_message, for any reports, any requests and a database of any age.
THEOREM TakeDownsTakeEffect == Spec => []TakeDownTakesEffect
<1>1. Init => ModInv
  <2>1. SUFFICES ASSUME Mod!Init PROVE ModInv
    BY DEF Init
  <2>2. ModTyped
    BY <2>1 DEF Mod!Init, ModTyped, Requested, Mod!Labels
  <2>3. ModKnown /\ TakeDownTakesEffect
    BY <2>1 DEF Mod!Init, ModKnown, TakeDownTakesEffect, Mod!TakeDownTakesEffect
  <2>4. QED
    BY <2>2, <2>3 DEF ModInv
<1>2. ModInv /\ [Next]_vars => ModInv'
  <2>1. SUFFICES ASSUME ModInv, [Next]_vars PROVE ModInv'
    OBVIOUS
  <2>2. CASE ModerationStep
    BY <2>1, <2>2, ModReads, ModSelects, ModWrites DEF ModerationStep, Mod!Next
  <2>3. CASE UNCHANGED moderationVars
    BY <2>1, <2>3 DEF moderationVars, ModInv, ModTyped, ModKnown, Requested,
       TakeDownTakesEffect, Mod!TakeDownTakesEffect
  <2>4. ModerationStep \/ UNCHANGED moderationVars
    BY <2>1 DEF Next, vars, ReactionStep, HistoryStep, CommunityStep, DmStep, KeyStep,
       SessionStep
  <2>5. QED
    BY <2>2, <2>3, <2>4
<1>3. QED
  BY <1>1, <1>2, PTL DEF Spec, ModInv

-----------------------------------------------------------------------------
(* Reactions *)

\* A reaction in the table has been noted, and so has what a request is about to announce.
RxKnown ==
    /\ row \in [Users \X Emojis -> Origins \cup {"none", "unsigned"}]
    /\ \A u \in Users, e \in Emojis :
          row[<<u, e>>] \in Origins => <<u, e, row[<<u, e>>]>> \in stored
    /\ DOMAIN rxStep = Requests /\ DOMAIN rxWho = Requests
    /\ DOMAIN emoji = Requests /\ DOMAIN origin = Requests
    /\ \A r \in Requests :
          /\ rxStep[r] \in {"exists", "cap", "upsert", "persisted", "fanout", "removed"}
                => rxWho[r] \in Users /\ emoji[r] \in Emojis
          /\ rxStep[r] \in {"exists", "cap", "upsert"} => origin[r] \in Origins \cup {"unsigned"}
          /\ rxStep[r] = "fanout" /\ origin[r] \in Origins
                => <<rxWho[r], emoji[r], origin[r]>> \in stored

RxInv == RxKnown /\ AnnouncedIsPersisted

\* Steps that touch no row: the request goes on with what it has, or ends.
LEMMA RxQuiet ==
  ASSUME RxInv, NEW r \in Requests,
         row' = row, stored \subseteq stored',
         DOMAIN rxStep' = Requests, DOMAIN rxWho' = Requests,
         DOMAIN emoji' = Requests, DOMAIN origin' = Requests,
         \A q \in Requests \ {r} : /\ rxStep'[q] = rxStep[q] /\ rxWho'[q] = rxWho[q]
                                   /\ emoji'[q] = emoji[q] /\ origin'[q] = origin[q],
         rxStep'[r] # "done" =>
             /\ rxWho'[r] \in Users /\ emoji'[r] \in Emojis
             /\ rxStep'[r] \in {"exists", "cap", "upsert"} => origin'[r] \in Origins \cup {"unsigned"}
             /\ rxStep'[r] = "fanout" /\ origin'[r] \in Origins
                   => <<rxWho'[r], emoji'[r], origin'[r]>> \in stored
  PROVE  RxKnown'
<1>1. \A q \in Requests :
          /\ rxStep'[q] \in {"exists", "cap", "upsert", "persisted", "fanout", "removed"}
                => rxWho'[q] \in Users /\ emoji'[q] \in Emojis
          /\ rxStep'[q] \in {"exists", "cap", "upsert"} => origin'[q] \in Origins \cup {"unsigned"}
          /\ rxStep'[q] = "fanout" /\ origin'[q] \in Origins
                => <<rxWho'[q], emoji'[q], origin'[q]>> \in stored'
  BY DEF RxInv, RxKnown
<1>2. QED
  BY <1>1 DEF RxInv, RxKnown

\* POST up to the write.
LEMMA RxAdds ==
  ASSUME RxInv, NEW r \in Requests,
         \/ \E u \in Users, e \in Emojis, o \in Origins \cup {"unsigned"} : Rx!AddRequest(r, u, e, o)
         \/ Rx!AddExists(r) \/ Rx!AddCap(r)
  PROVE  RxInv'
<1>1. row' = row /\ stored' = stored /\ frames' = frames
  BY DEF Rx!AddRequest, Rx!AddExists, Rx!AddCap, Rx!tables
<1>2. AnnouncedIsPersisted'
  BY <1>1 DEF RxInv, AnnouncedIsPersisted, Rx!AnnouncedIsPersisted
<1>3. DOMAIN rxStep = Requests /\ DOMAIN rxWho = Requests /\ DOMAIN emoji = Requests
      /\ DOMAIN origin = Requests
  BY DEF RxInv, RxKnown
<1>4. CASE \E u \in Users, e \in Emojis, o \in Origins \cup {"unsigned"} : Rx!AddRequest(r, u, e, o)
  <2>1. PICK u \in Users, e \in Emojis, o \in Origins \cup {"unsigned"} :
            /\ rxStep' = [rxStep EXCEPT ![r] = "exists"] /\ rxWho' = [rxWho EXCEPT ![r] = u]
            /\ emoji' = [emoji EXCEPT ![r] = e] /\ origin' = [origin EXCEPT ![r] = o]
    BY <1>4 DEF Rx!AddRequest, Rx!Goto
  <2>2. RxKnown'
    BY <1>1, <1>3, <2>1, RxQuiet
  <2>3. QED
    BY <1>2, <2>2 DEF RxInv
<1>5. CASE Rx!AddExists(r)
  <2>1. PICK s \in {"cap", "upsert"} :
            /\ rxStep[r] = "exists" /\ rxStep' = [rxStep EXCEPT ![r] = s]
            /\ rxWho' = rxWho /\ emoji' = emoji /\ origin' = origin
    BY <1>5 DEF Rx!AddExists, Rx!Goto
  <2>2. RxKnown'
    BY <1>1, <1>3, <2>1, RxQuiet DEF RxInv, RxKnown
  <2>3. QED
    BY <1>2, <2>2 DEF RxInv
<1>6. CASE Rx!AddCap(r)
  <2>1. CASE Rx!Done(r)
    BY <1>1, <1>2, <1>3, <2>1, RxQuiet DEF Rx!Done, Rx!Goto, RxInv
  <2>2. CASE Rx!Goto(r, "upsert") /\ UNCHANGED Rx!locals
    <3>1. /\ rxStep[r] = "cap" /\ rxStep' = [rxStep EXCEPT ![r] = "upsert"]
          /\ rxWho' = rxWho /\ emoji' = emoji /\ origin' = origin
      BY <1>6, <2>2 DEF Rx!AddCap, Rx!Goto, Rx!locals
    <3>2. RxKnown'
      BY <1>1, <1>3, <3>1, RxQuiet DEF RxInv, RxKnown
    <3>3. QED
      BY <1>2, <3>2 DEF RxInv
  <2>3. QED
    BY <1>6, <2>1, <2>2 DEF Rx!AddCap
<1>7. QED
  BY <1>4, <1>5, <1>6

\* The upsert stores what is then in the table; it announces nothing yet.
LEMMA RxUpserts ==
  ASSUME RxInv, NEW r \in Requests, Rx!AddUpsert(r)
  PROVE  RxInv'
<1>1. /\ rxStep[r] = "upsert" /\ rxWho[r] \in Users /\ emoji[r] \in Emojis
      /\ origin[r] \in Origins \cup {"unsigned"}
  BY DEF Rx!AddUpsert, RxInv, RxKnown
<1> DEFINE p == <<rxWho[r], emoji[r]>>
           new == Rx!Upserted(row[p], origin[r])
<1>2. /\ row' = [row EXCEPT ![p] = new]
      /\ stored' = stored \cup {<<rxWho[r], emoji[r], new>>} /\ frames' = frames
  BY DEF Rx!AddUpsert, Rx!At
<1>3. p \in Users \X Emojis /\ new \in Origins \cup {"none", "unsigned"}
  BY <1>1 DEF Rx!Upserted, RxInv, RxKnown
<1>4. row' \in [Users \X Emojis -> Origins \cup {"none", "unsigned"}]
  BY <1>2, <1>3 DEF RxInv, RxKnown
<1>5. ASSUME NEW u \in Users, NEW e \in Emojis, row'[<<u, e>>] \in Origins
      PROVE  <<u, e, row'[<<u, e>>]>> \in stored'
  <2>1. CASE <<u, e>> = p
    <3>1. u = rxWho[r] /\ e = emoji[r] /\ row'[<<u, e>>] = new
      BY <1>2, <1>3, <2>1 DEF RxInv, RxKnown
    <3>2. QED
      BY <1>2, <3>1
  <2>2. CASE <<u, e>> # p
    <3>1. row'[<<u, e>>] = row[<<u, e>>]
      BY <1>2, <1>3, <2>2 DEF RxInv, RxKnown
    <3>2. QED
      BY <1>2, <1>5, <3>1 DEF RxInv, RxKnown
  <2>3. QED
    BY <2>1, <2>2
<1>6. /\ DOMAIN rxStep' = Requests /\ DOMAIN rxWho' = Requests
      /\ DOMAIN emoji' = Requests /\ DOMAIN origin' = Requests
      /\ \A q \in Requests \ {r} : /\ rxStep'[q] = rxStep[q] /\ rxWho'[q] = rxWho[q]
                                   /\ emoji'[q] = emoji[q] /\ origin'[q] = origin[q]
      /\ \/ rxStep'[r] = "done"
         \/ rxStep'[r] = "persisted" /\ rxWho'[r] = rxWho[r] /\ emoji'[r] = emoji[r]
  BY DEF Rx!AddUpsert, Rx!Done, Rx!Goto, Rx!locals, RxInv, RxKnown
<1>7. \A q \in Requests :
          /\ rxStep'[q] \in {"exists", "cap", "upsert", "persisted", "fanout", "removed"}
                => rxWho'[q] \in Users /\ emoji'[q] \in Emojis
          /\ rxStep'[q] \in {"exists", "cap", "upsert"} => origin'[q] \in Origins \cup {"unsigned"}
          /\ rxStep'[q] = "fanout" /\ origin'[q] \in Origins
                => <<rxWho'[q], emoji'[q], origin'[q]>> \in stored'
  <2>1. TAKE q \in Requests
  <2>2. CASE q = r
    BY <1>1, <1>6, <2>2
  <2>3. CASE q # r
    BY <1>2, <1>6, <2>3 DEF RxInv, RxKnown
  <2>4. QED
    BY <2>2, <2>3
<1>8. RxKnown'
  BY <1>4, <1>5, <1>6, <1>7 DEF RxKnown
<1>9. AnnouncedIsPersisted'
  BY <1>2 DEF RxInv, AnnouncedIsPersisted, Rx!AnnouncedIsPersisted
<1>10. QED
  BY <1>8, <1>9 DEF RxInv

\* The frame: read from the table, then sent; and the end of a removal.
LEMMA RxFrames ==
  ASSUME RxInv, NEW r \in Requests,
         Rx!Persisted(r) \/ Rx!AddFanout(r) \/ Rx!RemoveFanout(r)
  PROVE  RxInv'
<1>1. Origins \cap {"none", "unsigned"} = {}
  BY FeatureConstants DEF Rx!ReactionConstants
<1>2. row' = row /\ stored' = stored
  BY DEF Rx!Persisted, Rx!AddFanout, Rx!RemoveFanout, Rx!tables
<1>3. DOMAIN rxStep = Requests /\ DOMAIN rxWho = Requests /\ DOMAIN emoji = Requests
      /\ DOMAIN origin = Requests
  BY DEF RxInv, RxKnown
<1>4. CASE Rx!Persisted(r)
  <2>1. /\ rxStep[r] = "persisted" /\ rxStep' = [rxStep EXCEPT ![r] = "fanout"]
        /\ rxWho' = rxWho /\ emoji' = emoji /\ frames' = frames
        /\ origin' = [origin EXCEPT ![r] = IF row[<<rxWho[r], emoji[r]>>] = "none" THEN "unsigned"
                                           ELSE row[<<rxWho[r], emoji[r]>>]]
    BY <1>4 DEF Rx!Persisted, Rx!Goto, Rx!At
  <2>2. rxWho[r] \in Users /\ emoji[r] \in Emojis
    BY <2>1 DEF RxInv, RxKnown
  <2>3. origin'[r] \in Origins => origin'[r] = row[<<rxWho[r], emoji[r]>>]
    BY <1>1, <1>3, <2>1
  <2>4. origin'[r] \in Origins => <<rxWho[r], emoji[r], origin'[r]>> \in stored
    BY <2>2, <2>3 DEF RxInv, RxKnown
  <2>5. RxKnown'
    BY <1>2, <1>3, <2>1, <2>2, <2>4, RxQuiet
  <2>6. QED
    BY <1>2, <2>1, <2>5 DEF RxInv, AnnouncedIsPersisted, Rx!AnnouncedIsPersisted
<1>5. CASE Rx!AddFanout(r) \/ Rx!RemoveFanout(r)
  <2>1. RxKnown'
    BY <1>2, <1>3, <1>5, RxQuiet DEF Rx!AddFanout, Rx!RemoveFanout, Rx!Done, Rx!Goto
  <2>2. \A f \in frames' : f \in frames
            \/ (rxStep[r] = "fanout" /\ f = <<rxWho[r], emoji[r], "add", origin[r]>>)
            \/ f[4] = "unsigned"
    BY <1>5 DEF Rx!AddFanout, Rx!RemoveFanout
  <2>3. ASSUME NEW f \in frames', f[4] \in Origins PROVE <<f[1], f[2], f[4]>> \in stored
    <3>1. CASE f \in frames
      BY <2>3, <3>1 DEF RxInv, AnnouncedIsPersisted, Rx!AnnouncedIsPersisted
    <3>2. CASE rxStep[r] = "fanout" /\ f = <<rxWho[r], emoji[r], "add", origin[r]>>
      BY <2>3, <3>2 DEF RxInv, RxKnown
    <3>3. QED
      BY <1>1, <2>2, <2>3, <3>1, <3>2
  <2>4. QED
    BY <1>2, <2>1, <2>3 DEF RxInv, AnnouncedIsPersisted, Rx!AnnouncedIsPersisted
<1>6. QED
  BY <1>4, <1>5

\* Rows that go: a removal, a deleted account.
LEMMA RxErases ==
  ASSUME RxInv,
         \/ \E r \in Requests, u \in Users, e \in Emojis : Rx!Remove(r, u, e)
         \/ \E u \in Users : Rx!PurgeUserReactions(u)
  PROVE  RxInv'
<1>1. Origins \cap {"none", "unsigned"} = {}
  BY FeatureConstants DEF Rx!ReactionConstants
<1>2. stored' = stored /\ frames' = frames
  BY DEF Rx!Remove, Rx!PurgeUserReactions, Rx!request
<1>3. /\ row' \in [Users \X Emojis -> Origins \cup {"none", "unsigned"}]
      /\ \A p \in Users \X Emojis : row'[p] \in {row[p], "none"}
  BY DEF Rx!Remove, Rx!PurgeUserReactions, RxInv, RxKnown
<1>4. ASSUME NEW u \in Users, NEW e \in Emojis, row'[<<u, e>>] \in Origins
      PROVE  <<u, e, row'[<<u, e>>]>> \in stored
  <2>1. row'[<<u, e>>] = row[<<u, e>>]
    BY <1>1, <1>3, <1>4
  <2>2. QED
    BY <1>4, <2>1 DEF RxInv, RxKnown
<1>5. /\ DOMAIN rxStep' = Requests /\ DOMAIN rxWho' = Requests
      /\ DOMAIN emoji' = Requests /\ DOMAIN origin' = Requests
      /\ \A q \in Requests :
            \/ /\ rxStep'[q] = rxStep[q] /\ rxWho'[q] = rxWho[q]
               /\ emoji'[q] = emoji[q] /\ origin'[q] = origin[q]
            \/ rxStep'[q] = "done"
            \/ rxStep'[q] = "removed" /\ rxWho'[q] \in Users /\ emoji'[q] \in Emojis
  <2>1. CASE \E u \in Users : Rx!PurgeUserReactions(u)
    BY <2>1 DEF Rx!PurgeUserReactions, Rx!request, Rx!locals, RxInv, RxKnown
  <2>2. CASE \E r \in Requests, u \in Users, e \in Emojis : Rx!Remove(r, u, e)
    BY <2>2 DEF Rx!Remove, Rx!Done, Rx!Goto, RxInv, RxKnown
  <2>3. QED
    BY <2>1, <2>2
<1>6. \A q \in Requests :
          /\ rxStep'[q] \in {"exists", "cap", "upsert", "persisted", "fanout", "removed"}
                => rxWho'[q] \in Users /\ emoji'[q] \in Emojis
          /\ rxStep'[q] \in {"exists", "cap", "upsert"} => origin'[q] \in Origins \cup {"unsigned"}
          /\ rxStep'[q] = "fanout" /\ origin'[q] \in Origins
                => <<rxWho'[q], emoji'[q], origin'[q]>> \in stored'
  BY <1>2, <1>5 DEF RxInv, RxKnown
<1>7. RxKnown'
  BY <1>2, <1>3, <1>4, <1>5, <1>6 DEF RxKnown
<1>8. QED
  BY <1>2, <1>7 DEF RxInv, AnnouncedIsPersisted, Rx!AnnouncedIsPersisted

\* Nothing is announced at the start.
LEMMA RxInit == Init => RxInv
<1>1. SUFFICES ASSUME Rx!Init PROVE RxInv
  BY DEF Init
<1>2. Origins \cap {"none", "unsigned"} = {}
  BY FeatureConstants DEF Rx!ReactionConstants
<1>3. RxKnown
  BY <1>1, <1>2 DEF Rx!Init, RxKnown
<1>4. AnnouncedIsPersisted
  BY <1>1 DEF Rx!Init, AnnouncedIsPersisted, Rx!AnnouncedIsPersisted
<1>5. QED
  BY <1>3, <1>4 DEF RxInv

\* Every step of Features keeps what was announced stored.
LEMMA RxStep == RxInv /\ [Next]_vars => RxInv'
<1>1. SUFFICES ASSUME RxInv, [Next]_vars PROVE RxInv'
  OBVIOUS
<1>2. CASE /\ row' = row /\ stored' = stored /\ frames' = frames
           /\ rxStep' = rxStep /\ rxWho' = rxWho /\ emoji' = emoji /\ origin' = origin
  BY <1>1, <1>2 DEF RxInv, RxKnown, AnnouncedIsPersisted, Rx!AnnouncedIsPersisted
<1>3. CASE Rx!ReadStep \/ Rx!TakeDown \/ \E u \in Users : Rx!Block(u)
  BY <1>2, <1>3 DEF Rx!ReadStep, Rx!ReadBlocked, Rx!ReadCounts, Rx!ReadMine, Rx!ReadSample,
     Rx!TakeDown, Rx!Block, Rx!tables, Rx!request, Rx!locals
<1>4. CASE ReactionStep
  BY <1>1, <1>3, <1>4, RxAdds, RxUpserts, RxFrames, RxErases
     DEF ReactionStep, Rx!Next, Rx!RequestStep
<1>5. CASE UNCHANGED reactionVars
  BY <1>2, <1>5 DEF reactionVars
<1>6. ReactionStep \/ UNCHANGED reactionVars
  BY <1>1 DEF Next, vars, ModerationStep, HistoryStep, CommunityStep, DmStep, KeyStep,
     SessionStep
<1>7. QED
  BY <1>4, <1>5, <1>6

\* persisted_origin: for any devices, caps and provenance, what is announced was stored.
THEOREM AnnouncementsArePersisted == Spec => []AnnouncedIsPersisted
<1>1. RxInv => AnnouncedIsPersisted
  BY DEF RxInv
<1>2. QED
  BY <1>1, RxInit, RxStep, PTL DEF Spec

-----------------------------------------------------------------------------
(* Communities *)

\* The finite sets of the instance are those of this module; so are the table sizes finite.
LEMMA ComFinite ==
  /\ \A S : Com!IsFiniteSet(S) = IsFiniteSet(S) /\ Com!Cardinality(S) = Cardinality(S)
  /\ IsFiniteSet(Users) /\ IsFiniteSet(Requests) /\ IsFiniteSet(Comms)
  /\ Comms \subseteq Nat /\ Name \in [Comms -> Nat] /\ PageSize \in Nat \ {0}
<1>1. \A S : Com!IsFiniteSet(S) = IsFiniteSet(S) /\ Com!Cardinality(S) = Cardinality(S)
  BY DEF Com!IsFiniteSet, IsFiniteSet, Com!Cardinality, Cardinality
<1>2. QED
  BY <1>1, FeatureConstants DEF Com!CommunityConstants

Joining == {"check", "insert", "count"}

ComTyped ==
    /\ rows \in [Comms -> SUBSET Users] /\ count \in [Comms -> Int] /\ cut \in [Comms -> Nat]
    /\ status \in [Comms -> {"public", "hidden", "down"}]
    /\ DOMAIN joinStep = Requests /\ DOMAIN who = Requests /\ DOMAIN comm = Requests
    /\ \A r \in Requests : joinStep[r] \in Joining => who[r] \in Users /\ comm[r] \in Comms

\* A count lacks exactly the joins between their two transactions and the joins cut there.
CountsOwed ==
    \A c \in Comms :
        count[c] + Cardinality(Com!Counting(c)) + cut[c] = Cardinality(rows[c])

\* The joins of c between their two transactions, and how many they are.
LEMMA CountingIsFinite ==
  ASSUME NEW c
  PROVE  /\ IsFiniteSet(Com!Counting(c)) /\ Cardinality(Com!Counting(c)) \in Nat
         /\ IsFiniteSet(Com!Counting(c)') /\ Cardinality(Com!Counting(c)') \in Nat
<1>1. Com!Counting(c) \in SUBSET Requests /\ Com!Counting(c)' \in SUBSET Requests
  BY DEF Com!Counting
<1>2. QED
  BY <1>1, ComFinite, FS_Subset, FS_CardinalityType

\* The rows of a community are members of a finite table.
LEMMA RowsAreFinite ==
  ASSUME ComTyped, NEW c \in Comms
  PROVE  IsFiniteSet(rows[c]) /\ Cardinality(rows[c]) \in Nat
BY ComFinite, FS_Subset, FS_CardinalityType DEF ComTyped

\* Steps that write neither a row nor a count, and leave the joins between the two alone.
LEMMA CountQuiet ==
  ASSUME ComTyped, CountsOwed, UNCHANGED <<rows, count, cut>>,
         \A c \in Comms : Com!Counting(c)' = Com!Counting(c)
  PROVE  CountsOwed'
BY DEF CountsOwed

\* A request looks around before it writes.
LEMMA CountLooks ==
  ASSUME ComTyped, CountsOwed, NEW r \in Requests,
         \/ \E u \in Users, c \in Comms : Com!JoinLookup(r, u, c)
         \/ Com!JoinAgain(r) \/ Com!JoinCheck(r)
  PROVE  ComTyped' /\ CountsOwed'
<1>1. /\ joinStep[r] \in {"new", "again", "check"} /\ joinStep'[r] # "count"
      /\ UNCHANGED <<rows, count, cut, status>>
      /\ \A q \in Requests \ {r} : joinStep'[q] = joinStep[q] /\ comm'[q] = comm[q]
  BY DEF ComTyped, Com!JoinLookup, Com!JoinAgain, Com!JoinCheck, Com!Goto, Com!tables,
     Com!faults
<1>2. \A c \in Comms : Com!Counting(c)' = Com!Counting(c)
  BY <1>1 DEF Com!Counting
<1>3. ComTyped'
  BY DEF ComTyped, Joining, Com!JoinLookup, Com!JoinAgain, Com!JoinCheck, Com!Goto,
     Com!tables, Com!faults
<1>4. QED
  BY <1>1, <1>2, <1>3, CountQuiet

\* The row of a join: one more member, one more join that has yet to count.
LEMMA CountInserts ==
  ASSUME ComTyped, CountsOwed, NEW r \in Requests, Com!JoinInsert(r)
  PROVE  ComTyped' /\ CountsOwed'
<1>1. /\ joinStep[r] = "insert" /\ who[r] \in Users /\ comm[r] \in Comms
      /\ UNCHANGED <<count, cut, status, who, comm>>
  BY DEF ComTyped, Joining, Com!JoinInsert, Com!faults
<1>2. CASE UNCHANGED rows
  <2>1. joinStep' \in {[joinStep EXCEPT ![r] = "notFound"], [joinStep EXCEPT ![r] = "joined"]}
    BY <1>1, <1>2 DEF ComTyped, Com!JoinInsert, Com!Goto
  <2>2. \A c \in Comms : Com!Counting(c)' = Com!Counting(c)
    BY <1>1, <2>1 DEF ComTyped, Com!Counting
  <2>3. ComTyped'
    BY <1>1, <1>2, <2>1 DEF ComTyped, Joining
  <2>4. QED
    BY <1>1, <1>2, <2>2, <2>3, CountQuiet
<1>3. CASE ~UNCHANGED rows
  <2>1. /\ joinStep' = [joinStep EXCEPT ![r] = "count"] /\ who[r] \notin rows[comm[r]]
        /\ rows' = [rows EXCEPT ![comm[r]] = @ \cup {who[r]}]
    BY <1>3 DEF Com!JoinInsert, Com!Goto
  <2>2. ComTyped'
    BY <1>1, <2>1 DEF ComTyped, Joining
  <2>3. ASSUME NEW c \in Comms
        PROVE  count'[c] + Cardinality(Com!Counting(c)') + cut'[c] = Cardinality(rows'[c])
    <3>1. count[c] + Cardinality(Com!Counting(c)) + cut[c] = Cardinality(rows[c])
      BY ComFinite DEF CountsOwed
    <3>2. CASE c # comm[r]
      <4>1. Com!Counting(c)' = Com!Counting(c) /\ rows'[c] = rows[c]
        BY <1>1, <2>1, <3>2 DEF ComTyped, Com!Counting
      <4>2. QED
        BY <1>1, <3>1, <4>1
    <3>3. CASE c = comm[r]
      <4>1. Com!Counting(c)' = Com!Counting(c) \cup {r} /\ r \notin Com!Counting(c)
        BY <1>1, <2>1, <3>3 DEF ComTyped, Com!Counting
      <4>2. rows'[c] = rows[c] \cup {who[r]} /\ who[r] \notin rows[c]
        BY <1>1, <2>1, <3>3 DEF ComTyped
      <4>3. /\ Cardinality(Com!Counting(c)') = Cardinality(Com!Counting(c)) + 1
            /\ Cardinality(rows'[c]) = Cardinality(rows[c]) + 1
        BY <4>1, <4>2, CountingIsFinite, RowsAreFinite, FS_AddElement
      <4>4. count[c] \in Int /\ cut[c] \in Int /\ Cardinality(Com!Counting(c)) \in Int
        BY CountingIsFinite DEF ComTyped
      <4>5. QED
        BY <1>1, <3>1, <4>3, <4>4
    <3>4. QED
      BY <3>2, <3>3
  <2>4. QED
    BY <2>2, <2>3, ComFinite DEF CountsOwed
<1>4. QED
  BY <1>2, <1>3

\* The count of a join: one more counted, one join less that has yet to count.
LEMMA CountCounts ==
  ASSUME ComTyped, CountsOwed, NEW r \in Requests, Com!JoinCount(r)
  PROVE  ComTyped' /\ CountsOwed'
<1>1. /\ joinStep[r] = "count" /\ joinStep' = [joinStep EXCEPT ![r] = "joined"]
      /\ comm[r] \in Comms
      /\ count' = [count EXCEPT ![comm[r]] = @ + 1]
      /\ UNCHANGED <<rows, cut, status, who, comm>>
  BY DEF ComTyped, Joining, Com!JoinCount, Com!Goto, Com!faults
<1>2. ComTyped'
  BY <1>1 DEF ComTyped, Joining
<1>3. ASSUME NEW c \in Comms
      PROVE  count'[c] + Cardinality(Com!Counting(c)') + cut'[c] = Cardinality(rows'[c])
  <2>1. count[c] + Cardinality(Com!Counting(c)) + cut[c] = Cardinality(rows[c])
    BY ComFinite DEF CountsOwed
  <2>2. CASE c # comm[r]
    <3>1. Com!Counting(c)' = Com!Counting(c) /\ count'[c] = count[c]
      BY <1>1, <2>2 DEF ComTyped, Com!Counting
    <3>2. QED
      BY <1>1, <2>1, <3>1
  <2>3. CASE c = comm[r]
    <3>1. Com!Counting(c)' = Com!Counting(c) \ {r} /\ r \in Com!Counting(c)
      BY <1>1, <2>3 DEF ComTyped, Com!Counting
    <3>2. Cardinality(Com!Counting(c)') = Cardinality(Com!Counting(c)) - 1
      BY <3>1, CountingIsFinite, FS_RemoveElement
    <3>3. count'[c] = count[c] + 1
      BY <1>1, <2>3 DEF ComTyped
    <3>4. count[c] \in Int /\ cut[c] \in Int /\ Cardinality(Com!Counting(c)) \in Int
      BY CountingIsFinite DEF ComTyped
    <3>5. QED
      BY <1>1, <2>1, <3>2, <3>3, <3>4
  <2>4. QED
    BY <2>2, <2>3
<1>4. QED
  BY <1>2, <1>3, ComFinite DEF CountsOwed

\* Account deletion takes the member and its count in one transaction.
LEMMA CountPurges ==
  ASSUME ComTyped, CountsOwed, NEW u \in Users, Com!DeleteAccount(u)
  PROVE  ComTyped' /\ CountsOwed'
<1>1. /\ count' = [c \in Comms |-> IF u \in rows[c] THEN count[c] - 1 ELSE count[c]]
      /\ rows' = [c \in Comms |-> rows[c] \ {u}]
      /\ UNCHANGED <<cut, status, joinStep, who, comm>>
  BY DEF Com!DeleteAccount, Com!Purge, Com!joins, Com!faults
<1>2. ComTyped'
  BY <1>1 DEF ComTyped
<1>3. ASSUME NEW c \in Comms
      PROVE  count'[c] + Cardinality(Com!Counting(c)') + cut'[c] = Cardinality(rows'[c])
  <2>1. count[c] + Cardinality(Com!Counting(c)) + cut[c] = Cardinality(rows[c])
    BY ComFinite DEF CountsOwed
  <2>2. Com!Counting(c)' = Com!Counting(c)
    BY <1>1 DEF Com!Counting
  <2>3. Cardinality(rows'[c]) = IF u \in rows[c] THEN Cardinality(rows[c]) - 1
                                                 ELSE Cardinality(rows[c])
    BY <1>1, RowsAreFinite, FS_RemoveElement
  <2>4. count[c] \in Int /\ cut[c] \in Int /\ Cardinality(Com!Counting(c)) \in Int
    BY CountingIsFinite DEF ComTyped
  <2>5. QED
    BY <1>1, <2>1, <2>2, <2>3, <2>4
<1>4. QED
  BY <1>2, <1>3, ComFinite DEF CountsOwed

\* A crash turns the joins that have yet to count into joins that were cut.
LEMMA CountCrashes ==
  ASSUME ComTyped, CountsOwed, Com!Crash
  PROVE  ComTyped' /\ CountsOwed'
<1>1. /\ cut' = [c \in Comms |-> cut[c] + Cardinality(Com!Counting(c))]
      /\ joinStep' = [r \in Requests |-> IF joinStep[r] = "new" THEN "new" ELSE "dead"]
      /\ UNCHANGED <<rows, count, status, who, comm>>
  BY ComFinite DEF Com!Crash, Com!Counting, Com!tables
<1>2. ComTyped'
  BY <1>1, CountingIsFinite DEF ComTyped, Joining
<1>3. ASSUME NEW c \in Comms
      PROVE  count'[c] + Cardinality(Com!Counting(c)') + cut'[c] = Cardinality(rows'[c])
  <2>1. count[c] + Cardinality(Com!Counting(c)) + cut[c] = Cardinality(rows[c])
    BY ComFinite DEF CountsOwed
  <2>2. Com!Counting(c)' = {}
    BY <1>1 DEF Com!Counting
  <2>3. Cardinality(Com!Counting(c)') = 0
    BY <2>2, FS_EmptySet
  <2>4. count[c] \in Int /\ cut[c] \in Int /\ Cardinality(Com!Counting(c)) \in Int
    BY CountingIsFinite DEF ComTyped
  <2>5. QED
    BY <1>1, <2>1, <2>3, <2>4
<1>4. QED
  BY <1>2, <1>3, ComFinite DEF CountsOwed

\* Status changes and the walk of a client write no member.
LEMMA CountBystands ==
  ASSUME ComTyped, CountsOwed,
         \/ \E c \in Comms, s \in {"public", "hidden", "down"} : Com!SetStatus(c, s)
         \/ \E s \in {"members", "name"} : Com!StartWalk(s)
         \/ Com!Discover
         \/ UNCHANGED communityVars
  PROVE  ComTyped' /\ CountsOwed'
<1>1. UNCHANGED <<rows, count, cut, joinStep, who, comm>>
  BY DEF Com!SetStatus, Com!StartWalk, Com!Discover, Com!tables, Com!joins, Com!faults,
     communityVars
<1>2. status' \in [Comms -> {"public", "hidden", "down"}]
  BY DEF ComTyped, Com!SetStatus, Com!StartWalk, Com!Discover, Com!tables, communityVars
<1>3. \A c \in Comms : Com!Counting(c)' = Com!Counting(c)
  BY <1>1 DEF Com!Counting
<1>4. QED
  BY <1>1, <1>2, <1>3, CountQuiet DEF ComTyped

\* Every step of Features keeps the count and the rows together.
LEMMA CountStep == ComTyped /\ CountsOwed /\ [Next]_vars => ComTyped' /\ CountsOwed'
<1>1. SUFFICES ASSUME ComTyped, CountsOwed, [Next]_vars PROVE ComTyped' /\ CountsOwed'
  OBVIOUS
<1>2. CASE CommunityStep
  BY <1>1, <1>2, CountLooks, CountInserts, CountCounts, CountPurges, CountCrashes,
     CountBystands
     DEF CommunityStep, Com!Next, Com!Requesting, Com!JoinStep
<1>3. CommunityStep \/ UNCHANGED communityVars
  BY <1>1 DEF Next, vars, ModerationStep, ReactionStep, HistoryStep, DmStep, KeyStep,
     SessionStep
<1>4. QED
  BY <1>1, <1>2, <1>3, CountBystands

\* The stored counts are right at the start.
LEMMA CountInit == Init => ComTyped /\ CountsOwed
<1>1. SUFFICES ASSUME Com!Init PROVE ComTyped /\ CountsOwed
  BY DEF Init
<1>2. ComTyped
  <2>1. \A c \in Comms : Cardinality(rows[c]) \in Int
    BY <1>1, ComFinite, FS_Subset, FS_CardinalityType DEF Com!Init
  <2>2. count \in [Comms -> Int]
    BY <1>1, <2>1, ComFinite DEF Com!Init
  <2>3. QED
    BY <1>1, <2>2 DEF Com!Init, ComTyped, Joining
<1>3. ASSUME NEW c \in Comms
      PROVE  count[c] + Cardinality(Com!Counting(c)) + cut[c] = Cardinality(rows[c])
  <2>1. Com!Counting(c) = {}
    BY <1>1 DEF Com!Init, Com!Counting
  <2>2. Cardinality(Com!Counting(c)) = 0 /\ cut[c] = 0 /\ count[c] = Cardinality(rows[c])
    BY <1>1, <2>1, FS_EmptySet, ComFinite DEF Com!Init
  <2>3. Cardinality(rows[c]) \in Nat
    BY <1>2, RowsAreFinite
  <2>4. QED
    BY <2>2, <2>3
<1>4. QED
  BY <1>2, <1>3, ComFinite DEF CountsOwed

\* Without a crash no join is cut.
CutInv == crashes \in Nat /\ (crashes = 0 => \A c \in Comms : cut[c] = 0)

\* Only a crash cuts joins, and it is counted.
LEMMA CutStep == CutInv /\ [Next]_vars => CutInv'
<1>1. SUFFICES ASSUME CutInv, [Next]_vars PROVE CutInv'
  OBVIOUS
<1>2. CASE Com!Crash
  BY <1>1, <1>2 DEF CutInv, Com!Crash
<1>3. ASSUME Com!Next PROVE Com!Crash \/ UNCHANGED <<crashes, cut>>
  BY <1>3 DEF Com!Next, Com!Requesting, Com!JoinStep, Com!JoinLookup, Com!JoinAgain,
     Com!JoinCheck, Com!JoinInsert, Com!JoinCount, Com!SetStatus, Com!StartWalk,
     Com!Discover, Com!DeleteAccount, Com!Purge, Com!faults
<1>4. CommunityStep \/ UNCHANGED communityVars
  BY <1>1 DEF Next, vars, ModerationStep, ReactionStep, HistoryStep, DmStep, KeyStep,
     SessionStep
<1>5. QED
  BY <1>1, <1>2, <1>3, <1>4 DEF CutInv, CommunityStep, communityVars

\* join and account deletion in any order, for any users, communities and requests:
\* member_count never exceeds the rows, and is their number where no join is under way
\* and no crash has cut one.
THEOREM CountsAreRows == Spec => []CountIsRows
<1>1. Init => CutInv
  BY DEF Init, Com!Init, CutInv
<1>2. ComTyped /\ CountsOwed /\ CutInv => CountIsRows
  <2>1. SUFFICES ASSUME ComTyped, CountsOwed, CutInv, NEW c \in Comms
                 PROVE  /\ count[c] <= Cardinality(rows[c])
                        /\ crashes = 0 /\ Com!Counting(c) = {} =>
                              count[c] = Cardinality(rows[c])
    BY ComFinite DEF CountIsRows, Com!CountIsRows
  <2>2. /\ count[c] + Cardinality(Com!Counting(c)) + cut[c] = Cardinality(rows[c])
        /\ count[c] \in Int /\ cut[c] \in Nat
    BY <2>1 DEF CountsOwed, ComTyped
  <2>3. Cardinality(Com!Counting(c)) \in Nat /\ Cardinality(rows[c]) \in Nat
    BY <2>1, CountingIsFinite, RowsAreFinite
  <2>4. Com!Counting(c) = {} => Cardinality(Com!Counting(c)) = 0
    BY FS_EmptySet
  <2>5. crashes = 0 => cut[c] = 0
    BY <2>1 DEF CutInv
  <2>6. QED
    BY <2>2, <2>3, <2>4, <2>5
<1>3. QED
  BY CountInit, CountStep, CutStep, <1>1, <1>2, PTL DEF Spec

-----------------------------------------------------------------------------
(* The directory walk *)

\* The order of the directory, as a relation between communities.
Listing == {p \in Comms \X Comms : Com!Before(p[1], p[2])}

\* A community that did not move is listed when the cursor passes it, once.
WalkInv ==
    /\ walk \in {"new", "more", "done"} /\ shown \in [Comms -> Nat]
    /\ cursor = <<>> \/ (cursor[1] \in Int /\ cursor[2] \in Comms)
    /\ walk = "new" => cursor = <<>> /\ moved = {}
    /\ \A c \in Comms \ moved :
          /\ walk # "done" =>
                /\ Com!After(c) => shown[c] = 0
                /\ shown[c] <= 1
                /\ status[c] = "public" /\ ~Com!After(c) => shown[c] = 1
    /\ UnmovedIsListedOnce

\* Whatever is not about the walk moves the communities it changes.
LEMMA WalkFrame ==
  ASSUME WalkInv, UNCHANGED <<walk, sort, cursor, shown>>,
         walk = "new" => moved' = moved,
         \A c \in Comms \ moved' : walk # "new" =>
              c \notin moved /\ count'[c] = count[c] /\ status'[c] = status[c]
  PROVE  WalkInv'
<1>1. CASE walk = "new"
  BY <1>1 DEF WalkInv, UnmovedIsListedOnce, Com!UnmovedIsListedOnce, Com!After
<1>2. CASE walk # "new"
  <2>1. \A c \in Comms \ moved' : Com!After(c)' = Com!After(c)
    BY <1>2 DEF Com!After, Com!Key
  <2>2. QED
    BY <1>2, <2>1 DEF WalkInv, UnmovedIsListedOnce, Com!UnmovedIsListedOnce
<1>3. QED
  BY <1>1, <1>2

\* The sort key and the id order the communities.
LEMMA ListingOrders ==
  ASSUME ComTyped, NEW S \in SUBSET Comms
  PROVE  /\ Orders(Listing, S)
         /\ \A c, d \in Comms : <<c, d>> \in Listing <=> Com!Before(c, d)
<1>1. \A c \in Comms : Com!Key(c) \in Int /\ c \in Nat
  BY ComFinite DEF ComTyped, Com!Key
<1>2. \A c, d \in Comms : <<c, d>> \in Listing <=> Com!Before(c, d)
  BY DEF Listing
<1>3. QED
  BY <1>1, <1>2 DEF Orders, Com!Before

\* The rows of a page: the first of the rest, all of it when no more than a page is left.
LEMMA PageCuts ==
  ASSUME ComTyped
  PROVE  /\ \A c \in Com!Page, d \in Com!Rest \ Com!Page : Com!Before(c, d)
         /\ Cardinality(Com!Rest) <= PageSize => Com!Page = Com!Rest
         /\ Com!Rest # {} =>
              \E c \in Com!Page : \A d \in Com!Page \ {c} : Com!Before(d, c)
         /\ Com!Page \subseteq Com!Rest /\ Com!Rest \subseteq Comms
<1>1. Com!Rest \in SUBSET Comms /\ IsFiniteSet(Com!Rest)
  BY ComFinite, FS_Subset DEF Com!Rest, Com!Discoverable
<1>2. \A c \in Com!Rest : {d \in Com!Rest : Com!Before(d, c)} = Prior(Listing, Com!Rest, c)
  BY <1>1, ListingOrders DEF Prior
<1>3. Com!Page = FirstOf(Listing, Com!Rest, PageSize)
  BY <1>2, ComFinite DEF Com!Page, FirstOf
<1>4. /\ \A c \in Com!Page, d \in Com!Rest \ Com!Page : <<c, d>> \in Listing
      /\ Com!Rest # {} => Com!Page # {}
      /\ Cardinality(Com!Rest) <= PageSize => Com!Page = Com!Rest
      /\ Com!Page # {} => \E m \in Com!Page : \A x \in Com!Page \ {m} : <<x, m>> \in Listing
  BY <1>1, <1>3, ListingOrders, LimitCuts, ComFinite
<1>5. Com!Page \subseteq Com!Rest
  BY DEF Com!Page
<1>6. QED
  BY <1>1, <1>4, <1>5, ListingOrders

\* A page of discover.
LEMMA WalkDiscovers ==
  ASSUME ComTyped, WalkInv, Com!Discover
  PROVE  WalkInv'
<1>1. /\ walk = "more"
      /\ shown' = [c \in Comms |-> IF c \in Com!Page THEN shown[c] + 1 ELSE shown[c]]
      /\ UNCHANGED <<rows, count, status, sort, moved>>
  BY DEF Com!Discover, Com!tables
<1>2. /\ Com!Page \subseteq Com!Rest
      /\ \A c \in Com!Rest : c \in Comms /\ Com!After(c) /\ status[c] = "public"
      /\ \A c \in Comms \ Com!Rest : status[c] = "public" => ~Com!After(c)
  BY PageCuts DEF Com!Rest, Com!Discoverable
<1>3. shown' \in [Comms -> Nat]
  BY <1>1 DEF WalkInv
<1>4. ASSUME NEW c \in Comms \ moved
      PROVE  /\ shown'[c] <= 1
             /\ c \in Com!Page => shown'[c] = 1
             /\ c \notin Com!Page => shown'[c] = shown[c]
             /\ c \notin Com!Rest /\ status[c] = "public" => shown'[c] = 1
  BY <1>1, <1>2 DEF WalkInv
<1>5. CASE Cardinality(Com!Rest) > PageSize
  <2>1. Com!Rest # {}
    BY <1>5, FS_EmptySet, ComFinite
  <2>2. PICK last \in Com!Page : /\ \A d \in Com!Page \ {last} : Com!Before(d, last)
                                 /\ cursor' = <<Com!Key(last), last>>
    <3>1. \E c \in Com!Page : \A d \in Com!Page \ {c} : Com!Before(d, c)
      BY <2>1, PageCuts
    <3>2. cursor' = LET last == CHOOSE c \in Com!Page : \A d \in Com!Page \ {c} : Com!Before(d, c)
                    IN <<Com!Key(last), last>>
      BY <1>5, ComFinite DEF Com!Discover
    <3>3. QED
      BY <3>1, <3>2
  <2>3. walk' = "more"
    BY <1>1, <1>5, ComFinite DEF Com!Discover
  <2>4. /\ last \in Comms /\ \A c \in Comms : Com!Key(c) \in Int /\ c \in Nat
        /\ \A c \in Comms : Com!Key(c)' = Com!Key(c)
    BY <1>1, <1>2, ComFinite DEF ComTyped, Com!Key
  <2>5. \A c \in Comms : Com!After(c)' <=> Com!Before(last, c)
    BY <2>2, <2>4 DEF Com!After, Com!Before
  <2>6. \A c \in Com!Page : ~Com!After(c)'
    BY <1>2, <2>2, <2>4, <2>5 DEF Com!Before
  <2>7. \A c \in Com!Rest \ Com!Page : Com!After(c)'
    BY <1>2, <2>5, PageCuts
  <2>8. \A c \in Comms : ~Com!After(c) => ~Com!After(c)'
    <3>1. SUFFICES ASSUME NEW c \in Comms, ~Com!After(c), Com!Before(last, c) PROVE FALSE
      BY <2>5
    <3>2. /\ cursor # <<>> /\ cursor[1] \in Int /\ cursor[2] \in Nat
          /\ ~(Com!Key(c) > cursor[1] \/ (Com!Key(c) = cursor[1] /\ c > cursor[2]))
      BY <3>1, ComFinite DEF WalkInv, Com!After
    <3>3. Com!Key(last) > cursor[1] \/ (Com!Key(last) = cursor[1] /\ last > cursor[2])
      BY <1>2, <3>2 DEF Com!After
    <3>4. QED
      BY <2>4, <3>1, <3>2, <3>3 DEF Com!Before
  <2>9. ASSUME NEW c \in Comms \ moved, Com!After(c)' PROVE shown'[c] = 0
    <3>1. c \notin Com!Page /\ Com!After(c)
      BY <2>6, <2>8, <2>9
    <3>2. QED
      BY <1>1, <1>4, <3>1 DEF WalkInv
  <2>10. ASSUME NEW c \in Comms \ moved, ~Com!After(c)', status[c] = "public"
        PROVE shown'[c] = 1
    BY <1>4, <2>7, <2>10
  <2>11. cursor'[1] \in Int /\ cursor'[2] \in Comms
    BY <2>2, <2>4
  <2>12. QED
    BY <1>1, <1>3, <1>4, <2>3, <2>9, <2>10, <2>11
       DEF WalkInv, UnmovedIsListedOnce, Com!UnmovedIsListedOnce
<1>6. CASE ~(Cardinality(Com!Rest) > PageSize)
  <2>1. walk' = "done" /\ UNCHANGED cursor
    BY <1>6, ComFinite DEF Com!Discover
  <2>2. Cardinality(Com!Rest) \in Nat
    BY PageCuts, ComFinite, FS_Subset, FS_CardinalityType
  <2>3. Com!Page = Com!Rest
    BY <1>6, <2>2, PageCuts, ComFinite
  <2>4. \A c \in Comms \ moved : status[c] = "public" => shown'[c] = 1
    BY <1>4, <2>3
  <2>5. QED
    BY <1>1, <1>3, <1>4, <2>1, <2>4 DEF WalkInv, UnmovedIsListedOnce,
       Com!UnmovedIsListedOnce
<1>7. QED
  BY <1>5, <1>6

\* Every step of Features keeps the walk whole.
LEMMA WalkStep == ComTyped /\ WalkInv /\ [Next]_vars => WalkInv'
<1>1. SUFFICES ASSUME ComTyped, WalkInv, [Next]_vars PROVE WalkInv'
  OBVIOUS
<1>2. ASSUME NEW r \in Requests, Com!JoinStep(r) PROVE WalkInv'
  <2>1. UNCHANGED <<walk, sort, cursor, shown>> /\ UNCHANGED status
    BY <1>2 DEF Com!JoinStep, Com!JoinLookup, Com!JoinAgain, Com!JoinCheck, Com!JoinInsert,
       Com!JoinCount, Com!tables, Com!walks
  <2>2. \/ UNCHANGED <<count, moved>>
        \/ /\ count' = [count EXCEPT ![comm[r]] = @ + 1]
           /\ moved' = IF walk = "new" THEN moved ELSE moved \cup {comm[r]}
    BY <1>2 DEF Com!JoinStep, Com!JoinLookup, Com!JoinAgain, Com!JoinCheck, Com!JoinInsert,
       Com!JoinCount, Com!Moves, Com!tables, Com!walks
  <2>3. QED
    BY <1>1, <2>1, <2>2, WalkFrame DEF ComTyped
<1>3. ASSUME NEW c \in Comms, NEW s \in {"public", "hidden", "down"}, Com!SetStatus(c, s)
      PROVE  WalkInv'
  BY <1>1, <1>3, WalkFrame DEF ComTyped, Com!SetStatus, Com!Moves
<1>4. ASSUME NEW u \in Users, Com!DeleteAccount(u) PROVE WalkInv'
  <2>1. /\ UNCHANGED <<walk, sort, cursor, shown>> /\ UNCHANGED status
        /\ count' = [c \in Comms |-> IF u \in rows[c] THEN count[c] - 1 ELSE count[c]]
        /\ moved' = IF walk = "new" THEN moved ELSE moved \cup {c \in Comms : u \in rows[c]}
    BY <1>4 DEF Com!DeleteAccount, Com!Purge, Com!Moves
  <2>2. QED
    BY <1>1, <2>1, WalkFrame
<1>5. ASSUME Com!Crash \/ UNCHANGED communityVars PROVE WalkInv'
  BY <1>1, <1>5, WalkFrame DEF Com!Crash, Com!tables, Com!walks, communityVars
<1>6. ASSUME NEW s \in {"members", "name"}, Com!StartWalk(s) PROVE WalkInv'
  <2>1. walk = "new" /\ walk' = "more" /\ UNCHANGED <<status, cursor, shown, moved>>
    BY <1>6 DEF Com!StartWalk, Com!tables
  <2>2. QED
    BY <1>1, <2>1 DEF WalkInv, UnmovedIsListedOnce, Com!UnmovedIsListedOnce, Com!After
<1>7. CASE CommunityStep
  BY <1>1, <1>2, <1>3, <1>4, <1>5, <1>6, <1>7, WalkDiscovers DEF CommunityStep, Com!Next,
     Com!Requesting
<1>8. CommunityStep \/ UNCHANGED communityVars
  BY <1>1 DEF Next, vars, ModerationStep, ReactionStep, HistoryStep, DmStep, KeyStep,
     SessionStep
<1>9. QED
  BY <1>5, <1>7, <1>8

\* discover's keyset pages under either sort, for any communities and page size: one that
\* does not change is listed exactly once by the time the walk ends.
THEOREM UnmovedAreListedOnce == Spec => []UnmovedIsListedOnce
<1>1. Init => WalkInv
  BY DEF Init, Com!Init, WalkInv, UnmovedIsListedOnce, Com!UnmovedIsListedOnce, Com!After
<1>2. Init => ComTyped /\ CountsOwed
  BY CountInit
<1>3. WalkInv => UnmovedIsListedOnce
  BY DEF WalkInv
<1>4. QED
  BY <1>1, <1>2, <1>3, CountStep, WalkStep, PTL DEF Spec

-----------------------------------------------------------------------------
(* Aggregates of reactions *)

\* The viewer is never in a block with itself, and what it has kept since the aggregate
\* began is in the table, is counted and is among its own once these were read.
MineInv ==
    /\ Viewer \notin blocked /\ Viewer \notin seenBlocked
    /\ kept \subseteq Emojis
    /\ read \in {"counts", "mine", "sample"} => \A e \in kept : row[<<Viewer, e>>] # "none"
    /\ read \in {"mine", "sample"} => \A e \in kept : counts[e] > 0
    /\ read = "sample" => kept \subseteq mine
    /\ MineIsProjected

\* The caps of the aggregate, and the finite sets of the instance.
LEMMA RxFinite ==
  /\ \A S : Rx!Cardinality(S) = Cardinality(S)
  /\ Viewer \in Users /\ IsFiniteSet(Users) /\ MaxReactors \in Nat \ {0}
  /\ Origins \cap {"none", "unsigned"} = {}
<1>1. \A S : Rx!Cardinality(S) = Cardinality(S)
  BY DEF Rx!Cardinality, Cardinality
<1>2. QED
  BY <1>1, ComFinite, FeatureConstants DEF Rx!ReactionConstants

\* Outside the aggregate: what the viewer keeps stays in the table while it is read.
LEMMA MineFrame ==
  ASSUME MineInv, UNCHANGED <<read, seenBlocked, counts, mine, projection>>,
         Viewer \notin blocked', kept' \subseteq kept, read = "done" => kept' = kept,
         read # "done" =>
             \A e \in kept' : row[<<Viewer, e>>] # "none" => row'[<<Viewer, e>>] # "none"
  PROVE  MineInv'
BY DEF MineInv, MineIsProjected, Rx!MineIsProjected

\* A removal takes what it removes out of what the viewer keeps.
LEMMA MineRemoves ==
  ASSUME RxInv, MineInv, NEW r \in Requests, NEW u \in Users, NEW e \in Emojis, Rx!Remove(r, u, e)
  PROVE  MineInv'
<1>1. /\ row' = [row EXCEPT ![<<u, e>>] = "none"]
      /\ kept' = IF u = Viewer /\ read # "done" THEN kept \ {e} ELSE kept
      /\ UNCHANGED <<blocked, read, seenBlocked, counts, mine, projection>>
  BY DEF Rx!Remove, Rx!reader
<1>2. ASSUME read # "done", NEW f \in kept', row[<<Viewer, f>>] # "none"
      PROVE  row'[<<Viewer, f>>] # "none"
  <2>1. <<Viewer, f>> # <<u, e>> /\ <<Viewer, f>> \in Users \X Emojis
    BY <1>1, <1>2, RxFinite DEF MineInv
  <2>2. QED
    BY <1>1, <1>2, <2>1 DEF RxInv, RxKnown
<1>3. QED
  BY <1>1, <1>2, MineFrame DEF MineInv

\* An upsert leaves no reaction out that was there.
LEMMA MineUpserts ==
  ASSUME RxInv, MineInv, NEW r \in Requests, Rx!AddUpsert(r)
  PROVE  MineInv'
<1> DEFINE p == <<rxWho[r], emoji[r]>>
<1>1. /\ row' = [row EXCEPT ![p] = Rx!Upserted(row[p], origin[r])]
      /\ UNCHANGED <<blocked, read, seenBlocked, counts, mine, projection, kept>>
  BY DEF Rx!AddUpsert, Rx!At, Rx!reader
<1>2. row[p] # "none" => Rx!Upserted(row[p], origin[r]) # "none"
  BY RxFinite DEF Rx!Upserted, Rx!AddUpsert, RxInv, RxKnown
<1>3. \A q \in Users \X Emojis : row[q] # "none" => row'[q] # "none"
  BY <1>1, <1>2 DEF RxInv, RxKnown
<1>4. \A e \in kept : <<Viewer, e>> \in Users \X Emojis
  BY RxFinite DEF MineInv
<1>5. QED
  BY <1>1, <1>3, <1>4, MineFrame DEF MineInv

\* A deleted viewer keeps nothing, the others' rows are not the viewer's.
LEMMA MinePurges ==
  ASSUME RxInv, MineInv, NEW u \in Users, Rx!PurgeUserReactions(u)
  PROVE  MineInv'
<1>1. /\ row' = [p \in Users \X Emojis |-> IF p[1] = u THEN "none" ELSE row[p]]
      /\ kept' = IF u = Viewer /\ read # "done" THEN {} ELSE kept
      /\ UNCHANGED <<blocked, read, seenBlocked, counts, mine, projection>>
  BY DEF Rx!PurgeUserReactions, Rx!reader
<1>2. ASSUME read # "done", NEW f \in kept', row[<<Viewer, f>>] # "none"
      PROVE  row'[<<Viewer, f>>] # "none"
  <2>1. u # Viewer /\ <<Viewer, f>> \in Users \X Emojis
    BY <1>1, <1>2, RxFinite DEF MineInv
  <2>2. QED
    BY <1>1, <1>2, <2>1
<1>3. QED
  BY <1>1, <1>2, MineFrame DEF MineInv

\* Every other step of a request, a takedown or a block touches no reaction.
LEMMA MineBystands ==
  ASSUME MineInv,
         \/ \E r \in Requests :
               \/ \E u \in Users, e \in Emojis, o \in Origins \cup {"unsigned"} :
                     Rx!AddRequest(r, u, e, o)
               \/ Rx!AddExists(r) \/ Rx!AddCap(r) \/ Rx!Persisted(r) \/ Rx!AddFanout(r)
               \/ Rx!RemoveFanout(r)
         \/ Rx!TakeDown \/ \E u \in Users : Rx!Block(u)
         \/ UNCHANGED reactionVars
  PROVE  MineInv'
<1>1. UNCHANGED <<row, kept, read, seenBlocked, counts, mine, projection>>
  BY DEF Rx!AddRequest, Rx!AddExists, Rx!AddCap, Rx!Persisted, Rx!AddFanout,
     Rx!RemoveFanout,
     Rx!TakeDown, Rx!Block, Rx!tables, Rx!reader, reactionVars
<1>2. Viewer \notin blocked'
  BY DEF Rx!AddRequest, Rx!AddExists, Rx!AddCap, Rx!Persisted, Rx!AddFanout,
     Rx!RemoveFanout,
     Rx!TakeDown, Rx!Block, Rx!tables, reactionVars, MineInv
<1>3. QED
  BY <1>1, <1>2, MineFrame

\* The first three SELECTs.
LEMMA MineReads ==
  ASSUME MineInv, Rx!ReadBlocked \/ Rx!ReadCounts \/ Rx!ReadMine
  PROVE  MineInv'
<1>1. UNCHANGED <<row, blocked, projection>> /\ read' # "done"
  BY DEF Rx!ReadBlocked, Rx!ReadCounts, Rx!ReadMine, Rx!tables
<1>2. CASE Rx!ReadBlocked
  BY <1>1, <1>2 DEF MineInv, MineIsProjected, Rx!MineIsProjected, Rx!ReadBlocked
<1>3. CASE Rx!ReadCounts
  <2>1. /\ read = "counts" /\ read' = "mine" /\ UNCHANGED <<seenBlocked, kept, mine>>
        /\ counts' = [e \in Emojis |-> Cardinality(Rx!Reactors(e) \ seenBlocked)]
    BY <1>3, RxFinite DEF Rx!ReadCounts
  <2>2. ASSUME NEW e \in kept PROVE counts'[e] > 0
    <3>1. Rx!Reactors(e) \ seenBlocked \in SUBSET Users /\ Viewer \in Rx!Reactors(e) \ seenBlocked
      BY <2>1, RxFinite DEF MineInv, Rx!Reactors
    <3>2. IsFiniteSet(Rx!Reactors(e) \ seenBlocked) /\ Rx!Reactors(e) \ seenBlocked # {}
      BY <3>1, RxFinite, FS_Subset
    <3>3. Cardinality(Rx!Reactors(e) \ seenBlocked) \in Nat \ {0}
      BY <3>2, FS_CardinalityType, FS_EmptySet
    <3>4. QED
      BY <2>1, <3>3 DEF MineInv
  <2>3. QED
    BY <1>1, <2>1, <2>2 DEF MineInv, MineIsProjected, Rx!MineIsProjected
<1>4. CASE Rx!ReadMine
  BY <1>1, <1>4 DEF MineInv, MineIsProjected, Rx!MineIsProjected, Rx!ReadMine
<1>5. QED
  BY <1>2, <1>3, <1>4

\* A sample with the viewer's place in it: no longer than the cap, nobody blocked.
LEMMA SampleWithOwn ==
  ASSUME MineInv, NEW e \in Emojis, NEW s \in Rx!Samples(e), NEW a \in Rx!WithOwn(e, s)
  PROVE  /\ e \in mine => Viewer \in a
         /\ Cardinality(a) <= MaxReactors
         /\ a \cap seenBlocked = {}
<1>1. /\ s \subseteq Users /\ s \cap seenBlocked = {} /\ Cardinality(s) <= MaxReactors
      /\ Viewer \notin seenBlocked
  BY RxFinite DEF Rx!Samples, Rx!Reactors, MineInv
<1>2. IsFiniteSet(s) /\ Cardinality(s) \in Nat /\ MaxReactors \in Nat
  BY <1>1, RxFinite, FS_Subset, FS_CardinalityType
<1>3. CASE e \notin mine \/ Viewer \in s
  <2>1. a = s
    BY <1>3 DEF Rx!WithOwn
  <2>2. QED
    BY <1>1, <1>3, <2>1
<1>4. CASE ~(e \notin mine \/ Viewer \in s) /\ Cardinality(s) < MaxReactors
  <2>1. a = s \cup {Viewer}
    BY <1>4, RxFinite DEF Rx!WithOwn
  <2>2. Cardinality(a) = Cardinality(s) + 1
    BY <1>2, <1>4, <2>1, FS_AddElement
  <2>3. QED
    BY <1>1, <1>2, <1>4, <2>1, <2>2
<1>5. CASE ~(e \notin mine \/ Viewer \in s) /\ ~(Cardinality(s) < MaxReactors)
  <2>1. PICK u \in s : a = (s \ {u}) \cup {Viewer}
    BY <1>5, RxFinite DEF Rx!WithOwn
  <2>2. IsFiniteSet(s \ {u}) /\ Cardinality(s \ {u}) = Cardinality(s) - 1
    BY <1>2, FS_RemoveElement
  <2>3. Cardinality(a) = Cardinality(s)
    <3>1. Viewer \notin s \ {u}
      BY <1>5
    <3>2. Cardinality(a) = Cardinality(s \ {u}) + 1
      BY <2>1, <2>2, <3>1, FS_AddElement
    <3>3. QED
      BY <1>2, <2>2, <3>2
  <2>4. QED
    BY <1>1, <2>1, <2>3
<1>6. QED
  BY <1>3, <1>4, <1>5

\* The last SELECT and the projection: the viewer's own are beyond both cuts.
LEMMA MineProjects ==
  ASSUME MineInv, Rx!ReadSample
  PROVE  MineInv'
<1>1. /\ read = "sample" /\ read' = "done" /\ UNCHANGED <<row, blocked, seenBlocked, kept>>
      /\ \A e \in Emojis :
            IF e \in Rx!Projected THEN \E s \in Rx!Samples(e) : projection'[e] \in Rx!WithOwn(e, s)
                                  ELSE projection'[e] = {}
  BY DEF Rx!ReadSample, Rx!tables
<1>2. ASSUME NEW e \in kept PROVE Viewer \in projection'[e]
  <2>1. e \in Rx!Projected /\ e \in mine /\ e \in Emojis
    BY <1>1 DEF MineInv, Rx!Projected, Rx!Counted
  <2>2. QED
    BY <1>1, <2>1, SampleWithOwn
<1>3. ASSUME NEW e \in Emojis
      PROVE  Cardinality(projection'[e]) <= MaxReactors /\ projection'[e] \cap seenBlocked = {}
  <2>1. CASE e \in Rx!Projected
    BY <1>1, <2>1, SampleWithOwn
  <2>2. CASE e \notin Rx!Projected
    <3>1. projection'[e] = {} /\ Cardinality(projection'[e]) = 0
      BY <1>1, <2>2, FS_EmptySet
    <3>2. QED
      BY <3>1, RxFinite
  <2>3. QED
    BY <2>1, <2>2
<1>4. QED
  BY <1>1, <1>2, <1>3, RxFinite DEF MineInv, MineIsProjected, Rx!MineIsProjected

\* aggregate_for_messages, for any users, emojis, caps and whatever commits between its
\* SELECTs: the viewer's own reactions are in it, blocked reactors and overlong lists not.
THEOREM OwnReactionsAreShown == Spec => []MineIsProjected
<1>1. Init => MineInv
  BY DEF Init, Rx!Init, MineInv, MineIsProjected, Rx!MineIsProjected
<1>2. RxInv /\ MineInv /\ [Next]_vars => MineInv'
  <2>1. SUFFICES ASSUME RxInv, MineInv, [Next]_vars PROVE MineInv'
    OBVIOUS
  <2>2. CASE ReactionStep
    BY <2>1, <2>2, MineRemoves, MineUpserts, MinePurges, MineBystands, MineReads,
       MineProjects
       DEF ReactionStep, Rx!Next, Rx!RequestStep, Rx!ReadStep
  <2>3. ReactionStep \/ UNCHANGED reactionVars
    BY <2>1 DEF Next, vars, ModerationStep, HistoryStep, CommunityStep, DmStep, KeyStep,
       SessionStep
  <2>4. QED
    BY <2>1, <2>2, <2>3, MineBystands
<1>3. MineInv => MineIsProjected
  BY DEF MineInv
<1>4. QED
  BY <1>1, <1>2, <1>3, RxInit, RxStep, PTL DEF Spec

-----------------------------------------------------------------------------
(* History pages *)

\* The order in which the pages are read.
Near == {p \in Pages!Ids \X Pages!Ids : Pages!Nearer(p[1], p[2])}

\* Whoever of stood the first SELECT left out is behind a full page of messages.
PageInv ==
    /\ messages \subseteq Pages!Ids /\ retractions \subseteq Pages!Ids
    /\ messages \cap retractions = {}
    /\ way \in {"after", "before"} /\ start \in Nat /\ position \in Nat
    /\ delivered \in [Pages!Ids -> Nat]
    /\ foeBlock \in {"no", "yes"}
    /\ stood \subseteq Pages!Visible \cup retractions
    /\ pages = "new" => stood = {} /\ \A i \in Pages!Ids : delivered[i] = 0
    /\ \A i \in Pages!Ids : delivered[i] <= 1 /\ (delivered[i] # 0 => ~Pages!InWay(i))
    /\ \A i \in stood : Pages!Passed(i) => delivered[i] = 1
    /\ pages = "done" => \A i \in stood : ~Pages!InWay(i)
    /\ found \subseteq Pages!Ids
    /\ pages = "rets" =>
          /\ \A j \in found : Pages!InWay(j)
          /\ \A i \in stood \ (retractions \cup found) :
                Pages!InWay(i) => /\ Cardinality(found) >= Limit
                                  /\ \A j \in found : Pages!Nearer(j, i)

\* What the history's theorem says follows.
LEMMA PageGives == PageInv => NoHoleBehindCursor
  BY DEF PageInv, NoHoleBehindCursor, Pages!NoHoleBehindCursor, Pages!Visible

\* The ids are finite, and Near orders them whichever way the walk goes.
LEMMA NearOrders ==
  ASSUME NEW S, S \subseteq Pages!Ids
  PROVE  IsFiniteSet(S) /\ Orders(Near, S)
<1>1. IsFiniteSet(Pages!Ids) /\ \A i \in Pages!Ids : i \in Nat
  BY FeatureConstants, FS_Interval DEF Pages!HistoryConstants, Pages!Ids
<1>2. IsFiniteSet(S)
  BY <1>1, FS_Subset
<1>3. \A i, j \in S : <<i, j>> \in Near <=> Pages!Nearer(i, j)
  BY DEF Near
<1>4. CASE way = "after"
  <2>1. \A i, j \in S : <<i, j>> \in Near <=> i < j
    BY <1>3, <1>4 DEF Pages!Nearer
  <2>2. QED
    BY <1>1, <1>2, <2>1 DEF Orders
<1>5. CASE way # "after"
  <2>1. \A i, j \in S : <<i, j>> \in Near <=> i > j
    BY <1>3, <1>5 DEF Pages!Nearer
  <2>2. QED
    BY <1>1, <1>2, <2>1 DEF Orders
<1>6. QED
  BY <1>4, <1>5

\* The counts of the instance are those of this module.
LEMMA PagesCount == \A S : Pages!Cardinality(S) = Cardinality(S)
BY DEF Pages!Cardinality, Cardinality

\* Limited and Merged are ORDER BY ... LIMIT.
LEMMA PagesCut ==
  /\ \A S \in SUBSET Pages!Ids :
        Pages!Limited(S) = FirstOf(Near, {i \in S : Pages!InWay(i)}, Limit)
  /\ \A rets \in SUBSET Pages!Ids :
        found \subseteq Pages!Ids => Pages!Merged(rets) = FirstOf(Near, found \cup rets, Limit)
<1>1. ASSUME NEW S \in SUBSET Pages!Ids
      PROVE  Pages!Limited(S) = FirstOf(Near, {i \in S : Pages!InWay(i)}, Limit)
  <2>1. \A i \in S : {j \in S : Pages!InWay(j) /\ Pages!Nearer(j, i)}
                        = Prior(Near, {j \in S : Pages!InWay(j)}, i)
    BY DEF Prior, Near
  <2>2. ASSUME NEW i \in S, Pages!InWay(i)
        PROVE  i \in Pages!Limited(S) <=> i \in FirstOf(Near, {j \in S : Pages!InWay(j)}, Limit)
    <3>1. i \in Pages!Limited(S)
             <=> Cardinality({j \in S : Pages!InWay(j) /\ Pages!Nearer(j, i)}) < Limit
      BY <2>2, PagesCount DEF Pages!Limited
    <3>2. i \in FirstOf(Near, {j \in S : Pages!InWay(j)}, Limit)
             <=> Cardinality(Prior(Near, {j \in S : Pages!InWay(j)}, i)) < Limit
      BY <2>2 DEF FirstOf
    <3>3. QED
      BY <2>1, <3>1, <3>2
  <2>3. QED
    BY <2>2 DEF Pages!Limited, FirstOf
<1>2. ASSUME NEW rets \in SUBSET Pages!Ids, found \subseteq Pages!Ids
      PROVE  Pages!Merged(rets) = FirstOf(Near, found \cup rets, Limit)
  <2>1. \A i \in found \cup rets : {j \in found \cup rets : Pages!Nearer(j, i)}
                                      = Prior(Near, found \cup rets, i)
    BY <1>2 DEF Prior, Near
  <2>2. ASSUME NEW i \in found \cup rets
        PROVE  i \in Pages!Merged(rets) <=> i \in FirstOf(Near, found \cup rets, Limit)
    <3>1. i \in Pages!Merged(rets)
             <=> Cardinality({j \in found \cup rets : Pages!Nearer(j, i)}) < Limit
      BY PagesCount DEF Pages!Merged
    <3>2. i \in FirstOf(Near, found \cup rets, Limit)
             <=> Cardinality(Prior(Near, found \cup rets, i)) < Limit
      BY DEF FirstOf
    <3>3. QED
      BY <2>1, <3>1, <3>2
  <2>3. QED
    BY <2>2 DEF Pages!Merged, FirstOf
<1>3. QED
  BY <1>1, <1>2

\* A SELECT of S: only rows ahead, and whatever is ahead and left out is behind a full page.
LEMMA LimitedFills ==
  ASSUME NEW S \in SUBSET Pages!Ids
  PROVE  /\ Pages!Limited(S) \subseteq S /\ \A j \in Pages!Limited(S) : Pages!InWay(j)
         /\ \A i \in S \ Pages!Limited(S) :
               Pages!InWay(i) => /\ Cardinality(Pages!Limited(S)) >= Limit
                                 /\ \A j \in Pages!Limited(S) : Pages!Nearer(j, i)
<1> DEFINE A == {i \in S : Pages!InWay(i)}
           L == FirstOf(Near, A, Limit)
<1>1. Pages!Limited(S) = L /\ L \subseteq A
  BY PagesCut DEF FirstOf
<1>2. A \subseteq Pages!Ids /\ Limit \in Nat \ {0}
  BY FeatureConstants DEF Pages!HistoryConstants
<1>3. IsFiniteSet(A) /\ Orders(Near, A)
  BY <1>2, NearOrders
<1> HIDE DEF A
<1>4. (\A x \in L, y \in A \ L : <<x, y>> \in Near) /\ (A \ L # {} => Cardinality(L) >= Limit)
  BY <1>2, <1>3, LimitCuts
<1>5. \A x \in L, y \in A \ L : Pages!Nearer(x, y)
  BY <1>4 DEF Near
<1>6. QED
  BY <1>1, <1>4, <1>5 DEF A

\* The merged page: whoever of stood is ahead and not in it is behind all of it, and it is
\* empty only if nobody of stood is ahead.
LEMMA MergedFills ==
  ASSUME PageInv, pages = "rets", NEW page, page = Pages!Merged(Pages!Limited(retractions))
  PROVE  /\ page \subseteq Pages!Ids /\ \A j \in page : Pages!InWay(j)
         /\ \A i \in stood \ page : Pages!InWay(i) => page # {} /\ \A j \in page : Pages!Nearer(j, i)
         /\ page # {} => \E m \in page : \A j \in page \ {m} : Pages!Nearer(j, m)
<1> DEFINE rets == Pages!Limited(retractions)
           U == found \cup rets
<1>1. /\ rets \subseteq retractions /\ rets \subseteq Pages!Ids
      /\ \A j \in rets : Pages!InWay(j)
      /\ \A i \in retractions \ rets :
            Pages!InWay(i) => Cardinality(rets) >= Limit /\ \A j \in rets : Pages!Nearer(j, i)
  BY LimitedFills DEF PageInv
<1>2. U \subseteq Pages!Ids /\ (\A j \in U : Pages!InWay(j)) /\ Limit \in Nat \ {0}
  BY <1>1, FeatureConstants DEF PageInv, Pages!HistoryConstants
<1>3. IsFiniteSet(U) /\ Orders(Near, U) /\ IsFiniteSet(found) /\ IsFiniteSet(rets)
  BY <1>1, <1>2, NearOrders DEF PageInv
<1>4. page = FirstOf(Near, U, Limit)
  BY <1>1, PagesCut DEF PageInv
<1>5. page \subseteq U
  BY <1>4 DEF FirstOf
<1>6. ASSUME NEW i \in stood \ U, Pages!InWay(i)
      PROVE  \E F \in SUBSET U : Cardinality(F) >= Limit /\ \A j \in F : Pages!Nearer(j, i)
  <2>1. CASE i \in retractions
    <3>1. rets \in SUBSET U /\ Cardinality(rets) >= Limit /\ \A j \in rets : Pages!Nearer(j, i)
      BY <1>1, <1>6, <2>1
    <3>2. QED
      BY <3>1
  <2>2. CASE i \notin retractions
    <3>1. found \in SUBSET U /\ Cardinality(found) >= Limit /\ \A j \in found : Pages!Nearer(j, i)
      BY <1>6, <2>2 DEF PageInv
    <3>2. QED
      BY <3>1
  <2>3. QED
    BY <2>1, <2>2
<1>7. stood \subseteq Pages!Ids /\ \A i \in Pages!Ids : i \in Nat
  BY FeatureConstants DEF PageInv, Pages!Visible, Pages!Ids, Pages!HistoryConstants
<1> HIDE DEF U
<1>8. /\ \A x \in page, y \in U \ page : <<x, y>> \in Near
      /\ U # {} => page # {}
      /\ page # {} => \E m \in page : \A x \in page \ {m} : <<x, m>> \in Near
  BY <1>2, <1>3, <1>4, LimitCuts
<1>9. ASSUME NEW i \in stood \ U, Pages!InWay(i), NEW p \in page
      PROVE  Pages!Nearer(p, i)
  <2>1. SUFFICES ASSUME ~Pages!Nearer(p, i) PROVE FALSE
    OBVIOUS
  <2>2. PICK F \in SUBSET U : Cardinality(F) >= Limit /\ \A j \in F : Pages!Nearer(j, i)
    BY <1>6, <1>9
  <2>3. p \in Nat /\ i \in Nat /\ p # i /\ p \in Pages!Ids /\ p \in U
    BY <1>2, <1>5, <1>7, <1>9
  <2>4. \A j \in F : Pages!Nearer(j, p)
    <3>1. SUFFICES ASSUME NEW j \in F PROVE Pages!Nearer(j, p)
      OBVIOUS
    <3>2. j \in Nat /\ Pages!Nearer(j, i)
      BY <1>2, <1>7, <2>2
    <3>3. QED
      BY <2>1, <2>3, <3>2 DEF Pages!Nearer
  <2>5. F \in SUBSET Prior(Near, U, p)
    BY <1>2, <2>3, <2>4 DEF Prior, Near
  <2>6. IsFiniteSet(Prior(Near, U, p)) /\ Cardinality(Prior(Near, U, p)) \in Nat
    BY <1>3, <2>3, PriorGrows
  <2>7. Cardinality(F) <= Cardinality(Prior(Near, U, p)) /\ Cardinality(F) \in Nat
    BY <2>5, <2>6, FS_Subset, FS_CardinalityType
  <2>8. Cardinality(Prior(Near, U, p)) < Limit
    BY <1>4 DEF FirstOf
  <2>9. QED
    BY <1>2, <2>2, <2>6, <2>7, <2>8
<1>10. ASSUME NEW i \in stood \ page, Pages!InWay(i)
       PROVE  page # {} /\ \A j \in page : Pages!Nearer(j, i)
  <2>1. CASE i \in U
    BY <1>8, <1>10, <2>1 DEF Near
  <2>2. CASE i \notin U
    <3>1. PICK F \in SUBSET U : Cardinality(F) >= Limit
      BY <1>6, <1>10, <2>2
    <3>2. F # {}
      BY <1>2, <3>1, FS_EmptySet
    <3>3. QED
      BY <1>8, <1>9, <1>10, <2>2, <3>2
  <2>3. QED
    BY <2>1, <2>2
<1>11. QED
  BY <1>2, <1>5, <1>8, <1>10 DEF Near

\* The second SELECT and the merge keep the pages' invariant: what the cursor passes is in
\* the page.
LEMMA PageTurns ==
  ASSUME PageInv, Pages!SelectRetractions
  PROVE  PageInv'
<1> DEFINE page == Pages!Merged(Pages!Limited(retractions))
<1>1. /\ pages = "rets"
      /\ delivered' = [i \in Pages!Ids |-> IF i \in page THEN delivered[i] + 1 ELSE delivered[i]]
      /\ found' = {} /\ UNCHANGED <<messages, retractions, deleted, foeBlock, way, start, stood>>
      /\ IF page = {} THEN pages' = "done" /\ UNCHANGED position
         ELSE pages' = "msgs" /\ position' = CHOOSE i \in page : \A j \in page \ {i} : Pages!Nearer(j, i)
  BY DEF Pages!SelectRetractions, Pages!tables
<1>2. /\ page \subseteq Pages!Ids /\ \A j \in page : Pages!InWay(j)
      /\ \A i \in stood \ page : Pages!InWay(i) => page # {} /\ \A j \in page : Pages!Nearer(j, i)
      /\ page # {} => \E m \in page : \A j \in page \ {m} : Pages!Nearer(j, m)
  BY <1>1, MergedFills
<1>3. stood \subseteq Pages!Ids /\ \A i \in Pages!Ids : i \in Nat
  BY FeatureConstants DEF PageInv, Pages!Visible, Pages!Ids, Pages!HistoryConstants
<1> HIDE DEF page
<1>4. \A i \in Pages!Ids : /\ delivered'[i] <= 1 /\ delivered'[i] \in Nat
                           /\ (i \in page => delivered'[i] = 1)
                           /\ (i \notin page => delivered'[i] = delivered[i])
  BY <1>1, <1>2 DEF PageInv
<1>5. CASE page = {}
  <2>1. pages' = "done" /\ position' = position /\ delivered' = delivered
    BY <1>1, <1>5 DEF PageInv
  <2>2. \A i \in stood : ~Pages!InWay(i)
    BY <1>2, <1>5
  <2>3. QED
    BY <1>1, <2>1, <2>2 DEF PageInv, Pages!Visible, Pages!InWay, Pages!Passed
<1>6. CASE page # {}
  <2>1. /\ position' \in page /\ \A j \in page \ {position'} : Pages!Nearer(j, position')
        /\ pages' = "msgs"
    BY <1>1, <1>2, <1>6
  <2>2. position' \in Nat /\ Pages!InWay(position')
    BY <1>2, <1>3, <2>1
  <2>3. ASSUME NEW i \in Pages!Ids, i \in page \/ ~Pages!InWay(i)
        PROVE  ~Pages!InWay(i)'
    BY <1>1, <1>3, <2>1, <2>2, <2>3 DEF PageInv, Pages!InWay, Pages!Nearer
  <2>4. ASSUME NEW i \in Pages!Ids, delivered'[i] # 0 PROVE ~Pages!InWay(i)'
    BY <1>4, <2>3, <2>4 DEF PageInv
  <2>5. ASSUME NEW i \in stood, Pages!Passed(i)' PROVE delivered'[i] = 1
    <3>1. CASE i \in page
      BY <1>3, <1>4, <3>1
    <3>2. CASE i \notin page /\ Pages!InWay(i)
      <4>1. Pages!Nearer(position', i)
        BY <1>2, <2>1, <3>2
      <4>2. QED
        BY <1>1, <1>3, <2>2, <2>5, <4>1 DEF PageInv, Pages!Nearer, Pages!Passed
    <3>3. CASE i \notin page /\ ~Pages!InWay(i)
      <4>1. Pages!Passed(i)
        BY <1>1, <1>3, <2>5, <3>3 DEF PageInv, Pages!Passed, Pages!InWay
      <4>2. QED
        BY <1>3, <1>4, <3>3, <4>1 DEF PageInv
    <3>4. QED
      BY <3>1, <3>2, <3>3
  <2>6. stood' \subseteq (Pages!Visible \cup retractions)' /\ delivered' \in [Pages!Ids -> Nat]
    BY <1>1, <1>4 DEF PageInv, Pages!Visible
  <2>7. QED
    BY <1>1, <1>4, <2>1, <2>2, <2>4, <2>5, <2>6 DEF PageInv
<1>7. QED
  BY <1>5, <1>6

\* Each other step of the history's feature keeps it.
LEMMA PageStep ==
  ASSUME PageInv, Pages!Next
  PROVE  PageInv'
<1> USE DEF Pages!walks, Pages!tables
<1>1. stood \subseteq Pages!Ids /\ \A i \in Pages!Ids : i \in Nat
  BY FeatureConstants DEF PageInv, Pages!Visible, Pages!Ids, Pages!HistoryConstants
<1>2. ASSUME NEW w \in {"after", "before"}, NEW c \in Nat, Pages!StartWalk(w, c)
      PROVE PageInv'
  BY <1>1, <1>2 DEF PageInv, Pages!StartWalk, Pages!Visible, Pages!Passed, Pages!InWay
<1>3. CASE Pages!SelectMessages
  <2>1. /\ pages = "msgs" /\ pages' = "rets" /\ found' = Pages!Limited(Pages!Visible)
        /\ UNCHANGED <<messages, retractions, deleted, foeBlock, way, start, position,
                       delivered, stood>>
    BY <1>3 DEF Pages!SelectMessages
  <2>2. Pages!Visible \in SUBSET Pages!Ids
    BY DEF PageInv, Pages!Visible
  <2>3. /\ found' \subseteq Pages!Ids /\ \A j \in found' : Pages!InWay(j)
        /\ \A i \in Pages!Visible \ found' :
              Pages!InWay(i) => Cardinality(found') >= Limit /\ \A j \in found' : Pages!Nearer(j, i)
    BY <2>1, <2>2, LimitedFills
  <2>4. /\ stood' \subseteq (Pages!Visible \cup retractions)'
        /\ \A i : Pages!InWay(i)' = Pages!InWay(i) /\ Pages!Passed(i)' = Pages!Passed(i)
        /\ \A i, j : Pages!Nearer(i, j)' = Pages!Nearer(i, j)
    BY <2>1 DEF PageInv, Pages!Visible, Pages!InWay, Pages!Passed, Pages!Nearer
  <2>5. \A i \in stood' \ (retractions' \cup found') :
           Pages!InWay(i)' => Cardinality(found') >= Limit /\ \A j \in found' : Pages!Nearer(j, i)'
    BY <2>1, <2>3, <2>4 DEF PageInv
  <2>6. QED
    BY <2>1, <2>3, <2>4, <2>5 DEF PageInv
<1>4. CASE Pages!SelectRetractions
  BY <1>4, PageTurns
<1>5. ASSUME NEW i \in Pages!Ids, Pages!Store(i) PROVE PageInv'
  BY <1>5 DEF PageInv, Pages!Store, Pages!Visible, Pages!InWay, Pages!Passed, Pages!Nearer
<1>6. ASSUME NEW i \in Pages!Ids, NEW m \in messages, Pages!TakeDown(m, i) PROVE PageInv'
  BY <1>6 DEF PageInv, Pages!TakeDown, Pages!Visible, Pages!InWay, Pages!Passed,
     Pages!Nearer
<1>7. ASSUME NEW b \in {"no", "yes"}, Pages!Block(b) PROVE PageInv'
  BY <1>7 DEF PageInv, Pages!Block, Pages!Visible, Pages!InWay, Pages!Passed, Pages!Nearer
<1>8. MaxId \in Nat /\ (\A c \in 0..MaxId : c \in Nat) /\ \A c \in 1..(MaxId + 1) : c \in Nat
  BY FeatureConstants DEF Pages!HistoryConstants
<1>9. QED
  BY <1>2, <1>3, <1>4, <1>5, <1>6, <1>7, <1>8 DEF Pages!Next

\* get_history, for any ids, page limit and order of the commits: behind the client's
\* cursor there is no hole and nothing is delivered twice, in both directions.
THEOREM PagesLeaveNoHole == Spec => []NoHoleBehindCursor
<1>1. Init => PageInv
  BY FeatureConstants DEF Init, Pages!Init, PageInv, Pages!Visible, Pages!Passed,
     Pages!InWay, Pages!Ids,
     Pages!HistoryConstants
<1>2. PageInv /\ [Next]_vars => PageInv'
  <2>1. SUFFICES ASSUME PageInv, [Next]_vars PROVE PageInv'
    OBVIOUS
  <2>2. CASE HistoryStep
    BY <2>1, <2>2, PageStep DEF HistoryStep
  <2>3. CASE UNCHANGED historyVars
    BY <2>1, <2>3 DEF historyVars, PageInv, Pages!Visible, Pages!InWay, Pages!Passed,
       Pages!Nearer
  <2>4. QED
    BY <2>1, <2>2, <2>3 DEF Next, vars, ModerationStep, ReactionStep, CommunityStep, DmStep,
       KeyStep, SessionStep
<1>3. QED
  BY <1>1, <1>2, PageGives, PTL DEF Spec
=============================================================================
