------------------------------ MODULE BusProofs ------------------------------
(***************************************************************************)
(* What Bus promises, for any channels, messages, restarts and bounds.     *)
(*                                                                         *)
(* The relay: RelayMirrorsList speaks of the drained queues only.  What is  *)
(* inductive is what the queues still hold: the last discovery callback    *)
(* attaches to the running incarnation, or is the late removal that        *)
(* detaches, and what the share last says of a channel is what the list    *)
(* says.                                                                   *)
(*                                                                         *)
(* The echoes: NoSecondRow compares two counters.  What is inductive counts *)
(* the own messages still on the bus against the marks still in the table, *)
(* for those sent since any time t whose marks are alive.                  *)
(***************************************************************************)
EXTENDS Bus, FiniteSetTheorems, SequenceTheorems, WellFoundedInduction, TLAPS

-----------------------------------------------------------------------------
(* The relay *)

\* What BusConstants says of the topology.
LEMMA TopologyFacts ==
    /\ IsFiniteSet(Channels) /\ Floor \subseteq Channels
    /\ MaxEpoch \in Nat /\ MaxEdits \in Nat
    /\ Restarts \subseteq {"remove-add", "add", "add-remove"}
  BY BusConstants DEF Top!TopologyConstants, Top!IsFiniteSet, IsFiniteSet

Ops == {"add", "remove"}
Tells == Ops \X Channels

BusTyped ==
    /\ epoch \in Nat /\ server \in Nat /\ listed \subseteq Channels
    /\ subscribed \in [Channels -> Nat]
    /\ share \in Seq(Tells)
    /\ discovery \in Seq([op : Ops, epoch : Nat])

\* One attachment: the consumer, the dict and the payload handlers are of one topic path.
AttachInv ==
    /\ consumer = server /\ server <= epoch
    /\ \A ch \in Channels : subscribed[ch] \in {0, server}
    /\ handlers = {<<subscribed[ch], ch>> : ch \in {c \in Channels : subscribed[c] # 0}}

\* The last callback attaches to the running incarnation, or, where the last restart was
\* reported that way, is a removal; no callback is of a later incarnation.
Latest(ev) == IF reported = "add-remove" THEN ev.op = "remove"
                                         ELSE ev = Top!Event("add", epoch)

DiscoveryInv ==
    /\ \A i \in 1..Len(discovery) : discovery[i].epoch \in 1..epoch
    /\ discovery = <<>> => server = (IF reported = "add-remove" THEN 0 ELSE epoch)
    /\ discovery # <<>> => Latest(discovery[Len(discovery)])

\* s has no event of ch; the last one it has is op.
Silent(s, ch) == \A i \in 1..Len(s) : s[i][2] # ch
Says(s, op, ch) ==
    \E i \in 1..Len(s) : s[i] = <<op, ch>> /\ \A j \in (i + 1)..Len(s) : s[j][2] # ch

\* What the share will have made of ch, or has made of it, agrees with the list.
Agrees(ch) ==
    \/ /\ Silent(share, ch)
       /\ ch \in listed => subscribed[ch] # 0
       /\ subscribed[ch] # 0 => ch \in listed \cup Floor
    \/ Says(share, "add", ch) /\ ch \in listed
    \/ Says(share, "remove", ch) /\ ch \notin listed

ShareInv == server = epoch /\ epoch > 0 => \A ch \in Channels : Agrees(ch)

BusInv == BusTyped /\ AttachInv /\ DiscoveryInv /\ ShareInv

-----------------------------------------------------------------------------
(* Queues *)

\* An event that is put last is the last of its channel.
LEMMA SaysLast ==
  ASSUME NEW s \in Seq(Tells), NEW op \in Ops, NEW c \in Channels
  PROVE  /\ Append(s, <<op, c>>) \in Seq(Tells)
         /\ Says(Append(s, <<op, c>>), op, c)
         /\ \A ch \in Channels \ {c} :
               /\ Silent(s, ch) => Silent(Append(s, <<op, c>>), ch)
               /\ \A o \in Ops : Says(s, o, ch) => Says(Append(s, <<op, c>>), o, ch)
<1> DEFINE t == Append(s, <<op, c>>)
<1>1. /\ t \in Seq(Tells) /\ Len(t) = Len(s) + 1 /\ Len(s) \in Nat
      /\ t[Len(s) + 1] = <<op, c>>
      /\ \A i \in 1..Len(s) : t[i] = s[i]
  <2>1. <<op, c>> \in Tells
    BY DEF Tells
  <2>2. QED
    BY <2>1, AppendProperties
<1> HIDE DEF t
<1>2. Says(t, op, c)
  BY <1>1 DEF Says
<1>3. ASSUME NEW ch \in Channels, ch # c, Silent(s, ch) PROVE Silent(t, ch)
  <2>1. ASSUME NEW i \in 1..Len(t) PROVE t[i][2] # ch
    <3>1. i \in 1..Len(s) \/ i = Len(s) + 1
      BY <1>1
    <3>2. QED
      BY <1>1, <1>3, <3>1 DEF Silent
  <2>2. QED
    BY <2>1 DEF Silent
<1>4. ASSUME NEW ch \in Channels, ch # c, NEW o \in Ops, Says(s, o, ch) PROVE Says(t, o, ch)
  <2>1. PICK i \in 1..Len(s) : s[i] = <<o, ch>> /\ \A j \in (i + 1)..Len(s) : s[j][2] # ch
    BY <1>4 DEF Says
  <2>2. ASSUME NEW j \in (i + 1)..Len(t) PROVE t[j][2] # ch
    <3>1. (j \in (i + 1)..Len(s) /\ j \in 1..Len(s)) \/ j = Len(s) + 1
      BY <1>1
    <3>2. QED
      BY <1>1, <1>4, <2>1, <3>1
  <2>3. i \in 1..Len(t) /\ t[i] = <<o, ch>>
    BY <1>1, <2>1
  <2>4. QED
    BY <2>2, <2>3 DEF Says
<1>5. QED
  BY <1>1, <1>2, <1>3, <1>4 DEF t

\* Handling the first event leaves what is said last of the others, and of its own
\* channel what is said later, if anything is.
LEMMA SaysNext ==
  ASSUME NEW s \in Seq(Tells), s # <<>>
  PROVE  /\ Tail(s) \in Seq(Tells)
         /\ Head(s)[1] \in Ops /\ Head(s)[2] \in Channels
         /\ \A ch \in Channels :
               /\ Silent(s, ch) => ch # Head(s)[2] /\ Silent(Tail(s), ch)
               /\ \A o \in Ops : Says(s, o, ch) =>
                     \/ Says(Tail(s), o, ch)
                     \/ Silent(Tail(s), ch) /\ Head(s) = <<o, ch>>
<1> DEFINE t == Tail(s)
<1>1. /\ t \in Seq(Tells) /\ Len(t) = Len(s) - 1 /\ Len(s) \in Nat \ {0} /\ Head(s) \in Tells
      /\ \A i \in 1..Len(t) : t[i] = s[i + 1]
      /\ Head(s) = s[1]
  BY HeadTailProperties, LenProperties
<1> HIDE DEF t
<1>2. ASSUME NEW ch \in Channels, Silent(s, ch) PROVE ch # Head(s)[2] /\ Silent(t, ch)
  <2>1. \A i \in 1..Len(t) : i + 1 \in 1..Len(s)
    BY <1>1
  <2>2. 1 \in 1..Len(s)
    BY <1>1
  <2>3. QED
    BY <1>1, <1>2, <2>1, <2>2 DEF Silent
<1>3. ASSUME NEW ch \in Channels, NEW o \in Ops, Says(s, o, ch)
      PROVE  Says(t, o, ch) \/ (Silent(t, ch) /\ Head(s) = <<o, ch>>)
  <2>1. PICK i \in 1..Len(s) : s[i] = <<o, ch>> /\ \A j \in (i + 1)..Len(s) : s[j][2] # ch
    BY <1>3 DEF Says
  <2>2. CASE i = 1
    <3>1. \A j \in 1..Len(t) : j + 1 \in (i + 1)..Len(s)
      BY <1>1, <2>2
    <3>2. QED
      BY <1>1, <2>1, <2>2, <3>1 DEF Silent
  <2>3. CASE i # 1
    <3>1. i - 1 \in 1..Len(t) /\ (i - 1) + 1 = i
      BY <1>1, <2>3
    <3>2. \A j \in ((i - 1) + 1)..Len(t) : j \in 1..Len(t) /\ j + 1 \in (i + 1)..Len(s)
      BY <1>1, <2>3
    <3>3. t[i - 1] = <<o, ch>> /\ \A j \in ((i - 1) + 1)..Len(t) : t[j][2] # ch
      BY <1>1, <2>1, <3>1, <3>2
    <3>4. QED
      BY <3>1, <3>3 DEF Says
  <2>4. QED
    BY <2>2, <2>3
<1>4. QED
  BY <1>1, <1>2, <1>3 DEF t, Tells

\* The replay of a list says "add" of every channel on it and nothing of any other.
LEMMA Replay ==
  ASSUME NEW l \in SUBSET Channels, NEW order \in SetToSeqs(l),
         NEW s, s = [i \in DOMAIN order |-> <<"add", order[i]>>]
  PROVE  /\ s \in Seq(Tells)
         /\ \A ch \in l : Says(s, "add", ch)
         /\ \A ch \in Channels \ l : Silent(s, ch)
<1> DEFINE n == Cardinality(l)
<1>1. IsFiniteSet(l) /\ n \in Nat
  BY TopologyFacts, FS_Subset, FS_CardinalityType
<1>2. order \in [1..n -> l] /\ \A i, j \in 1..n : i # j => order[i] # order[j]
  BY DEF SetToSeqs
<1>3. order \in Surjection(1..n, l)
  <2>1. order \in Injection(1..n, l)
    BY <1>2 DEF Injection, IsInjective
  <2>2. Cardinality(1..n) = n
    BY <1>1, FS_Interval
  <2>3. QED
    BY <1>1, <2>1, <2>2, FS_Injection
<1> HIDE DEF n
<1>4. s \in [1..n -> Tells]
  BY <1>2 DEF Tells, Ops
<1>5. s \in Seq(Tells) /\ Len(s) = n
  BY <1>1, <1>4, IsASeq, LenProperties
<1>6. \A i \in 1..n : s[i] = <<"add", order[i]>>
  BY <1>2
<1>7. ASSUME NEW ch \in l PROVE Says(s, "add", ch)
  <2>1. PICK i \in 1..n : order[i] = ch
    BY <1>3 DEF Surjection
  <2>2. ASSUME NEW j \in (i + 1)..n PROVE s[j][2] # ch
    <3>1. j \in 1..n /\ j # i
      BY <1>1
    <3>2. QED
      BY <1>2, <1>6, <2>1, <3>1
  <2>3. QED
    BY <1>5, <1>6, <2>1, <2>2 DEF Says
<1>8. ASSUME NEW ch \in Channels \ l PROVE Silent(s, ch)
  <2>1. ASSUME NEW i \in 1..n PROVE s[i][2] # ch
    <3>1. order[i] \in l
      BY <1>2
    <3>2. QED
      BY <1>2, <1>6, <3>1
  <2>2. QED
    BY <1>5, <2>1 DEF Silent
<1>9. QED
  BY <1>5, <1>7, <1>8

-----------------------------------------------------------------------------
(* Steps *)

\* Initially nothing is discovered, attached or listed.
LEMMA BusInit == Top!Init => BusInv
BY DEF Top!Init, BusInv, BusTyped, AttachInv, DiscoveryInv, ShareInv

\* _teardown_attachments leaves no payload handler.
LEMMA NoneRemain == BusTyped /\ AttachInv => Top!Remaining = {}
BY DEF AttachInv, Top!Remaining

\* A new incarnation is the last thing discovery reports; the attachment is of an older one.
LEMMA StartKeeps == ASSUME BusInv, Top!ServerStarts PROVE BusInv'
<1>1. PICK how \in Restarts : /\ discovery' = discovery \o Top!Report(how, epoch)
                              /\ reported' = IF epoch = 0 THEN "add" ELSE how
  BY DEF Top!ServerStarts
<1>2. listed' \in SUBSET Channels /\ epoch' = epoch + 1
  BY DEF Top!ServerStarts
<1>3. UNCHANGED <<share, server, subscribed, handlers, consumer>>
  BY DEF Top!ServerStarts, Top!actor
<1> DEFINE r == Top!Report(how, epoch)
<1>4. /\ r \in Seq([op : Ops, epoch : Nat]) /\ Len(r) \in {1, 2}
      /\ \A i \in 1..Len(r) : r[i].epoch \in 1..(epoch + 1)
      /\ reported' = "add-remove" => r[Len(r)].op = "remove"
      /\ reported' # "add-remove" => r[Len(r)] = Top!Event("add", epoch + 1)
  <2>1. epoch \in Nat
    BY DEF BusInv, BusTyped
  <2>2. /\ Top!Event("add", epoch + 1) \in [op : Ops, epoch : Nat]
        /\ Top!Event("remove", epoch) \in [op : Ops, epoch : Nat]
        /\ Top!Event("add", epoch + 1).epoch = epoch + 1 /\ Top!Event("remove", epoch).epoch = epoch
        /\ Top!Event("remove", epoch).op = "remove"
    BY <2>1 DEF Top!Event, Ops
  <2>3. \/ reported' # "add-remove" /\ r = <<Top!Event("add", epoch + 1)>>
        \/ /\ reported' # "add-remove" /\ epoch # 0
           /\ r = <<Top!Event("remove", epoch), Top!Event("add", epoch + 1)>>
        \/ /\ reported' = "add-remove" /\ epoch # 0
           /\ r = <<Top!Event("add", epoch + 1), Top!Event("remove", epoch)>>
    <3>1. how \in {"remove-add", "add", "add-remove"}
      BY TopologyFacts
    <3>2. CASE epoch = 0
      <4>1. r = <<Top!Event("add", 1)>>
        BY <3>2 DEF Top!Report
      <4>2. epoch + 1 = 1
        BY <3>2
      <4>3. QED
        BY <1>1, <3>2, <4>1, <4>2
    <3>3. CASE epoch # 0 /\ how = "add"
      BY <1>1, <3>3 DEF Top!Report
    <3>4. CASE epoch # 0 /\ how = "remove-add"
      BY <1>1, <3>4 DEF Top!Report
    <3>5. CASE epoch # 0 /\ how = "add-remove"
      BY <1>1, <3>5 DEF Top!Report
    <3>6. QED
      BY <3>1, <3>2, <3>3, <3>4, <3>5
  <2>4. CASE reported' # "add-remove" /\ r = <<Top!Event("add", epoch + 1)>>
    BY <2>1, <2>2, <2>4
  <2>5. CASE /\ reported' # "add-remove" /\ epoch # 0
             /\ r = <<Top!Event("remove", epoch), Top!Event("add", epoch + 1)>>
    BY <2>1, <2>2, <2>5
  <2>6. CASE /\ reported' = "add-remove" /\ epoch # 0
             /\ r = <<Top!Event("add", epoch + 1), Top!Event("remove", epoch)>>
    BY <2>1, <2>2, <2>6
  <2>7. QED
    BY <2>3, <2>4, <2>5, <2>6
<1> HIDE DEF r
<1>5. /\ discovery' \in Seq([op : Ops, epoch : Nat])
      /\ Len(discovery') = Len(discovery) + Len(r) /\ Len(discovery) \in Nat
      /\ \A i \in 1..(Len(discovery) + Len(r)) :
            discovery'[i] = IF i <= Len(discovery) THEN discovery[i] ELSE r[i - Len(discovery)]
  BY <1>1, <1>4, ConcatProperties, LenProperties DEF r, BusInv, BusTyped
<1>6. DiscoveryInv'
  <2>1. ASSUME NEW i \in 1..Len(discovery') PROVE discovery'[i].epoch \in 1..epoch'
    <3>1. CASE i <= Len(discovery)
      <4>1. i \in 1..Len(discovery) /\ discovery'[i] = discovery[i]
        BY <1>4, <1>5, <3>1
      <4>2. discovery[i].epoch \in 1..epoch
        BY <4>1 DEF BusInv, DiscoveryInv
      <4>3. QED
        BY <1>2, <4>1, <4>2 DEF BusInv, BusTyped
    <3>2. CASE i > Len(discovery)
      <4>1. i - Len(discovery) \in 1..Len(r) /\ discovery'[i] = r[i - Len(discovery)]
        BY <1>4, <1>5, <3>2
      <4>2. QED
        BY <1>2, <1>4, <4>1
    <3>3. QED
      BY <1>5, <3>1, <3>2
  <2>2. /\ reported' = "add-remove" => discovery'[Len(discovery')].op = "remove"
        /\ reported' # "add-remove" => discovery'[Len(discovery')] = Top!Event("add", epoch')
    <3>1. /\ Len(discovery') \in 1..(Len(discovery) + Len(r)) /\ ~(Len(discovery') <= Len(discovery))
          /\ Len(discovery') - Len(discovery) = Len(r)
      BY <1>4, <1>5
    <3>2. discovery'[Len(discovery')] = r[Len(r)]
      BY <1>5, <3>1
    <3>3. QED
      BY <1>2, <1>4, <3>2
  <2>3. discovery' # <<>>
    <3>1. Len(r) \in Nat \ {0}
      BY <1>4
    <3>2. Len(discovery') # 0
      BY <1>5, <3>1
    <3>3. QED
      BY <3>2
  <2>4. QED
    BY <2>1, <2>2, <2>3 DEF DiscoveryInv, Latest
<1>7. BusTyped'
  BY <1>2, <1>3, <1>5 DEF BusInv, BusTyped
<1>8. AttachInv' /\ server' < epoch'
  BY <1>2, <1>3 DEF BusInv, BusTyped, AttachInv
<1>9. QED
  BY <1>6, <1>7, <1>8 DEF BusInv, ShareInv, BusTyped

\* The consumer of the running incarnation is told of every change of its list.
LEMMA EditKeeps == ASSUME BusInv, NEW c \in Channels, Top!EditList(c) PROVE BusInv'
<1>1. PICK op \in Ops :
         /\ listed' = IF op = "add" THEN listed \cup {c} ELSE listed \ {c}
         /\ share' = IF consumer = epoch THEN Append(share, <<op, c>>) ELSE share
  BY DEF Top!EditList, Ops
<1>2. UNCHANGED <<epoch, reported, discovery, server, subscribed, handlers, consumer>>
  BY DEF Top!EditList, Top!actor
<1>3. share \in Seq(Tells) /\ listed \subseteq Channels
  BY DEF BusInv, BusTyped
<1>4. BusTyped' /\ AttachInv' /\ DiscoveryInv'
  <2>1. share' \in Seq(Tells) /\ listed' \subseteq Channels
    BY <1>1, <1>3, SaysLast
  <2>2. QED
    BY <1>2, <2>1 DEF BusInv, BusTyped, AttachInv, DiscoveryInv, Latest
<1>5. ASSUME server' = epoch', epoch' > 0, NEW ch \in Channels PROVE Agrees(ch)'
  <2>1. share' = Append(share, <<op, c>>) /\ Agrees(ch)
    BY <1>1, <1>2, <1>5 DEF BusInv, AttachInv, ShareInv
  <2>2. CASE ch = c
    <3>1. Says(share', op, ch)
      BY <1>3, <2>1, <2>2, SaysLast
    <3>2. QED
      BY <1>1, <2>2, <3>1 DEF Agrees, Ops
  <2>3. CASE ch # c
    <3>1. /\ Silent(share, ch) => Silent(share', ch)
          /\ Says(share, "add", ch) => Says(share', "add", ch)
          /\ Says(share, "remove", ch) => Says(share', "remove", ch)
      BY <1>3, <2>1, <2>3, SaysLast DEF Ops
    <3>2. ch \in listed' <=> ch \in listed
      BY <1>1, <2>3
    <3>3. QED
      BY <1>2, <2>1, <3>1, <3>2 DEF Agrees
  <2>4. QED
    BY <2>2, <2>3
<1>6. QED
  BY <1>4, <1>5 DEF BusInv, ShareInv

\* What the callbacks after the first still promise.
LEMMA NextCallback ==
  ASSUME BusInv, discovery # <<>>
  PROVE  /\ Tail(discovery) \in Seq([op : Ops, epoch : Nat])
         /\ Head(discovery).epoch \in 1..epoch
         /\ \A i \in 1..Len(Tail(discovery)) : Tail(discovery)[i].epoch \in 1..epoch
         /\ Tail(discovery) = <<>> => Latest(Head(discovery))
         /\ Tail(discovery) # <<>> => Latest(Tail(discovery)[Len(Tail(discovery))])
<1> DEFINE D == [op : Ops, epoch : Nat]
           t == Tail(discovery)
<1>1. discovery \in Seq(D)
  BY DEF BusInv, BusTyped
<1> HIDE DEF D
<1>2. /\ t \in Seq(D) /\ Len(t) = Len(discovery) - 1 /\ Len(discovery) \in Nat \ {0}
      /\ Head(discovery) \in D /\ Head(discovery) = discovery[1]
      /\ \A i \in 1..Len(t) : t[i] = discovery[i + 1]
  BY <1>1, HeadTailProperties, LenProperties
<1> HIDE DEF t
<1>3. Head(discovery).epoch \in 1..epoch
  BY <1>2 DEF BusInv, DiscoveryInv
<1>4. ASSUME NEW i \in 1..Len(t) PROVE t[i].epoch \in 1..epoch
  <2>1. i + 1 \in 1..Len(discovery)
    BY <1>2
  <2>2. QED
    BY <1>2, <2>1 DEF BusInv, DiscoveryInv
<1>5. Latest(discovery[Len(discovery)])
  BY DEF BusInv, DiscoveryInv
<1>6. ASSUME t = <<>> PROVE Latest(Head(discovery))
  <2>1. Len(discovery) = 1
    BY <1>2, <1>6
  <2>2. QED
    BY <1>2, <1>5, <2>1
<1>7. ASSUME t # <<>> PROVE Latest(t[Len(t)])
  <2>1. Len(t) \in 1..Len(t) /\ Len(t) + 1 = Len(discovery)
    BY <1>2, <1>7, EmptySeq, LenProperties
  <2>2. QED
    BY <1>2, <1>5, <2>1
<1>8. QED
  BY <1>2, <1>3, <1>4, <1>6, <1>7 DEF t, D

\* A fresh attachment relays the floor and replays the list of its incarnation.
LEMMA AddKeeps == ASSUME BusInv, Top!DiscoveryAdd PROVE BusInv'
<1> DEFINE e == Head(discovery).epoch
           l == IF e = epoch THEN listed ELSE {}
<1>1. /\ discovery # <<>> /\ discovery' = Tail(discovery) /\ Head(discovery).op = "add"
      /\ server' = e /\ consumer' = e /\ UNCHANGED <<epoch, listed, reported>>
      /\ subscribed' = [ch \in Channels |-> IF ch \in Floor THEN e ELSE 0]
      /\ handlers' = Top!Remaining \cup ({e} \X Floor)
  BY TopologyFacts DEF Top!DiscoveryAdd, Top!Detached, Top!world
<1>2. PICK order \in SetToSeqs(l) : share' = [i \in DOMAIN order |-> <<"add", order[i]>>]
  BY DEF Top!DiscoveryAdd, Top!SetToSeqs, SetToSeqs, Top!Cardinality, Cardinality
<1>3. /\ e \in Nat \ {0} /\ e <= epoch
      /\ discovery' = <<>> => e = epoch /\ reported # "add-remove"
  BY <1>1, NextCallback DEF Latest, Top!Event, BusInv, BusTyped
<1>4. l \in SUBSET Channels
  BY DEF BusInv, BusTyped
<1>5. /\ share' \in Seq(Tells)
      /\ \A ch \in l : Says(share', "add", ch)
      /\ \A ch \in Channels \ l : Silent(share', ch)
  <2> HIDE DEF l
  <2>1. QED
    BY <1>2, <1>4, Replay
<1>6. BusTyped'
  BY <1>1, <1>3, <1>5, NextCallback DEF BusInv, BusTyped
<1>7. DiscoveryInv'
  BY <1>1, <1>3, NextCallback DEF DiscoveryInv, Latest
<1>8. AttachInv'
  <2>1. Top!Remaining = {}
    BY NoneRemain DEF BusInv
  <2>2. QED
    BY TopologyFacts, <1>1, <1>3, <2>1 DEF AttachInv
<1>9. ASSUME server' = epoch', NEW ch \in Channels PROVE Agrees(ch)'
  <2>1. l = listed /\ listed' = listed
    BY <1>1, <1>9
  <2>2. CASE ch \in listed
    BY <1>5, <2>1, <2>2 DEF Agrees
  <2>3. CASE ch \notin listed
    BY <1>1, <1>5, <2>1, <2>3 DEF Agrees
  <2>4. QED
    BY <2>2, <2>3
<1>10. QED
  BY <1>6, <1>7, <1>8, <1>9 DEF BusInv, ShareInv

\* A removal detaches, and an add of the running incarnation is still to come, unless it
\* was the late one.
LEMMA RemoveKeeps == ASSUME BusInv, Top!DiscoveryRemove PROVE BusInv'
<1>1. /\ discovery # <<>> /\ discovery' = Tail(discovery) /\ Head(discovery).op = "remove"
      /\ server' = 0 /\ consumer' = 0 /\ UNCHANGED <<epoch, listed, reported>>
      /\ share' = <<>>
      /\ subscribed' = [ch \in Channels |-> 0] /\ handlers' = Top!Remaining
  BY DEF Top!DiscoveryRemove, Top!Detached, Top!world
<1>2. Top!Remaining = {}
  BY NoneRemain DEF BusInv
<1>3. discovery' = <<>> => reported = "add-remove"
  BY <1>1, NextCallback DEF Latest, Top!Event
<1>4. BusTyped'
  BY <1>1, NextCallback, EmptySeq DEF BusInv, BusTyped
<1>5. DiscoveryInv'
  BY <1>1, <1>3, NextCallback DEF DiscoveryInv, Latest
<1>6. AttachInv'
  BY <1>1, <1>2 DEF AttachInv, BusInv, BusTyped
<1>7. QED
  BY <1>1, <1>4, <1>5, <1>6 DEF BusInv, ShareInv

\* A share event moves one channel of the attachment.
LEMMA ShareKeeps == ASSUME BusInv, Top!ShareAdd \/ Top!ShareRemove PROVE BusInv'
<1> DEFINE c == Head(share)[2]
<1>1. /\ share # <<>> /\ share' = Tail(share)
      /\ UNCHANGED <<epoch, listed, reported, discovery, server, consumer>>
  BY DEF Top!ShareAdd, Top!ShareRemove, Top!world
<1>2. share \in Seq(Tells) /\ share' \in Seq(Tells) /\ c \in Channels /\ Head(share)[1] \in Ops
  BY <1>1, SaysNext DEF BusInv, BusTyped
<1> HIDE DEF c
<1>3. /\ subscribed' \in [Channels -> Nat]
      /\ \A ch \in Channels \ {c} : subscribed'[ch] = subscribed[ch]
      /\ subscribed'[c] \in {0, server}
      /\ Head(share)[1] = "add" /\ server # 0 => subscribed'[c] # 0
      /\ Head(share)[1] = "remove" => subscribed'[c] = 0
  BY <1>2 DEF Top!ShareAdd, Top!ShareRemove, BusInv, BusTyped, AttachInv, c
<1>4. handlers' = {<<subscribed'[ch], ch>> : ch \in {d \in Channels : subscribed'[d] # 0}}
  <2>1. handlers = {<<subscribed[ch], ch>> : ch \in {d \in Channels : subscribed[d] # 0}}
    BY DEF BusInv, AttachInv
  <2>2. CASE Top!ShareAdd
    <3>1. CASE subscribed[c] = 0 /\ server # 0
      <4>1. subscribed' = [subscribed EXCEPT ![c] = server] /\ handlers' = handlers \cup {<<server, c>>}
        BY <2>2, <3>1 DEF Top!ShareAdd, c
      <4>2. QED
        BY <1>2, <2>1, <3>1, <4>1 DEF BusInv, BusTyped
    <3>2. CASE ~(subscribed[c] = 0 /\ server # 0)
      BY <2>1, <2>2, <3>2 DEF Top!ShareAdd, c
    <3>3. QED
      BY <3>1, <3>2
  <2>3. CASE Top!ShareRemove
    <3>1. subscribed' = [subscribed EXCEPT ![c] = 0] /\ handlers' = handlers \ {<<subscribed[c], c>>}
      BY <2>3 DEF Top!ShareRemove, c
    <3>2. QED
      BY <1>2, <2>1, <3>1 DEF BusInv, BusTyped
  <2>4. QED
    BY <2>2, <2>3
<1>5. BusTyped' /\ DiscoveryInv' /\ AttachInv'
  BY <1>1, <1>2, <1>3, <1>4 DEF BusInv, BusTyped, DiscoveryInv, Latest, AttachInv
<1>6. ASSUME server' = epoch', epoch' > 0, NEW ch \in Channels PROVE Agrees(ch)'
  <2>1. Agrees(ch) /\ server # 0
    BY <1>1, <1>6 DEF BusInv, ShareInv, BusTyped
  <2>2. /\ Silent(share, ch) => ch # c /\ Silent(share', ch)
        /\ \A o \in Ops : Says(share, o, ch) =>
              Says(share', o, ch) \/ (Silent(share', ch) /\ Head(share) = <<o, ch>>)
    BY <1>1, <1>2, SaysNext DEF c
  <2>3. CASE Silent(share, ch)
    <3>1. ~Says(share, "add", ch) /\ ~Says(share, "remove", ch)
      BY <2>3 DEF Silent, Says
    <3>2. QED
      BY <1>1, <1>3, <2>1, <2>2, <2>3, <3>1 DEF Agrees
  <2>4. CASE Says(share, "add", ch) /\ ch \in listed
    <3>1. Says(share', "add", ch) \/ (Silent(share', ch) /\ Head(share) = <<"add", ch>>)
      BY <2>2, <2>4 DEF Ops
    <3>2. Head(share) = <<"add", ch>> => subscribed'[ch] # 0
      BY <1>3, <2>1 DEF c
    <3>3. QED
      BY <1>1, <2>4, <3>1, <3>2 DEF Agrees
  <2>5. CASE Says(share, "remove", ch) /\ ch \notin listed
    <3>1. Says(share', "remove", ch) \/ (Silent(share', ch) /\ Head(share) = <<"remove", ch>>)
      BY <2>2, <2>5 DEF Ops
    <3>2. Head(share) = <<"remove", ch>> => subscribed'[ch] = 0
      BY <1>3 DEF c
    <3>3. QED
      BY <1>1, <2>5, <3>1, <3>2 DEF Agrees
  <2>6. QED
    BY <2>1, <2>3, <2>4, <2>5 DEF Agrees
<1>7. QED
  BY <1>5, <1>6 DEF BusInv, ShareInv

\* The loop, its worker and its ingest tasks leave the attachment alone.
LEMMA BusStep == ASSUME BusInv, Top!Next \/ UNCHANGED Top!vars PROVE BusInv'
<1>1. CASE Top!ServerStarts
  BY <1>1, StartKeeps
<1>2. CASE \E ch \in Channels : Top!EditList(ch)
  BY <1>2, EditKeeps
<1>3. CASE Top!AikoThread
  BY <1>3, AddKeeps, RemoveKeeps, ShareKeeps DEF Top!AikoThread
<1>4. CASE UNCHANGED <<Top!world, discovery, share, Top!actor>>
  BY <1>4 DEF BusInv, BusTyped, AttachInv, DiscoveryInv, Latest, ShareInv, Agrees,
     Top!world, Top!actor
<1>5. QED
  BY <1>1, <1>2, <1>3, <1>4 DEF Top!Next, Top!vars, Top!Publish, Top!RunCallback,
     Top!Worker, Top!WorkerSelect,
     Top!WorkerInsert, Top!Ingest, Top!IngestSelect, Top!IngestInsert

\* _discovery_add / _teardown_attachments: whatever discovery and the share report and in
\* whatever order, the drained gateway relays nothing of a dead topic, and all of the
\* running ChatServer's list unless a removal was reported after the add it precedes.
THEOREM RelayFollowsTheList == Spec => []RelayMirrorsList
<1>1. BusInv => RelayMirrorsList
  <2>1. SUFFICES ASSUME BusInv, Top!Quiet, epoch > 0 PROVE
               /\ handlers \subseteq {epoch} \X (listed \cup Floor)
               /\ reported # "add-remove" => {epoch} \X listed \subseteq handlers
    BY DEF RelayMirrorsList, Top!RelayMirrorsList
  <2>2. /\ \A ch \in Channels : subscribed[ch] \in {0, server}
        /\ handlers = {<<subscribed[ch], ch>> : ch \in {c \in Channels : subscribed[c] # 0}}
        /\ listed \subseteq Channels
    BY <2>1 DEF BusInv, AttachInv, BusTyped
  <2>3. CASE reported = "add-remove"
    <3>1. server = 0
      BY <2>1, <2>3 DEF BusInv, DiscoveryInv, Top!Quiet
    <3>2. handlers = {}
      BY <2>2, <3>1
    <3>3. QED
      BY <2>3, <3>2
  <2>4. CASE reported # "add-remove"
    <3>1. server = epoch /\ share = <<>>
      BY <2>1, <2>4 DEF BusInv, DiscoveryInv, Top!Quiet
    <3>2. \A ch \in Channels : /\ ch \in listed => subscribed[ch] # 0
                               /\ subscribed[ch] # 0 => ch \in listed \cup Floor
      BY <2>1, <3>1 DEF BusInv, ShareInv, Agrees, Says
    <3>3. QED
      BY <2>2, <3>1, <3>2
  <2>5. QED
    BY <2>3, <2>4
<1>2. Init => BusInv
  BY BusInit DEF Init
<1>3. BusInv /\ [Next]_vars => BusInv'
  <2>1. [Next]_vars => Top!Next \/ UNCHANGED Top!vars
    BY DEF Next, TopologyStep, EchoStep, vars, topologyVars, Top!vars, Top!world, Top!actor,
       Top!db
  <2>2. QED
    BY <2>1, BusStep
<1>4. QED
  BY <1>1, <1>2, <1>3, PTL DEF Spec

-----------------------------------------------------------------------------
(* The echoes *)

\* What BusConstants says of the echo table.
LEMMA EchoFacts == {TTL, MaxDelay, MaxNow, MaxSends, MaxForeign, MaxOutages} \subseteq Nat
  BY BusConstants DEF Echo!EchoConstants

\* A nonempty set of numbers has a least one.
LEMMA LeastNumber ==
  ASSUME NEW T \in SUBSET Nat, T # {}
  PROVE  \E x \in T : \A y \in T : x <= y
<1>1. PICK x \in T : \A y \in T : <<y, x>> \notin OpToRel(<, Nat)
  BY NatLessThanWellFounded, WFMin, Zenon
<1>2. \A y \in T : ~(y < x)
  BY <1>1 DEF OpToRel
<1>3. \A y \in T : x \in Nat /\ y \in Nat /\ ~(y < x) => x <= y
  OBVIOUS
<1>4. QED
  BY <1>2, <1>3


-----------------------------------------------------------------------------
(* Counting *)

\* How many elements of the sequence s are in M.
Places(s, M) == {i \in 1..Len(s) : s[i] \in M}
Count(s, M) == Cardinality(Places(s, M))

\* There are finitely many, fewer of a smaller set, none in the empty sequence.
LEMMA CountBasics ==
  ASSUME NEW R, NEW s \in Seq(R), NEW M, NEW L, L \subseteq M
  PROVE  /\ Count(s, M) \in Nat /\ IsFiniteSet(Places(s, M))
         /\ Count(s, L) \in Nat
         /\ Count(s, L) <= Count(s, M)
         /\ s = <<>> => Count(s, M) = 0
<1>1. Len(s) \in Nat /\ IsFiniteSet(1..Len(s))
  BY LenProperties, FS_Interval
<1>2. IsFiniteSet(Places(s, M)) /\ Count(s, M) \in Nat
  <2>1. Places(s, M) \in SUBSET (1..Len(s))
    BY DEF Places
  <2>2. QED
    BY <1>1, <2>1, FS_Subset, FS_CardinalityType DEF Count
<1>3. IsFiniteSet(Places(s, L)) /\ Count(s, L) \in Nat /\ Count(s, L) <= Count(s, M)
  <2>1. Places(s, L) \in SUBSET Places(s, M)
    BY DEF Places
  <2>2. QED
    BY <1>2, <2>1, FS_Subset, FS_CardinalityType DEF Count
<1>4. ASSUME s = <<>> PROVE Count(s, M) = 0
  <2>1. Places(s, M) = {}
    BY <1>4 DEF Places
  <2>2. QED
    BY <2>1, FS_EmptySet DEF Count
<1>5. QED
  BY <1>2, <1>3, <1>4

\* One more element is one more, if it is in M.
LEMMA CountAppend ==
  ASSUME NEW R, NEW s \in Seq(R), NEW x \in R, NEW M
  PROVE  /\ Append(s, x) \in Seq(R)
         /\ Count(Append(s, x), M) = Count(s, M) + (IF x \in M THEN 1 ELSE 0)
<1> DEFINE t == Append(s, x)
           n == Len(s) + 1
<1>1. /\ t \in Seq(R) /\ Len(t) = n /\ Len(s) \in Nat /\ t[n] = x
      /\ \A i \in 1..Len(s) : t[i] = s[i]
  BY AppendProperties, LenProperties
<1>2. IsFiniteSet(Places(s, M)) /\ Count(s, M) \in Nat
  BY CountBasics
<1>3. n \notin Places(s, M) /\ 1..n = 1..Len(s) \cup {n}
  BY <1>1 DEF Places
<1> HIDE DEF t, n
<1>4. CASE x \in M
  <2>1. Places(t, M) = Places(s, M) \cup {n}
    BY <1>1, <1>3, <1>4 DEF Places
  <2>2. QED
    BY <1>1, <1>2, <1>3, <1>4, <2>1, FS_AddElement DEF Count, t
<1>5. CASE x \notin M
  <2>1. Places(t, M) = Places(s, M)
    BY <1>1, <1>3, <1>5 DEF Places
  <2>2. QED
    BY <1>1, <1>2, <1>5, <2>1 DEF Count, t
<1>6. QED
  BY <1>4, <1>5

\* Without its head a sequence has one less, if that is in M.
LEMMA CountTail ==
  ASSUME NEW R, NEW s \in Seq(R), s # <<>>, NEW M
  PROVE  /\ Tail(s) \in Seq(R) /\ Head(s) \in R
         /\ Count(s, M) = Count(Tail(s), M) + (IF Head(s) \in M THEN 1 ELSE 0)
<1> DEFINE t == Tail(s)
<1>1. /\ t \in Seq(R) /\ Len(t) = Len(s) - 1 /\ Len(s) \in Nat \ {0}
      /\ Head(s) \in R /\ Head(s) = s[1]
      /\ \A i \in 1..Len(t) : t[i] = s[i + 1]
  BY HeadTailProperties, LenProperties
<1> HIDE DEF t
<1> DEFINE later == Places(s, M) \ {1}
           f == [i \in Places(t, M) |-> i + 1]
<1>2. IsFiniteSet(Places(t, M)) /\ Count(t, M) \in Nat
  BY <1>1, CountBasics
<1>3. Cardinality(later) = Count(t, M) /\ IsFiniteSet(later)
  <2>1. f \in [Places(t, M) -> later]
    BY <1>1 DEF Places
  <2>2. \A i, j \in Places(t, M) : f[i] = f[j] => i = j
    BY DEF Places
  <2>3. ASSUME NEW j \in later PROVE \E i \in Places(t, M) : f[i] = j
    <3>1. j - 1 \in Places(t, M) /\ f[j - 1] = j
      BY <1>1 DEF Places
    <3>2. QED
      BY <3>1
  <2> HIDE DEF f, later
  <2>4. f \in Bijection(Places(t, M), later)
    BY <2>1, <2>2, <2>3 DEF Bijection, Injection, Surjection, IsInjective
  <2>5. ExistsBijection(Places(t, M), later)
    BY <2>4 DEF ExistsBijection
  <2>6. QED
    BY <1>2, <2>5, FS_Bijection DEF Count
<1>4. CASE Head(s) \in M
  <2>1. Places(s, M) = later \cup {1} /\ 1 \notin later
    BY <1>1, <1>4 DEF Places
  <2> HIDE DEF later
  <2>2. Cardinality(later \cup {1}) = Cardinality(later) + 1
    BY <1>3, <2>1, FS_AddElement
  <2>3. QED
    BY <1>1, <1>3, <1>4, <2>1, <2>2 DEF Count, t
<1>5. CASE Head(s) \notin M
  <2>1. Places(s, M) = later
    BY <1>1, <1>5 DEF Places
  <2> HIDE DEF later
  <2>2. QED
    BY <1>1, <1>2, <1>3, <1>5, <2>1 DEF Count, t
<1>6. QED
  BY <1>4, <1>5

\* A prefix has no more than the whole.
LEMMA CountPrefix ==
  ASSUME NEW R, NEW s \in Seq(R), NEW n \in 0..Len(s), NEW M
  PROVE  /\ SubSeq(s, 1, n) \in Seq(R)
         /\ Count(SubSeq(s, 1, n), M) \in Nat
         /\ Count(SubSeq(s, 1, n), M) <= Count(s, M)
<1> DEFINE t == SubSeq(s, 1, n)
<1>1. Len(s) \in Nat
  BY LenProperties
<1>2. t \in Seq(R) /\ Len(t) = n /\ \A i \in 1..n : t[i] = s[i]
  BY <1>1
<1> HIDE DEF t
<1>3. Places(t, M) \in SUBSET Places(s, M)
  BY <1>1, <1>2 DEF Places
<1>4. QED
  BY <1>2, <1>3, CountBasics, FS_Subset, FS_CardinalityType DEF Count, t

-----------------------------------------------------------------------------
(* Messages in flight and pending echoes *)

Messages == [key : Keys, own : BOOLEAN, at : Nat]
Entries == [nr : Nat, exp : Nat]

\* Own messages of k sent at t or later, and everybody else's.
Own(k, t) == {m \in Messages : m.key = k /\ m.own /\ m.at >= t}
Others(k) == {m \in Messages : m.key = k /\ ~m.own}

\* How many of M are on the bus.
Flying(M) == Count(outbox, M) + Count(topic, M)

\* Pending echoes of k that were marked at t or later.
Marked(k, t) == {e \in seen[k] : e.exp >= t + TTL}

\* Messages that were no echo: stored, or failed to be.
tried == [k \in Keys |-> ingested[k] + failed[k]]

EchoTyped ==
    /\ now \in Nat /\ up \in BOOLEAN /\ outages \in Nat
    /\ outbox \in Seq(Messages) /\ topic \in Seq(Messages)
    /\ \A k \in Keys : seen[k] \subseteq Entries /\ IsFiniteSet(seen[k])
    /\ DOMAIN seen = Keys
    /\ sent \in [Keys -> Nat] /\ swallowed \in [Keys -> Nat] /\ tried \in [Keys -> Nat]
    /\ ingested \in [Keys -> Nat] /\ failed \in [Keys -> Nat]
    /\ foreign \in [Keys -> Nat] /\ posted \in [Keys -> Nat]

\* No message is older than MaxDelay.
Timely ==
    /\ \A i \in 1..Len(outbox) : outbox[i].at <= now /\ now - outbox[i].at <= MaxDelay
    /\ \A i \in 1..Len(topic) : topic[i].at <= now /\ now - topic[i].at <= MaxDelay

\* The list of a key is one entry per send, in the order of expiry, and what was consumed
\* of it was consumed once.
Numbered == \A k \in Keys : \A e \in seen[k] : e.nr <= sent[k] /\ e.exp <= now + TTL
Ordered ==
    \A k \in Keys : \A e, f \in seen[k] :
        (e.nr <= f.nr => e.exp <= f.exp) /\ (e.nr = f.nr => e = f)
ConsumedOnce == \A k \in Keys : Cardinality(seen[k]) + swallowed[k] <= sent[k]

\* Of the sends since any time t whose marks are still alive, those on the bus have their
\* mark, but for the foreign messages that were dropped in their place.
RowInv ==
    \A k \in Keys, t \in Nat : t + TTL > now =>
        tried[k] + Flying(Own(k, t)) <= foreign[k] + Cardinality(Marked(k, t))

\* Without an outage nothing is lost: what was delivered was stored or dropped.
KeptInv ==
    outages = 0 =>
        /\ up
        /\ \A k \in Keys :
              /\ foreign[k] + sent[k] = tried[k] + swallowed[k] + Flying(Own(k, 0))
              /\ posted[k] = foreign[k] + Flying(Others(k))

EchoInv == EchoTyped /\ Timely /\ Numbered /\ Ordered /\ ConsumedOnce /\ RowInv /\ KeptInv

\* Initially the bus and the table are empty.
LEMMA EchoInit == Echo!Init => EchoInv
<1>1. SUFFICES ASSUME Echo!Init PROVE EchoInv
  OBVIOUS
<1>2. EchoTyped
  BY <1>1, FS_EmptySet DEF Echo!Init, EchoTyped, Echo!Zero, tried
<1>3. Timely
  BY <1>1 DEF Echo!Init, Timely
<1>4. \A k \in Keys : seen[k] = {} /\ sent[k] = 0 /\ tried[k] = 0 /\ swallowed[k] = 0
                      /\ foreign[k] = 0 /\ posted[k] = 0
  BY <1>1 DEF Echo!Init, Echo!Zero, tried
<1>5. Numbered /\ Ordered /\ ConsumedOnce
  <2>1. ASSUME NEW k \in Keys PROVE Cardinality(seen[k]) + swallowed[k] <= sent[k]
    <3>1. Cardinality(seen[k]) = 0
      BY <1>4, FS_EmptySet
    <3>2. QED
      BY <1>4, <3>1
  <2>2. QED
    BY <1>4, <2>1 DEF Numbered, Ordered, ConsumedOnce
<1>6. \A M : Flying(M) = 0
  <2>1. \A M : Count(<<>>, M) = 0
    BY EmptySeq, CountBasics
  <2>2. QED
    BY <1>1, <2>1 DEF Echo!Init, Flying
<1>7. RowInv
  <2>1. \A k \in Keys, t \in Nat : Marked(k, t) = {}
    BY <1>4 DEF Marked
  <2>2. QED
    BY <1>4, <1>6, <2>1, FS_EmptySet DEF RowInv
<1>8. KeptInv
  BY <1>1, <1>4, <1>6 DEF KeptInv, Echo!Init
<1>9. QED
  BY <1>2, <1>3, <1>5, <1>7, <1>8 DEF EchoInv

\* The numbers of the invariant are numbers.
LEMMA EchoNumbers ==
  ASSUME EchoTyped, NEW k \in Keys, NEW t \in Nat
  PROVE  /\ TTL \in Nat /\ MaxDelay \in Nat /\ now \in Nat
         /\ \A M : Flying(M) \in Nat /\ Count(outbox, M) \in Nat /\ Count(topic, M) \in Nat
         /\ Marked(k, t) \in SUBSET seen[k]
         /\ IsFiniteSet(Marked(k, t)) /\ Cardinality(Marked(k, t)) \in Nat
         /\ IsFiniteSet(seen[k]) /\ Cardinality(seen[k]) \in Nat
         /\ sent[k] \in Nat /\ tried[k] \in Nat /\ swallowed[k] \in Nat
         /\ foreign[k] \in Nat /\ posted[k] \in Nat
<1>1. \A M : Flying(M) \in Nat /\ Count(outbox, M) \in Nat /\ Count(topic, M) \in Nat
  <2>1. \A M : Count(outbox, M) \in Nat /\ Count(topic, M) \in Nat
    BY CountBasics DEF EchoTyped
  <2>2. QED
    BY <2>1 DEF Flying
<1>2. Marked(k, t) \in SUBSET seen[k] /\ IsFiniteSet(seen[k])
  BY DEF Marked, EchoTyped
<1>3. /\ IsFiniteSet(Marked(k, t)) /\ Cardinality(Marked(k, t)) \in Nat
      /\ Cardinality(seen[k]) \in Nat
  BY <1>2, FS_Subset, FS_CardinalityType
<1>4. QED
  BY <1>1, <1>2, <1>3, EchoFacts DEF EchoTyped

-----------------------------------------------------------------------------
(* The list *)

\* A nonempty list has its oldest entry.
LEMMA OldestIsFirst ==
  ASSUME NEW s \in SUBSET Entries, IsFiniteSet(s), s # {}
  PROVE  Echo!Oldest(s) \in s /\ \A f \in s : Echo!Oldest(s).nr <= f.nr
<1>1. \E e \in s : \A f \in s : e.nr <= f.nr
  <2> DEFINE N == {e.nr : e \in s}
  <2>1. N \in SUBSET Nat /\ N # {}
    BY DEF Entries
  <2>2. PICK x \in N : \A y \in N : x <= y
    BY <2>1, LeastNumber
  <2>3. QED
    BY <2>2
<1>2. QED
  BY <1>1 DEF Echo!Oldest

\* Eviction takes no entry that a message younger than TTL could need.
LEMMA EvictKeeps ==
  ASSUME EchoTyped, NEW k \in Keys
  PROVE  /\ Echo!Evict(seen[k]) \in SUBSET seen[k] /\ Echo!Evict(seen[k]) \in SUBSET Entries
         /\ IsFiniteSet(Echo!Evict(seen[k])) /\ Cardinality(Echo!Evict(seen[k])) \in Nat
         /\ Cardinality(Echo!Evict(seen[k])) <= Cardinality(seen[k])
         /\ \A t \in Nat : t + TTL > now =>
               Marked(k, t) = {e \in Echo!Evict(seen[k]) : e.exp >= t + TTL}
<1>1. Echo!Evict(seen[k]) \in SUBSET seen[k] /\ seen[k] \in SUBSET Entries /\ IsFiniteSet(seen[k])
  BY DEF Echo!Evict, EchoTyped
<1>2. \A t \in Nat : t + TTL > now =>
         Marked(k, t) = {e \in Echo!Evict(seen[k]) : e.exp >= t + TTL}
  <2>1. now \in Nat /\ TTL \in Nat /\ \A e \in seen[k] : e.exp \in Nat
    BY <1>1, EchoFacts DEF EchoTyped, Entries
  <2>2. QED
    BY <1>1, <2>1 DEF Marked, Echo!Evict
<1>3. QED
  BY <1>1, <1>2, FS_Subset, FS_CardinalityType

-----------------------------------------------------------------------------
(* Steps *)

\* A send puts its mark and its message into the world together, or the mark alone.
LEMMA SendKeeps == ASSUME EchoInv, NEW k \in Keys, Echo!Send(k) PROVE EchoInv'
<1> DEFINE m == [key |-> k, own |-> TRUE, at |-> now]
           x == [nr |-> sent[k] + 1, exp |-> now + TTL]
<1>1. /\ sent' = [sent EXCEPT ![k] = @ + 1]
      /\ seen' = [j \in Keys |-> IF j = k THEN Echo!Evict(seen[j]) \cup {x} ELSE Echo!Evict(seen[j])]
      /\ UNCHANGED <<now, up, topic, ingested, failed, tried, swallowed, foreign, posted, outages>>
      /\ outbox' = IF up THEN Append(outbox, m) ELSE outbox
  BY DEF Echo!Send, Echo!MarkSent, tried
<1>2. EchoTyped /\ Timely /\ Numbered /\ Ordered /\ ConsumedOnce /\ RowInv /\ KeptInv
  BY DEF EchoInv
<1>3. /\ m \in Messages /\ x \in Entries
      /\ x.nr = sent[k] + 1 /\ x.exp = now + TTL /\ m.key = k /\ m.own /\ m.at = now
      /\ now \in Nat /\ TTL \in Nat /\ MaxDelay \in Nat /\ sent[k] \in Nat
  <2>1. now \in Nat /\ sent \in [Keys -> Nat]
    BY <1>2 DEF EchoTyped
  <2>2. TTL \in Nat /\ MaxDelay \in Nat
    BY EchoFacts
  <2>3. sent[k] \in Nat /\ sent[k] + 1 \in Nat /\ now + TTL \in Nat
    BY <2>1, <2>2
  <2>4. m \in Messages /\ m.key = k /\ m.own /\ m.at = now
    BY <2>1 DEF Messages
  <2>5. x \in Entries /\ x.nr = sent[k] + 1 /\ x.exp = now + TTL
    BY <2>3 DEF Entries
  <2>6. QED
    BY <2>1, <2>2, <2>3, <2>4, <2>5
<1> HIDE DEF m, x
<1>4. /\ outbox' \in Seq(Messages)
      /\ \A M : Flying(M)' = Flying(M) + (IF up /\ m \in M THEN 1 ELSE 0)
  <2>1. outbox \in Seq(Messages)
    BY <1>2 DEF EchoTyped
  <2>2. \A M : Count(Append(outbox, m), M) = Count(outbox, M) + (IF m \in M THEN 1 ELSE 0)
    BY <1>3, <2>1, CountAppend
  <2>3. \A M : Count(outbox, M) \in Nat /\ Count(topic, M) \in Nat
    BY CountBasics, <1>2 DEF EchoTyped
  <2>4. outbox' \in Seq(Messages)
    BY <1>1, <1>3, <2>1, CountAppend
  <2>5. QED
    BY <1>1, <2>2, <2>3, <2>4 DEF Flying
<1>5. \A j \in Keys : /\ Echo!Evict(seen[j]) \in SUBSET seen[j] /\ Echo!Evict(seen[j]) \in SUBSET Entries
                      /\ IsFiniteSet(Echo!Evict(seen[j])) /\ Cardinality(Echo!Evict(seen[j])) \in Nat
                      /\ Cardinality(Echo!Evict(seen[j])) <= Cardinality(seen[j])
                      /\ Cardinality(seen[j]) \in Nat
  BY <1>2, EvictKeeps, FS_CardinalityType DEF EchoTyped
<1>6. x \notin Echo!Evict(seen[k])
  <2>1. x \in Echo!Evict(seen[k]) => x.nr <= sent[k]
    BY <1>2, <1>5 DEF Numbered
  <2>2. ~(sent[k] + 1 <= sent[k])
    BY <1>3
  <2>3. QED
    BY <1>3, <2>1, <2>2
<1>7. /\ IsFiniteSet(Echo!Evict(seen[k]) \cup {x})
      /\ Cardinality(Echo!Evict(seen[k]) \cup {x}) = Cardinality(Echo!Evict(seen[k])) + 1
  BY <1>5, <1>6, FS_AddElement
<1>8. EchoTyped'
  <2>1. \A j \in Keys : seen'[j] \subseteq Entries /\ IsFiniteSet(seen'[j])
    BY <1>1, <1>3, <1>5, <1>7
  <2>2. sent' \in [Keys -> Nat] /\ DOMAIN seen' = Keys
    BY <1>1, <1>2 DEF EchoTyped
  <2>3. QED
    BY <1>1, <1>2, <1>4, <2>1, <2>2 DEF EchoTyped
<1>9. Timely'
  <2>1. ASSUME NEW i \in 1..Len(outbox')
        PROVE outbox'[i].at <= now /\ now - outbox'[i].at <= MaxDelay
    <3>1. CASE up
      <4>1. /\ Len(outbox') = Len(outbox) + 1 /\ Len(outbox) \in Nat
            /\ outbox'[Len(outbox) + 1] = m /\ \A n \in 1..Len(outbox) : outbox'[n] = outbox[n]
        BY <1>1, <1>2, <1>3, <3>1, AppendProperties, LenProperties DEF EchoTyped
      <4>2. i \in 1..Len(outbox) \/ i = Len(outbox) + 1
        BY <4>1
      <4>3. QED
        BY <1>2, <1>3, <4>1, <4>2 DEF Timely
    <3>2. CASE ~up
      BY <1>1, <1>2, <3>2 DEF Timely
    <3>3. QED
      BY <3>1, <3>2
  <2>2. QED
    BY <1>1, <1>2, <2>1 DEF Timely
<1>10. Numbered' /\ Ordered' /\ ConsumedOnce'
  <2>1. /\ seen'[k] = Echo!Evict(seen[k]) \cup {x} /\ sent'[k] = sent[k] + 1
        /\ \A j \in Keys \ {k} : seen'[j] = Echo!Evict(seen[j]) /\ sent'[j] = sent[j]
    BY <1>1, <1>2 DEF EchoTyped
  <2>2. \A j \in Keys : /\ sent[j] \in Nat /\ swallowed[j] \in Nat
                        /\ \A e \in Echo!Evict(seen[j]) : e.nr \in Nat /\ e.exp \in Nat
    BY <1>2, <1>5 DEF EchoTyped, Entries
  <2>3. \A e \in Echo!Evict(seen[k]) : e.nr <= sent[k] /\ e.exp <= now + TTL
    BY <1>2, <1>5 DEF Numbered
  <2>4. ASSUME NEW j \in Keys, NEW e \in seen'[j]
        PROVE e.nr <= sent'[j] /\ e.exp <= now + TTL
    <3>1. CASE j # k
      BY <1>2, <1>5, <2>1, <3>1, <2>4 DEF Numbered
    <3>2. CASE j = k /\ e = x
      BY <1>3, <2>1, <3>2
    <3>3. CASE j = k /\ e \in Echo!Evict(seen[k])
      BY <1>3, <2>1, <2>2, <2>3, <3>3
    <3>4. QED
      BY <2>1, <2>4, <3>1, <3>2, <3>3
  <2>5. ASSUME NEW j \in Keys, NEW e \in seen'[j], NEW f \in seen'[j]
        PROVE  (e.nr <= f.nr => e.exp <= f.exp) /\ (e.nr = f.nr => e = f)
    <3>1. CASE e \in Echo!Evict(seen[j]) /\ f \in Echo!Evict(seen[j])
      BY <1>2, <1>5, <3>1 DEF Ordered
    <3>2. CASE j = k /\ e \in Echo!Evict(seen[k]) /\ f = x
      BY <1>3, <2>2, <2>3, <3>2
    <3>3. CASE j = k /\ e = x /\ f \in Echo!Evict(seen[k])
      BY <1>3, <2>2, <2>3, <3>3
    <3>4. CASE e = x /\ f = x
      BY <1>3, <3>4
    <3>5. QED
      BY <2>1, <2>5, <3>1, <3>2, <3>3, <3>4
  <2>6. ASSUME NEW j \in Keys PROVE Cardinality(seen'[j]) + swallowed[j] <= sent'[j]
    <3>1. Cardinality(seen[j]) + swallowed[j] <= sent[j]
      BY <1>2 DEF ConsumedOnce
    <3>a. /\ Cardinality(Echo!Evict(seen[j])) \in Nat /\ Cardinality(seen[j]) \in Nat
          /\ Cardinality(Echo!Evict(seen[j])) <= Cardinality(seen[j])
          /\ sent[j] \in Nat /\ swallowed[j] \in Nat
      BY <1>5, <2>2
    <3>2. CASE j = k
      <4>1. Cardinality(seen'[j]) = Cardinality(Echo!Evict(seen[j])) + 1 /\ sent'[j] = sent[j] + 1
        BY <1>7, <2>1, <3>2
      <4>2. QED
        BY <3>1, <3>a, <4>1
    <3>3. CASE j # k
      <4>1. Cardinality(seen'[j]) = Cardinality(Echo!Evict(seen[j])) /\ sent'[j] = sent[j]
        BY <2>1, <3>3
      <4>2. QED
        BY <3>1, <3>a, <4>1
    <3>4. QED
      BY <3>2, <3>3
  <2>7. QED
    BY <1>1, <2>4, <2>5, <2>6 DEF Numbered, Ordered, ConsumedOnce
<1>11. RowInv'
  <2>1. SUFFICES ASSUME NEW j \in Keys, NEW t \in Nat, t + TTL > now
                 PROVE  tried[j] + Flying(Own(j, t))' <= foreign[j] + Cardinality(Marked(j, t)')
    BY <1>1 DEF RowInv, Own
  <2>2. /\ tried[j] + Flying(Own(j, t)) <= foreign[j] + Cardinality(Marked(j, t))
        /\ tried[j] \in Nat /\ foreign[j] \in Nat /\ Flying(Own(j, t)) \in Nat
        /\ Cardinality(Marked(j, t)) \in Nat /\ IsFiniteSet(Marked(j, t))
    BY <1>2, <2>1, EchoNumbers DEF RowInv
  <2>3. Marked(j, t) = {e \in Echo!Evict(seen[j]) : e.exp >= t + TTL}
    BY <1>2, <2>1, EvictKeeps
  <2>4. CASE j = k /\ now >= t
    <3>1. Marked(j, t)' = Marked(j, t) \cup {x} /\ x \notin Marked(j, t)
      BY <1>1, <1>3, <1>6, <2>3, <2>4 DEF Marked
    <3>2. Cardinality(Marked(j, t)') = Cardinality(Marked(j, t)) + 1
      BY <2>2, <3>1, FS_AddElement
    <3>3. Flying(Own(j, t))' <= Flying(Own(j, t)) + 1 /\ Flying(Own(j, t))' \in Nat
      BY <1>4, <2>2 DEF Own
    <3>4. QED
      BY <2>2, <3>2, <3>3
  <2>5. CASE ~(j = k /\ now >= t)
    <3>1. Marked(j, t)' = Marked(j, t)
      BY <1>1, <1>3, <2>1, <2>3, <2>5 DEF Marked
    <3>2. m \notin Own(j, t)
      BY <1>3, <2>5 DEF Own
    <3>3. Flying(Own(j, t))' = Flying(Own(j, t))
      BY <1>4, <2>2, <3>2 DEF Own
    <3>4. QED
      BY <2>2, <3>1, <3>3
  <2>6. QED
    BY <2>4, <2>5
<1>12. KeptInv'
  <2>1. SUFFICES ASSUME outages = 0
                 PROVE  /\ up
                        /\ \A j \in Keys :
                           /\ foreign[j] + sent'[j] = tried[j] + swallowed[j] + Flying(Own(j, 0))'
                           /\ posted[j] = foreign[j] + Flying(Others(j))'
    BY <1>1 DEF KeptInv, Own, Others
  <2>2. up
    BY <1>2, <2>1 DEF KeptInv
  <2>3. ASSUME NEW j \in Keys
        PROVE  /\ foreign[j] + sent'[j] = tried[j] + swallowed[j] + Flying(Own(j, 0))'
               /\ posted[j] = foreign[j] + Flying(Others(j))'
    <3>1. /\ foreign[j] + sent[j] = tried[j] + swallowed[j] + Flying(Own(j, 0))
          /\ posted[j] = foreign[j] + Flying(Others(j))
          /\ foreign[j] \in Nat /\ sent[j] \in Nat /\ tried[j] \in Nat /\ swallowed[j] \in Nat
          /\ Flying(Own(j, 0)) \in Nat /\ Flying(Others(j)) \in Nat
      BY <1>2, <2>1, EchoNumbers DEF KeptInv
    <3>2. Flying(Others(j))' = Flying(Others(j))
      <4>1. m \notin Others(j)
        BY <1>3 DEF Others
      <4>2. QED
        BY <1>4, <3>1, <4>1 DEF Others
    <3>3. CASE j = k
      <4>1. m \in Own(j, 0)
        BY <1>3, <3>3 DEF Own
      <4>2. Flying(Own(j, 0))' = Flying(Own(j, 0)) + 1
        BY <1>4, <2>2, <4>1 DEF Own
      <4>3. sent'[j] = sent[j] + 1
        BY <1>1, <1>2, <3>3 DEF EchoTyped
      <4>4. QED
        BY <3>1, <3>2, <4>2, <4>3
    <3>4. CASE j # k
      <4>1. m \notin Own(j, 0)
        BY <1>3, <3>4 DEF Own
      <4>2. Flying(Own(j, 0))' = Flying(Own(j, 0)) /\ sent'[j] = sent[j]
        <5>1. Flying(Own(j, 0))' = Flying(Own(j, 0))
          BY <1>4, <3>1, <4>1 DEF Own
        <5>2. sent'[j] = sent[j]
          BY <1>1, <1>2, <3>4 DEF EchoTyped
        <5>3. QED
          BY <5>1, <5>2
      <4>3. QED
        BY <3>1, <3>2, <4>2
    <3>5. QED
      BY <3>3, <3>4
  <2>4. QED
    BY <2>2, <2>3
<1>13. QED
  BY <1>8, <1>9, <1>10, <1>11, <1>12 DEF EchoInv

\* What leaves the list, the clock and the rows alone and sends nothing own.
LEMMA BusKeeps ==
  ASSUME EchoInv, UNCHANGED <<now, seen, sent, ingested, failed, tried, swallowed, foreign>>,
         up' \in BOOLEAN, outages' \in Nat, posted' \in [Keys -> Nat],
         outbox' \in Seq(Messages), topic' \in Seq(Messages), Timely',
         \A k \in Keys, t \in Nat : /\ Flying(Own(k, t))' \in Nat
                                    /\ Flying(Own(k, t))' <= Flying(Own(k, t)),
         KeptInv'
  PROVE  EchoInv'
<1>1. EchoTyped'
  BY DEF EchoInv, EchoTyped
<1>2. Numbered' /\ Ordered' /\ ConsumedOnce'
  BY DEF EchoInv, Numbered, Ordered, ConsumedOnce
<1>3. RowInv'
  <2>1. SUFFICES ASSUME NEW j \in Keys, NEW t \in Nat, t + TTL > now
                 PROVE  tried[j] + Flying(Own(j, t))' <= foreign[j] + Cardinality(Marked(j, t))
    BY DEF RowInv, Own, Marked
  <2>2. /\ tried[j] + Flying(Own(j, t)) <= foreign[j] + Cardinality(Marked(j, t))
        /\ tried[j] \in Nat /\ foreign[j] \in Nat /\ Flying(Own(j, t)) \in Nat
        /\ Cardinality(Marked(j, t)) \in Nat
    BY <2>1, EchoNumbers DEF RowInv, EchoInv
  <2>3. Flying(Own(j, t))' \in Nat /\ Flying(Own(j, t))' <= Flying(Own(j, t))
    OBVIOUS
  <2>4. \A a, b, c, d, e \in Nat : a + b <= c + d /\ e <= b => a + e <= c + d
    OBVIOUS
  <2>5. QED
    BY <2>2, <2>3, <2>4, Zenon
<1>4. QED
  BY <1>1, <1>2, <1>3 DEF EchoInv

\* The ChatServer passes a message on.
LEMMA RepublishKeeps == ASSUME EchoInv, Echo!Republish PROVE EchoInv'
<1>1. /\ outbox # <<>> /\ topic' = Append(topic, Head(outbox)) /\ outbox' = Tail(outbox)
      /\ UNCHANGED <<now, up, seen, sent, ingested, failed, tried, swallowed, foreign, posted, outages>>
  BY DEF Echo!Republish, tried
<1>2. EchoTyped /\ Timely /\ KeptInv
  BY DEF EchoInv
<1>3. outbox \in Seq(Messages) /\ topic \in Seq(Messages) /\ Head(outbox) \in Messages
  BY <1>1, <1>2, CountTail DEF EchoTyped
<1>4. outbox' \in Seq(Messages) /\ topic' \in Seq(Messages)
  BY <1>1, <1>3, CountTail, CountAppend
<1>5. ASSUME NEW M PROVE Flying(M)' = Flying(M)
  <2>1. Count(outbox, M) = Count(outbox', M) + (IF Head(outbox) \in M THEN 1 ELSE 0)
    BY <1>1, <1>3, CountTail
  <2>2. Count(topic', M) = Count(topic, M) + (IF Head(outbox) \in M THEN 1 ELSE 0)
    BY <1>1, <1>3, CountAppend
  <2>3. Count(outbox', M) \in Nat /\ Count(topic, M) \in Nat
    BY <1>3, <1>4, CountBasics
  <2>4. QED
    BY <2>1, <2>2, <2>3 DEF Flying
<1>6. Timely'
  <2>1. /\ Len(outbox') = Len(outbox) - 1 /\ Len(outbox) \in Nat \ {0}
        /\ \A i \in 1..Len(outbox') : outbox'[i] = outbox[i + 1]
        /\ Head(outbox) = outbox[1]
    BY <1>1, <1>3, HeadTailProperties, LenProperties
  <2>2. /\ Len(topic') = Len(topic) + 1 /\ Len(topic) \in Nat
        /\ topic'[Len(topic) + 1] = Head(outbox)
        /\ \A i \in 1..Len(topic) : topic'[i] = topic[i]
    BY <1>1, <1>3, AppendProperties, LenProperties
  <2>3. ASSUME NEW i \in 1..Len(outbox')
        PROVE  outbox'[i].at <= now /\ now - outbox'[i].at <= MaxDelay
    <3>1. i + 1 \in 1..Len(outbox)
      BY <2>1
    <3>2. QED
      BY <1>2, <2>1, <3>1 DEF Timely
  <2>4. ASSUME NEW i \in 1..Len(topic')
        PROVE  topic'[i].at <= now /\ now - topic'[i].at <= MaxDelay
    <3>1. CASE i \in 1..Len(topic)
      BY <1>2, <2>2, <3>1 DEF Timely
    <3>2. CASE i = Len(topic) + 1
      <4>1. 1 \in 1..Len(outbox)
        BY <2>1
      <4>2. QED
        BY <1>2, <2>1, <2>2, <3>2, <4>1 DEF Timely
    <3>3. QED
      BY <2>2, <3>1, <3>2
  <2>5. QED
    BY <1>1, <2>3, <2>4 DEF Timely
<1>7. \A k \in Keys, t \in Nat : /\ Flying(Own(k, t))' \in Nat
                                 /\ Flying(Own(k, t))' <= Flying(Own(k, t))
  <2>1. \A k \in Keys, t \in Nat : Flying(Own(k, t)) \in Nat
    BY <1>2, EchoNumbers
  <2>2. \A k \in Keys, t \in Nat : Flying(Own(k, t))' = Flying(Own(k, t))
    BY <1>5 DEF Own
  <2>3. QED
    BY <2>1, <2>2
<1>8. KeptInv'
  <2>1. \A k \in Keys : Flying(Own(k, 0))' = Flying(Own(k, 0))
                        /\ Flying(Others(k))' = Flying(Others(k))
    BY <1>5 DEF Own, Others
  <2>2. QED
    BY <1>1, <1>2, <2>1 DEF KeptInv
<1>9. up' \in BOOLEAN /\ outages' \in Nat /\ posted' \in [Keys -> Nat]
  BY <1>1, <1>2 DEF EchoTyped
<1>10. QED
  BY <1>1, <1>4, <1>6, <1>7, <1>8, <1>9, BusKeeps

\* Another participant's message is nobody's own.
LEMMA PostKeeps == ASSUME EchoInv, NEW k \in Keys, Echo!Post(k) PROVE EchoInv'
<1> DEFINE m == [key |-> k, own |-> FALSE, at |-> now]
<1>1. /\ posted' = [posted EXCEPT ![k] = @ + 1] /\ topic' = Append(topic, m)
      /\ UNCHANGED <<now, up, seen, outbox, sent, ingested, failed, tried, swallowed, foreign, outages>>
  BY DEF Echo!Post, tried
<1>2. EchoTyped /\ Timely /\ KeptInv
  BY DEF EchoInv
<1>3. /\ m \in Messages /\ m.key = k /\ ~m.own /\ m.at = now
      /\ now \in Nat /\ MaxDelay \in Nat /\ topic \in Seq(Messages) /\ outbox \in Seq(Messages)
  BY <1>2, EchoFacts DEF Messages, EchoTyped
<1> HIDE DEF m
<1>4. topic' \in Seq(Messages)
  BY <1>1, <1>3, CountAppend
<1>5. ASSUME NEW M PROVE Flying(M)' = Flying(M) + (IF m \in M THEN 1 ELSE 0)
  <2>1. Count(topic', M) = Count(topic, M) + (IF m \in M THEN 1 ELSE 0)
    BY <1>1, <1>3, CountAppend
  <2>2. Count(outbox, M) \in Nat /\ Count(topic, M) \in Nat
    BY <1>3, CountBasics
  <2>3. QED
    BY <1>1, <2>1, <2>2 DEF Flying
<1>6. Timely'
  <2>1. /\ Len(topic') = Len(topic) + 1 /\ Len(topic) \in Nat
        /\ topic'[Len(topic) + 1] = m
        /\ \A i \in 1..Len(topic) : topic'[i] = topic[i]
    BY <1>1, <1>3, AppendProperties, LenProperties
  <2>2. ASSUME NEW i \in 1..Len(topic')
        PROVE  topic'[i].at <= now /\ now - topic'[i].at <= MaxDelay
    <3>1. CASE i \in 1..Len(topic)
      BY <1>2, <2>1, <3>1 DEF Timely
    <3>2. CASE i = Len(topic) + 1
      BY <1>3, <2>1, <3>2
    <3>3. QED
      BY <2>1, <3>1, <3>2
  <2>3. QED
    BY <1>1, <1>2, <2>2 DEF Timely
<1>7. \A j \in Keys, t \in Nat : /\ Flying(Own(j, t)) \in Nat
                                 /\ Flying(Own(j, t))' = Flying(Own(j, t))
  <2>1. \A j \in Keys, t \in Nat : Flying(Own(j, t)) \in Nat
    BY <1>2, EchoNumbers
  <2>2. ASSUME NEW j \in Keys, NEW t \in Nat PROVE Flying(Own(j, t))' = Flying(Own(j, t))
    <3>1. m \notin Own(j, t)
      BY <1>3 DEF Own
    <3>2. QED
      BY <1>5, <2>1, <3>1 DEF Own
  <2>3. QED
    BY <2>1, <2>2
<1>8. KeptInv'
  <2>1. ASSUME outages = 0, NEW j \in Keys
        PROVE posted'[j] = foreign[j] + Flying(Others(j))'
    <3>1. /\ posted[j] = foreign[j] + Flying(Others(j))
          /\ posted[j] \in Nat /\ foreign[j] \in Nat /\ Flying(Others(j)) \in Nat
      BY <1>2, <2>1, EchoNumbers DEF KeptInv
    <3>2. m \in Others(j) <=> j = k
      BY <1>3 DEF Others
    <3>3. CASE j = k
      <4>1. Flying(Others(j))' = Flying(Others(j)) + 1
        BY <1>5, <3>2, <3>3 DEF Others
      <4>2. posted'[j] = posted[j] + 1
        BY <1>1, <1>2, <3>3 DEF EchoTyped
      <4>3. QED
        BY <3>1, <4>1, <4>2
    <3>4. CASE j # k
      <4>1. Flying(Others(j))' = Flying(Others(j))
        BY <1>5, <3>1, <3>2, <3>4 DEF Others
      <4>2. posted'[j] = posted[j]
        BY <1>1, <1>2, <3>4 DEF EchoTyped
      <4>3. QED
        BY <3>1, <4>1, <4>2
    <3>5. QED
      BY <3>3, <3>4
  <2>2. \A j \in Keys : Flying(Own(j, 0))' = Flying(Own(j, 0))
    BY <1>7
  <2>3. QED
    BY <1>1, <1>2, <2>1, <2>2 DEF KeptInv
<1>9. up' \in BOOLEAN /\ outages' \in Nat /\ posted' \in [Keys -> Nat] /\ outbox' \in Seq(Messages)
  BY <1>1, <1>2 DEF EchoTyped
<1>10. \A j \in Keys, t \in Nat : /\ Flying(Own(j, t))' \in Nat
                                  /\ Flying(Own(j, t))' <= Flying(Own(j, t))
  BY <1>7
<1>11. QED
  BY <1>1, <1>4, <1>6, <1>8, <1>9, <1>10, BusKeeps

\* An outage only loses messages.
LEMMA GoneKeeps == ASSUME EchoInv, Echo!ServerGone PROVE EchoInv'
<1>1. /\ up' = FALSE /\ outages' = outages + 1 /\ outbox' = <<>>
      /\ UNCHANGED <<now, seen, sent, ingested, failed, tried, swallowed, foreign, posted>>
  BY DEF Echo!ServerGone, tried
<1>2. PICK n \in 0..Len(topic) : topic' = SubSeq(topic, 1, n)
  BY DEF Echo!ServerGone, tried
<1>3. EchoTyped /\ Timely
  BY DEF EchoInv
<1>4. outbox' \in Seq(Messages) /\ topic' \in Seq(Messages) /\ topic \in Seq(Messages)
  BY <1>1, <1>2, <1>3, CountPrefix, EmptySeq DEF EchoTyped
<1>5. ASSUME NEW M PROVE Flying(M)' \in Nat /\ Flying(M)' <= Flying(M)
  <2>1. Count(topic', M) \in Nat /\ Count(topic', M) <= Count(topic, M)
    BY <1>2, <1>4, CountPrefix
  <2>2. Count(outbox', M) = 0
    BY <1>1, <1>4, CountBasics
  <2>3. Count(outbox, M) \in Nat /\ Count(topic, M) \in Nat
    BY <1>3, CountBasics DEF EchoTyped
  <2>4. QED
    BY <2>1, <2>2, <2>3 DEF Flying
<1>6. Timely'
  <2>1. Len(topic) \in Nat /\ n \in Nat /\ n <= Len(topic)
    BY <1>4, LenProperties
  <2>2. Len(topic') = n /\ \A i \in 1..n : topic'[i] = topic[i] /\ i \in 1..Len(topic)
    BY <1>2, <1>4, <2>1
  <2>3. Len(outbox') = 0
    BY <1>1
  <2>4. QED
    BY <1>1, <1>3, <2>2, <2>3 DEF Timely
<1>7. KeptInv' /\ outages' \in Nat
  BY <1>1, <1>3 DEF KeptInv, EchoTyped
<1>8. \A k \in Keys, t \in Nat : /\ Flying(Own(k, t))' \in Nat
                                 /\ Flying(Own(k, t))' <= Flying(Own(k, t))
  BY <1>5 DEF Own
<1>9. up' \in BOOLEAN /\ posted' \in [Keys -> Nat]
  BY <1>1, <1>3 DEF EchoTyped
<1>10. QED
  BY <1>1, <1>4, <1>6, <1>7, <1>8, <1>9, BusKeeps

\* The return of the ChatServer is after an outage.
LEMMA BackKeeps == ASSUME EchoInv, Echo!ServerBack PROVE EchoInv'
<1>1. ~up /\ up' = TRUE
      /\ UNCHANGED <<now, seen, outbox, topic, sent, ingested, failed, tried, swallowed, foreign, posted, outages>>
  BY DEF Echo!ServerBack, tried
<1>2. outages # 0
  BY <1>1 DEF EchoInv, KeptInv
<1>3. KeptInv' /\ Timely'
  BY <1>1, <1>2 DEF EchoInv, KeptInv, Timely
<1>4. \A k \in Keys, t \in Nat : /\ Flying(Own(k, t))' \in Nat
                                 /\ Flying(Own(k, t))' <= Flying(Own(k, t))
  <2>1. \A k \in Keys, t \in Nat : Flying(Own(k, t)) \in Nat
    BY EchoNumbers DEF EchoInv
  <2>2. \A k \in Keys, t \in Nat : Flying(Own(k, t))' = Flying(Own(k, t))
    BY <1>1 DEF Flying, Own
  <2>3. QED
    BY <2>1, <2>2
<1>5. /\ up' \in BOOLEAN /\ outages' \in Nat /\ posted' \in [Keys -> Nat]
      /\ outbox' \in Seq(Messages) /\ topic' \in Seq(Messages)
  BY <1>1 DEF EchoInv, EchoTyped
<1>6. QED
  BY <1>1, <1>3, <1>4, <1>5, BusKeeps

\* Time ends the life of marks only, and no message is left behind by more than MaxDelay.
LEMMA TickKeeps == ASSUME EchoInv, Echo!Tick PROVE EchoInv'
<1>1. /\ now' = now + 1
      /\ UNCHANGED <<up, seen, outbox, topic, sent, ingested, failed, tried, swallowed, foreign, posted, outages>>
      /\ \A i \in 1..Len(outbox) : now - outbox[i].at < MaxDelay
      /\ \A i \in 1..Len(topic) : now - topic[i].at < MaxDelay
  <2>1. DOMAIN outbox = 1..Len(outbox) /\ DOMAIN topic = 1..Len(topic)
    BY LenProperties DEF EchoInv, EchoTyped
  <2>2. QED
    BY <2>1 DEF Echo!Tick, tried
<1>2. now \in Nat /\ TTL \in Nat /\ MaxDelay \in Nat
  BY EchoFacts DEF EchoInv, EchoTyped
<1>3. EchoTyped'
  BY <1>1, <1>2 DEF EchoInv, EchoTyped
<1>4. Timely'
  <2>1. /\ \A i \in 1..Len(outbox) : outbox[i].at \in Nat
        /\ \A i \in 1..Len(topic) : topic[i].at \in Nat
    <3>1. \A i \in 1..Len(outbox) : outbox[i] \in Messages
      BY ElementOfSeq DEF EchoInv, EchoTyped
    <3>2. \A i \in 1..Len(topic) : topic[i] \in Messages
      BY ElementOfSeq DEF EchoInv, EchoTyped
    <3>3. QED
      BY <3>1, <3>2 DEF Messages
  <2>2. ASSUME NEW a \in Nat, a <= now, now - a < MaxDelay
        PROVE  a <= now + 1 /\ (now + 1) - a <= MaxDelay
    BY <1>2, <2>2
  <2>3. QED
    BY <1>1, <2>1, <2>2 DEF EchoInv, Timely
<1>5. Numbered' /\ Ordered' /\ ConsumedOnce'
  <2>1. \A k \in Keys : \A e \in seen[k] : e.exp \in Nat
    BY DEF EchoInv, EchoTyped, Entries
  <2>2. Numbered'
    BY <1>1, <1>2, <2>1 DEF EchoInv, Numbered
  <2>3. QED
    BY <1>1, <2>2 DEF EchoInv, Ordered, ConsumedOnce
<1>6. RowInv'
  <2>1. \A t \in Nat : t + TTL > now + 1 => t + TTL > now
    BY <1>2
  <2>2. QED
    BY <1>1, <2>1 DEF EchoInv, RowInv, Flying, Own, Marked
<1>7. KeptInv'
  BY <1>1 DEF EchoInv, KeptInv, Flying, Own, Others
<1>8. QED
  BY <1>3, <1>4, <1>5, <1>6, <1>7 DEF EchoInv

\* What arrives is dropped against a mark, or is no echo.  An own message that meets no mark
\* was paid for by a foreign one that was dropped in its place: its mark would be alive.
LEMMA DeliverKeeps ==
  ASSUME MaxDelay < TTL, EchoInv, Echo!Ingest,
         NEW h, h = Head(topic), NEW k, k = h.key,
         NEW L, L = Echo!Evict(seen[k]), NEW o, o = Echo!Oldest(L)
  PROVE  EchoInv'
<1>1. /\ topic # <<>> /\ topic' = Tail(topic)
      /\ UNCHANGED <<now, up, outbox, sent, posted, outages>>
      /\ foreign' = [foreign EXCEPT ![k] = IF h.own THEN @ ELSE @ + 1]
  BY DEF Echo!Ingest
<1>3. EchoTyped /\ Timely /\ Numbered /\ Ordered /\ ConsumedOnce /\ RowInv /\ KeptInv
  BY DEF EchoInv
<1>4. topic \in Seq(Messages) /\ outbox \in Seq(Messages)
  BY <1>3 DEF EchoTyped
<1>5. h \in Messages /\ topic' \in Seq(Messages)
  BY <1>1, <1>4, CountTail
<1>6. /\ k \in Keys /\ h.own \in BOOLEAN /\ h.at \in Nat
      /\ now \in Nat /\ TTL \in Nat /\ MaxDelay \in Nat
  BY <1>3, <1>5, EchoFacts DEF Messages, EchoTyped
<1>2. /\ \/ /\ L # {} /\ swallowed' = [swallowed EXCEPT ![k] = @ + 1] /\ tried' = tried
            /\ seen' = [j \in Keys |-> IF j = k THEN L \ {o} ELSE Echo!Evict(seen[j])]
         \/ /\ L = {} /\ tried' = [tried EXCEPT ![k] = @ + 1] /\ swallowed' = swallowed
            /\ seen' = [j \in Keys |-> Echo!Evict(seen[j])]
      /\ ingested' \in [Keys -> Nat] /\ failed' \in [Keys -> Nat]
  <2>1. /\ ingested \in [Keys -> Nat] /\ failed \in [Keys -> Nat]
        /\ tried = [j \in Keys |-> ingested[j] + failed[j]]
        /\ tried' = [j \in Keys |-> ingested'[j] + failed'[j]]
    BY <1>3 DEF EchoTyped, tried
  <2>2. CASE Echo!IsOwnEcho(k) /\ swallowed' = [swallowed EXCEPT ![k] = @ + 1]
             /\ UNCHANGED <<ingested, failed>>
    BY <2>1, <2>2 DEF Echo!IsOwnEcho
  <2>3. CASE Echo!NotOwnEcho(k) /\ ingested' = [ingested EXCEPT ![k] = @ + 1]
             /\ UNCHANGED <<swallowed, failed>>
    <3>1. L = {} /\ seen' = [j \in Keys |-> Echo!Evict(seen[j])]
      BY <2>3 DEF Echo!NotOwnEcho
    <3>2. ingested' \in [Keys -> Nat] /\ failed' = failed
      BY <1>6, <2>1, <2>3
    <3>3. ASSUME NEW j \in Keys
          PROVE  ingested'[j] + failed'[j] = IF j = k THEN tried[k] + 1 ELSE tried[j]
      <4>1. ingested'[j] = IF j = k THEN ingested[k] + 1 ELSE ingested[j]
        BY <1>6, <2>1, <2>3
      <4>2. ingested[j] \in Nat /\ failed[j] \in Nat /\ tried[j] = ingested[j] + failed[j]
        BY <2>1
      <4>3. QED
        BY <3>2, <4>1, <4>2
    <3>4. tried' = [tried EXCEPT ![k] = @ + 1]
      BY <2>1, <3>3
    <3>5. QED
      BY <2>1, <2>3, <3>1, <3>2, <3>4
  <2>4. CASE Echo!NotOwnEcho(k) /\ failed' = [failed EXCEPT ![k] = @ + 1]
             /\ UNCHANGED <<swallowed, ingested>>
    <3>1. L = {} /\ seen' = [j \in Keys |-> Echo!Evict(seen[j])]
      BY <2>4 DEF Echo!NotOwnEcho
    <3>2. failed' \in [Keys -> Nat] /\ ingested' = ingested
      BY <1>6, <2>1, <2>4
    <3>3. ASSUME NEW j \in Keys
          PROVE  ingested'[j] + failed'[j] = IF j = k THEN tried[k] + 1 ELSE tried[j]
      <4>1. failed'[j] = IF j = k THEN failed[k] + 1 ELSE failed[j]
        BY <1>6, <2>1, <2>4
      <4>2. ingested[j] \in Nat /\ failed[j] \in Nat /\ tried[j] = ingested[j] + failed[j]
        BY <2>1
      <4>3. QED
        BY <3>2, <4>1, <4>2
    <3>4. tried' = [tried EXCEPT ![k] = @ + 1]
      BY <2>1, <3>3
    <3>5. QED
      BY <2>1, <2>4, <3>1, <3>2, <3>4
  <2>5. QED
    BY <2>2, <2>3, <2>4 DEF Echo!Ingest
<1>7. h.at <= now /\ h.at + TTL > now
  <2>1. Len(topic) \in Nat \ {0} /\ h = topic[1]
    BY <1>1, <1>4, LenProperties, HeadTailProperties
  <2>2. 1 \in 1..Len(topic)
    BY <2>1
  <2>3. topic[1].at <= now /\ now - topic[1].at <= MaxDelay
    BY <1>3, <2>2 DEF Timely
  <2>4. QED
    BY <1>6, <2>1, <2>3
<1>8. ASSUME NEW M PROVE /\ Flying(M) = Flying(M)' + (IF h \in M THEN 1 ELSE 0)
                         /\ Flying(M)' \in Nat
  <2>1. Count(topic, M) = Count(topic', M) + (IF h \in M THEN 1 ELSE 0)
    BY <1>1, <1>4, CountTail
  <2>2. Count(outbox, M) \in Nat /\ Count(topic', M) \in Nat
    BY <1>4, <1>5, CountBasics
  <2>3. QED
    BY <1>1, <2>1, <2>2 DEF Flying
<1>9. \A j \in Keys : /\ Echo!Evict(seen[j]) \in SUBSET seen[j] /\ Echo!Evict(seen[j]) \in SUBSET Entries
                      /\ IsFiniteSet(Echo!Evict(seen[j])) /\ Cardinality(Echo!Evict(seen[j])) \in Nat
                      /\ Cardinality(Echo!Evict(seen[j])) <= Cardinality(seen[j])
                      /\ Cardinality(seen[j]) \in Nat
  BY <1>3, EvictKeeps, FS_CardinalityType DEF EchoTyped
<1>10. L # {} => /\ o \in L /\ (\A f \in L : o.nr <= f.nr)
                 /\ IsFiniteSet(L \ {o}) /\ Cardinality(L \ {o}) = Cardinality(L) - 1
  <2>1. L \in SUBSET Entries /\ IsFiniteSet(L)
    BY <1>6, <1>9
  <2>2. QED
    BY <2>1, OldestIsFirst, FS_RemoveElement
<1>11. /\ \A j \in Keys : seen'[j] \in SUBSET Echo!Evict(seen[j])
       /\ \A j \in Keys : j # k => seen'[j] = Echo!Evict(seen[j])
       /\ seen'[k] = IF L = {} THEN L ELSE L \ {o}
       /\ DOMAIN seen' = Keys
  <2>1. CASE L # {}
    <3>1. seen' = [j \in Keys |-> IF j = k THEN L \ {o} ELSE Echo!Evict(seen[j])]
      BY <1>2, <2>1
    <3>2. QED
      BY <1>6, <2>1, <3>1
  <2>2. CASE L = {}
    <3>1. seen' = [j \in Keys |-> Echo!Evict(seen[j])]
      BY <1>2, <2>2
    <3>2. QED
      BY <1>6, <2>2, <3>1
  <2>3. QED
    BY <2>1, <2>2
<1>12. EchoTyped'
  <2>1. \A j \in Keys : seen'[j] \subseteq Entries /\ IsFiniteSet(seen'[j])
    BY <1>9, <1>11, FS_Subset
  <2>2. foreign' \in [Keys -> Nat]
    <3>1. CASE h.own
      BY <1>1, <1>3, <1>6, <3>1 DEF EchoTyped
    <3>2. CASE ~h.own
      BY <1>1, <1>3, <1>6, <3>2 DEF EchoTyped
    <3>3. QED
      BY <3>1, <3>2
  <2>3. tried' \in [Keys -> Nat] /\ swallowed' \in [Keys -> Nat]
    <3> HIDE DEF tried
    <3>0. tried \in [Keys -> Nat] /\ swallowed \in [Keys -> Nat]
      BY <1>3 DEF EchoTyped
    <3>1. CASE L # {}
      <4>1. swallowed' = [swallowed EXCEPT ![k] = @ + 1] /\ tried' = tried
        BY <1>2, <3>1
      <4>2. QED
        BY <1>6, <3>0, <4>1
    <3>2. CASE L = {}
      <4>1. tried' = [tried EXCEPT ![k] = @ + 1] /\ swallowed' = swallowed
        BY <1>2, <3>2
      <4>2. QED
        BY <1>6, <3>0, <4>1
    <3>3. QED
      BY <3>1, <3>2
  <2>4. QED
    BY <1>1, <1>2, <1>3, <1>5, <1>11, <2>1, <2>2, <2>3 DEF EchoTyped
<1>13. Timely'
  <2>1. /\ Len(topic') = Len(topic) - 1 /\ Len(topic) \in Nat
        /\ \A i \in 1..Len(topic') : topic'[i] = topic[i + 1]
    BY <1>1, <1>4, HeadTailProperties, LenProperties
  <2>2. \A i \in 1..Len(topic') : i + 1 \in 1..Len(topic)
    BY <2>1
  <2>3. QED
    BY <1>1, <1>3, <2>1, <2>2 DEF Timely
<1>14. Numbered' /\ Ordered'
  <2>1. \A j \in Keys : seen'[j] \in SUBSET seen[j]
    BY <1>9, <1>11
  <2>2. QED
    BY <1>1, <1>3, <2>1 DEF Numbered, Ordered
<1>15. ConsumedOnce'
  <2>1. SUFFICES ASSUME NEW j \in Keys
        PROVE Cardinality(seen'[j]) + swallowed'[j] <= sent[j]
    BY <1>1 DEF ConsumedOnce
  <2>2. /\ Cardinality(Echo!Evict(seen[j])) \in Nat /\ Cardinality(seen[j]) \in Nat
        /\ Cardinality(Echo!Evict(seen[j])) <= Cardinality(seen[j])
        /\ swallowed[j] \in Nat /\ sent[j] \in Nat
        /\ Cardinality(seen[j]) + swallowed[j] <= sent[j]
    BY <1>3, <1>9, EchoNumbers DEF ConsumedOnce
  <2>3. CASE j = k /\ L # {}
    <3>1. Cardinality(seen'[j]) = Cardinality(Echo!Evict(seen[j])) - 1
      BY <1>10, <1>11, <2>3
    <3>2. swallowed'[j] = swallowed[j] + 1
      BY <1>2, <1>3, <2>3 DEF EchoTyped
    <3>3. QED
      BY <2>2, <3>1, <3>2
  <2>4. CASE ~(j = k /\ L # {})
    <3>1. seen'[j] = Echo!Evict(seen[j])
      BY <1>11, <2>4
    <3>2. swallowed'[j] = swallowed[j]
      BY <1>2, <1>3, <2>4 DEF EchoTyped
    <3>3. QED
      BY <2>2, <3>1, <3>2
  <2>5. QED
    BY <2>3, <2>4
<1>16. RowInv'
  <2>1. SUFFICES ASSUME NEW j \in Keys, NEW t \in Nat, t + TTL > now
                 PROVE  tried'[j] + Flying(Own(j, t))' <= foreign'[j] + Cardinality(Marked(j, t)')
    BY <1>1 DEF RowInv, Own
  <2>2. /\ tried[j] + Flying(Own(j, t)) <= foreign[j] + Cardinality(Marked(j, t))
        /\ tried[j] \in Nat /\ foreign[j] \in Nat /\ Flying(Own(j, t)) \in Nat
        /\ Cardinality(Marked(j, t)) \in Nat /\ IsFiniteSet(Marked(j, t))
    BY <1>3, <2>1, EchoNumbers DEF RowInv
  <2>3. Marked(j, t) = {e \in Echo!Evict(seen[j]) : e.exp >= t + TTL}
    BY <1>3, <2>1, EvictKeeps
  <2>4. Marked(j, t)' = {e \in seen'[j] : e.exp >= t + TTL}
    BY DEF Marked
  <2>5. CASE j # k
    <3>1. Marked(j, t)' = Marked(j, t)
      BY <1>11, <2>3, <2>4, <2>5
    <3>2. tried'[j] = tried[j] /\ foreign'[j] = foreign[j]
      BY <1>1, <1>2, <1>3, <2>5 DEF EchoTyped
    <3>3. h \notin Own(j, t)
      BY <2>5 DEF Own
    <3>4. Flying(Own(j, t))' = Flying(Own(j, t))
      BY <1>8, <3>3 DEF Own
    <3>5. QED
      BY <2>2, <3>1, <3>2, <3>4
  <2>6. CASE j = k
    <3> DEFINE a == h.at
    <3>1. /\ tried[k] + Flying(Own(k, a)) <= foreign[k] + Cardinality(Marked(k, a))
          /\ Flying(Own(k, a)) \in Nat
          /\ Cardinality(Marked(k, a)) \in Nat /\ IsFiniteSet(Marked(k, a))
          /\ Marked(k, a) = {e \in L : e.exp >= a + TTL}
      BY <1>3, <1>6, <1>7, EchoNumbers, EvictKeeps DEF RowInv
    <3>2. IsFiniteSet(L) /\ Cardinality(L) \in Nat /\ L \in SUBSET Entries
      BY <1>6, <1>9
    <3>3. Cardinality(Marked(k, a)) <= Cardinality(L)
      <4>1. Marked(k, a) \in SUBSET L
        BY <3>1
      <4>2. QED
        BY <3>2, <4>1, FS_Subset
    <3>4. foreign'[k] = foreign[k] + (IF h.own THEN 0 ELSE 1)
      <4>1. foreign \in [Keys -> Nat] /\ foreign[k] \in Nat
        BY <1>3, <1>6 DEF EchoTyped
      <4>2. CASE h.own
        BY <1>1, <4>1, <4>2
      <4>3. CASE ~h.own
        BY <1>1, <1>6, <4>1, <4>3
      <4>4. QED
        BY <4>2, <4>3
    <3>5. Flying(Own(k, t)) = Flying(Own(k, t))' + (IF h \in Own(k, t) THEN 1 ELSE 0)
          /\ Flying(Own(k, t))' \in Nat
      BY <1>8 DEF Own
    <3>6. h.own /\ t <= a => h \in Own(k, t)
      BY <1>5, <1>6, <2>1 DEF Own
    <3>7. h.own /\ a < t => Flying(Own(k, t))' <= Flying(Own(k, a)) - 1
      <4>1. SUFFICES ASSUME h.own, a < t PROVE Flying(Own(k, t))' <= Flying(Own(k, a)) - 1
        OBVIOUS
      <4>2. h \in Own(k, a)
        BY <1>5, <1>6, <4>1 DEF Own
      <4>3. Flying(Own(k, a)) = Flying(Own(k, a))' + 1
        BY <1>8, <4>2 DEF Own
      <4>4. Own(k, t) \subseteq Own(k, a)
        BY <1>6, <2>1, <4>1 DEF Own, Messages
      <4>5. Flying(Own(k, t))' <= Flying(Own(k, a))'
        <5>1. /\ Count(outbox', Own(k, t)) <= Count(outbox', Own(k, a))
              /\ Count(topic', Own(k, t)) <= Count(topic', Own(k, a))
              /\ Count(outbox', Own(k, t)) \in Nat /\ Count(topic', Own(k, t)) \in Nat
              /\ Count(outbox', Own(k, a)) \in Nat /\ Count(topic', Own(k, a)) \in Nat
          BY <1>1, <1>4, <1>5, <4>4, CountBasics
        <5>2. QED
          BY <5>1 DEF Flying, Own
      <4>6. Flying(Own(k, a))' \in Nat
        BY <1>8 DEF Own
      <4>7. QED
        BY <3>5, <4>3, <4>5, <4>6
    <3>8. CASE L = {}
      <4>1. Marked(k, t) = {} /\ Marked(k, t)' = {} /\ Marked(k, a) = {}
        BY <1>11, <2>3, <2>4, <2>6, <3>1, <3>8
      <4>2. /\ Cardinality(Marked(k, t)) = 0 /\ Cardinality(Marked(k, t)') = 0
            /\ Cardinality(Marked(k, a)) = 0
        BY <4>1, FS_EmptySet
      <4>3. tried'[k] = tried[k] + 1
        BY <1>2, <1>3, <1>6, <3>8 DEF EchoTyped
      <4>4. QED
        BY <1>6, <2>1, <2>2, <2>6, <3>1, <3>4, <3>5, <3>6, <3>7, <4>2, <4>3
    <3>9. CASE L # {}
      <4>1. tried'[k] = tried[k]
        BY <1>2, <3>9
      <4>2. CASE o.exp >= t + TTL
        <5>1. Marked(k, t) = L /\ Marked(k, t)' = L \ {o}
          <6>1. \A f \in L : f.exp >= t + TTL
            <7>1. \A f \in L : o.exp <= f.exp
              BY <1>3, <1>6, <1>9, <1>10, <3>9 DEF Ordered
            <7>2. \A f \in L : f.exp \in Nat
              BY <3>2 DEF Entries
            <7>3. o \in L
              BY <1>10, <3>9
            <7>4. QED
              BY <1>6, <2>1, <4>2, <7>1, <7>2, <7>3
          <6>2. QED
            BY <1>11, <2>3, <2>4, <2>6, <3>9, <6>1
        <5>2. Cardinality(Marked(k, t)') = Cardinality(L) - 1
          BY <1>10, <3>9, <5>1
        <5>3. QED
          BY <1>6, <2>1, <2>2, <2>6, <3>1, <3>2, <3>3, <3>4, <3>5, <3>6, <3>7, <4>1, <5>1,
             <5>2
      <4>3. CASE ~(o.exp >= t + TTL)
        <5>1. Marked(k, t)' = Marked(k, t)
          BY <1>11, <2>3, <2>4, <2>6, <3>9, <4>3
        <5>2. QED
          BY <2>2, <2>6, <3>4, <3>5, <4>1, <5>1
      <4>4. QED
        BY <4>2, <4>3
    <3>10. QED
      BY <2>6, <3>8, <3>9
  <2>7. QED
    BY <2>5, <2>6
<1>17. KeptInv'
  <2>1. SUFFICES ASSUME outages = 0
                 PROVE  /\ up
                        /\ \A j \in Keys :
                           /\ foreign'[j] + sent[j] = tried'[j] + swallowed'[j] + Flying(Own(j, 0))'
                           /\ posted[j] = foreign'[j] + Flying(Others(j))'
    BY <1>1 DEF KeptInv, Own, Others
  <2>2. ASSUME NEW j \in Keys
        PROVE  /\ foreign'[j] + sent[j] = tried'[j] + swallowed'[j] + Flying(Own(j, 0))'
               /\ posted[j] = foreign'[j] + Flying(Others(j))'
    <3>1. /\ foreign[j] + sent[j] = tried[j] + swallowed[j] + Flying(Own(j, 0))
          /\ posted[j] = foreign[j] + Flying(Others(j))
          /\ foreign[j] \in Nat /\ sent[j] \in Nat /\ tried[j] \in Nat /\ swallowed[j] \in Nat
          /\ posted[j] \in Nat /\ Flying(Own(j, 0)) \in Nat /\ Flying(Others(j)) \in Nat
      BY <1>3, <2>1, EchoNumbers DEF KeptInv
    <3>2. /\ Flying(Own(j, 0)) = Flying(Own(j, 0))' + (IF h \in Own(j, 0) THEN 1 ELSE 0)
          /\ Flying(Others(j)) = Flying(Others(j))' + (IF h \in Others(j) THEN 1 ELSE 0)
          /\ Flying(Own(j, 0))' \in Nat /\ Flying(Others(j))' \in Nat
      BY <1>8 DEF Own, Others
    <3>3. (h \in Own(j, 0) <=> j = k /\ h.own) /\ (h \in Others(j) <=> j = k /\ ~h.own)
      BY <1>5, <1>6 DEF Own, Others
    <3>4. foreign'[j] = foreign[j] + (IF j = k /\ ~h.own THEN 1 ELSE 0)
      <4>1. foreign'[j] = IF j = k /\ ~h.own THEN foreign[j] + 1 ELSE foreign[j]
        BY <1>1, <1>3, <1>6 DEF EchoTyped
      <4>2. QED
        BY <3>1, <4>1
    <3>5. tried'[j] + swallowed'[j] = tried[j] + swallowed[j] + (IF j = k THEN 1 ELSE 0)
      <4>1. CASE L # {}
        <5>1. /\ tried'[j] = tried[j]
              /\ swallowed'[j] = IF j = k THEN swallowed[j] + 1 ELSE swallowed[j]
          <6>1. swallowed' = [swallowed EXCEPT ![k] = @ + 1] /\ tried' = tried
            BY <1>2, <4>1
          <6>2. QED
            BY <1>3, <1>6, <6>1 DEF EchoTyped
        <5>2. QED
          BY <3>1, <5>1
      <4>2. CASE L = {}
        <5>1. /\ swallowed'[j] = swallowed[j]
              /\ tried'[j] = IF j = k THEN tried[j] + 1 ELSE tried[j]
          <6>1. tried' = [tried EXCEPT ![k] = @ + 1] /\ swallowed' = swallowed
            BY <1>2, <4>2
          <6>2. QED
            BY <1>3, <1>6, <6>1 DEF EchoTyped
        <5>2. QED
          BY <3>1, <5>1
      <4>3. QED
        BY <4>1, <4>2
    <3>6. tried'[j] \in Nat /\ swallowed'[j] \in Nat /\ foreign'[j] \in Nat
      BY <1>12 DEF EchoTyped
    <3>7. posted[j] = foreign'[j] + Flying(Others(j))'
      BY <3>1, <3>2, <3>3, <3>4
    <3>8. foreign'[j] + sent[j] = tried'[j] + swallowed'[j] + Flying(Own(j, 0))'
      <4>1. CASE j = k /\ h.own
        BY <3>1, <3>2, <3>3, <3>4, <3>5, <3>6, <4>1
      <4>2. CASE j = k /\ ~h.own
        BY <3>1, <3>2, <3>3, <3>4, <3>5, <3>6, <4>2
      <4>3. CASE j # k
        BY <3>1, <3>2, <3>3, <3>4, <3>5, <3>6, <4>3
      <4>4. QED
        BY <4>1, <4>2, <4>3
    <3>9. QED
      BY <3>7, <3>8
  <2>3. QED
    BY <1>3, <2>1, <2>2 DEF KeptInv
<1>18. QED
  BY <1>12, <1>13, <1>14, <1>15, <1>16, <1>17 DEF EchoInv

LEMMA IngestKeeps == ASSUME MaxDelay < TTL, EchoInv, Echo!Ingest PROVE EchoInv'
  BY DeliverKeeps

\* Every step keeps the invariant, given that the bus is faster than a mark expires.
LEMMA EchoSteps == ASSUME MaxDelay < TTL, EchoInv, Echo!Next \/ UNCHANGED Echo!vars PROVE EchoInv'
<1>1. CASE \E k \in Keys : Echo!Send(k) \/ Echo!Post(k)
  BY <1>1, SendKeeps, PostKeeps
<1>2. CASE Echo!Republish \/ Echo!Ingest \/ Echo!Tick \/ Echo!ServerGone \/ Echo!ServerBack
  BY <1>2, RepublishKeeps, IngestKeeps, TickKeeps, GoneKeeps, BackKeeps
<1>3. CASE UNCHANGED Echo!vars
  <2>1. EchoTyped' /\ Timely'
    BY <1>3 DEF Echo!vars, EchoInv, EchoTyped, Timely, tried
  <2>2. Numbered' /\ Ordered' /\ ConsumedOnce'
    BY <1>3 DEF Echo!vars, EchoInv, Numbered, Ordered, ConsumedOnce
  <2>3. RowInv'
    BY <1>3 DEF Echo!vars, EchoInv, RowInv, Flying, Own, Marked, tried
  <2>4. KeptInv'
    BY <1>3 DEF Echo!vars, EchoInv, KeptInv, Flying, Own, Others, tried
  <2>5. QED
    BY <2>1, <2>2, <2>3, <2>4 DEF EchoInv
<1>4. QED
  BY <1>1, <1>2, <1>3 DEF Echo!Next

\* Later than now nothing is marked and nothing flies.
LEMMA NoneIsTriedTwice == ASSUME EchoInv, NEW k \in Keys PROVE tried[k] <= foreign[k]
<1>1. EchoInv
  OBVIOUS
<1>2. EchoTyped /\ RowInv /\ Numbered
  BY <1>1 DEF EchoInv
<1>3. now \in Nat /\ TTL \in Nat /\ (now + 1) + TTL > now /\ now + 1 \in Nat
  <2>1. now \in Nat
    BY <1>2 DEF EchoTyped
  <2>2. TTL \in Nat
    BY EchoFacts
  <2>3. QED
    BY <2>1, <2>2
<1>4. Marked(k, now + 1) = {}
  <2>1. \A e \in seen[k] : e.exp \in Nat /\ e.exp <= now + TTL
    BY <1>2 DEF EchoTyped, Entries, Numbered
  <2>2. QED
    BY <1>3, <2>1 DEF Marked
<1>5. Cardinality(Marked(k, now + 1)) = 0
  BY <1>4, FS_EmptySet
<1>6. /\ tried[k] + Flying(Own(k, now + 1)) <= foreign[k] + Cardinality(Marked(k, now + 1))
      /\ tried[k] \in Nat /\ foreign[k] \in Nat /\ Flying(Own(k, now + 1)) \in Nat
  BY <1>2, <1>3, EchoNumbers DEF RowInv
<1>7. QED
  BY <1>5, <1>6

LEMMA NoRowIsSecond == EchoInv => NoSecondRow
<1>1. SUFFICES ASSUME EchoInv, NEW k \in Keys PROVE ingested[k] <= foreign[k]
  BY DEF NoSecondRow, Echo!NoSecondRow
<1>2. ingested[k] \in Nat /\ failed[k] \in Nat /\ tried[k] = ingested[k] + failed[k]
  BY <1>1 DEF EchoInv, EchoTyped, tried
<1>3. tried[k] <= foreign[k] /\ foreign[k] \in Nat
  BY <1>1, NoneIsTriedTwice DEF EchoInv, EchoTyped
<1>4. QED
  BY <1>2, <1>3

\* With nothing in flight what was delivered is what was posted, and every send dropped
\* at most one message.
LEMMA NothingIsLost == EchoInv => ForeignKept
<1>1. SUFFICES ASSUME EchoInv, outages = 0, outbox = <<>>, topic = <<>>, NEW k \in Keys
               PROVE  tried[k] = posted[k]
  BY DEF ForeignKept, Echo!ForeignKept, tried
<1>2. EchoTyped /\ KeptInv /\ ConsumedOnce
  BY <1>1 DEF EchoInv
<1>3. \A M : Flying(M) = 0
  <2>1. \A M : Count(<<>>, M) = 0
    BY EmptySeq, CountBasics
  <2>2. QED
    BY <1>1, <2>1 DEF Flying
<1>4. /\ foreign[k] + sent[k] = tried[k] + swallowed[k] + 0
      /\ posted[k] = foreign[k] + 0
  BY <1>1, <1>2, <1>3 DEF KeptInv
<1>5. /\ foreign[k] \in Nat /\ sent[k] \in Nat /\ tried[k] \in Nat /\ swallowed[k] \in Nat
      /\ Cardinality(seen[k]) \in Nat /\ Cardinality(seen[k]) + swallowed[k] <= sent[k]
      /\ tried[k] <= foreign[k] /\ posted[k] \in Nat
  BY <1>1, <1>2, EchoNumbers, NoneIsTriedTwice DEF ConsumedOnce
<1>6. swallowed[k] <= sent[k]
  BY <1>5
<1>7. tried[k] = foreign[k] /\ posted[k] = foreign[k]
  BY <1>4, <1>5, <1>6
<1>8. QED
  BY <1>7

\* So does every step of the bus.
LEMMA EchoHolds ==
  ASSUME MaxDelay < TTL
  PROVE  (Init => EchoInv) /\ (EchoInv /\ [Next]_vars => EchoInv')
<1>1. Init => EchoInv
  BY EchoInit DEF Init
<1>2. [Next]_vars => Echo!Next \/ UNCHANGED Echo!vars
  BY DEF Next, TopologyStep, EchoStep, vars, echoVars, Echo!vars
<1>3. QED
  BY <1>1, <1>2, EchoSteps

\* echo.py: with a TTL longer than the bus takes, no echo of an own message becomes a
\* second row of it, for any number of sends, keys and outages.
THEOREM OwnMessagesHaveOneRow ==
  ASSUME MaxDelay < TTL PROVE Spec => []NoSecondRow
<1>1. QED
  BY EchoHolds, NoRowIsSecond, PTL DEF Spec

\* is_own_echo: while the ChatServer stays up, every message of another participant has
\* its row, or an ingest that was logged as failed, once the bus is drained, though a key
\* does not tell it from an own one.
THEOREM ForeignMessagesAreKept ==
  ASSUME MaxDelay < TTL PROVE Spec => []ForeignKept
<1>1. QED
  BY EchoHolds, NothingIsLost, PTL DEF Spec
=============================================================================
