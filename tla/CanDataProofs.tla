----------------------------- MODULE CanDataProofs -----------------------------
(***************************************************************************)
(* Proofs about the data that CAN keeps alike in two places: the points of *)
(* a cluster (ClusterData), for any nodes, owners, values and length of    *)
(* the transmit ring and any number of points, changes, outages and lost   *)
(* frames; and the outputs of the output modules (DoModule), for any       *)
(* number of modules and losses and any limit of the supervision.          *)
(***************************************************************************)
EXTENDS ClusterData, DoModule, Integers, SequenceTheorems, WellFoundedInduction, TLAPS

LEMMA MinIn ==
  ASSUME NEW S \in SUBSET Nat, S # {}
  PROVE  Min(S) \in S
<1>1. PICK x \in S : \A y \in S : ~(<<y, x>> \in OpToRel(<, Nat))
  BY NatLessThanWellFounded, WFMin
<1>2. ASSUME NEW y \in S PROVE x =< y
  <2>1. <<y, x>> \in Nat \X Nat /\ ~(y < x)
    BY <1>1 DEF OpToRel
  <2> QED
    BY <2>1
<1> QED
  BY <1>2 DEF Min

-----------------------------------------------------------------------------
(* The points of a cluster: types. *)

LEMMA FrameFacts ==
  ASSUME NEW f \in Frames
  PROVE  /\ f = <<f[1], f[2], f[3]>>
         /\ f[1] \in Points /\ f[2] \in Vals /\ f[3] \in Nat
BY DEF Frames

LEMMA RingConstants ==
  /\ RingLen \in Nat /\ RingLen > 0 /\ 1 \in Slots /\ RingLen \in Slots
  /\ \A k \in Slots : k \in Nat /\ 1 <= k /\ k <= RingLen
  /\ \A k \in Slots : k < RingLen => k + 1 \in Slots
  /\ \A k \in Slots : k # 1 => k - 1 \in Slots
BY ClusterAssumption DEF Slots

\* The first changed point of canTask's scan is one of the changed points.
LEMMA ChangedFacts ==
  ASSUME NEW n \in Nodes, Changed(n) # {}
  PROVE  Min(Changed(n)) \in Changed(n) /\ Min(Changed(n)) \in Points
<1>1. Changed(n) \in SUBSET Nat /\ Changed(n) \subseteq Points
  BY ClusterAssumption DEF Changed, Points
<1> QED
  BY <1>1, MinIn

\* What a slot or a packet may hold.
Content == {Empty} \cup Frames

LEMMA SlotFacts ==
  ASSUME TypeOK, NEW n \in Nodes
  PROVE  /\ \A k \in Slots : slots[n][k] # Empty =>
              /\ slots[n][k] \in Frames /\ slots[n][k][1] \in Points
              /\ slots[n][k][2] \in Vals /\ slots[n][k][3] \in Nat
         /\ packet[n] # Empty =>
              packet[n] \in Frames /\ packet[n][1] \in Points /\ packet[n][3] \in Nat
         /\ write[n] \in Slots
BY FrameFacts DEF TypeOK

\* Adding a packet changes one slot, whatever it holds.
LEMMA AddFacts ==
  ASSUME TypeOK, NEW n \in Nodes, AddPacket(n), packet[n] # Empty
  PROVE  /\ slots' \in [Nodes -> [Slots -> Content]] /\ write' \in [Nodes -> Slots]
         /\ \A k \in Slots : slots'[n][k] = IF k = write[n] THEN packet[n] ELSE slots[n][k]
         /\ \A m \in Nodes : m # n => slots'[m] = slots[m] /\ write'[m] = write[m]
         /\ write'[n] = IF write[n] = RingLen THEN 1 ELSE write[n] + 1
<1>1. write[n] \in Slots /\ packet[n] \in Content
  BY DEF TypeOK, Content
<1>2. (IF write[n] = RingLen THEN 1 ELSE write[n] + 1) \in Slots
  <2>1. write[n] \in Nat /\ write[n] <= RingLen /\ 1 \in Slots
    BY <1>1, RingConstants
  <2>2. write[n] # RingLen => write[n] + 1 \in Slots
    BY <1>1, <2>1, RingConstants
  <2> QED
    BY <2>1, <2>2
<1>3. slots \in [Nodes -> [Slots -> Content]] /\ write \in [Nodes -> Slots]
  BY DEF TypeOK, Content
<1> QED
  BY <1>1, <1>2, <1>3 DEF AddPacket

\* The packet at the read position leaves, and the others move up.
LEMMA TakeFacts ==
  ASSUME TypeOK, NEW n \in Nodes, TakeFirst(n)
  PROVE  /\ slots[n][1] \in Frames /\ 1 \in Slots
         /\ slots' \in [Nodes -> [Slots -> Content]] /\ write' \in [Nodes -> Slots]
         /\ \A k \in Slots : slots'[n][k] = IF k < RingLen THEN slots[n][k + 1] ELSE Empty
         /\ \A m \in Nodes : m # n => slots'[m] = slots[m] /\ write'[m] = write[m]
         /\ write'[n] = IF write[n] = 1 THEN RingLen ELSE write[n] - 1
<1>1. write[n] \in Slots
  BY DEF TypeOK
<1>2. (IF write[n] = 1 THEN RingLen ELSE write[n] - 1) \in Slots
  BY <1>1, RingConstants
<1>3. slots \in [Nodes -> [Slots -> Content]] /\ write \in [Nodes -> Slots]
  BY DEF TypeOK, Content
<1>4. [k \in Slots |-> IF k < RingLen THEN slots[n][k + 1] ELSE Empty] \in [Slots -> Content]
  BY <1>3, RingConstants DEF Content
<1>5. slots[n][1] \in Frames /\ 1 \in Slots
  BY SlotFacts, RingConstants DEF TakeFirst
<1>6. /\ slots' = [slots EXCEPT ![n] = [k \in Slots |-> IF k < RingLen THEN slots[n][k + 1] ELSE Empty]]
      /\ write' = [write EXCEPT ![n] = IF write[n] = 1 THEN RingLen ELSE write[n] - 1]
  BY DEF TakeFirst
<1> QED
  BY <1>2, <1>3, <1>4, <1>5, <1>6

\* What a peer stores.
LEMMA StoreFacts ==
  ASSUME TypeOK, NEW n \in Nodes, NEW p \in Points, NEW S, NEW v \in S,
         NEW f \in [Nodes -> [Points -> S]]
  PROVE  /\ Store(f, n, p, v) \in [Nodes -> [Points -> S]]
         /\ \A m \in Nodes, q \in Points :
              Store(f, n, p, v)[m][q] = IF m \in Peers(n) /\ q = p THEN v ELSE f[m][q]
         /\ Peers(n) \subseteq Nodes \ {n}
BY DEF Store, Peers, TypeOK

LEMMA ClusterTypeInit == Init => TypeOK
<1> SUFFICES ASSUME Init PROVE TypeOK
  OBVIOUS
<1>1. 0 \in Vals /\ 0 \in 0 .. MaxChanges /\ 0 \in 0 .. MaxOutages /\ 0 \in 0 .. MaxDrops
  BY ClusterAssumption
<1>2. /\ packet \in [Nodes -> {Empty} \cup Frames] /\ write \in [Nodes -> Slots]
      /\ slots \in [Nodes -> [Slots -> {Empty} \cup Frames]]
  BY RingConstants DEF Init
<1>3. /\ input \in [Points -> Vals]
      /\ copy \in [Nodes -> [Points -> Vals]] /\ prev \in [Nodes -> [Points -> Vals]]
      /\ version \in [Points -> Nat] /\ scanned \in [Points -> Nat]
      /\ stamp \in [Nodes -> [Points -> Nat]]
  BY <1>1 DEF Init
<1>4. /\ offline \in [Nodes -> SUBSET Nodes] /\ update_all \in [Nodes -> BOOLEAN]
      /\ connected \subseteq Nodes /\ lost \subseteq Points
      /\ resent \in BOOLEAN /\ overrun \in BOOLEAN /\ mixed \in BOOLEAN
      /\ changes \in 0 .. MaxChanges /\ outages \in 0 .. MaxOutages /\ drops \in 0 .. MaxDrops
  BY <1>1 DEF Init
<1> QED
  BY <1>2, <1>3, <1>4 DEF TypeOK

LEMMA ClusterTypeStep == TypeOK /\ [Next]_vars => TypeOK'
<1> SUFFICES ASSUME TypeOK, [Next]_vars PROVE TypeOK'
  OBVIOUS
<1>1. CASE UNCHANGED vars
  BY <1>1 DEF vars, shared, ring, presence, faults, history, environment, TypeOK
<1>2. ASSUME NEW p \in Points, InputChange(p) PROVE TypeOK'
  <2>1. changes' \in 0 .. MaxChanges /\ version' \in [Points -> Nat]
    BY <1>2, ClusterAssumption DEF InputChange, TypeOK
  <2>2. input' \in [Points -> Vals]
    BY <1>2 DEF InputChange, TypeOK
  <2> QED
    BY <1>2, <2>1, <2>2 DEF InputChange, shared, ring, presence, faults, history, TypeOK
<1>3. ASSUME NEW p \in Points, Scan(p) PROVE TypeOK'
  <2>1. Owner[p] \in Nodes
    BY ClusterAssumption
  <2>2. copy' \in [Nodes -> [Points -> Vals]] /\ stamp' \in [Nodes -> [Points -> Nat]]
    BY <1>3, <2>1 DEF Scan, TypeOK
  <2>3. scanned' \in [Points -> Nat] /\ mixed' \in BOOLEAN
    BY <1>3, <2>1 DEF Scan, TypeOK, Foreign
  <2> QED
    BY <1>3, <2>2, <2>3 DEF Scan, ring, presence, environment, faults, TypeOK
<1>4. ASSUME NEW n \in Nodes, SendBuild(n) PROVE TypeOK'
  <2> DEFINE p == Min(Changed(n))
  <2>1. p \in Points
    BY <1>4, ChangedFacts DEF SendBuild
  <2>2. packet' = [packet EXCEPT ![n] = <<p, copy[n][p], stamp[n][p]>>]
    BY <1>4 DEF SendBuild
  <2> HIDE DEF p
  <2>3. <<p, copy[n][p], stamp[n][p]>> \in Frames
    BY <2>1 DEF TypeOK, Frames
  <2>4. packet' \in [Nodes -> {Empty} \cup Frames]
    BY <2>2, <2>3 DEF TypeOK
  <2>5. mixed' \in BOOLEAN
    BY <1>4 DEF SendBuild, TypeOK, Foreign
  <2> QED
    BY <1>4, <2>4, <2>5 DEF SendBuild, shared, ring, presence, environment, faults, TypeOK
<1>5. ASSUME NEW n \in Nodes, SendAdd(n) PROVE TypeOK'
  <2>1. packet[n] \in Frames /\ packet[n][1] \in Points /\ packet[n] # Empty
    BY <1>5, SlotFacts DEF SendAdd
  <2>2. slots' \in [Nodes -> [Slots -> {Empty} \cup Frames]] /\ write' \in [Nodes -> Slots]
    BY <1>5, <2>1, AddFacts DEF SendAdd, Content
  <2>3. packet' \in [Nodes -> {Empty} \cup Frames] /\ overrun' \in BOOLEAN
    BY <1>5 DEF SendAdd, AddPacket, TypeOK
  <2>4. prev' \in [Nodes -> [Points -> Vals]]
    BY <1>5, <2>1 DEF SendAdd, TypeOK
  <2> QED
    BY <1>5, <2>2, <2>3, <2>4 DEF SendAdd, presence, environment, faults, TypeOK
<1>6. ASSUME NEW n \in Nodes, UpdateAll(n) PROVE TypeOK'
  <2>1. prev' \in [Nodes -> [Points -> Vals]]
    BY <1>6, ClusterAssumption DEF UpdateAll, TypeOK
  <2>2. update_all' \in [Nodes -> BOOLEAN] /\ resent' \in BOOLEAN
    BY <1>6 DEF UpdateAll, TypeOK
  <2> QED
    BY <1>6, <2>1, <2>2 DEF UpdateAll, ring, environment, faults, TypeOK
<1>7. ASSUME NEW n \in Nodes, Transmit(n) PROVE TypeOK'
  <2> DEFINE f == slots[n][1]
  <2>1. /\ f \in Frames /\ slots' \in [Nodes -> [Slots -> {Empty} \cup Frames]]
        /\ write' \in [Nodes -> Slots]
    BY <1>7, TakeFacts DEF Transmit, Content
  <2>2. f[1] \in Points /\ f[2] \in Vals /\ f[3] \in Nat
    BY <2>1, FrameFacts
  <2>3. /\ copy' = Store(copy, n, f[1], f[2]) /\ prev' = Store(prev, n, f[1], f[2])
        /\ stamp' = Store(stamp, n, f[1], f[3])
    BY <1>7 DEF Transmit
  <2> HIDE DEF f
  <2>4. /\ copy' \in [Nodes -> [Points -> Vals]] /\ prev' \in [Nodes -> [Points -> Vals]]
        /\ stamp' \in [Nodes -> [Points -> Nat]]
    BY <2>2, <2>3, StoreFacts DEF TypeOK
  <2>5. mixed' \in BOOLEAN /\ lost' \subseteq Points
    BY <1>7 DEF Transmit, TypeOK, Foreign, Forestalls
  <2>6. /\ input' \in [Points -> Vals] /\ version' \in [Points -> Nat]
        /\ scanned' \in [Points -> Nat] /\ resent' \in BOOLEAN /\ overrun' \in BOOLEAN
        /\ offline' \in [Nodes -> SUBSET Nodes] /\ update_all' \in [Nodes -> BOOLEAN]
        /\ connected' \subseteq Nodes /\ drops' \in 0 .. MaxDrops
        /\ changes' \in 0 .. MaxChanges /\ outages' \in 0 .. MaxOutages
        /\ packet' \in [Nodes -> {Empty} \cup Frames]
    BY <1>7 DEF Transmit, presence, environment, faults, TypeOK
  <2> QED
    BY <2>1, <2>4, <2>5, <2>6 DEF TypeOK
<1>8. ASSUME NEW n \in Nodes, Lose(n) PROVE TypeOK'
  <2>1. /\ slots[n][1] \in Frames /\ slots' \in [Nodes -> [Slots -> {Empty} \cup Frames]]
        /\ write' \in [Nodes -> Slots]
    BY <1>8, TakeFacts DEF Lose, Content
  <2>2. lost' \subseteq Points
    BY <1>8, <2>1, FrameFacts DEF Lose, TypeOK
  <2>3. drops' \in 0 .. MaxDrops
    BY <1>8, ClusterAssumption DEF Lose, TypeOK
  <2> QED
    BY <1>8, <2>1, <2>2, <2>3 DEF Lose, shared, presence, environment, TypeOK
<1>9. ASSUME NEW n \in Nodes, Heartbeat(n) PROVE TypeOK'
  <2>1. update_all' \in [Nodes -> BOOLEAN] /\ offline' \in [Nodes -> SUBSET Nodes]
    BY <1>9 DEF Heartbeat, TypeOK
  <2> QED
    BY <1>9, <2>1 DEF Heartbeat, shared, ring, environment, faults, history, TypeOK
<1>10. ASSUME NEW n \in Nodes, Disconnect(n) \/ Connect(n) PROVE TypeOK'
  <2>1. connected' \subseteq Nodes /\ outages' \in 0 .. MaxOutages /\ drops' = drops
    BY <1>10, ClusterAssumption DEF Disconnect, Connect, faults, TypeOK
  <2> QED
    BY <1>10, <2>1 DEF Disconnect, Connect, shared, ring, environment, history, TypeOK
<1>11. ASSUME NEW n \in Nodes, Restart(n) PROVE TypeOK'
  <2>1. /\ copy' \in [Nodes -> [Points -> Vals]] /\ prev' \in [Nodes -> [Points -> Vals]]
        /\ stamp' \in [Nodes -> [Points -> Nat]] /\ scanned' \in [Points -> Nat]
    BY <1>11, ClusterAssumption DEF Restart, TypeOK
  <2>2. /\ offline' \in [Nodes -> SUBSET Nodes] /\ update_all' \in [Nodes -> BOOLEAN]
        /\ packet' \in [Nodes -> {Empty} \cup Frames] /\ write' \in [Nodes -> Slots]
        /\ slots' \in [Nodes -> [Slots -> {Empty} \cup Frames]]
    BY <1>11, RingConstants DEF Restart, TypeOK
  <2> QED
    BY <1>11, <2>1, <2>2 DEF Restart, environment, faults, TypeOK
<1>12. ASSUME NEW n \in Nodes, NEW m \in Nodes, MissHeartbeats(n, m) PROVE TypeOK'
  <2>1. drops' \in 0 .. MaxDrops /\ offline' \in [Nodes -> SUBSET Nodes]
    BY <1>12, ClusterAssumption DEF MissHeartbeats, TypeOK
  <2> QED
    BY <1>12, <2>1 DEF MissHeartbeats, shared, ring, environment, history, TypeOK
<1> QED
  BY <1>1, <1>2, <1>3, <1>4, <1>5, <1>6, <1>7, <1>8, <1>9, <1>10, <1>11, <1>12 DEF Next

\* For any nodes, owners and values and any length of the transmit ring, every variable
\* keeps its type, in rings that overflow too: the read and the write position stay within
\* the ring, and a slot holds nothing or a packet of a point.
THEOREM ClusterTypeCorrect == Spec => []TypeOK
BY ClusterTypeInit, ClusterTypeStep, PTL DEF Spec

-----------------------------------------------------------------------------
(* The points of a cluster: a ring that has never overflowed holds its       *)
(* packets from the read position to the write position without a gap.       *)

Gapless(n) ==
  \/ \A k \in Slots : slots[n][k] # Empty <=> k < write[n]
  \/ write[n] = 1 /\ \A k \in Slots : slots[n][k] # Empty

RingInv == ~overrun => \A n \in Nodes : Gapless(n)

LEMMA RingInit == Init => RingInv
BY RingConstants DEF Init, RingInv, Gapless

\* A packet that overwrites none comes after all the others.
LEMMA AddLast ==
  ASSUME TypeOK, RingInv, NEW n \in Nodes, SendAdd(n), ~overrun'
  PROVE  /\ ~overrun /\ slots[n][write[n]] = Empty
         /\ \A k \in Slots : slots[n][k] # Empty <=> k < write[n]
<1>1. ~overrun /\ slots[n][write[n]] = Empty
  BY DEF SendAdd, AddPacket, TypeOK
<1>2. write[n] \in Slots
  BY SlotFacts
<1> QED
  BY <1>1, <1>2 DEF RingInv, Gapless

LEMMA RingStep == TypeOK /\ RingInv /\ [Next]_vars => RingInv'
<1> SUFFICES ASSUME TypeOK, RingInv, [Next]_vars, ~overrun', NEW m \in Nodes PROVE Gapless(m)'
  BY DEF RingInv
<1>1. write[m] \in Slots
  BY SlotFacts
<1>2. ASSUME NEW n \in Nodes, SendAdd(n) PROVE Gapless(m)'
  <2>1. /\ ~overrun /\ \A k \in Slots : slots[n][k] # Empty <=> k < write[n]
        /\ packet[n] # Empty /\ write[n] \in Slots
    BY <1>2, AddLast, SlotFacts DEF SendAdd
  <2>2. /\ \A k \in Slots : slots'[n][k] = IF k = write[n] THEN packet[n] ELSE slots[n][k]
        /\ n # m => slots'[m] = slots[m] /\ write'[m] = write[m]
        /\ write'[n] = IF write[n] = RingLen THEN 1 ELSE write[n] + 1
    BY <1>2, <2>1, AddFacts DEF SendAdd
  <2>3. \A k \in Slots : slots'[n][k] # Empty <=> k < write[n] \/ k = write[n]
    BY <2>1, <2>2
  <2>4. CASE n = m /\ write[n] = RingLen
    <3>1. \A k \in Slots : k < RingLen \/ k = RingLen
      BY RingConstants
    <3> QED
      BY <2>2, <2>3, <2>4, <3>1 DEF Gapless
  <2>5. CASE n = m /\ write[n] # RingLen
    <3>1. \A k \in Slots : k < write[n] + 1 <=> k < write[n] \/ k = write[n]
      BY <2>1, RingConstants
    <3> QED
      BY <2>2, <2>3, <2>5, <3>1 DEF Gapless
  <2>6. CASE n # m
    BY <2>1, <2>2, <2>6 DEF RingInv, Gapless
  <2> QED
    BY <2>4, <2>5, <2>6
<1>3. ASSUME NEW n \in Nodes, TakeFirst(n), overrun' = overrun PROVE Gapless(m)'
  <2>1. /\ slots[n][1] # Empty /\ write[n] \in Slots /\ 1 \in Slots /\ ~overrun
        /\ \A k \in Slots : slots'[n][k] = IF k < RingLen THEN slots[n][k + 1] ELSE Empty
        /\ n # m => slots'[m] = slots[m] /\ write'[m] = write[m]
        /\ write'[n] = IF write[n] = 1 THEN RingLen ELSE write[n] - 1
    BY <1>3, TakeFacts, SlotFacts DEF TakeFirst
  <2>2. CASE n = m /\ \A k \in Slots : slots[n][k] # Empty <=> k < write[n]
    <3>1. write[n] # 1 /\ write'[n] = write[n] - 1
      BY <2>1, <2>2
    <3>2. ASSUME NEW k \in Slots PROVE slots'[n][k] # Empty <=> k < write[n] - 1
      <4>0. /\ k \in Nat /\ k <= RingLen /\ RingLen \in Nat
            /\ write[n] \in Nat /\ write[n] <= RingLen
        BY <2>1, RingConstants
      <4>1. k < RingLen => k + 1 \in Slots /\ (k + 1 < write[n] <=> k < write[n] - 1)
        <5>1. k < RingLen => k + 1 \in Slots
          BY RingConstants
        <5>2. k + 1 < write[n] <=> k < write[n] - 1
          BY <4>0
        <5> QED
          BY <5>1, <5>2
      <4>2. k < RingLen \/ (k = RingLen /\ ~(k < write[n] - 1))
        BY <4>0
      <4>3. CASE k < RingLen
        BY <2>1, <2>2, <4>1, <4>3
      <4>4. CASE k = RingLen /\ ~(k < write[n] - 1) /\ ~(k < RingLen)
        BY <2>1, <4>4
      <4> QED
        BY <4>2, <4>3, <4>4
    <3> QED
      BY <2>2, <3>1, <3>2 DEF Gapless
  <2>3. CASE n = m /\ write[n] = 1 /\ \A k \in Slots : slots[n][k] # Empty
    <3>1. \A k \in Slots : k < RingLen => k + 1 \in Slots
      BY RingConstants
    <3>2. \A k \in Slots : slots'[n][k] # Empty <=> k < RingLen
      BY <2>1, <2>3, <3>1
    <3> QED
      BY <2>1, <2>3, <3>2 DEF Gapless
  <2>4. CASE n # m
    BY <2>1, <2>4 DEF RingInv, Gapless
  <2> QED
    BY <2>1, <2>2, <2>3, <2>4 DEF RingInv, Gapless
<1>4. ASSUME NEW n \in Nodes, Restart(n) PROVE Gapless(m)'
  <2>1. CASE n = m
    BY <1>4, <2>1, RingConstants DEF Restart, Gapless, TypeOK
  <2>2. CASE n # m
    BY <1>4, <2>2 DEF Restart, RingInv, Gapless, TypeOK
  <2> QED
    BY <2>1, <2>2
<1>5. CASE UNCHANGED <<ring, overrun>>
  BY <1>5 DEF ring, RingInv, Gapless
<1> QED
  BY <1>2, <1>3, <1>4, <1>5
     DEF Next, vars, history, InputChange, Scan, SendBuild, UpdateAll, Transmit, Lose, Heartbeat,
         Disconnect, Connect, MissHeartbeats

-----------------------------------------------------------------------------
(* The points of a cluster: as long as no ring overflows, of bits always,    *)
(* and of registers until a node sends others' again, only the owner of a    *)
(* point sends it, and what is under way is in order.                        *)

NonOwners(p) == Nodes \ {Owner[p]}

IsOf(f, p) == f # Empty /\ f[1] = p

\* No node but the owner holds a value of p younger than s.
Older(p, s) == \A m \in NonOwners(p) : stamp[m][p] <= s

NotAhead(p) == \A m \in Nodes : stamp[m][p] <= version[p]

OwnerSends(p) ==
  \A m \in NonOwners(p) :
    /\ copy[m][p] = prev[m][p]
    /\ ~IsOf(packet[m], p) /\ \A k \in Slots : ~IsOf(slots[m][k], p)

\* What the owner has written and not built a packet of is the youngest there is, and so
\* is all that it would send again: a restart leaves zeros.
Unsent(p) ==
  LET n == Owner[p] IN
  copy[n][p] # prev[n][p] \/ copy[n][p] # 0 => Older(p, stamp[n][p])

\* So is what it has built and not added: the program does not write meanwhile.
InPacket(p) ==
  LET n == Owner[p] IN
  IsOf(packet[n], p) => packet[n][3] = stamp[n][p] /\ Older(p, stamp[n][p])

\* The frames of p in the ring are younger than what the others hold, in order, and
\* none is younger than what the owner holds.
InRing(p) ==
  LET q == slots[Owner[p]] IN
  \A k \in Slots : IsOf(q[k], p) =>
    /\ q[k][3] <= stamp[Owner[p]][p] /\ Older(p, q[k][3])
    /\ \A j \in Slots : j < k /\ IsOf(q[j], p) => q[j][3] <= q[k][3]

Ordered(p) == NotAhead(p) /\ OwnerSends(p) /\ Unsent(p) /\ InPacket(p) /\ InRing(p)
StampInv == (Registers => ~resent) /\ ~overrun => \A p \in Points : Ordered(p)

LEMMA StampTypes ==
  ASSUME TypeOK
  PROVE  /\ \A n \in Nodes, p \in Points : stamp[n][p] \in Nat
         /\ \A p \in Points : version[p] \in Nat /\ Owner[p] \in Nodes
BY ClusterAssumption DEF TypeOK

LEMMA StampInit == Init => StampInv
<1> SUFFICES ASSUME Init, NEW p \in Points PROVE Ordered(p)
  BY DEF StampInv
<1>1. Owner[p] \in Nodes
  BY ClusterAssumption
<1>2. \A n \in Nodes : /\ copy[n][p] = 0 /\ prev[n][p] = 0 /\ stamp[n][p] = 0
                       /\ packet[n] = Empty /\ \A k \in Slots : slots[n][k] = Empty
  BY DEF Init
<1>3. version[p] = 0
  BY DEF Init
<1>4. NotAhead(p) /\ Unsent(p) /\ InPacket(p)
  BY <1>1, <1>2, <1>3 DEF NotAhead, Unsent, InPacket, IsOf
<1>5. OwnerSends(p) /\ InRing(p)
  BY <1>1, <1>2 DEF OwnerSends, InRing, NonOwners, IsOf
<1> QED
  BY <1>4, <1>5 DEF Ordered

\* A step that leaves a point and what is under way as they are.
LEMMA PointKept ==
  ASSUME TypeOK, NEW p \in Points, Ordered(p), UNCHANGED <<packet, slots>>,
         \A m \in Nodes : /\ copy'[m][p] = copy[m][p] /\ prev'[m][p] = prev[m][p]
                          /\ stamp'[m][p] = stamp[m][p],
         version'[p] \in Nat, version'[p] >= version[p]
  PROVE  Ordered(p)'
<1>1. Owner[p] \in Nodes /\ NonOwners(p) \subseteq Nodes
  BY ClusterAssumption DEF NonOwners
<1>2. \A s : Older(p, s) => \A m \in NonOwners(p) : stamp'[m][p] <= s
  BY <1>1 DEF Older
<1>3. NotAhead(p)'
  BY StampTypes DEF Ordered, NotAhead
<1>4. OwnerSends(p)'
  BY <1>1 DEF Ordered, OwnerSends, NonOwners, IsOf
<1>5. Unsent(p)'
  BY <1>1, <1>2 DEF Ordered, Unsent, Older, NonOwners
<1>6. InPacket(p)'
  BY <1>1, <1>2 DEF Ordered, InPacket, Older, NonOwners, IsOf
<1>7. InRing(p)'
  BY <1>1, <1>2 DEF Ordered, InRing, Older, NonOwners, IsOf
<1> QED
  BY <1>3, <1>4, <1>5, <1>6, <1>7 DEF Ordered

LEMMA ScanOrdered ==
  ASSUME TypeOK, \A p \in Points : Ordered(p), NEW q \in Points, Scan(q), NEW p \in Points
  PROVE  Ordered(p)'
<1>1. CASE p # q
  <2>1. \A m \in Nodes : /\ copy'[m][p] = copy[m][p] /\ prev'[m][p] = prev[m][p]
                         /\ stamp'[m][p] = stamp[m][p]
    BY <1>1 DEF Scan, TypeOK
  <2>2. /\ version'[p] = version[p] /\ version[p] \in Nat /\ version[p] >= version[p]
        /\ packet' = packet /\ slots' = slots
    BY StampTypes DEF Scan, ring, environment
  <2> QED
    BY <2>1, <2>2, PointKept
<1>2. CASE p = q
  <2> DEFINE n == Owner[p]
  <2>1. /\ n \in Nodes /\ packet[n] = Empty /\ packet' = packet /\ slots' = slots
        /\ version' = version /\ stamp'[n][p] = version[p]
        /\ \A m \in NonOwners(p) : /\ m \in Nodes /\ stamp'[m][p] = stamp[m][p]
                                   /\ copy'[m][p] = copy[m][p] /\ prev'[m][p] = prev[m][p]
    BY <1>2, ClusterAssumption DEF Scan, ring, environment, TypeOK, NonOwners
  <2>2. version[p] \in Nat /\ stamp[n][p] \in Nat /\ stamp[n][p] <= version[p]
    BY <2>1, StampTypes DEF Ordered, NotAhead
  <2> HIDE DEF n
  <2>3. NotAhead(p)'
    BY <2>1, <2>2 DEF Ordered, NotAhead, NonOwners, n
  <2>4. OwnerSends(p)'
    BY <2>1 DEF Ordered, OwnerSends, NonOwners, IsOf
  <2>5. Unsent(p)'
    BY <2>1 DEF Ordered, NotAhead, Unsent, Older, NonOwners, n
  <2>6. InPacket(p)'
    BY <2>1 DEF InPacket, IsOf, n
  <2>7. InRing(p)'
    <3> SUFFICES ASSUME NEW k \in Slots, IsOf(slots[n][k], p)
                 PROVE  /\ slots[n][k][3] <= version[p]
                        /\ \A m \in NonOwners(p) : stamp[m][p] <= slots[n][k][3]
                        /\ \A j \in Slots : j < k /\ IsOf(slots[n][j], p)
                             => slots[n][j][3] <= slots[n][k][3]
      BY <2>1 DEF InRing, Older, NonOwners, IsOf, n
    <3>1. /\ slots[n][k][3] <= stamp[n][p] /\ Older(p, slots[n][k][3])
          /\ \A j \in Slots : j < k /\ IsOf(slots[n][j], p) => slots[n][j][3] <= slots[n][k][3]
      BY DEF Ordered, InRing, n
    <3>2. slots[n][k][3] \in Nat
      BY <2>1, SlotFacts DEF IsOf
    <3> QED
      BY <3>1, <3>2, <2>2 DEF Older
  <2> QED
    BY <2>3, <2>4, <2>5, <2>6, <2>7 DEF Ordered
<1> QED
  BY <1>1, <1>2

LEMMA BuildOrdered ==
  ASSUME TypeOK, \A p \in Points : Ordered(p), NEW n \in Nodes, SendBuild(n), NEW p \in Points
  PROVE  Ordered(p)'
<1> DEFINE q == Min(Changed(n))
<1>1. q \in Points /\ copy[n][q] # prev[n][q]
  BY ChangedFacts DEF SendBuild, Changed
<1>2. /\ packet' = [packet EXCEPT ![n] = <<q, copy[n][q], stamp[n][q]>>]
      /\ UNCHANGED <<copy, prev, stamp, slots, version>>
  BY DEF SendBuild, shared, ring, environment
<1> HIDE DEF q
<1>3. n = Owner[q]
  BY <1>1 DEF Ordered, OwnerSends, NonOwners
<1>4. \A m \in Nodes :
        packet'[m] = IF m = n THEN <<q, copy[n][q], stamp[n][q]>> ELSE packet[m]
  BY <1>2 DEF TypeOK
<1>5. NotAhead(p)'
  BY <1>2 DEF Ordered, NotAhead
<1>6. OwnerSends(p)'
  BY <1>2, <1>3, <1>4 DEF Ordered, OwnerSends, NonOwners, IsOf
<1>7. Unsent(p)'
  BY <1>2 DEF Ordered, Unsent, Older, NonOwners
<1>8. InPacket(p)'
  <2>1. Owner[p] \in Nodes
    BY ClusterAssumption
  <2>2. CASE p = q
    BY <1>1, <1>2, <1>3, <1>4, <2>2 DEF Ordered, Unsent, InPacket, Older, NonOwners
  <2>3. CASE p # q
    BY <1>2, <1>4, <2>1, <2>3 DEF Ordered, InPacket, Older, NonOwners, IsOf
  <2> QED
    BY <2>2, <2>3
<1>9. InRing(p)'
  BY <1>2 DEF Ordered, InRing, Older, NonOwners
<1> QED
  BY <1>5, <1>6, <1>7, <1>8, <1>9 DEF Ordered

LEMMA AddOrdered ==
  ASSUME TypeOK, RingInv, \A p \in Points : Ordered(p), NEW n \in Nodes, SendAdd(n), ~overrun',
         NEW p \in Points
  PROVE  Ordered(p)'
<1> DEFINE f == packet[n]
<1> DEFINE w == write[n]
<1>1. f # Empty /\ f[1] \in Points /\ f[3] \in Nat /\ w \in Slots
  BY SlotFacts DEF SendAdd
<1>2. /\ prev' = [prev EXCEPT ![n][f[1]] = copy[n][f[1]]]
      /\ packet' = [packet EXCEPT ![n] = Empty]
      /\ UNCHANGED <<copy, stamp, version>> /\ AddPacket(n)
  BY DEF SendAdd, environment
<1>3. \A k \in Slots : slots[n][k] # Empty <=> k < w
  BY AddLast
<1>4. n = Owner[f[1]]
  BY <1>1 DEF Ordered, OwnerSends, NonOwners, IsOf
<1>5. /\ \A k \in Slots : slots'[n][k] = IF k = w THEN f ELSE slots[n][k]
      /\ \A m \in Nodes : m # n => slots'[m] = slots[m]
      /\ \A m \in Nodes : packet'[m] = IF m = n THEN Empty ELSE packet[m]
  BY <1>1, <1>2, AddFacts DEF TypeOK
<1>6. \A m \in Nodes : prev'[m][p] = IF m = n /\ p = f[1] THEN copy[m][p] ELSE prev[m][p]
  BY <1>1, <1>2 DEF TypeOK
<1>7. f[3] = stamp[n][f[1]] /\ Older(f[1], f[3])
  BY <1>1, <1>4 DEF Ordered, InPacket, IsOf
<1>8. Owner[p] \in Nodes
  BY ClusterAssumption
<1> HIDE DEF f, w
<1>9. NotAhead(p)'
  BY <1>2 DEF Ordered, NotAhead
<1>10. OwnerSends(p)'
  <2> SUFFICES ASSUME NEW m \in NonOwners(p)
               PROVE  /\ copy'[m][p] = prev'[m][p] /\ ~IsOf(packet'[m], p)
                      /\ \A k \in Slots : ~IsOf(slots'[m][k], p)
    BY DEF OwnerSends, NonOwners
  <2>1. m \in Nodes /\ m # Owner[p]
    BY DEF NonOwners
  <2>2. /\ copy[m][p] = prev[m][p] /\ ~IsOf(packet[m], p)
        /\ \A k \in Slots : ~IsOf(slots[m][k], p)
    BY DEF Ordered, OwnerSends
  <2>3. copy'[m][p] = prev'[m][p] /\ ~IsOf(packet'[m], p)
    BY <1>2, <1>5, <1>6, <2>1, <2>2 DEF IsOf
  <2>4. CASE m = n
    <3>1. f[1] # p
      BY <1>4, <2>1, <2>4
    <3>2. ASSUME NEW k \in Slots PROVE ~IsOf(slots'[m][k], p)
      BY <1>5, <2>2, <2>4, <3>1 DEF IsOf
    <3> QED
      BY <2>3, <3>2
  <2>5. CASE m # n
    BY <1>5, <2>1, <2>2, <2>3, <2>5
  <2> QED
    BY <2>4, <2>5
<1>11. Unsent(p)'
  BY <1>2, <1>6, <1>8 DEF Ordered, Unsent, Older, NonOwners
<1>12. InPacket(p)'
  BY <1>2, <1>5, <1>8 DEF Ordered, InPacket, Older, NonOwners, IsOf
<1>13. InRing(p)'
  <2>1. CASE Owner[p] # n
    BY <1>2, <1>5, <1>8, <2>1 DEF Ordered, InRing, Older, NonOwners
  <2>2. CASE Owner[p] = n
    <3> SUFFICES ASSUME NEW k \in Slots, IsOf(slots'[n][k], p)
                 PROVE  /\ slots'[n][k][3] <= stamp[n][p]
                        /\ \A m \in NonOwners(p) : stamp[m][p] <= slots'[n][k][3]
                        /\ \A j \in Slots : j < k /\ IsOf(slots'[n][j], p)
                             => slots'[n][j][3] <= slots'[n][k][3]
      BY <1>2, <1>8, <2>2 DEF InRing, Older, NonOwners
    <3>1. \A i \in Slots : IsOf(slots[n][i], p) =>
            /\ slots[n][i][3] <= stamp[n][p] /\ Older(p, slots[n][i][3])
            /\ \A j \in Slots : j < i /\ IsOf(slots[n][j], p) => slots[n][j][3] <= slots[n][i][3]
      BY <2>2 DEF Ordered, InRing
    <3>2. CASE k # w
      <4>1. slots'[n][k] = slots[n][k] /\ k < w
        BY <1>3, <1>5, <3>2 DEF IsOf
      <4>2. \A j \in Slots : j < k => slots'[n][j] = slots[n][j]
        <5>1. w \in Nat /\ k \in Nat /\ \A j \in Slots : j \in Nat
          BY <1>1, RingConstants
        <5>2. \A j \in Slots : j < k => j # w
          BY <4>1, <5>1
        <5> QED
          BY <1>5, <5>2
      <4> QED
        BY <3>1, <4>1, <4>2 DEF Older
    <3>3. CASE k = w
      <4>1. slots'[n][k] = f /\ f[1] = p /\ f[3] = stamp[n][p] /\ stamp[n][p] \in Nat
        BY <1>5, <1>7, <1>8, <2>2, <3>3, StampTypes DEF IsOf
      <4>2. Older(p, f[3])
        BY <1>7, <4>1
      <4>3. ASSUME NEW j \in Slots, j < k, IsOf(slots'[n][j], p) PROVE slots'[n][j][3] <= f[3]
        <5>0. j \in Nat /\ w \in Nat
          BY <1>1, RingConstants
        <5>1. j # w
          BY <3>3, <4>3, <5>0
        <5>2. slots'[n][j] = slots[n][j]
          BY <1>5, <5>1
        <5> QED
          BY <3>1, <4>1, <4>3, <5>2
      <4> QED
        BY <4>1, <4>2, <4>3 DEF Older
    <3> QED
      BY <3>2, <3>3
  <2> QED
    BY <2>1, <2>2
<1> QED
  BY <1>9, <1>10, <1>11, <1>12, <1>13 DEF Ordered

\* A frame at the read position is one of the owner of its point.
LEMMA FirstFacts ==
  ASSUME TypeOK, \A p \in Points : Ordered(p), NEW n \in Nodes, TakeFirst(n)
  PROVE  LET f == slots[n][1] IN
         /\ f[1] \in Points /\ f[2] \in Vals /\ f[3] \in Nat
         /\ n = Owner[f[1]] /\ IsOf(f, f[1]) /\ 1 \in Slots
<1>1. 1 \in Slots /\ slots[n][1] # Empty
  BY RingConstants DEF TakeFirst
<1>2. slots[n][1][1] \in Points /\ slots[n][1][2] \in Vals /\ slots[n][1][3] \in Nat
  BY <1>1, SlotFacts
<1> QED
  BY <1>1, <1>2 DEF Ordered, OwnerSends, NonOwners, IsOf

LEMMA TransmitFacts ==
  ASSUME TypeOK, \A p \in Points : Ordered(p), NEW n \in Nodes, Transmit(n)
  PROVE  LET f == slots[n][1] IN
         /\ TakeFirst(n) /\ UNCHANGED <<packet, version, outages, overrun>>
         /\ Peers(n) \in SUBSET (Nodes \ {n})
         /\ \A m \in Nodes, r \in Points :
              IF m \in Peers(n) /\ r = f[1]
                THEN copy'[m][r] = f[2] /\ prev'[m][r] = f[2] /\ stamp'[m][r] = f[3]
                ELSE copy'[m][r] = copy[m][r] /\ prev'[m][r] = prev[m][r] /\ stamp'[m][r] = stamp[m][r]
<1> DEFINE f == slots[n][1]
<1>1. /\ TakeFirst(n) /\ UNCHANGED <<packet, version, outages, overrun>>
      /\ copy' = Store(copy, n, f[1], f[2]) /\ prev' = Store(prev, n, f[1], f[2])
      /\ stamp' = Store(stamp, n, f[1], f[3])
  BY DEF Transmit, environment, faults
<1>2. f[1] \in Points /\ f[2] \in Vals /\ f[3] \in Nat
  BY <1>1, FirstFacts
<1>3. /\ copy \in [Nodes -> [Points -> Vals]] /\ prev \in [Nodes -> [Points -> Vals]]
      /\ stamp \in [Nodes -> [Points -> Nat]]
  BY DEF TypeOK
<1> HIDE DEF f
<1>4. \A m \in Nodes : /\ copy'[m] = IF m \in Peers(n) THEN [copy[m] EXCEPT ![f[1]] = f[2]] ELSE copy[m]
                       /\ prev'[m] = IF m \in Peers(n) THEN [prev[m] EXCEPT ![f[1]] = f[2]] ELSE prev[m]
                       /\ stamp'[m] = IF m \in Peers(n) THEN [stamp[m] EXCEPT ![f[1]] = f[3]] ELSE stamp[m]
  BY <1>1 DEF Store
<1>5. \A m \in Nodes : /\ copy[m] \in [Points -> Vals] /\ prev[m] \in [Points -> Vals]
                       /\ stamp[m] \in [Points -> Nat]
  BY <1>3
<1>6. ASSUME NEW m \in Nodes, NEW r \in Points
      PROVE  /\ copy'[m][r] = IF m \in Peers(n) /\ r = f[1] THEN f[2] ELSE copy[m][r]
             /\ prev'[m][r] = IF m \in Peers(n) /\ r = f[1] THEN f[2] ELSE prev[m][r]
             /\ stamp'[m][r] = IF m \in Peers(n) /\ r = f[1] THEN f[3] ELSE stamp[m][r]
  <2>1. CASE m \in Peers(n)
    <3>1. copy'[m][r] = IF r = f[1] THEN f[2] ELSE copy[m][r]
      BY <1>4, <1>5, <2>1
    <3>2. prev'[m][r] = IF r = f[1] THEN f[2] ELSE prev[m][r]
      BY <1>4, <1>5, <2>1
    <3>3. stamp'[m][r] = IF r = f[1] THEN f[3] ELSE stamp[m][r]
      BY <1>4, <1>5, <2>1
    <3> QED
      BY <2>1, <3>1, <3>2, <3>3
  <2>2. CASE m \notin Peers(n)
    BY <1>4, <2>2
  <2> QED
    BY <2>1, <2>2
<1>7. Peers(n) \subseteq Nodes \ {n}
  BY DEF Peers, TypeOK
<1> QED
  BY <1>1, <1>6, <1>7 DEF f

\* A frame leaves the ring, and some nodes other than its owner, or none, store it.
LEMMA TakeOrdered ==
  ASSUME TypeOK, \A p \in Points : Ordered(p), NEW n \in Nodes, TakeFirst(n),
         UNCHANGED <<packet, version>>, NEW R \in SUBSET (Nodes \ {n}),
         \A m \in Nodes, r \in Points :
           IF m \in R /\ r = slots[n][1][1]
             THEN /\ copy'[m][r] = slots[n][1][2] /\ prev'[m][r] = slots[n][1][2]
                  /\ stamp'[m][r] = slots[n][1][3]
             ELSE copy'[m][r] = copy[m][r] /\ prev'[m][r] = prev[m][r] /\ stamp'[m][r] = stamp[m][r],
         NEW p \in Points
  PROVE  Ordered(p)'
<1> DEFINE f == slots[n][1]
<1>1. f[1] \in Points /\ f[3] \in Nat /\ n = Owner[f[1]] /\ IsOf(f, f[1]) /\ 1 \in Slots
  BY FirstFacts
<1>2. /\ \A k \in Slots : slots'[n][k] = IF k < RingLen THEN slots[n][k + 1] ELSE Empty
      /\ \A m \in Nodes : m # n => slots'[m] = slots[m]
      /\ \A k \in Slots : k < RingLen => k + 1 \in Slots
  BY TakeFacts, RingConstants
<1>3. \A m \in Nodes, r \in Points :
        IF m \in R /\ r = f[1]
          THEN copy'[m][r] = f[2] /\ prev'[m][r] = f[2] /\ stamp'[m][r] = f[3]
          ELSE copy'[m][r] = copy[m][r] /\ prev'[m][r] = prev[m][r] /\ stamp'[m][r] = stamp[m][r]
  OBVIOUS
<1>4. Owner[p] \in Nodes /\ NonOwners(p) \subseteq Nodes \ {Owner[p]}
  BY ClusterAssumption DEF NonOwners
<1>5. version[p] \in Nat /\ \A m \in Nodes : stamp[m][p] \in Nat
  BY StampTypes
<1>6. \A i \in Slots : IsOf(slots[n][i], p) /\ Owner[p] = n =>
        /\ slots[n][i][3] <= stamp[n][p] /\ Older(p, slots[n][i][3]) /\ slots[n][i][3] \in Nat
        /\ \A j \in Slots : j < i /\ IsOf(slots[n][j], p) => slots[n][j][3] <= slots[n][i][3]
  BY SlotFacts DEF Ordered, InRing, IsOf
<1>7. stamp[Owner[p]][p] <= version[p]
  BY <1>4 DEF Ordered, NotAhead
<1>8. f[1] = p => f[3] <= stamp[n][p]
  BY <1>1, <1>6
<1> HIDE DEF f
\* The point of the frame is not taken up by its owner.
<1>9. /\ copy'[Owner[p]][p] = copy[Owner[p]][p] /\ prev'[Owner[p]][p] = prev[Owner[p]][p]
      /\ stamp'[Owner[p]][p] = stamp[Owner[p]][p]
  BY <1>1, <1>3, <1>4
\* Whatever is not older than the frame is not older than what it leaves.
<1>10. \A s \in Nat : Older(p, s) /\ (f[1] = p => f[3] <= s)
                        => \A m \in NonOwners(p) : stamp'[m][p] <= s
  <2> SUFFICES ASSUME NEW s \in Nat, Older(p, s), f[1] = p => f[3] <= s, NEW m \in NonOwners(p)
               PROVE  stamp'[m][p] <= s
    OBVIOUS
  <2>1. m \in Nodes /\ stamp[m][p] <= s
    BY <1>4 DEF Older
  <2> QED
    BY <1>3, <2>1
<1>11. NotAhead(p)'
  <2> SUFFICES ASSUME NEW m \in Nodes PROVE stamp'[m][p] <= version[p]
    BY DEF NotAhead
  <2>1. stamp[m][p] <= version[p]
    BY DEF Ordered, NotAhead
  <2>2. CASE m \in R /\ p = f[1]
    <3>1. stamp'[m][p] = f[3] /\ f[3] <= stamp[n][p] /\ n = Owner[p] /\ f[3] \in Nat
      BY <1>1, <1>3, <1>8, <2>2
    <3> QED
      BY <1>4, <1>5, <1>7, <3>1
  <2>3. CASE ~(m \in R /\ p = f[1])
    BY <1>3, <2>1, <2>3
  <2> QED
    BY <2>2, <2>3
<1>12. OwnerSends(p)'
  <2> SUFFICES ASSUME NEW m \in NonOwners(p)
               PROVE  /\ copy'[m][p] = prev'[m][p] /\ ~IsOf(packet[m], p)
                      /\ \A k \in Slots : ~IsOf(slots'[m][k], p)
    BY DEF OwnerSends, NonOwners
  <2>1. /\ m \in Nodes /\ copy[m][p] = prev[m][p] /\ ~IsOf(packet[m], p)
        /\ \A k \in Slots : ~IsOf(slots[m][k], p)
    BY DEF Ordered, OwnerSends, NonOwners
  <2>2. copy'[m][p] = prev'[m][p]
    BY <1>3, <2>1
  <2>3. \A k \in Slots : ~IsOf(slots'[m][k], p)
    <3>1. CASE m = n
      BY <1>2, <2>1, <3>1 DEF IsOf
    <3>2. CASE m # n
      BY <1>2, <2>1, <3>2
    <3> QED
      BY <3>1, <3>2
  <2> QED
    BY <2>1, <2>2, <2>3
<1>13. Unsent(p)' /\ InPacket(p)'
  <2> DEFINE s == stamp[Owner[p]][p]
  <2>1. s \in Nat /\ (f[1] = p => f[3] <= s)
    BY <1>1, <1>4, <1>5, <1>8
  <2>2. Older(p, s) => \A m \in NonOwners(p) : stamp'[m][p] <= s
    BY <1>10, <2>1
  <2>3. Unsent(p)'
    BY <1>9, <2>2 DEF Ordered, Unsent, Older, NonOwners
  <2>4. InPacket(p)'
    BY <1>9, <2>2 DEF Ordered, InPacket, Older, NonOwners
  <2> QED
    BY <2>3, <2>4
<1>14. InRing(p)'
  <2>1. CASE Owner[p] # n
    <3>1. slots'[Owner[p]] = slots[Owner[p]] /\ f[1] # p
      BY <1>1, <1>2, <1>4, <2>1
    <3>2. \A m \in NonOwners(p) : stamp'[m][p] = stamp[m][p]
      BY <1>3, <1>4, <3>1
    <3> QED
      BY <1>9, <3>1, <3>2 DEF Ordered, InRing, Older, NonOwners
  <2>2. CASE Owner[p] = n
    <3> SUFFICES ASSUME NEW k \in Slots, IsOf(slots'[n][k], p)
                 PROVE  /\ slots'[n][k][3] <= stamp[n][p]
                        /\ \A m \in NonOwners(p) : stamp'[m][p] <= slots'[n][k][3]
                        /\ \A j \in Slots : j < k /\ IsOf(slots'[n][j], p)
                             => slots'[n][j][3] <= slots'[n][k][3]
      BY <1>9, <2>2 DEF InRing, Older, NonOwners
    <3>1. k < RingLen /\ k + 1 \in Slots /\ slots'[n][k] = slots[n][k + 1]
      BY <1>2 DEF IsOf
    <3>2. /\ slots[n][k + 1][3] <= stamp[n][p] /\ Older(p, slots[n][k + 1][3])
          /\ slots[n][k + 1][3] \in Nat
          /\ \A j \in Slots : j < k + 1 /\ IsOf(slots[n][j], p) => slots[n][j][3] <= slots[n][k + 1][3]
      BY <1>6, <2>2, <3>1
    <3>3. f[1] = p => f[3] <= slots[n][k + 1][3]
      <4>1. k \in Nat /\ 1 <= k
        BY RingConstants
      <4>2. 1 < k + 1
        BY <4>1
      <4> QED
        BY <1>1, <3>2, <4>2 DEF f
    <3>4. \A m \in NonOwners(p) : stamp'[m][p] <= slots[n][k + 1][3]
      BY <1>10, <3>2, <3>3
    <3>5. ASSUME NEW j \in Slots, j < k, IsOf(slots'[n][j], p)
          PROVE  slots'[n][j][3] <= slots[n][k + 1][3]
      <4>0. j \in Nat /\ k \in Nat /\ RingLen \in Nat /\ j < k /\ k < RingLen
        BY <3>1, <3>5, RingConstants
      <4>1. j < RingLen /\ j + 1 < k + 1
        BY <4>0
      <4>2. slots'[n][j] = slots[n][j + 1] /\ j + 1 \in Slots
        BY <1>2, <4>1
      <4> QED
        BY <3>2, <3>5, <4>1, <4>2
    <3> QED
      BY <3>1, <3>2, <3>4, <3>5
  <2> QED
    BY <2>1, <2>2
<1> QED
  BY <1>11, <1>12, <1>13, <1>14 DEF Ordered

LEMMA TransmitOrdered ==
  ASSUME TypeOK, \A p \in Points : Ordered(p), NEW n \in Nodes, Transmit(n) \/ Lose(n),
         NEW p \in Points
  PROVE  Ordered(p)'
<1>1. CASE Transmit(n)
  BY <1>1, TransmitFacts, TakeOrdered
<1>2. CASE Lose(n)
  <2>1. TakeFirst(n) /\ UNCHANGED <<copy, prev, stamp, packet, version>>
    BY <1>2 DEF Lose, shared, environment
  <2>2. {} \in SUBSET (Nodes \ {n}) /\ \A m : m \notin {}
    OBVIOUS
  <2> QED
    BY <2>1, <2>2, TakeOrdered
<1> QED
  BY <1>1, <1>2

LEMMA RestartOrdered ==
  ASSUME TypeOK, \A p \in Points : Ordered(p), NEW n \in Nodes, Restart(n), NEW p \in Points
  PROVE  Ordered(p)'
<1>1. Owner[p] \in Nodes
  BY ClusterAssumption
<1>2. \A m \in Nodes :
        IF m = n
          THEN /\ copy'[m][p] = 0 /\ prev'[m][p] = 0 /\ stamp'[m][p] = 0
               /\ packet'[m] = Empty /\ \A k \in Slots : slots'[m][k] = Empty
          ELSE /\ copy'[m][p] = copy[m][p] /\ prev'[m][p] = prev[m][p] /\ stamp'[m][p] = stamp[m][p]
               /\ packet'[m] = packet[m] /\ slots'[m] = slots[m]
  BY DEF Restart, TypeOK
<1>3. version'[p] = version[p] /\ version[p] \in Nat
  BY StampTypes DEF Restart, environment
<1>4. \A s \in Nat : Older(p, s) => \A m \in NonOwners(p) : stamp'[m][p] <= s
  BY <1>2 DEF Older, NonOwners
<1>5. NotAhead(p)'
  BY <1>2, <1>3 DEF Ordered, NotAhead
<1>6. OwnerSends(p)'
  BY <1>2 DEF Ordered, OwnerSends, NonOwners, IsOf
<1>7. Unsent(p)' /\ InPacket(p)' /\ InRing(p)'
  <2>1. CASE Owner[p] = n
    BY <1>2, <2>1 DEF Unsent, InPacket, InRing, IsOf
  <2>2. CASE Owner[p] # n
    <3> DEFINE o == Owner[p]
    <3>1. /\ copy'[o][p] = copy[o][p] /\ prev'[o][p] = prev[o][p] /\ stamp'[o][p] = stamp[o][p]
          /\ packet'[o] = packet[o] /\ slots'[o] = slots[o]
      BY <1>1, <1>2, <2>2
    <3>2. stamp[o][p] \in Nat /\ \A k \in Slots : IsOf(slots[o][k], p) => slots[o][k][3] \in Nat
      BY <1>1, StampTypes, SlotFacts DEF IsOf
    <3>3. Unsent(p)' /\ InPacket(p)'
      BY <1>4, <3>1, <3>2 DEF Ordered, Unsent, InPacket, Older, NonOwners
    <3>4. InRing(p)'
      BY <1>4, <3>1, <3>2 DEF Ordered, InRing, Older, NonOwners
    <3> QED
      BY <3>3, <3>4
  <2> QED
    BY <2>1, <2>2
<1> QED
  BY <1>5, <1>6, <1>7 DEF Ordered

\* The remaining steps touch neither the copies nor what is under way.
LEMMA AsideOrdered ==
  ASSUME TypeOK, \A p \in Points : Ordered(p), NEW p \in Points,
         \/ \E q \in Points : InputChange(q)
         \/ \E n \in Nodes : Heartbeat(n) \/ Disconnect(n) \/ Connect(n)
         \/ \E n, m \in Nodes : MissHeartbeats(n, m)
         \/ UNCHANGED vars
  PROVE  Ordered(p)'
<1>1. UNCHANGED <<copy, prev, stamp, packet, slots>>
  BY DEF InputChange, Heartbeat, Disconnect, Connect, MissHeartbeats, vars, shared, ring
<1>2. version'[p] \in Nat /\ version'[p] >= version[p]
  <2>1. version[p] \in Nat
    BY StampTypes
  <2>2. version'[p] = version[p] \/ version'[p] = version[p] + 1
    BY <2>1 DEF InputChange, Heartbeat, Disconnect, Connect, MissHeartbeats, vars, environment, TypeOK
  <2> QED
    BY <2>1, <2>2
<1> QED
  BY <1>1, <1>2, PointKept

\* A node that marks only points of its own marks what is the youngest.
LEMMA ResendOrdered ==
  ASSUME TypeOK, \A p \in Points : Ordered(p), NEW n \in Nodes, UpdateAll(n),
         Registers => ~resent', NEW p \in Points
  PROVE  Ordered(p)'
<1>1. UNCHANGED <<copy, stamp, packet, slots, version>>
  BY DEF UpdateAll, ring, environment
<1>2. \A m \in Nodes : \/ prev'[m][p] = prev[m][p]
                       \/ m = n /\ Owner[p] = n /\ copy[m][p] # 0
  BY DEF UpdateAll, TypeOK
<1>3. Owner[p] \in Nodes
  BY ClusterAssumption
<1>4. NotAhead(p)' /\ InPacket(p)' /\ InRing(p)'
  BY <1>1 DEF Ordered, NotAhead, InPacket, InRing, Older, NonOwners
<1>5. OwnerSends(p)'
  BY <1>1, <1>2 DEF Ordered, OwnerSends, NonOwners
<1>6. Unsent(p)'
  BY <1>1, <1>2, <1>3 DEF Ordered, Unsent, Older, NonOwners
<1> QED
  BY <1>4, <1>5, <1>6 DEF Ordered

\* What has come between once is never forgotten.
LEMMA HistoryStep ==
  ASSUME TypeOK, [Next]_vars
  PROVE  (resent => resent') /\ (overrun => overrun') /\ (mixed => mixed')
<1>1. ASSUME resent PROVE resent'
  BY <1>1 DEF Next, vars, history, InputChange, Scan, SendBuild, SendAdd, UpdateAll, Transmit,
       Lose, Heartbeat, Disconnect, Connect, Restart, MissHeartbeats
<1>2. ASSUME overrun PROVE overrun'
  BY <1>2 DEF Next, vars, history, InputChange, Scan, SendBuild, SendAdd, AddPacket, UpdateAll,
       Transmit, Lose, Heartbeat, Disconnect, Connect, Restart, MissHeartbeats
<1>3. ASSUME mixed PROVE mixed'
  BY <1>3 DEF Next, vars, history, InputChange, Scan, SendBuild, SendAdd, UpdateAll, Transmit,
       Lose, Heartbeat, Disconnect, Connect, Restart, MissHeartbeats
<1> QED
  BY <1>1, <1>2, <1>3

LEMMA StampStep == TypeOK /\ RingInv /\ StampInv /\ [Next]_vars => StampInv'
<1> SUFFICES ASSUME TypeOK, RingInv, StampInv, [Next]_vars, Registers => ~resent', ~overrun',
                    NEW p \in Points
             PROVE  Ordered(p)'
  BY DEF StampInv
<1>1. \A q \in Points : Ordered(q)
  BY HistoryStep DEF StampInv
<1> QED
  BY <1>1, ScanOrdered, BuildOrdered, AddOrdered, TransmitOrdered, RestartOrdered, ResendOrdered,
     AsideOrdered DEF Next

\* What the invariant says of a step: whatever a node on the bus stores is not older than
\* what it had.
LEMMA StampsGrow ==
  ASSUME TypeOK, StampInv, [Next]_vars, Registers => ~resent, ~overrun,
         NEW n \in connected, NEW p \in Points
  PROVE  stamp'[n][p] >= stamp[n][p]
<1>0. n \in Nodes
  BY DEF TypeOK
<1>1. \A q \in Points : Ordered(q)
  BY DEF StampInv
<1>2. /\ stamp[n][p] \in Nat /\ version[p] \in Nat /\ stamp[n][p] <= version[p]
  BY <1>0, <1>1, StampTypes DEF Ordered, NotAhead
<1>3. ASSUME NEW q \in Points, Scan(q) PROVE stamp'[n][p] >= stamp[n][p]
  <2>1. stamp'[n][p] \in {stamp[n][p], version[p]}
    BY <1>0, <1>3, ClusterAssumption DEF Scan, TypeOK
  <2> QED
    BY <1>2, <2>1
<1>4. ASSUME NEW m \in Nodes, Transmit(m) PROVE stamp'[n][p] >= stamp[n][p]
  <2> DEFINE f == slots[m][1]
  <2>1. /\ TakeFirst(m) /\ Peers(m) \subseteq Nodes \ {m}
        /\ IF n \in Peers(m) /\ p = f[1] THEN stamp'[n][p] = f[3]
                                         ELSE stamp'[n][p] = stamp[n][p]
    BY <1>0, <1>1, <1>4, TransmitFacts
  <2>2. f[3] \in Nat /\ m = Owner[f[1]] /\ IsOf(f, f[1]) /\ 1 \in Slots
    BY <1>1, <2>1, FirstFacts
  <2>3. n \in Peers(m) /\ p = f[1] => stamp[n][p] <= f[3]
    BY <1>0, <1>1, <2>1, <2>2 DEF Ordered, InRing, Older, NonOwners
  <2> QED
    BY <1>2, <2>1, <2>2, <2>3
<1>5. ASSUME NEW m \in Nodes, Restart(m) PROVE stamp'[n][p] >= stamp[n][p]
  BY <1>0, <1>2, <1>5 DEF Restart, TypeOK
<1>6. CASE UNCHANGED stamp
  BY <1>2, <1>6
<1> QED
  BY <1>3, <1>4, <1>5, <1>6
     DEF Next, vars, shared, InputChange, SendBuild, SendAdd, UpdateAll, Lose, Heartbeat, Disconnect,
         Connect, MissHeartbeats

\* For any nodes, owners and rings no frame and no scan takes a point of a node on the bus
\* back to an older value, however many frames are lost: no bit before a ring overflows, and
\* no register before that or before a node sends other nodes' registers again.  For only
\* the owner sends its point, in the order in which its program wrote it, a ring without
\* an overflow keeps that order, canTask adds what it has built before the program writes
\* again, and an owner that has been restarted has only zeros, which are not sent again,
\* until its program has written.
THEOREM NeverOlder == Spec => NoOldValue
<1> DEFINE Grows == (Registers => ~resent) /\ ~overrun
                      => \A n \in connected, p \in Points : stamp'[n][p] >= stamp[n][p]
<1>1. TypeOK /\ StampInv /\ [Next]_vars => [Grows]_vars
  BY StampsGrow
<1>2. Spec => [][Grows]_vars
  BY <1>1, ClusterTypeInit, ClusterTypeStep, RingInit, RingStep, StampInit, StampStep, PTL DEF Spec
<1> QED
  BY <1>2 DEF NoOldValue


-----------------------------------------------------------------------------
(* The points of a cluster: a bit that its owner has sent has arrived, or a  *)
(* frame of it has been lost.                                                *)

\* The owner is to send its bit, or has built the packet and not added it.
Pending(p) ==
  LET n == Owner[p] IN
  copy[n][p] # prev[n][p] \/ IsOf(packet[n], p)

InSlot(p, k) == IsOf(slots[Owner[p]][k], p)

\* The last frame of p in the owner's ring has the owner's value, or another will follow.
RingLast(p) ==
  \/ Pending(p)
  \/ \A k \in Slots : InSlot(p, k) /\ (\A j \in Slots : k < j => ~InSlot(p, j))
       => slots[Owner[p]][k][2] = copy[Owner[p]][p]

\* m does not hear the owner, or has not been heard by it yet, or has been and the owner
\* has not marked its points for it.
Apart(m, p) ==
  LET n == Owner[p] IN
  m \notin connected \/ n \notin connected \/ m \in offline[n] \/ update_all[n]

\* Why m need not hold the owner's value: there was an outage.
Excused(m, p) == outages > 0 /\ (copy[Owner[p]][p] = 0 \/ Apart(m, p))

Holds(m, p) ==
  \/ Pending(p) \/ (\E k \in Slots : InSlot(p, k)) \/ copy[m][p] = copy[Owner[p]][p]
  \/ p \in lost \/ Excused(m, p)

OnItsWay(p) == RingLast(p) /\ \A m \in NonOwners(p) : Holds(m, p)

\* The program does not run between canTask's building a packet and adding it.
PacketValue(p) ==
  LET n == Owner[p] IN
  IsOf(packet[n], p) => packet[n][2] = copy[n][p]

Reach == connected # Nodes => outages > 0

BitsInv ==
  ~Registers /\ ~overrun =>
    /\ Reach
    /\ \A p \in Points : PacketValue(p)
    /\ ~mixed => \A p \in Points : OnItsWay(p)

LEMMA BitsInit == Init => BitsInv
<1> SUFFICES ASSUME Init
             PROVE  Reach /\ (\A p \in Points : PacketValue(p)) /\ \A p \in Points : OnItsWay(p)
  BY DEF BitsInv
<1>1. \A n \in Nodes : /\ packet[n] = Empty /\ \A k \in Slots : slots[n][k] = Empty
                       /\ \A p \in Points : copy[n][p] = 0
  BY DEF Init
<1>2. \A p \in Points : Owner[p] \in Nodes
  BY ClusterAssumption
<1>3. \A p \in Points : OnItsWay(p)
  BY <1>1, <1>2 DEF OnItsWay, RingLast, Holds, InSlot, IsOf, NonOwners
<1>4. Reach /\ \A p \in Points : PacketValue(p)
  BY <1>1, <1>2 DEF Init, Reach, PacketValue, IsOf
<1> QED
  BY <1>3, <1>4

LEMMA BitTypes ==
  ASSUME TypeOK
  PROVE  /\ outages \in Nat /\ \A p \in Points : Owner[p] \in Nodes
         /\ \A p \in Points : \A m \in NonOwners(p) : m \in Nodes /\ m # Owner[p]
BY ClusterAssumption DEF TypeOK, NonOwners

\* A step that leaves what is under way of a bit as it is, and does not make it less pending.
LEMMA RingKept ==
  ASSUME NEW p \in Points, RingLast(p), slots'[Owner[p]] = slots[Owner[p]],
         copy'[Owner[p]][p] = copy[Owner[p]][p], Pending(p) => Pending(p)'
  PROVE  RingLast(p)'
BY DEF RingLast, InSlot

\* A step that leaves the copies of a bit as they are, too, and brings no two nodes together.
LEMMA BitKept ==
  ASSUME NEW p \in Points, OnItsWay(p),
         slots'[Owner[p]] = slots[Owner[p]], Pending(p) => Pending(p)',
         \A m \in Nodes : copy'[m][p] = copy[m][p], lost' = lost,
         \A m \in NonOwners(p) : Excused(m, p) => Excused(m, p)',
         Owner[p] \in Nodes
  PROVE  OnItsWay(p)'
<1>1. RingLast(p)'
  BY RingKept DEF OnItsWay
<1>2. ASSUME NEW m \in NonOwners(p) PROVE Holds(m, p)'
  BY <1>2 DEF OnItsWay, Holds, InSlot, NonOwners
<1> QED
  BY <1>1, <1>2 DEF OnItsWay, NonOwners

LEMMA ScanOnItsWay ==
  ASSUME TypeOK, ~mixed', NEW q \in Points, Scan(q), NEW p \in Points, OnItsWay(p)
  PROVE  OnItsWay(p)'
<1> DEFINE n == Owner[p]
<1>1. n \in Nodes /\ Owner[q] \in Nodes
  BY BitTypes
<1>2. /\ UNCHANGED <<prev, packet, slots, connected, offline, update_all, outages, lost>>
      /\ copy' = [copy EXCEPT ![Owner[q]][q] = input[q]]
  BY DEF Scan, ring, presence, faults
<1>3. CASE p # q \/ copy[n][p] = input[p]
  <2>1. \A m \in Nodes : copy'[m][p] = copy[m][p]
    BY <1>1, <1>2, <1>3 DEF TypeOK
  <2>2. Pending(p) => Pending(p)'
    BY <1>1, <1>2, <2>1 DEF Pending
  <2>3. \A m \in NonOwners(p) : Excused(m, p) => Excused(m, p)'
    BY <1>1, <1>2, <2>1 DEF Excused, Apart
  <2> QED
    BY <1>1, <1>2, <2>1, <2>2, <2>3, BitKept
<1>4. CASE p = q /\ copy[n][p] # input[p]
  <2>1. copy[n][p] = prev[n][p]
    BY <1>4 DEF Scan
  <2>2. copy'[n][p] = input[p]
    BY <1>1, <1>2, <1>4 DEF TypeOK
  <2> QED
    BY <1>2, <1>4, <2>1, <2>2 DEF OnItsWay, RingLast, Holds, Pending
<1> QED
  BY <1>3, <1>4

LEMMA BuildOnItsWay ==
  ASSUME TypeOK, NEW k \in Nodes, SendBuild(k), NEW p \in Points, OnItsWay(p)
  PROVE  OnItsWay(p)'
<1> DEFINE n == Owner[p]
<1> DEFINE q == Min(Changed(k))
<1>1. n \in Nodes
  BY BitTypes
<1>2. /\ UNCHANGED <<copy, prev, slots, connected, offline, update_all, outages, lost>>
      /\ packet' = [packet EXCEPT ![k] = <<q, copy[k][q], stamp[k][q]>>]
      /\ packet[k] = Empty
  BY DEF SendBuild, shared, ring, presence, faults
<1> HIDE DEF q
<1>3. packet'[n] = packet[n] \/ packet[n] = Empty
  BY <1>1, <1>2 DEF TypeOK
<1>4. Pending(p) => Pending(p)'
  BY <1>2, <1>3 DEF Pending, IsOf
<1>5. \A m \in NonOwners(p) : Excused(m, p) => Excused(m, p)'
  BY <1>2 DEF Excused, Apart
<1> QED
  BY <1>1, <1>2, <1>4, <1>5, BitKept

LEMMA AddOnItsWay ==
  ASSUME TypeOK, RingInv, ~overrun', \A q \in Points : Ordered(q) /\ PacketValue(q),
         NEW k \in Nodes, SendAdd(k), NEW p \in Points, OnItsWay(p)
  PROVE  OnItsWay(p)'
<1> DEFINE n == Owner[p]
<1> DEFINE f == packet[k]
<1> DEFINE w == write[k]
<1>1. n \in Nodes /\ f # Empty /\ f[1] \in Points /\ w \in Slots
  BY BitTypes, SlotFacts DEF SendAdd
<1>2. k = Owner[f[1]]
  BY <1>1 DEF Ordered, OwnerSends, NonOwners, IsOf
<1>3. /\ UNCHANGED <<copy, connected, offline, update_all, outages, lost>> /\ AddPacket(k)
      /\ prev' = [prev EXCEPT ![k][f[1]] = copy[k][f[1]]]
      /\ packet' = [packet EXCEPT ![k] = Empty]
  BY DEF SendAdd, presence, faults
<1>4. \A i \in Slots : slots[k][i] # Empty <=> i < w
  BY AddLast
<1>5. /\ \A i \in Slots : slots'[k][i] = IF i = w THEN f ELSE slots[k][i]
      /\ \A x \in Nodes : x # k => slots'[x] = slots[x] /\ packet'[x] = packet[x]
      /\ packet'[k] = Empty
      /\ prev'[n][p] = IF p = f[1] THEN copy[n][p] ELSE prev[n][p]
  <2>1. \A x \in Nodes : packet'[x] = IF x = k THEN Empty ELSE packet[x]
    BY <1>3 DEF TypeOK
  <2>2. prev'[n][p] = IF p = f[1] THEN copy[n][p] ELSE prev[n][p]
    BY <1>1, <1>2, <1>3 DEF TypeOK
  <2> QED
    BY <1>1, <1>3, <2>1, <2>2, AddFacts
<1>6. slots[k][w] = Empty
  BY AddLast
<1>7. \A m \in NonOwners(p) : Excused(m, p) => Excused(m, p)'
  BY <1>3 DEF Excused, Apart
<1>8. w \in Nat /\ \A i \in Slots : i \in Nat
  BY <1>1, RingConstants
<1>9. p = f[1] => f[2] = copy[n][p]
  BY <1>1, <1>2 DEF PacketValue, IsOf
<1>10. p # f[1] => (Pending(p) => Pending(p)')
  <2> SUFFICES ASSUME p # f[1], Pending(p) PROVE Pending(p)'
    OBVIOUS
  <2>1. IsOf(packet[n], p) => IsOf(packet'[n], p)
    BY <1>1, <1>5 DEF IsOf
  <2> QED
    BY <1>3, <1>5, <2>1 DEF Pending
<1> HIDE DEF f, w
<1>11. CASE p = f[1]
  <2>1. n = k /\ IsOf(slots'[n][w], p)
    BY <1>1, <1>2, <1>5, <1>11 DEF IsOf
  <2>2. RingLast(p)'
    <3> SUFFICES ASSUME NEW i \in Slots, InSlot(p, i)',
                        \A j \in Slots : i < j => ~InSlot(p, j)'
                 PROVE  slots'[n][i][2] = copy'[n][p]
      BY DEF RingLast
    <3>1. i = w
      <4>1. CASE i # w
        <5>1. i < w
          BY <1>4, <1>5, <2>1, <4>1 DEF InSlot, IsOf
        <5> QED
          BY <1>1, <2>1, <5>1 DEF InSlot
      <4> QED
        BY <4>1
    <3> QED
      BY <1>1, <1>3, <1>5, <1>9, <1>11, <2>1, <3>1
  <2> QED
    BY <1>1, <2>1, <2>2 DEF OnItsWay, Holds, InSlot, NonOwners
<1>12. CASE p # f[1] /\ n = k
  <2>1. \A i \in Slots : InSlot(p, i)' <=> InSlot(p, i)
    BY <1>5, <1>6, <1>12 DEF InSlot, IsOf
  <2>2. \A i \in Slots : InSlot(p, i) => slots'[n][i] = slots[n][i]
    BY <1>5, <1>6, <1>12 DEF InSlot, IsOf
  <2>3. RingLast(p)'
    <3>1. CASE Pending(p)
      BY <1>10, <1>12, <3>1 DEF RingLast
    <3>2. CASE ~Pending(p)
      BY <1>3, <2>1, <2>2, <3>2 DEF OnItsWay, RingLast
    <3> QED
      BY <3>1, <3>2
  <2>4. ASSUME NEW m \in NonOwners(p) PROVE Holds(m, p)'
    BY <1>3, <1>7, <1>10, <1>12, <2>1, <2>4 DEF OnItsWay, Holds
  <2> QED
    BY <2>3, <2>4 DEF OnItsWay, NonOwners
<1>13. CASE n # k
  <2>1. p # f[1] /\ slots'[n] = slots[n]
    BY <1>1, <1>2, <1>5, <1>13
  <2> QED
    BY <1>1, <1>3, <1>7, <1>10, <2>1, BitKept
<1> QED
  BY <1>11, <1>12, <1>13

\* A node that marks its bits for sending again leaves out only those that are 0.
LEMMA ResendOnItsWay ==
  ASSUME TypeOK, ~Registers, NEW k \in Nodes, UpdateAll(k), NEW p \in Points, OnItsWay(p)
  PROVE  OnItsWay(p)'
<1> DEFINE n == Owner[p]
<1>1. n \in Nodes
  BY BitTypes
<1>2. /\ UNCHANGED <<copy, packet, slots, connected, offline, outages, lost>>
      /\ update_all' = [update_all EXCEPT ![k] = FALSE]
  BY DEF UpdateAll, ring, faults
<1>3. prev'[n][p] = IF n = k /\ copy[n][p] # 0 THEN 0 ELSE prev[n][p]
  BY <1>1 DEF UpdateAll, TypeOK
<1>4. Pending(p) => Pending(p)'
  BY <1>2, <1>3 DEF Pending
<1>5. CASE n = k /\ copy[n][p] # 0
  BY <1>2, <1>3, <1>5 DEF OnItsWay, RingLast, Holds, Pending
<1>6. CASE n # k \/ copy[n][p] = 0
  <2>1. \A m \in NonOwners(p) : Excused(m, p) => Excused(m, p)'
    BY <1>1, <1>2, <1>6 DEF Excused, Apart, TypeOK
  <2> QED
    BY <1>1, <1>2, <1>4, <2>1, BitKept
<1> QED
  BY <1>5, <1>6

\* What is left of the ring when a frame has left it.
LEMMA TakeLast ==
  ASSUME TypeOK, NEW p \in Points, TakeFirst(Owner[p]), RingLast(p), Pending(p) => Pending(p)',
         copy'[Owner[p]][p] = copy[Owner[p]][p]
  PROVE  /\ RingLast(p)'
         /\ Pending(p)' \/ (\E k \in Slots : InSlot(p, k)')
              \/ (\A k \in Slots : ~InSlot(p, k))
              \/ (InSlot(p, 1) /\ slots[Owner[p]][1][2] = copy[Owner[p]][p])
<1> DEFINE n == Owner[p]
<1>1. n \in Nodes
  BY BitTypes
<1>2. \A k \in Slots : slots'[n][k] = IF k < RingLen THEN slots[n][k + 1] ELSE Empty
  BY <1>1, TakeFacts
<1>3. CASE Pending(p)
  BY <1>3 DEF RingLast
<1>4. CASE ~Pending(p)
  <2>1. \A k \in Slots : InSlot(p, k) /\ (\A j \in Slots : k < j => ~InSlot(p, j))
          => slots[n][k][2] = copy[n][p]
    BY <1>4 DEF RingLast
  <2>2. ASSUME NEW k \in Slots, InSlot(p, k)'
        PROVE  k < RingLen /\ k + 1 \in Slots /\ slots'[n][k] = slots[n][k + 1] /\ InSlot(p, k + 1)
    BY <1>2, <2>2, RingConstants DEF InSlot, IsOf
  <2>3. ASSUME NEW k \in Slots, k # 1, InSlot(p, k)
        PROVE  k - 1 \in Slots /\ InSlot(p, k - 1)' /\ slots'[n][k - 1] = slots[n][k]
    <3>1. k - 1 \in Slots /\ k - 1 < RingLen /\ (k - 1) + 1 = k
      BY <2>3, RingConstants
    <3> QED
      BY <1>2, <2>3, <3>1 DEF InSlot
  <2>4. RingLast(p)'
    <3> SUFFICES ASSUME NEW k \in Slots, InSlot(p, k)', \A j \in Slots : k < j => ~InSlot(p, j)'
                 PROVE  slots'[n][k][2] = copy'[n][p]
      BY DEF RingLast
    <3>1. k + 1 \in Slots /\ slots'[n][k] = slots[n][k + 1] /\ InSlot(p, k + 1)
      BY <2>2
    <3>2. ASSUME NEW j \in Slots, k + 1 < j PROVE ~InSlot(p, j)
      <4>1. j # 1 /\ k < j - 1
        <5>1. j \in Nat /\ k \in Nat /\ 1 <= k
          BY RingConstants
        <5> QED
          BY <3>2, <5>1
      <4> QED
        BY <2>3, <4>1
    <3> QED
      BY <2>1, <3>1, <3>2
  <2>5. ASSUME \A k \in Slots : ~InSlot(p, k)', NEW i \in Slots, InSlot(p, i)
        PROVE  InSlot(p, 1) /\ slots[n][1][2] = copy[n][p]
    <3>1. \A k \in Slots : k # 1 => ~InSlot(p, k)
      BY <2>3, <2>5
    <3>2. 1 \in Slots /\ \A j \in Slots : 1 < j => j # 1
      BY RingConstants
    <3> QED
      BY <2>1, <2>5, <3>1, <3>2
  <2> QED
    BY <2>4, <2>5
<1> QED
  BY <1>3, <1>4

\* A frame reaches every node that hears its sender; a node that does not is excused.
LEMMA TransmitOnItsWay ==
  ASSUME TypeOK, Reach, \A q \in Points : Ordered(q), NEW k \in Nodes, Transmit(k),
         NEW p \in Points, OnItsWay(p)
  PROVE  OnItsWay(p)'
<1> DEFINE n == Owner[p]
<1> DEFINE f == slots[k][1]
<1>1. n \in Nodes /\ \A m \in NonOwners(p) : m \in Nodes /\ m # n
  BY BitTypes
<1>2. /\ TakeFirst(k) /\ Peers(k) \subseteq Nodes \ {k} /\ packet' = packet
      /\ \A x \in Nodes, y \in Points :
           IF x \in Peers(k) /\ y = f[1]
             THEN copy'[x][y] = f[2] /\ prev'[x][y] = f[2]
             ELSE copy'[x][y] = copy[x][y] /\ prev'[x][y] = prev[x][y]
  BY TransmitFacts
<1>3. UNCHANGED <<connected, offline, update_all, outages>>
      /\ lost' = IF Owner[f[1]] = k /\ Peers(k) # {} THEN lost \ {f[1]} ELSE lost
  BY DEF Transmit, presence, faults
<1>4. k = Owner[f[1]] /\ f[1] \in Points
  BY <1>2, FirstFacts
<1>5. \A x \in Nodes : x # k => slots'[x] = slots[x]
  BY <1>2, TakeFacts
<1>6. n = k /\ InSlot(p, 1) => f[1] = p
  BY DEF InSlot, IsOf
<1> HIDE DEF f
<1>7. copy'[n][p] = copy[n][p] /\ prev'[n][p] = prev[n][p]
  BY <1>1, <1>2, <1>4
<1>8. Pending(p) => Pending(p)'
  BY <1>2, <1>7 DEF Pending
<1>9. \A m \in NonOwners(p) : Excused(m, p) => Excused(m, p)'
  BY <1>3, <1>7 DEF Excused, Apart
<1>10. CASE n # k
  <2>1. f[1] # p
    BY <1>4, <1>10
  <2>2. \A m \in Nodes : copy'[m][p] = copy[m][p]
    BY <1>2, <2>1
  <2>3. RingLast(p)'
    BY <1>1, <1>5, <1>7, <1>8, <1>10, RingKept DEF OnItsWay
  <2>4. \A j \in Slots : InSlot(p, j)' <=> InSlot(p, j)
    BY <1>1, <1>5, <1>10 DEF InSlot
  <2>5. p \in lost => p \in lost'
    BY <1>3, <2>1
  <2>6. ASSUME NEW m \in NonOwners(p) PROVE Holds(m, p)'
    BY <1>1, <1>8, <1>9, <2>2, <2>4, <2>5, <2>6 DEF OnItsWay, Holds
  <2> QED
    BY <2>3, <2>6 DEF OnItsWay, NonOwners
<1>11. CASE n = k /\ f[1] # p
  <2>1. /\ RingLast(p)'
        /\ \/ Pending(p)' \/ (\E j \in Slots : InSlot(p, j)')
           \/ \A j \in Slots : ~InSlot(p, j)
    BY <1>2, <1>6, <1>7, <1>8, <1>11, TakeLast DEF OnItsWay
  <2>2. \A m \in Nodes : copy'[m][p] = copy[m][p]
    BY <1>2, <1>11
  <2>3. p \in lost => p \in lost'
    BY <1>3, <1>11
  <2>4. ASSUME NEW m \in NonOwners(p) PROVE Holds(m, p)'
    BY <1>1, <1>8, <1>9, <2>1, <2>2, <2>3, <2>4 DEF OnItsWay, Holds
  <2> QED
    BY <2>1, <2>4 DEF OnItsWay, NonOwners
<1>12. CASE n = k /\ f[1] = p
  <2>1. /\ RingLast(p)'
        /\ \/ Pending(p)' \/ (\E j \in Slots : InSlot(p, j)')
           \/ f[2] = copy[n][p]
    <3>1. InSlot(p, 1)
      BY <1>2, <1>12 DEF InSlot, IsOf, TakeFirst, f
    <3> QED
      BY <1>2, <1>7, <1>8, <1>12, <3>1, TakeLast, RingConstants DEF OnItsWay, f
  <2>2. ASSUME NEW m \in NonOwners(p) PROVE Holds(m, p)'
    <3>1. CASE m \in Peers(k)
      <4>1. copy'[m][p] = f[2]
        BY <1>1, <1>2, <1>12, <3>1
      <4> QED
        BY <1>7, <2>1, <4>1 DEF Holds
    <3>2. CASE m \notin Peers(k)
      <4>1. m \notin connected \/ n \notin connected
        BY <1>1, <1>12, <2>2, <3>2 DEF Peers
      <4>2. Excused(m, p)
        BY <1>1, <2>2, <4>1 DEF Reach, Excused, Apart
      <4> QED
        BY <1>9, <2>2, <4>2 DEF Holds
    <3> QED
      BY <3>1, <3>2
  <2> QED
    BY <2>1, <2>2 DEF OnItsWay, NonOwners
<1> QED
  BY <1>10, <1>11, <1>12

LEMMA LoseOnItsWay ==
  ASSUME TypeOK, \A q \in Points : Ordered(q), NEW k \in Nodes, Lose(k),
         NEW p \in Points, OnItsWay(p)
  PROVE  OnItsWay(p)'
<1> DEFINE n == Owner[p]
<1>1. n \in Nodes /\ \A m \in NonOwners(p) : m \in Nodes /\ m # n
  BY BitTypes
<1>2. /\ TakeFirst(k) /\ lost' = lost \cup {slots[k][1][1]}
      /\ UNCHANGED <<copy, prev, packet, connected, offline, update_all, outages>>
  BY DEF Lose, shared, presence
<1>3. Pending(p) => Pending(p)'
  BY <1>2 DEF Pending
<1>4. \A m \in NonOwners(p) : Excused(m, p) => Excused(m, p)'
  BY <1>2 DEF Excused, Apart
<1>5. \A x \in Nodes : x # k => slots'[x] = slots[x]
  BY <1>2, TakeFacts
<1>6. RingLast(p)'
  <2>1. CASE n # k
    BY <1>1, <1>2, <1>3, <1>5, <2>1, RingKept DEF OnItsWay
  <2>2. CASE n = k
    BY <1>2, <1>3, <2>2, TakeLast DEF OnItsWay
  <2> QED
    BY <2>1, <2>2
<1>7. \/ Pending(p)' \/ (\E j \in Slots : InSlot(p, j)') \/ p \in lost'
      \/ \A j \in Slots : ~InSlot(p, j)
  <2>1. CASE n # k
    BY <1>1, <1>5, <2>1 DEF InSlot
  <2>2. CASE n = k
    <3>1. InSlot(p, 1) => p \in lost'
      BY <1>2, <2>2 DEF InSlot, IsOf
    <3> QED
      BY <1>2, <1>3, <2>2, <3>1, TakeLast DEF OnItsWay
  <2> QED
    BY <2>1, <2>2
<1>8. ASSUME NEW m \in NonOwners(p) PROVE Holds(m, p)'
  BY <1>2, <1>3, <1>4, <1>7, <1>8 DEF OnItsWay, Holds
<1> QED
  BY <1>6, <1>8 DEF OnItsWay, NonOwners

LEMMA RestartOnItsWay ==
  ASSUME TypeOK, Reach, NEW k \in Nodes, Restart(k), NEW p \in Points, OnItsWay(p)
  PROVE  OnItsWay(p)'
<1> DEFINE n == Owner[p]
<1>1. n \in Nodes /\ \A m \in NonOwners(p) : m \in Nodes /\ m # n
  BY BitTypes
<1>2. UNCHANGED <<connected, outages, lost>> /\ k \notin connected /\ outages > 0
  BY DEF Restart, faults, Reach
<1>3. \A x \in Nodes :
        IF x = k THEN copy'[x][p] = 0 /\ \A j \in Slots : slots'[x][j] = Empty
                 ELSE /\ copy'[x][p] = copy[x][p] /\ prev'[x][p] = prev[x][p]
                      /\ packet'[x] = packet[x] /\ slots'[x] = slots[x]
                      /\ offline'[x] = offline[x] /\ update_all'[x] = update_all[x]
  BY DEF Restart, TypeOK
<1>4. CASE k = n
  <2>1. RingLast(p)'
    BY <1>1, <1>3, <1>4 DEF RingLast, InSlot, IsOf
  <2>2. copy'[n][p] = 0 /\ outages' > 0
    BY <1>1, <1>2, <1>3, <1>4
  <2> QED
    BY <2>1, <2>2 DEF OnItsWay, Holds, Excused
<1>5. CASE k # n
  <2>1. /\ RingLast(p)' /\ (Pending(p) => Pending(p)') /\ copy'[n][p] = copy[n][p]
        /\ \A j \in Slots : InSlot(p, j)' <=> InSlot(p, j)
    BY <1>1, <1>3, <1>5 DEF OnItsWay, RingLast, Pending, InSlot
  <2>2. \A m \in NonOwners(p) : Excused(m, p) => Excused(m, p)'
    BY <1>1, <1>2, <1>3, <1>5 DEF Excused, Apart
  <2>3. ASSUME NEW m \in NonOwners(p) PROVE Holds(m, p)'
    <3>1. CASE m = k
      BY <1>2, <3>1 DEF Holds, Excused, Apart
    <3>2. CASE m # k
      BY <1>1, <1>2, <1>3, <2>1, <2>2, <2>3, <3>2 DEF OnItsWay, Holds
    <3> QED
      BY <3>1, <3>2
  <2> QED
    BY <2>1, <2>3 DEF OnItsWay, NonOwners
<1> QED
  BY <1>4, <1>5

\* Who hears whom: a node that returns is held for offline until its heartbeat comes, and
\* the heartbeat has the points of those that hear it sent again.
LEMMA PresenceOnItsWay ==
  ASSUME TypeOK, NEW p \in Points, OnItsWay(p),
         \/ \E q \in Points : InputChange(q)
         \/ \E k \in Nodes : Heartbeat(k) \/ Disconnect(k) \/ Connect(k)
         \/ \E k, j \in Nodes : MissHeartbeats(k, j)
         \/ UNCHANGED vars
  PROVE  OnItsWay(p)'
<1> DEFINE n == Owner[p]
<1>1. n \in Nodes /\ \A m \in NonOwners(p) : m \in Nodes /\ m # n
  BY BitTypes
<1>2. UNCHANGED <<copy, prev, packet, slots, lost>>
  BY DEF InputChange, Heartbeat, Disconnect, Connect, MissHeartbeats, vars, shared, ring, history
<1>3. outages > 0 => outages' > 0
  BY BitTypes DEF InputChange, Heartbeat, Disconnect, Connect, MissHeartbeats, vars, faults
<1>4. ASSUME NEW m \in NonOwners(p) PROVE Apart(m, p) => Apart(m, p)'
  <2>1. ASSUME NEW k \in Nodes, Heartbeat(k) PROVE Apart(m, p) => Apart(m, p)'
    <3>1. /\ connected' = connected
          /\ update_all'[n] = (update_all[n] \/ (n \in Peers(k) /\ k \in offline[n]))
          /\ offline'[n] = IF n \in Peers(k) THEN offline[n] \ {k} ELSE offline[n]
      BY <1>1, <2>1 DEF Heartbeat
    <3> QED
      BY <3>1 DEF Apart
  <2>2. ASSUME NEW k \in Nodes, Connect(k) PROVE Apart(m, p) => Apart(m, p)'
    BY <1>1, <1>4, <2>2 DEF Connect, Apart
  <2>3. ASSUME NEW k \in Nodes, Disconnect(k) PROVE Apart(m, p) => Apart(m, p)'
    BY <2>3 DEF Disconnect, Apart
  <2>4. ASSUME NEW k \in Nodes, NEW j \in Nodes, MissHeartbeats(k, j)
        PROVE  Apart(m, p) => Apart(m, p)'
    BY <1>1, <2>4 DEF MissHeartbeats, Apart, TypeOK
  <2>5. CASE UNCHANGED presence
    BY <2>5 DEF presence, Apart
  <2> QED
    BY <2>1, <2>2, <2>3, <2>4, <2>5 DEF InputChange, vars
<1>5. \A m \in NonOwners(p) : Excused(m, p) => Excused(m, p)'
  BY <1>2, <1>3, <1>4 DEF Excused
<1>6. Pending(p) => Pending(p)'
  BY <1>2 DEF Pending
<1> QED
  BY <1>1, <1>2, <1>5, <1>6, BitKept

LEMMA ReachStep == TypeOK /\ Reach /\ [Next]_vars => Reach'
<1> SUFFICES ASSUME TypeOK, Reach, [Next]_vars PROVE Reach'
  OBVIOUS
<1>1. outages \in Nat /\ connected \subseteq Nodes
  BY BitTypes DEF TypeOK
<1>2. ASSUME NEW n \in Nodes, Disconnect(n) \/ Connect(n) PROVE Reach'
  BY <1>1, <1>2 DEF Disconnect, Connect, faults, Reach
<1>3. CASE UNCHANGED <<connected, outages>>
  BY <1>3 DEF Reach
<1> QED
  BY <1>2, <1>3 DEF Next, vars, presence, faults, InputChange, Scan, SendBuild, SendAdd, UpdateAll,
                    Transmit, Lose, Restart, Heartbeat, MissHeartbeats

LEMMA PacketStep ==
  ASSUME TypeOK, \A p \in Points : Ordered(p) /\ PacketValue(p), [Next]_vars, NEW p \in Points
  PROVE  PacketValue(p)'
<1> DEFINE n == Owner[p]
<1>1. n \in Nodes
  BY BitTypes
<1>2. CASE packet'[n] = packet[n] /\ copy'[n][p] = copy[n][p]
  BY <1>2 DEF PacketValue
<1>3. CASE packet'[n] = Empty
  BY <1>3 DEF PacketValue, IsOf
<1>4. ASSUME NEW q \in Points, Scan(q) PROVE PacketValue(p)'
  <2>1. Owner[q] \in Nodes /\ packet' = packet /\ packet[Owner[q]] = Empty
    BY <1>4, BitTypes DEF Scan
  <2>2. q # p => copy'[n][p] = copy[n][p]
    BY <1>1, <1>4, <2>1 DEF Scan, TypeOK
  <2> QED
    BY <1>2, <1>3, <2>1, <2>2
<1>5. ASSUME NEW k \in Nodes, SendBuild(k) PROVE PacketValue(p)'
  <2> DEFINE q == Min(Changed(k))
  <2>1. packet' = [packet EXCEPT ![k] = <<q, copy[k][q], stamp[k][q]>>] /\ copy' = copy
    BY <1>5 DEF SendBuild, shared
  <2> HIDE DEF q
  <2>2. packet'[n] = IF n = k THEN <<q, copy[k][q], stamp[k][q]>> ELSE packet[n]
    BY <1>1, <2>1 DEF TypeOK
  <2> QED
    BY <1>1, <2>1, <2>2 DEF PacketValue, IsOf
<1>6. ASSUME NEW k \in Nodes, Transmit(k) PROVE PacketValue(p)'
  <2>1. packet' = packet /\ TakeFirst(k) /\ Peers(k) \subseteq Nodes \ {k}
        /\ (copy'[n][p] # copy[n][p] => n \in Peers(k) /\ p = slots[k][1][1])
    BY <1>1, <1>6, TransmitFacts
  <2>2. k = Owner[slots[k][1][1]]
    BY <2>1, FirstFacts
  <2> QED
    BY <1>2, <2>1, <2>2
<1>7. ASSUME NEW k \in Nodes, SendAdd(k) \/ Restart(k) PROVE PacketValue(p)'
  BY <1>1, <1>2, <1>3, <1>7 DEF SendAdd, Restart, TypeOK
<1>8. CASE UNCHANGED <<packet, copy>>
  BY <1>2, <1>8
<1> QED
  BY <1>4, <1>5, <1>6, <1>7, <1>8
     DEF Next, vars, shared, InputChange, UpdateAll, Lose, Heartbeat, Disconnect, Connect,
         MissHeartbeats

LEMMA BitsStep == TypeOK /\ RingInv /\ StampInv /\ BitsInv /\ [Next]_vars => BitsInv'
<1> SUFFICES ASSUME TypeOK, RingInv, StampInv, BitsInv, [Next]_vars, ~Registers, ~overrun'
             PROVE  /\ Reach' /\ \A p \in Points : PacketValue(p)'
                    /\ ~mixed' => \A p \in Points : OnItsWay(p)'
  BY DEF BitsInv
<1>1. ~overrun /\ (~mixed' => ~mixed)
  BY HistoryStep
<1>2. /\ Reach /\ \A p \in Points : Ordered(p) /\ PacketValue(p)
      /\ ~mixed => \A p \in Points : OnItsWay(p)
  BY <1>1 DEF BitsInv, StampInv
<1>3. ASSUME ~mixed', NEW p \in Points PROVE OnItsWay(p)'
  BY <1>1, <1>2, <1>3, ScanOnItsWay, BuildOnItsWay, AddOnItsWay, ResendOnItsWay, TransmitOnItsWay,
     LoseOnItsWay, RestartOnItsWay, PresenceOnItsWay
     DEF Next
<1> QED
  BY <1>2, <1>3, ReachStep, PacketStep

\* What the owner of a bit has sent has arrived: nothing of it is left to be sent or in
\* the ring, none of its frames was lost without another's arriving after it, and there was
\* no outage, or m and the owner have heard each other since.
Arrived(m, p) ==
  LET n == Owner[p] IN
  /\ ~Pending(p) /\ \A k \in Slots : ~InSlot(p, k)
  /\ p \notin lost
  /\ outages = 0 \/ (copy[n][p] # 0 /\ ~Apart(m, p))
  => copy[m][p] = copy[n][p]

\* For any nodes, owners and rings, as long as no ring overflows and nothing comes between
\* an owner and its bit (mixed): a bit that has gone out, in a single attempt, is the same in
\* every other node if there was no outage, and after outages and restarts it is, unless it
\* is 0, in every node that hears the owner and has been heard by it, provided that after the
\* last frame of the bit that the bus lost one of the owner's found a listener.  For a node that
\* was away is held for offline until its heartbeat has the bits that are set sent again,
\* a frame that is not lost reaches every node that hears the owner, and the owner's
\* last frame carries what it holds.
THEOREM BitsArrive ==
  Spec => [](~Registers /\ ~mixed /\ ~overrun
               => \A p \in Points : \A m \in NonOwners(p) : Arrived(m, p))
<1>1. TypeOK /\ BitsInv
        => (~Registers /\ ~mixed /\ ~overrun
              => \A p \in Points : \A m \in NonOwners(p) : Arrived(m, p))
  <2> SUFFICES ASSUME TypeOK, BitsInv, ~Registers, ~mixed, ~overrun,
                      NEW p \in Points, NEW m \in NonOwners(p)
               PROVE  Arrived(m, p)
    OBVIOUS
  <2>1. Holds(m, p)
    BY DEF BitsInv, OnItsWay
  <2>2. outages \in Nat
    BY BitTypes
  <2> QED
    BY <2>1, <2>2 DEF Holds, Excused, Arrived
<1> QED
  BY <1>1, ClusterTypeInit, ClusterTypeStep, RingInit, RingStep, StampInit, StampStep, BitsInit,
     BitsStep, PTL DEF Spec
-----------------------------------------------------------------------------
(* The output modules: types. *)

DoFrames == [to : Modules, value : BOOLEAN]

LEMMA DoConstants ==
  /\ NumModules \in Nat /\ NumModules > 0 /\ 1 \in Modules
  /\ HeartbeatMax \in Nat /\ HeartbeatMax > 0 /\ MaxFrames \in Nat /\ MaxFrames > 0
  /\ MaxLosses \in Nat
BY DoAssumption DEF Modules

\* The count that the supervision has read is below its limit.
DoTypes == DoTypeOK /\ (cpc = "count" => loaded < HeartbeatMax)

LEMMA DoTypeInit == DoInit => DoTypes
<1> SUFFICES ASSUME DoInit PROVE DoTypes
  OBVIOUS
<1>1. /\ dat \in 1 .. NumModules + 1 /\ upd_do_mod_num \in Modules /\ at \in Modules
      /\ loaded \in 0 .. HeartbeatMax /\ heartbeat_cnt \in [Modules -> 0 .. HeartbeatMax]
      /\ losses \in 0 .. MaxLosses
  BY DoConstants DEF DoInit
<1>2. frames \in Seq([to : Modules, value : BOOLEAN]) /\ Len(frames) <= MaxFrames
  BY DoConstants DEF DoInit
<1> QED
  BY <1>1, <1>2 DEF DoInit, DoTypes, DoTypeOK

\* A frame put into the ring is one of a module, and there was room for it.
LEMMA PutFacts ==
  ASSUME DoTypeOK, NEW m \in Modules, Put(m)
  PROVE  /\ frames' \in Seq(DoFrames) /\ Len(frames') <= MaxFrames
         /\ sent' \in [Modules -> BOOLEAN]
         /\ sent'[m] = do_state[m] /\ \A k \in Modules : k # m => sent'[k] = sent[k]
<1>1. [to |-> m, value |-> do_state[m]] \in DoFrames /\ frames \in Seq(DoFrames)
  BY DEF DoTypeOK, DoFrames
<1>2. frames' \in Seq(DoFrames) /\ Len(frames') = Len(frames) + 1 /\ Len(frames) \in Nat
  BY <1>1, AppendProperties, LenProperties DEF Put
<1> QED
  BY <1>2, DoConstants DEF Put, DoTypeOK

LEMMA DoTypeStep == DoTypes /\ [DoNext]_do_vars => DoTypes'
<1> SUFFICES ASSUME DoTypeOK, cpc = "count" => loaded < HeartbeatMax, [DoNext]_do_vars
             PROVE  DoTypes'
  BY DEF DoTypes
<1>1. CASE UNCHANGED do_vars
  BY <1>1 DEF do_vars, outputs, link, cycle, can, modules, do_history, DoTypes, DoTypeOK
<1>2. CASE CycleCompare
  <2>1. dat \in Modules /\ dat' \in 1 .. NumModules + 1
    BY <1>2, DoConstants DEF CycleCompare, DoTypeOK, Modules
  <2>2. prev_do_state' \in [Modules -> BOOLEAN] /\ update_data' \in [Modules -> BOOLEAN]
    BY <1>2, <2>1 DEF CycleCompare, DoTypeOK
  <2> QED
    BY <1>2, <2>1, <2>2
       DEF CycleCompare, link, can, modules, do_history, DoTypes, DoTypeOK
<1>3. CASE CycleRefresh \/ CycleEnd
  <2>1. dat' \in 1 .. NumModules + 1 /\ upd_do_mod_num' \in Modules
    BY <1>3, DoConstants DEF CycleRefresh, CycleEnd, DoTypeOK, Modules
  <2>2. update_data' \in [Modules -> BOOLEAN]
    BY <1>3 DEF CycleRefresh, CycleEnd, outputs, DoTypeOK
  <2> QED
    BY <1>3, <2>1, <2>2
       DEF CycleRefresh, CycleEnd, outputs, link, can, modules, do_history, DoTypes, DoTypeOK
<1>4. CASE PassPick
  <2>1. Flagged \in SUBSET Nat /\ Flagged \subseteq Modules /\ Flagged # {}
    BY <1>4 DEF PassPick, Flagged, Modules
  <2>2. at' \in Modules
    BY <1>4, <2>1, MinIn DEF PassPick
  <2> QED
    BY <1>4, <2>2
       DEF PassPick, link, cycle, modules, do_history, DoTypes, DoTypeOK
<1>5. CASE PassSend
  <2>1. at \in Modules /\ Put(at)
    BY <1>5 DEF PassSend, DoTypeOK
  <2>2. frames' \in Seq(DoFrames) /\ Len(frames') <= MaxFrames /\ sent' \in [Modules -> BOOLEAN]
    BY <2>1, PutFacts
  <2> QED
    BY <1>5, <2>2, DoConstants
       DEF PassSend, outputs, link, cycle, modules, DoTypes, DoTypeOK, DoFrames
<1>6. CASE SupStart \/ SupCheck
  <2>1. /\ at' \in Modules /\ loaded' \in 0 .. HeartbeatMax
        /\ cpc' \in {"check", "count", "down"}
        /\ cpc' = "count" => loaded' < HeartbeatMax
    BY <1>6, DoConstants DEF SupStart, SupCheck, DoTypeOK
  <2> QED
    BY <1>6, <2>1
       DEF SupStart, SupCheck, outputs, link, cycle, modules, do_history, DoTypes, DoTypeOK
<1>7. CASE SupCount \/ SupDown \/ SupDrop
  <2>1. at' \in Modules /\ cpc' \in {"idle", "check", "drop"}
    BY <1>7, DoConstants DEF SupCount, SupDown, SupDrop, SupNext, DoTypeOK, Modules
  <2>2. heartbeat_cnt' \in [Modules -> 0 .. HeartbeatMax] /\ loaded' \in 0 .. HeartbeatMax
    <3>1. CASE SupCount
      <4>1. loaded + 1 \in 0 .. HeartbeatMax /\ 0 \in 0 .. HeartbeatMax
        BY <3>1, DoConstants DEF SupCount, DoTypeOK
      <4> QED
        BY <3>1, <4>1 DEF SupCount, DoTypeOK
    <3>2. CASE SupDown \/ SupDrop
      BY <3>2 DEF SupDown, SupDrop, link, DoTypeOK
    <3> QED
      BY <1>7, <3>1, <3>2
  <2>3. link_state' \in [Modules -> {0, 1}] /\ update_data' \in [Modules -> BOOLEAN]
    BY <1>7 DEF SupCount, SupDown, SupDrop, link, outputs, DoTypeOK
  <2>4. clean' \in BOOLEAN
    BY <1>7 DEF SupCount, SupDown, SupDrop, do_history, DoTypeOK
  <2> QED
    BY <1>7, <2>1, <2>2, <2>3, <2>4
       DEF SupCount, SupDown, SupDrop, outputs, link, cycle, modules, do_history, DoTypes, DoTypeOK
<1>8. CASE Deliver
  <2>1. frames \in Seq(DoFrames) /\ frames # << >>
    BY <1>8 DEF Deliver, DoTypeOK, DoFrames
  <2>2. Head(frames) \in DoFrames /\ frames' \in Seq(DoFrames) /\ Len(frames') <= MaxFrames
    BY <1>8, <2>1, HeadTailProperties, LenProperties, DoConstants DEF Deliver, DoTypeOK
  <2>3. Head(frames).to \in Modules /\ Head(frames).value \in BOOLEAN
    BY <2>2 DEF DoFrames
  <2>4. applied' \in [Modules -> BOOLEAN]
    BY <1>8, <2>3 DEF Deliver, DoTypeOK
  <2> QED
    BY <1>8, <2>2, <2>4
       DEF Deliver, outputs, link, cycle, can, do_history, DoTypes, DoTypeOK, DoFrames
<1>9. ASSUME NEW m \in Modules, WriteOutput(m) PROVE DoTypes'
  <2>1. do_state' \in [Modules -> BOOLEAN]
    BY <1>9 DEF WriteOutput, DoTypeOK
  <2>2. clean' \in BOOLEAN
    BY <1>9 DEF WriteOutput, DoTypeOK
  <2> QED
    BY <1>9, <2>1, <2>2 DEF WriteOutput, link, cycle, can, modules, DoTypes, DoTypeOK
<1>10. ASSUME NEW m \in Modules, ExtHeartbeat(m) PROVE DoTypes'
  <2>1. /\ frames' \in Seq(DoFrames) /\ Len(frames') <= MaxFrames
        /\ sent' \in [Modules -> BOOLEAN]
    BY <1>10, PutFacts DEF ExtHeartbeat, DoTypeOK, DoFrames
  <2>2. /\ update_data' \in [Modules -> BOOLEAN] /\ link_state' \in [Modules -> {0, 1}]
        /\ heartbeat_cnt' \in [Modules -> 0 .. HeartbeatMax]
    BY <1>10, DoConstants DEF ExtHeartbeat, DoTypeOK
  <2> QED
    BY <1>10, <2>1, <2>2 DEF ExtHeartbeat, cycle, can, DoTypes, DoTypeOK, DoFrames
<1>11. ASSUME NEW m \in Modules, ModuleOff(m) \/ ModuleOn(m) PROVE DoTypes'
  <2>1. alive' \in [Modules -> BOOLEAN]
    BY <1>11 DEF ModuleOff, ModuleOn, DoTypeOK
  <2>2. applied' \in [Modules -> BOOLEAN]
    <3>1. applied' = applied \/ \E v \in BOOLEAN : applied' = [applied EXCEPT ![m] = v]
      BY <1>11 DEF ModuleOff, ModuleOn, DoTypeOK
    <3> QED
      BY <3>1 DEF DoTypeOK
  <2>3. losses' \in 0 .. MaxLosses
    BY <1>11, DoConstants DEF ModuleOff, ModuleOn, modules, DoTypeOK
  <2> QED
    BY <1>11, <2>1, <2>2, <2>3
       DEF ModuleOff, ModuleOn, outputs, link, cycle, can, do_history, DoTypes, DoTypeOK
<1>12. CASE PassNone
  BY <1>12 DEF PassNone, outputs, link, cycle, can, modules, do_history, DoTypes, DoTypeOK
<1>13. CASE LoseFrame
  <2>1. frames \in Seq(DoFrames) /\ frames # << >>
    BY <1>13 DEF LoseFrame, DoTypeOK, DoFrames
  <2>2. frames' \in Seq(DoFrames) /\ Len(frames') <= MaxFrames
    BY <1>13, <2>1, HeadTailProperties, LenProperties, DoConstants DEF LoseFrame, DoTypeOK
  <2>3. losses' \in 0 .. MaxLosses
    BY <1>13, DoConstants DEF LoseFrame, DoTypeOK
  <2> QED
    BY <1>13, <2>2, <2>3
       DEF LoseFrame, outputs, link, cycle, can, do_history, DoTypes, DoTypeOK, DoFrames
<1> QED
  BY <1>1, <1>2, <1>3, <1>4, <1>5, <1>6, <1>7, <1>8, <1>9, <1>10, <1>11, <1>12, <1>13
     DEF DoNext, Cycle, Pass, Supervise

-----------------------------------------------------------------------------
(* The output modules: a change is on its way, or the module is gone.        *)

\* What the module was last sent is what the program wants, or it is about to be sent
\* again.
Kept(m) ==
  \/ sent[m] = do_state[m] \/ update_data[m] \/ prev_do_state[m] # do_state[m]
  \/ cpc = "send" /\ at = m

\* The supervision has given the module up, and is not about to count it again.
Gone(m) ==
  link_state[m] = 0 /\ heartbeat_cnt[m] = HeartbeatMax /\ ~(cpc = "count" /\ at = m)

\* No heartbeat has come since the supervision took the link down.
Dropping == cpc = "drop" /\ link_state[at] = 0 => heartbeat_cnt[at] = HeartbeatMax

KeptInv == clean => Dropping /\ \A m \in Modules : Kept(m) \/ Gone(m)

LEMMA KeptInit == DoInit => KeptInv
BY DEF DoInit, KeptInv, Dropping, Kept

LEMMA KeptStep == DoTypes /\ KeptInv /\ [DoNext]_do_vars => KeptInv'
<1> SUFFICES ASSUME DoTypeOK, cpc = "count" => loaded < HeartbeatMax,
                    KeptInv, [DoNext]_do_vars, clean'
             PROVE  Dropping' /\ \A m \in Modules : Kept(m)' \/ Gone(m)'
  BY DEF DoTypes, KeptInv
<1>0. clean /\ Dropping /\ \A m \in Modules : Kept(m) \/ Gone(m)
  <2>1. clean
    BY DEF DoNext, Cycle, Pass, Supervise, do_vars, do_history, CycleCompare, CycleRefresh,
           CycleEnd, PassPick, PassNone, PassSend, SupStart, SupCheck, SupCount, SupDown, SupDrop,
           Deliver, LoseFrame, WriteOutput, ExtHeartbeat, ModuleOff, ModuleOn
  <2> QED
    BY <2>1 DEF KeptInv
<1>1. CASE \/ UNCHANGED do_vars \/ PassNone \/ Deliver \/ LoseFrame
           \/ \E m \in Modules : ModuleOff(m) \/ ModuleOn(m)
  <2>1. /\ UNCHANGED <<do_state, prev_do_state, update_data, link_state, heartbeat_cnt>>
        /\ UNCHANGED <<cpc, at, sent>>
    BY <1>1 DEF do_vars, outputs, link, can, do_history, PassNone, Deliver, LoseFrame, ModuleOff, ModuleOn
  <2> QED
    BY <1>0, <2>1 DEF Dropping, Kept, Gone
<1>2. CASE CycleCompare
  <2>1. UNCHANGED <<do_state, link_state, heartbeat_cnt, cpc, at, sent>>
    BY <1>2 DEF CycleCompare, link, can, do_history
  <2>2. \A m \in Modules : Kept(m) => Kept(m)'
    BY <1>2, <2>1 DEF CycleCompare, Kept, DoTypeOK
  <2> QED
    BY <1>0, <2>1, <2>2 DEF Dropping, Gone
<1>3. CASE CycleRefresh \/ CycleEnd
  <2>1. /\ UNCHANGED <<do_state, prev_do_state, link_state, heartbeat_cnt, cpc, at, sent>>
        /\ \A m \in Modules : update_data[m] => update_data'[m]
    BY <1>3 DEF CycleRefresh, CycleEnd, outputs, link, can, do_history, DoTypeOK
  <2> QED
    BY <1>0, <2>1 DEF Dropping, Kept, Gone
<1>4. CASE PassPick
  <2>1. /\ UNCHANGED <<do_state, prev_do_state, link_state, heartbeat_cnt, sent>>
        /\ cpc = "idle" /\ cpc' = "send"
        /\ \A m \in Modules : update_data'[m] = update_data[m] \/ m = at'
    BY <1>4 DEF PassPick, link, do_history, DoTypeOK
  <2> QED
    BY <1>0, <2>1 DEF Dropping, Kept, Gone
<1>5. CASE PassSend
  <2>1. at \in Modules /\ Put(at)
    BY <1>5 DEF PassSend, DoTypeOK
  <2>2. sent'[at] = do_state[at] /\ \A m \in Modules : m # at => sent'[m] = sent[m]
    BY <2>1, PutFacts
  <2>3. /\ UNCHANGED <<do_state, prev_do_state, update_data, link_state, heartbeat_cnt>>
        /\ cpc = "send" /\ cpc' = "idle"
    BY <1>5 DEF PassSend, outputs, link
  <2> QED
    BY <1>0, <2>2, <2>3 DEF Dropping, Kept, Gone
<1>6. CASE SupStart
  <2>1. /\ UNCHANGED <<do_state, prev_do_state, update_data, link_state, heartbeat_cnt, sent>>
        /\ cpc = "idle" /\ cpc' = "check"
    BY <1>6 DEF SupStart, outputs, link, do_history
  <2> QED
    BY <1>0, <2>1 DEF Dropping, Kept, Gone
<1>7. CASE SupCheck
  <2>1. /\ UNCHANGED <<do_state, prev_do_state, update_data, link_state, heartbeat_cnt, sent, at>>
        /\ cpc = "check" /\ cpc' \in {"count", "down"}
        /\ cpc' = "count" => heartbeat_cnt[at] < HeartbeatMax
    BY <1>7 DEF SupCheck, outputs, link, do_history
  <2>2. \A m \in Modules : Kept(m)' \/ Gone(m)'
    BY <1>0, <2>1, DoConstants DEF Kept, Gone
  <2> QED
    BY <2>1, <2>2 DEF Dropping
<1>8. CASE SupCount
  <2>1. /\ UNCHANGED <<do_state, prev_do_state, update_data, sent>>
        /\ cpc = "count" /\ cpc' \in {"check", "idle"} /\ at \in Modules
        /\ \A m \in Modules : m # at => link_state'[m] = link_state[m]
                                        /\ heartbeat_cnt'[m] = heartbeat_cnt[m]
    BY <1>8 DEF SupCount, SupNext, outputs, do_history, DoTypeOK
  <2> QED
    BY <1>0, <2>1 DEF Dropping, Kept, Gone
<1>9. CASE SupDown
  <2>1. /\ UNCHANGED <<do_state, prev_do_state, update_data, heartbeat_cnt, sent, at>>
        /\ cpc = "down" /\ cpc' = "drop" /\ heartbeat_cnt[at] = HeartbeatMax
        /\ \A m \in Modules : link_state[m] = 0 => link_state'[m] = 0
    BY <1>9 DEF SupDown, outputs, DoTypeOK
  <2> QED
    BY <1>0, <2>1 DEF Dropping, Kept, Gone
<1>10. CASE SupDrop
  <2>1. /\ UNCHANGED <<do_state, prev_do_state, link_state, heartbeat_cnt, sent>>
        /\ cpc = "drop" /\ cpc' \in {"check", "idle"} /\ link_state[at] = 0
        /\ \A m \in Modules : update_data'[m] = update_data[m] \/ m = at
    BY <1>10 DEF SupDrop, SupNext, link, DoTypeOK
  <2>2. heartbeat_cnt[at] = HeartbeatMax
    BY <1>0, <2>1 DEF Dropping
  <2> QED
    BY <1>0, <2>1, <2>2 DEF Dropping, Kept, Gone
<1>11. ASSUME NEW m \in Modules, WriteOutput(m)
       PROVE  Dropping' /\ \A k \in Modules : Kept(k)' \/ Gone(k)'
  <2>1. /\ UNCHANGED <<prev_do_state, update_data, link_state, heartbeat_cnt, cpc, at, sent>>
        /\ \A k \in Modules : k # m => do_state'[k] = do_state[k]
        /\ do_state'[m] # prev_do_state[m] \/ sent[m] = do_state'[m]
    BY <1>11 DEF WriteOutput, link, can, DoTypeOK
  <2> QED
    BY <1>0, <2>1 DEF Dropping, Kept, Gone
<1>12. ASSUME NEW m \in Modules, ExtHeartbeat(m)
       PROVE  Dropping' /\ \A k \in Modules : Kept(k)' \/ Gone(k)'
  <2>1. /\ UNCHANGED <<do_state, prev_do_state, cpc, at>>
        /\ link_state'[m] = 1 /\ update_data'[m] = (update_data[m] \/ link_state[m] = 0)
        /\ \A k \in Modules : k # m => /\ update_data'[k] = update_data[k]
                                       /\ link_state'[k] = link_state[k]
                                       /\ heartbeat_cnt'[k] = heartbeat_cnt[k]
    BY <1>12 DEF ExtHeartbeat, can, DoTypeOK
  <2>2. \A k \in Modules : sent'[k] = sent[k] \/ sent'[k] = do_state[k]
    BY <1>12, PutFacts DEF ExtHeartbeat
  <2>3. Dropping'
    BY <1>0, <2>1 DEF Dropping, DoTypeOK
  <2>4. ASSUME NEW k \in Modules PROVE Kept(k)' \/ Gone(k)'
    <3>1. CASE Kept(k)
      BY <2>1, <2>2, <3>1 DEF Kept
    <3>2. CASE Gone(k) /\ k = m
      BY <2>1, <3>2 DEF Kept, Gone
    <3>3. CASE Gone(k) /\ k # m
      BY <2>1, <3>3 DEF Gone
    <3> QED
      BY <1>0, <3>1, <3>2, <3>3
  <2> QED
    BY <2>3, <2>4
<1> QED
  BY <1>1, <1>2, <1>3, <1>4, <1>5, <1>6, <1>7, <1>8, <1>9, <1>10, <1>11, <1>12
     DEF DoNext, Cycle, Pass, Supervise

\* For any number of modules, any limit of the supervision and any ring: an output that a
\* connected module has not been sent is always about to be sent, wherever do_mod_cycle,
\* update_mod_do_data, the supervision and a heartbeat meet, unless a heartbeat came
\* between the steps of the supervision or the program took back what do_mod_cycle had
\* not seen.
THEOREM OutputsKept == DoSpec => []ChangeKept
<1>1. DoTypes /\ KeptInv => ChangeKept
  BY DEF DoTypes, KeptInv, Kept, Gone, ChangeKept
<1> QED
  BY <1>1, DoTypeInit, DoTypeStep, KeptInit, KeptStep, PTL DEF DoSpec
===============================================================================
