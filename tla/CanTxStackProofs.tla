--------------------------- MODULE CanTxStackProofs ---------------------------
(***************************************************************************)
(* Proofs about the CAN transmit ring, for every length of the ring, every *)
(* set of parts, every number of mailboxes and every bound on the packets. *)
(***************************************************************************)
EXTENDS CanTxStack, Integers, SequenceTheorems, TLAPS

LEMMA WrapType ==
  ASSUME NEW i \in Slots
  PROVE  Wrap(i + 1) \in Slots
BY StackAssumption DEF Wrap, Slots

LEMMA WholeType ==
  ASSUME NEW m \in Nat
  PROVE  Whole(m) \in Packet
BY DEF Whole, Packet

TypeInv == TypeOK /\ MailboxHeld

LEMMA TypeInit == Init => TypeInv
<1> SUFFICES ASSUME Init PROVE TypeInv
  OBVIOUS
<1>1. Whole(0) \in Packet
  BY WholeType
<1> QED
  BY <1>1, StackAssumption DEF Init, TypeInv, TypeOK, MailboxHeld, SlotType, Labels, Slots

LEMMA TypeStep == TypeInv /\ [Next]_vars => TypeInv'
<1> SUFFICES ASSUME TypeInv, [Next]_vars PROVE TypeInv'
  OBVIOUS
<1> USE StackAssumption DEF TypeInv, TypeOK, MailboxHeld, Labels
<1>1. CASE AddCall
  BY <1>1 DEF AddCall, ring, task, history
<1>2. CASE AddClaim
  BY <1>2 DEF AddClaim, SlotType
<1>3. CASE AddCopy
  <2>1. PICK p \in left : /\ slot' = [slot EXCEPT ![wr_pos].part[p] = cur]
                          /\ left' = left \ {p}
    BY <1>3 DEF AddCopy
  <2>2. slot[wr_pos] \in SlotType
    OBVIOUS
  <2>3. [slot[wr_pos].part EXCEPT ![p] = cur] \in Packet
    BY <2>2 DEF SlotType, Packet
  <2>4. [slot[wr_pos] EXCEPT !.part = [slot[wr_pos].part EXCEPT ![p] = cur]] \in SlotType
    BY <2>2, <2>3 DEF SlotType
  <2>5. slot' \in [Slots -> SlotType]
    BY <2>1, <2>4
  <2> QED
    BY <1>3, <2>1, <2>5 DEF AddCopy, history
<1>4. CASE AddPublish
  BY <1>4 DEF AddPublish, SlotType, history
<1>5. CASE AddReturn
  BY <1>5, WrapType DEF AddReturn
<1>6. CASE IsrAdd
  <2>1. Whole(issued') \in Packet
    BY <1>6, WholeType DEF IsrAdd
  <2> QED
    BY <1>6, <2>1, WrapType DEF IsrAdd, SlotType, task
<1>7. CASE WriteCall
  BY <1>7 DEF WriteCall, ring, history
<1>8. CASE WriteLoop
  BY <1>8 DEF WriteLoop, ring, history
<1>9. CASE GetCheck
  BY <1>9 DEF GetCheck, ring, history
<1>10. CASE GetTake
  BY <1>10 DEF GetTake, ring, history, SlotType, Packet
<1>11. CASE GetRelease
  BY <1>11 DEF GetRelease, SlotType, history
<1>12. CASE GetReturn
  BY <1>12, WrapType DEF GetReturn, history
<1>13. CASE Send
  BY <1>13 DEF Send, ring
<1>14. CASE MailboxDone
  BY <1>14 DEF MailboxDone, ring, task, history
<1>15. CASE Tick
  BY <1>15 DEF Tick, ring, task, history
<1>16. CASE UNCHANGED vars
  BY <1>16 DEF vars, ring, task, history
<1> QED
  BY <1>1, <1>2, <1>3, <1>4, <1>5, <1>6, <1>7, <1>8, <1>9, <1>10, <1>11, <1>12,
     <1>13, <1>14, <1>15, <1>16 DEF Next, CanTask

\* Every variable keeps its type, and a mailbox that can_write_from_stack found
\* free is still free when HAL_CAN_AddTxMessage is called.
THEOREM TypeCorrect == Spec => [](TypeOK /\ MailboxHeld)
<1>1. TypeInv => TypeOK /\ MailboxHeld
  BY DEF TypeInv
<1> QED
  BY TypeInit, TypeStep, <1>1, PTL DEF Spec
-----------------------------------------------------------------------------
(* The ring itself. *)

LEMMA IndexType ==
  ASSUME NEW h \in Slots, NEW i \in 0 .. StackLength
  PROVE  Wrap(h + i) \in Slots
BY StackAssumption DEF Wrap, Slots

LEMMA IndexInjective ==
  ASSUME NEW h \in Slots, NEW i \in Slots, NEW j \in Slots, Wrap(h + i) = Wrap(h + j)
  PROVE  i = j
BY StackAssumption DEF Wrap, Slots

LEMMA IndexShift ==
  ASSUME NEW h \in Slots, NEW i \in 0 .. StackLength
  PROVE  /\ i < StackLength => Wrap(Wrap(h + 1) + i) = Wrap(h + (i + 1))
         /\ Wrap(Wrap(h + i) + 1) = Wrap(h + IF i = StackLength THEN 1 ELSE i + 1)
         /\ i = StackLength - 1 => Wrap(Wrap(h + 1) + i) = h
         /\ Wrap(h + StackLength) = h
         /\ Wrap(h + 0) = h
BY StackAssumption DEF Wrap, Slots

RingIInv == TypeInv /\ RingInv /\ InOrder

LEMMA RingInit == Init => RingIInv
<1> SUFFICES ASSUME Init PROVE RingIInv
  OBVIOUS
<1>1. TypeInv
  BY TypeInit
<1>2. RingInv
  BY <1>1, StackAssumption
     DEF Init, RingInv, RingHolds, AddHolds, GetHolds, InAdd, Taken, Head0, Pending,
         At, Wrap, Slots
<1>3. InOrder
  BY DEF Init, InOrder
<1> QED
  BY <1>1, <1>2, <1>3 DEF RingIInv

\* What the ring says about the quantities it is stated with.
LEMMA RingTypes ==
  ASSUME TypeInv
  PROVE  /\ Head0 \in Slots
         /\ Taken \in Nat
         /\ Len(accepted) \in Nat
         /\ Len(sent) \in Nat
         /\ Pending \in Int
BY WrapType DEF TypeInv, TypeOK, Head0, Taken, Pending

LEMMA AtFacts ==
  ASSUME TypeInv
  PROVE  /\ \A i \in 0 .. StackLength : At(i) \in Slots
         /\ \A i, j \in Slots : At(i) = At(j) => i = j
         /\ At(0) = Head0
         /\ At(StackLength) = Head0
<1>1. Head0 \in Slots
  BY RingTypes
<1> QED
  BY <1>1, IndexType, IndexInjective, IndexShift, StackAssumption DEF At

\* A step that moves no packet and no position keeps the ring as it was.
LEMMA RingFrame ==
  ASSUME TypeInv, RingHolds, UNCHANGED <<ring, accepted, sent>>,
         pc \notin {"next", "send", "advance"}, pc' \notin {"next", "send", "advance"}
  PROVE  RingHolds' /\ Pending' = Pending /\ Taken' = Taken /\ Head0' = Head0
BY DEF RingHolds, ring, Taken, Head0, Pending, At, Slots
\* A ring whose slot at the write position is not READY has room.
LEMMA NotFull ==
  ASSUME TypeInv, RingHolds, slot[write_position].state # "READY"
  PROVE  Pending < StackLength
<1> SUFFICES ASSUME Pending = StackLength PROVE FALSE
  BY RingTypes, StackAssumption DEF RingHolds
<1>1. At(0) = write_position
  BY AtFacts DEF RingHolds
<1>2. 0 \in Slots /\ 0 < Pending
  BY StackAssumption DEF Slots
<1>3. slot[At(0)] = [state |-> "READY", part |-> Whole(accepted[Taken + 0 + 1])]
  BY <1>2 DEF RingHolds
<1> QED
  BY <1>1, <1>3

LEMMA AddCallKeeps ==
  ASSUME TypeInv, RingInv, clean, AddCall
  PROVE  RingHolds' /\ AddHolds' /\ GetHolds'
<1>1. RingHolds' /\ Pending' = Pending
  BY RingFrame DEF AddCall, RingInv, ring, history
<1> QED
  BY <1>1 DEF AddCall, AddHolds, GetHolds, InAdd, ring

LEMMA AddClaimKeeps ==
  ASSUME TypeInv, RingInv, clean', AddClaim
  PROVE  RingHolds' /\ AddHolds' /\ GetHolds'
<1>1. Pending \in Int /\ Taken \in Nat /\ Head0 \in Slots
  BY RingTypes
<1>2. clean /\ wr_pos = write_position /\ slot[wr_pos].state # "READY" /\ RingHolds
  BY DEF AddClaim, RingInv, AddHolds, InAdd
<1>3. Pending \in 0 .. StackLength /\ wr_pos = At(Pending)
  BY <1>1, <1>2 DEF RingHolds, Pending
<1>4. Pending < StackLength
  BY <1>2, NotFull
<1>5. Pending \in Slots
  BY <1>3, <1>4, StackAssumption DEF Slots
<1>6. Taken' = Taken /\ Head0' = Head0 /\ Pending' = Pending
  BY DEF AddClaim, Taken, Head0, Pending
<1>7. ASSUME NEW i \in Slots
      PROVE  IF i = Pending THEN slot'[At(i)].state # "READY" ELSE slot'[At(i)] = slot[At(i)]
  <2>1. At(i) \in Slots /\ (At(i) = wr_pos => i = Pending)
    BY <1>3, <1>5, AtFacts, StackAssumption DEF Slots
  <2> QED
    BY <1>3, <2>1 DEF AddClaim, SlotType, TypeInv, TypeOK
<1>8. RingHolds'
  BY <1>1, <1>2, <1>3, <1>4, <1>6, <1>7 DEF RingHolds, At, AddClaim
<1> QED
  BY <1>2, <1>4, <1>6, <1>8 DEF AddClaim, AddHolds, GetHolds, InAdd

LEMMA AddCopyKeeps ==
  ASSUME TypeInv, RingInv, clean', AddCopy
  PROVE  RingHolds' /\ AddHolds' /\ GetHolds'
<1>1. Pending \in Int /\ Taken \in Nat /\ Head0 \in Slots
  BY RingTypes
<1>2. clean /\ RingHolds /\ AddHolds
  BY DEF AddCopy, history, RingInv
<1>3. wr_pos = write_position /\ Pending < StackLength
  BY <1>2 DEF AddCopy, AddHolds, InAdd
<1>4. Pending \in Slots /\ wr_pos = At(Pending)
  BY <1>1, <1>2, <1>3, StackAssumption DEF RingHolds, Pending, Slots
<1>5. slot[wr_pos].state # "READY"
  <2>1. ~(Pending < Pending)
    BY <1>1
  <2>2. slot[At(Pending)].state = "READY" => pc = "advance"
    BY <1>2, <1>4, <2>1 DEF RingHolds
  <2> QED
    BY <1>4, <2>2 DEF AddCopy
<1>6. PICK p \in left : /\ slot' = [slot EXCEPT ![wr_pos].part[p] = cur]
                        /\ left' = left \ {p}
  BY DEF AddCopy
<1>7. Taken' = Taken /\ Head0' = Head0 /\ Pending' = Pending
  BY DEF AddCopy, history, Taken, Head0, Pending
<1>8. /\ slot'[wr_pos].state = slot[wr_pos].state
      /\ slot'[wr_pos].part = [slot[wr_pos].part EXCEPT ![p] = cur]
      /\ slot[wr_pos].part \in Packet
      /\ \A s \in Slots : s # wr_pos => slot'[s] = slot[s]
  BY <1>6 DEF SlotType, TypeInv, TypeOK
<1>9. ASSUME NEW i \in Slots
      PROVE  IF i = Pending THEN slot'[At(i)].state # "READY" ELSE slot'[At(i)] = slot[At(i)]
  <2>1. At(i) \in Slots /\ (At(i) = wr_pos => i = Pending)
    BY <1>4, AtFacts, StackAssumption DEF Slots
  <2> QED
    BY <1>4, <1>5, <1>8, <2>1
<1>10. RingHolds'
  BY <1>1, <1>2, <1>3, <1>4, <1>7, <1>9 DEF RingHolds, At, AddCopy, history
<1>11. \A q \in Parts \ left' : slot'[wr_pos].part[q] = cur
  BY <1>2, <1>6, <1>8 DEF AddCopy, AddHolds, InAdd, Packet, TypeInv, TypeOK
<1>12. pc' = "publish" => slot'[wr_pos].part = Whole(cur)
  BY <1>8, <1>11 DEF AddCopy, Packet, Whole, TypeInv, TypeOK
<1>13. AddHolds'
  <2> SUFFICES /\ wr_pos' = write_position'
               /\ Pending' < StackLength
               /\ pc' = "copy" => \A q \in Parts \ left' : slot'[wr_pos'].part[q] = cur'
               /\ pc' = "publish" => slot'[wr_pos'].part = Whole(cur)'
               /\ pc' \in {"copy", "publish"}
    BY DEF AddHolds
  <2> QED
    BY <1>3, <1>7, <1>11, <1>12 DEF AddCopy, Whole
<1> QED
  BY <1>10, <1>13 DEF AddCopy, GetHolds
\* A step that moves no position and writes at most the slot behind the last packet.
LEMMA RingSame ==
  ASSUME TypeInv, RingHolds, UNCHANGED <<accepted, write_position>>,
         Taken' = Taken, Head0' = Head0,
         \A i \in Slots : i < Pending => slot'[At(i)] = slot[At(i)],
         \A i \in Slots : ~(i < Pending) /\ slot'[At(i)].state = "READY"
                            => i = Pending /\ pc' = "advance"
  PROVE  RingHolds' /\ Pending' = Pending
<1>1. Pending' = Pending /\ \A i : At(i) = Wrap(Head0' + i)
  BY DEF Pending, At
<1>2. ASSUME NEW i \in Slots
      PROVE  IF i < Pending
               THEN slot'[At(i)] = [state |-> "READY", part |-> Whole(accepted[Taken + i + 1])]
               ELSE slot'[At(i)].state = "READY" => i = Pending /\ pc' = "advance"
  BY DEF RingHolds
<1>3. /\ Taken' <= Len(accepted')
      /\ Pending' <= StackLength
      /\ write_position' = Wrap(Head0' + Pending')
  BY <1>1 DEF RingHolds
<1>4. \A i \in Slots :
        IF i < Pending'
          THEN slot'[Wrap(Head0' + i)] = [state |-> "READY", part |-> Whole(accepted'[Taken' + i + 1])]
          ELSE slot'[Wrap(Head0' + i)].state = "READY" => i = Pending' /\ pc' = "advance"
  BY <1>1, <1>2
<1> QED
  BY <1>1, <1>3, <1>4 DEF RingHolds, At

LEMMA AddPublishKeeps ==
  ASSUME TypeInv, RingInv, clean', AddPublish
  PROVE  RingHolds' /\ AddHolds' /\ GetHolds'
<1>1. Pending \in Int /\ Taken \in Nat /\ Head0 \in Slots
  BY RingTypes
<1>2. clean /\ RingHolds /\ AddHolds
  BY DEF AddPublish, history, RingInv
<1>3. wr_pos = write_position /\ Pending < StackLength /\ slot[wr_pos].part = Whole(cur)
  BY <1>2 DEF AddPublish, AddHolds, InAdd
<1>4. Pending \in Slots /\ wr_pos = At(Pending)
  BY <1>1, <1>2, <1>3, StackAssumption DEF RingHolds, Pending, Slots
<1>5. Taken' = Taken /\ Head0' = Head0 /\ Pending' = Pending
  BY DEF AddPublish, history, Taken, Head0, Pending
<1>6. /\ slot'[wr_pos].state = "READY"
      /\ slot'[wr_pos].part = slot[wr_pos].part
      /\ \A s \in Slots : s # wr_pos => slot'[s] = slot[s]
  BY DEF AddPublish, SlotType, TypeInv, TypeOK
<1>7. ASSUME NEW i \in Slots
      PROVE  i # Pending => slot'[At(i)] = slot[At(i)]
  <2>1. At(i) \in Slots /\ (At(i) = wr_pos => i = Pending)
    BY <1>4, AtFacts, StackAssumption DEF Slots
  <2> QED
    BY <1>4, <1>6, <2>1
<1>8. RingHolds'
  <2>1. \A i \in Slots : i # Pending => slot'[At(i)] = slot[At(i)]
    BY <1>7
  <2>2. \A i \in Slots : i < Pending => i # Pending
    BY <1>1
  <2>3. \A i \in Slots : ~(i < Pending) /\ slot'[At(i)].state = "READY" => i = Pending
    BY <1>2, <2>1 DEF RingHolds, AddPublish
  <2> QED
    BY <1>2, <1>5, <2>1, <2>2, <2>3, RingSame DEF AddPublish, history
<1> QED
  BY <1>3, <1>5, <1>6, <1>8 DEF AddPublish, AddHolds, GetHolds, InAdd, Whole

\* One more packet at the end of the ring.
LEMMA RingGrows ==
  ASSUME TypeInv, RingHolds, Pending < StackLength, NEW m,
         slot'[At(Pending)] = [state |-> "READY", part |-> Whole(m)],
         \A i \in Slots : i # Pending => slot'[At(i)] = slot[At(i)],
         \A i \in Slots : i > Pending => slot[At(i)].state # "READY",
         write_position' = Wrap(At(Pending) + 1),
         accepted' = Append(accepted, m),
         Taken' = Taken, Head0' = Head0
  PROVE  /\ RingHolds'
         /\ Pending' = Pending + 1
         /\ \A i \in 1 .. Len(accepted) : accepted'[i] = accepted[i]
<1>1. /\ Pending \in Int /\ Taken \in Nat /\ Head0 \in Slots
      /\ Len(accepted) \in Nat
  BY RingTypes
<1>2. Pending \in Slots /\ Taken <= Len(accepted)
  BY <1>1, StackAssumption DEF RingHolds, Pending, Slots
<1>3. /\ Len(accepted') = Len(accepted) + 1
      /\ accepted'[Len(accepted) + 1] = m
      /\ \A i \in 1 .. Len(accepted) : accepted'[i] = accepted[i]
  BY DEF TypeInv, TypeOK
<1>4. Pending' = Pending + 1
  BY <1>1, <1>3 DEF Pending
<1>5. write_position' = At(Pending + 1)
  <2>1. Pending \in 0 .. StackLength /\ Pending # StackLength
    BY <1>2, StackAssumption DEF Slots
  <2>2. Wrap(Wrap(Head0 + Pending) + 1) = Wrap(Head0 + (Pending + 1))
    BY <1>1, <2>1, IndexShift
  <2> QED
    BY <2>2 DEF At
<1>6. ASSUME NEW i \in Slots, i < Pending
      PROVE  slot'[At(i)] = [state |-> "READY", part |-> Whole(accepted'[Taken + i + 1])]
  <2>1. slot[At(i)] = [state |-> "READY", part |-> Whole(accepted[Taken + i + 1])]
    BY <1>6 DEF RingHolds
  <2>2. Taken + i + 1 \in 1 .. Len(accepted)
    BY <1>1, <1>6, StackAssumption DEF Pending, Slots
  <2>3. accepted'[Taken + i + 1] = accepted[Taken + i + 1]
    BY <1>3, <2>2
  <2>4. slot'[At(i)] = slot[At(i)]
    BY <1>1, <1>6
  <2> QED
    BY <2>1, <2>3, <2>4
<1>7. slot'[At(Pending)] = [state |-> "READY", part |-> Whole(accepted'[Taken + Pending + 1])]
  BY <1>1, <1>3 DEF Pending
<1>8. ASSUME NEW i \in Slots, i > Pending
      PROVE  slot'[At(i)].state # "READY"
  BY <1>1, <1>8
<1>9. At(Pending + 1) = Wrap(Head0' + Pending') /\ \A i \in Slots : At(i) = Wrap(Head0' + i)
  BY <1>4 DEF At
<1>10. ASSUME NEW i \in Slots
       PROVE  IF i < Pending + 1
                THEN slot'[At(i)] = [state |-> "READY", part |-> Whole(accepted'[Taken + i + 1])]
                ELSE slot'[At(i)].state = "READY" => i = Pending' /\ pc' = "advance"
  <2>1. i \in Int /\ Pending \in Int
    BY <1>1, StackAssumption DEF Slots
  <2>2. CASE i < Pending
    <3>1. i < Pending + 1
      BY <2>1, <2>2
    <3> QED
      BY <1>6, <2>2, <3>1
  <2>3. CASE i = Pending
    <3>1. i < Pending + 1
      BY <2>1, <2>3
    <3> QED
      BY <1>7, <2>3, <3>1
  <2>4. CASE i > Pending
    <3>1. ~(i < Pending + 1)
      BY <2>1, <2>4
    <3> QED
      BY <1>8, <2>4, <3>1
  <2>5. i < Pending \/ i = Pending \/ i > Pending
    BY <2>1
  <2> QED
    BY <2>2, <2>3, <2>4, <2>5
<1>11. RingHolds'
  <2>1. Taken' <= Len(accepted') /\ Pending' <= StackLength
    BY <1>1, <1>2, <1>3, <1>4, StackAssumption
  <2>2. write_position' = Wrap(Head0' + Pending')
    BY <1>5, <1>9
  <2>3. \A i \in Slots :
          IF i < Pending'
            THEN slot'[Wrap(Head0' + i)] = [state |-> "READY", part |-> Whole(accepted'[Taken' + i + 1])]
            ELSE slot'[Wrap(Head0' + i)].state = "READY" => i = Pending' /\ pc' = "advance"
    BY <1>4, <1>9, <1>10
  <2> QED
    BY <2>1, <2>2, <2>3 DEF RingHolds, At
<1> QED
  BY <1>3, <1>4, <1>11

\* One more packet accepted leaves the order of those already sent as it was.
LEMMA OrderGrows ==
  ASSUME TypeInv, InOrder, clean, sent' = sent, Len(accepted') = Len(accepted) + 1,
         \A i \in 1 .. Len(accepted) : accepted'[i] = accepted[i]
  PROVE  InOrder'
<1>1. Len(accepted) \in Nat /\ Len(sent) \in Nat /\ Len(sent) <= Len(accepted)
  BY RingTypes DEF InOrder
<1>2. ASSUME NEW i \in 1 .. Len(sent)
      PROVE  sent'[i] = Whole(accepted'[i])
  <2>1. i \in 1 .. Len(accepted)
    BY <1>1
  <2> QED
    BY <2>1 DEF InOrder, Whole
<1>3. Len(sent') <= Len(accepted')
  BY <1>1
<1> QED
  BY <1>2, <1>3 DEF InOrder, Whole

LEMMA AddReturnKeeps ==
  ASSUME TypeInv, RingInv, InOrder, clean', AddReturn
  PROVE  RingHolds' /\ AddHolds' /\ GetHolds' /\ InOrder'
<1>1. Pending \in Int /\ Taken \in Nat /\ Len(accepted) \in Nat /\ Len(sent) \in Nat
  BY RingTypes
<1>2. clean /\ RingHolds /\ AddHolds
  BY DEF AddReturn, RingInv
<1>3. /\ wr_pos = write_position /\ Pending < StackLength
      /\ slot[wr_pos].part = Whole(cur) /\ slot[wr_pos].state = "READY"
  BY <1>2 DEF AddReturn, AddHolds, InAdd
<1>4. wr_pos = At(Pending)
  BY <1>2, <1>3 DEF RingHolds
<1>5. slot'[At(Pending)] = [state |-> "READY", part |-> Whole(cur)]
  BY <1>3, <1>4 DEF AddReturn, TypeInv, TypeOK, SlotType
<1>6. \A i \in Slots : i > Pending => slot[At(i)].state # "READY"
  <2>1. \A i \in Slots : i > Pending => ~(i < Pending) /\ i # Pending
    BY <1>1, StackAssumption DEF Slots
  <2> QED
    BY <1>2, <2>1 DEF RingHolds
<1>7. Taken' = Taken /\ Head0' = Head0
  BY DEF AddReturn, Taken, Head0
<1>8. RingHolds' /\ \A i \in 1 .. Len(accepted) : accepted'[i] = accepted[i]
  BY <1>2, <1>3, <1>4, <1>5, <1>6, <1>7, RingGrows DEF AddReturn
<1>9. InOrder'
  <2>1. sent' = sent /\ Len(accepted') = Len(accepted) + 1
    BY DEF AddReturn, TypeInv, TypeOK
  <2> QED
    BY <1>1, <1>2, <1>8, <2>1, OrderGrows
<1> QED
  BY <1>8, <1>9 DEF AddReturn, AddHolds, GetHolds, InAdd

LEMMA IsrAddKeeps ==
  ASSUME TypeInv, RingInv, InOrder, clean', IsrAdd
  PROVE  RingHolds' /\ AddHolds' /\ GetHolds' /\ InOrder'
<1>1. /\ Pending \in Int /\ Taken \in Nat /\ Head0 \in Slots
      /\ Len(accepted) \in Nat /\ Len(sent) \in Nat
  BY RingTypes
<1>2. clean /\ RingHolds /\ GetHolds /\ ~InAdd /\ slot[write_position].state # "READY"
  BY DEF IsrAdd, RingInv
<1>3. Pending < StackLength /\ write_position = At(Pending)
  BY <1>2, NotFull DEF RingHolds
<1>4. Pending \in Slots /\ Taken <= Len(accepted)
  BY <1>1, <1>2, <1>3, StackAssumption DEF RingHolds, Pending, Slots
<1>5. /\ slot'[write_position] = [state |-> "READY", part |-> Whole(issued')]
      /\ \A s \in Slots : s # write_position => slot'[s] = slot[s]
  BY DEF IsrAdd, TypeInv, TypeOK
<1>6. ASSUME NEW i \in Slots
      PROVE  i # Pending => slot'[At(i)] = slot[At(i)]
  <2>1. At(i) \in Slots /\ (At(i) = write_position => i = Pending)
    BY <1>3, <1>4, AtFacts, StackAssumption DEF Slots
  <2> QED
    BY <1>5, <2>1
<1>7. \A i \in Slots : i > Pending => slot[At(i)].state # "READY"
  <2>1. \A i \in Slots : i > Pending => ~(i < Pending) /\ i # Pending
    BY <1>1, StackAssumption DEF Slots
  <2> QED
    BY <1>2, <2>1 DEF RingHolds
<1>8. Taken' = Taken /\ Head0' = Head0
  BY DEF IsrAdd, task, Taken, Head0
<1>9. /\ RingHolds' /\ Pending' = Pending + 1
      /\ \A i \in 1 .. Len(accepted) : accepted'[i] = accepted[i]
  <2>1. slot'[At(Pending)] = [state |-> "READY", part |-> Whole(issued')]
    BY <1>3, <1>5
  <2>2. write_position' = Wrap(At(Pending) + 1) /\ accepted' = Append(accepted, issued')
    BY <1>3 DEF IsrAdd
  <2> QED
    BY <1>2, <1>3, <1>6, <1>7, <1>8, <2>1, <2>2, RingGrows
<1>10. AddHolds'
  BY <1>2 DEF IsrAdd, task, AddHolds, InAdd
<1>11. GetHolds'
  <2>1. pc \in {"take", "release"} => Taken + 1 \in 1 .. Len(accepted)
    BY <1>1, <1>2 DEF GetHolds, Pending
  <2>2. pc \in {"next", "send"} => Taken \in 1 .. Len(accepted)
    BY <1>1, <1>4 DEF Taken
  <2>3. UNCHANGED <<pc, left, pkt>>
    BY DEF IsrAdd, task
  <2>4. pc' \in {"take", "release"} => Pending' > 0
    BY <1>1, <1>2, <1>9, <2>3 DEF GetHolds
  <2> QED
    BY <1>2, <1>8, <1>9, <2>1, <2>2, <2>3, <2>4 DEF GetHolds, Whole
<1>12. InOrder'
  <2>1. sent' = sent /\ Len(accepted') = Len(accepted) + 1
    BY DEF IsrAdd, TypeInv, TypeOK
  <2> QED
    BY <1>1, <1>2, <1>9, <2>1, OrderGrows
<1> QED
  BY <1>9, <1>10, <1>11, <1>12
-----------------------------------------------------------------------------
(* canTask taking packets out. *)

LEMMA WriteKeeps ==
  ASSUME TypeInv, RingInv, clean', WriteCall \/ WriteLoop
  PROVE  RingHolds' /\ AddHolds' /\ GetHolds'
<1>1. clean /\ RingHolds
  BY DEF RingInv, WriteCall, WriteLoop, history
<1>2. /\ UNCHANGED <<ring, accepted, sent>>
      /\ pc \in {"loop", "mailbox"} /\ pc' \in {"loop", "mailbox", "check"}
  BY DEF WriteCall, WriteLoop, history
<1>3. RingHolds'
  BY <1>1, <1>2, RingFrame
<1> QED
  BY <1>2, <1>3 DEF AddHolds, GetHolds, InAdd

LEMMA GetCheckKeeps ==
  ASSUME TypeInv, RingInv, clean', GetCheck
  PROVE  RingHolds' /\ AddHolds' /\ GetHolds'
<1>1. clean /\ RingHolds
  BY DEF RingInv, GetCheck, history
<1>2. /\ UNCHANGED <<ring, accepted, sent>>
      /\ pc = "check" /\ pc' \in {"loop", "take"}
  BY DEF GetCheck, history
<1>3. RingHolds' /\ Pending' = Pending
  BY <1>1, <1>2, RingFrame
<1>4. pc' = "take" => Pending > 0
  <2> SUFFICES ASSUME pc' = "take", ~(Pending > 0) PROVE FALSE
    OBVIOUS
  <2>1. slot[At(0)].state = "READY"
    BY AtFacts, <1>2 DEF GetCheck, Head0
  <2>2. 0 \in Slots /\ ~(0 < Pending)
    BY RingTypes, StackAssumption DEF Slots
  <2> QED
    BY <1>1, <1>2, <2>1, <2>2 DEF RingHolds
<1>5. pc' = "take" => Parts \ left' = {}
  BY DEF GetCheck
<1> QED
  BY <1>2, <1>3, <1>4, <1>5 DEF AddHolds, GetHolds, InAdd

LEMMA GetTakeKeeps ==
  ASSUME TypeInv, RingInv, clean', GetTake
  PROVE  RingHolds' /\ AddHolds' /\ GetHolds'
<1>1. clean /\ RingHolds /\ GetHolds
  BY DEF RingInv, GetTake, history
<1>2. /\ UNCHANGED <<ring, accepted, sent>>
      /\ pc = "take" /\ pc' \in {"take", "release"}
  BY DEF GetTake, history
<1>3. RingHolds' /\ Pending' = Pending /\ Taken' = Taken
  BY <1>1, <1>2, RingFrame
<1>4. Pending > 0 /\ \A p \in Parts \ left : pkt[p] = accepted[Taken + 1]
  BY <1>1, <1>2 DEF GetHolds
<1>5. slot[read_position].part = Whole(accepted[Taken + 1])
  <2>1. 0 \in Slots /\ 0 < Pending /\ Taken + 0 + 1 = Taken + 1
    BY <1>4, RingTypes, StackAssumption DEF Slots
  <2>2. slot[At(0)] = [state |-> "READY", part |-> Whole(accepted[Taken + 0 + 1])]
    BY <1>1, <2>1 DEF RingHolds
  <2>3. At(0) = read_position
    BY <1>2, AtFacts DEF Head0
  <2> QED
    BY <2>1, <2>2, <2>3
<1>6. PICK p \in left : /\ pkt' = [pkt EXCEPT ![p] = slot[read_position].part[p]]
                        /\ left' = left \ {p}
  BY DEF GetTake
<1>7. \A q \in Parts \ left' : pkt'[q] = accepted[Taken + 1]
  BY <1>4, <1>5, <1>6 DEF Whole, Packet, TypeInv, TypeOK
<1>8. pc' = "release" => pkt' = Whole(accepted[Taken + 1])
  <2>1. pc' = "release" => left' = {}
    BY DEF GetTake
  <2> QED
    BY <1>6, <1>7, <2>1 DEF Whole, Packet, TypeInv, TypeOK
<1>9. GetHolds'
  BY <1>2, <1>3, <1>4, <1>7, <1>8 DEF GetHolds, Whole
<1> QED
  BY <1>2, <1>3, <1>9 DEF AddHolds, InAdd

\* Freeing the slot at the head: the packet counts as taken from here on.
LEMMA GetReleaseKeeps ==
  ASSUME TypeInv, RingInv, clean', GetRelease
  PROVE  RingHolds' /\ AddHolds' /\ GetHolds'
<1>1. /\ Pending \in Int /\ Taken \in Nat /\ Head0 \in Slots
      /\ Len(accepted) \in Nat /\ Len(sent) \in Nat
  BY RingTypes
<1>2. clean /\ RingHolds /\ GetHolds
  BY DEF RingInv, GetRelease, history
<1>3. Pending > 0 /\ pkt = Whole(accepted[Taken + 1])
  BY <1>2 DEF GetRelease, GetHolds
<1>4. /\ Head0 = read_position /\ Head0' = Wrap(Head0 + 1)
      /\ Taken' = Taken + 1 /\ Pending' = Pending - 1
  BY <1>1 DEF GetRelease, history, Head0, Taken, Pending
<1>5. /\ slot'[Head0].state = "EMPTY"
      /\ \A s \in Slots : s # Head0 => slot'[s] = slot[s]
  BY <1>1, <1>4 DEF GetRelease, SlotType, TypeInv, TypeOK
<1> DEFINE New(i) == Wrap(Head0' + i)
<1>6. ASSUME NEW i \in Slots, i + 1 < StackLength
      PROVE  New(i) = At(i + 1) /\ slot'[New(i)] = slot[At(i + 1)] /\ i + 1 \in Slots
  <2>1. i + 1 \in Slots /\ i \in 0 .. StackLength /\ i < StackLength /\ 0 \in Slots /\ i + 1 # 0
    BY <1>6, StackAssumption DEF Slots
  <2>2. New(i) = At(i + 1)
    BY <1>1, <1>4, <2>1, IndexShift DEF At
  <2>3. At(i + 1) \in Slots /\ At(i + 1) # Head0
    <3>1. i + 1 \in 0 .. StackLength
      BY <2>1, StackAssumption DEF Slots
    <3> QED
      BY <2>1, <3>1, AtFacts
  <2> QED
    BY <1>5, <2>1, <2>2, <2>3
<1>7. ASSUME NEW i \in Slots, ~(i + 1 < StackLength)
      PROVE  New(i) = Head0
  <2>1. i \in 0 .. StackLength /\ i = StackLength - 1
    BY <1>7, StackAssumption DEF Slots
  <2> QED
    BY <1>1, <1>4, <2>1, IndexShift
<1>8. ASSUME NEW i \in Slots
      PROVE  IF i < Pending'
               THEN slot'[New(i)] = [state |-> "READY", part |-> Whole(accepted'[Taken' + i + 1])]
               ELSE slot'[New(i)].state # "READY"
  <2>1. i \in Int /\ accepted' = accepted
    BY StackAssumption DEF Slots, GetRelease, history
  <2>2. CASE i + 1 < StackLength
    <3>1. i + 1 \in Slots /\ slot'[New(i)] = slot[At(i + 1)]
      BY <1>6, <2>2
    <3>2. CASE i < Pending'
      <4>1. i + 1 < Pending /\ Taken + (i + 1) + 1 = Taken' + i + 1
        BY <1>1, <1>4, <2>1, <3>2
      <4>2. slot[At(i + 1)] = [state |-> "READY", part |-> Whole(accepted[Taken + (i + 1) + 1])]
        BY <1>2, <3>1, <4>1 DEF RingHolds
      <4> QED
        BY <2>1, <3>1, <3>2, <4>1, <4>2
    <3>3. CASE ~(i < Pending')
      <4>1. ~(i + 1 < Pending)
        BY <1>1, <1>4, <2>1, <3>3
      <4>2. slot[At(i + 1)].state # "READY"
        BY <1>2, <3>1, <4>1 DEF RingHolds, GetRelease
      <4> QED
        BY <3>1, <3>3, <4>2
    <3> QED
      BY <3>2, <3>3
  <2>3. CASE ~(i + 1 < StackLength)
    <3>1. ~(i < Pending')
      BY <1>1, <1>2, <1>4, <2>1, <2>3, StackAssumption DEF RingHolds
    <3>2. slot'[New(i)].state = "EMPTY"
      BY <1>5, <1>7, <2>3
    <3> QED
      BY <3>1, <3>2
  <2> QED
    BY <2>2, <2>3
<1>9. RingHolds'
  <2>1. Taken' <= Len(accepted') /\ Pending' <= StackLength
    BY <1>1, <1>2, <1>3, <1>4, StackAssumption DEF RingHolds, Pending, GetRelease, history
  <2>2. write_position' = Wrap(Head0' + Pending')
    <3>1. Pending - 1 \in 0 .. StackLength /\ Pending - 1 < StackLength /\ (Pending - 1) + 1 = Pending
      BY <1>1, <1>2, <1>3, StackAssumption DEF RingHolds
    <3>2. Wrap(Wrap(Head0 + 1) + (Pending - 1)) = Wrap(Head0 + ((Pending - 1) + 1))
      BY <1>1, <3>1, IndexShift
    <3>3. write_position' = Wrap(Head0 + Pending)
      BY <1>2 DEF RingHolds, At, GetRelease
    <3> QED
      BY <1>4, <3>1, <3>2, <3>3
  <2> QED
    BY <1>8, <2>1, <2>2 DEF RingHolds, At
<1>10. GetHolds'
  BY <1>1, <1>3, <1>4 DEF GetHolds, GetRelease, history, Whole
<1> QED
  BY <1>9, <1>10 DEF AddHolds, InAdd, GetRelease

LEMMA GetReturnKeeps ==
  ASSUME TypeInv, RingInv, clean', GetReturn
  PROVE  RingHolds' /\ AddHolds' /\ GetHolds'
<1>1. clean /\ RingHolds /\ GetHolds
  BY DEF RingInv, GetReturn, history
<1>2. Taken' = Taken /\ Head0' = Head0 /\ slot' = slot /\ accepted' = accepted
  BY DEF GetReturn, history, Taken, Head0
<1>3. RingHolds'
  <2>1. \A i \in Slots : ~(i < Pending) => slot[At(i)].state # "READY"
    BY <1>1 DEF RingHolds, GetReturn
  <2> QED
    BY <1>1, <1>2, <2>1, RingSame DEF GetReturn
<1> QED
  BY <1>1, <1>2, <1>3 DEF GetReturn, AddHolds, GetHolds, InAdd, Whole

LEMMA SendKeeps ==
  ASSUME TypeInv, RingInv, InOrder, clean', Send
  PROVE  RingHolds' /\ AddHolds' /\ GetHolds' /\ InOrder'
<1>1. /\ Len(accepted) \in Nat /\ Len(sent) \in Nat
  BY RingTypes
<1>2. clean /\ RingHolds /\ GetHolds
  BY DEF RingInv, Send
<1>3. /\ Len(sent') = Len(sent) + 1 /\ sent'[Len(sent) + 1] = pkt
      /\ \A i \in 1 .. Len(sent) : sent'[i] = sent[i]
  BY DEF Send, TypeInv, TypeOK
<1>4. /\ Taken = Len(sent) + 1 /\ Taken' = Taken /\ Head0' = Head0
      /\ slot' = slot /\ accepted' = accepted
  BY <1>1, <1>3 DEF Send, ring, Taken, Head0
<1>5. pkt = Whole(accepted[Len(sent) + 1]) /\ Len(sent) + 1 <= Len(accepted)
  BY <1>2, <1>4 DEF Send, GetHolds, RingHolds
<1>6. RingHolds'
  <2>1. \A i \in Slots : ~(i < Pending) => slot[At(i)].state # "READY"
    BY <1>2 DEF RingHolds, Send
  <2> QED
    BY <1>2, <1>4, <2>1, RingSame DEF Send, ring
<1>7. InOrder'
  <2>1. ASSUME NEW i \in 1 .. Len(sent')
        PROVE  sent'[i] = Whole(accepted'[i])
    <3>1. CASE i = Len(sent) + 1
      BY <1>3, <1>4, <1>5, <3>1
    <3>2. CASE i \in 1 .. Len(sent)
      BY <1>2, <1>3, <1>4, <3>2 DEF InOrder
    <3> QED
      BY <1>1, <1>3, <3>1, <3>2
  <2> QED
    BY <1>3, <1>4, <1>5, <2>1 DEF InOrder, Whole
<1> QED
  BY <1>6, <1>7 DEF Send, AddHolds, GetHolds, InAdd
-----------------------------------------------------------------------------
LEMMA OrderFrame ==
  ASSUME InOrder, UNCHANGED <<accepted, sent>>, clean' => clean
  PROVE  InOrder'
BY DEF InOrder, Whole

LEMMA RingStep == RingIInv /\ [Next]_vars => RingIInv'
<1> SUFFICES ASSUME RingIInv, [Next]_vars PROVE RingIInv'
  OBVIOUS
<1>1. TypeInv /\ RingInv /\ InOrder /\ TypeInv'
  BY TypeStep DEF RingIInv
<1>2. ASSUME clean' PROVE RingHolds' /\ AddHolds' /\ GetHolds' /\ InOrder'
  <2>1. CASE AddCall
    BY <1>1, <1>2, <2>1, AddCallKeeps, OrderFrame DEF AddCall, history
  <2>2. CASE AddClaim
    BY <1>1, <1>2, <2>2, AddClaimKeeps, OrderFrame DEF AddClaim
  <2>3. CASE AddCopy
    BY <1>1, <1>2, <2>3, AddCopyKeeps, OrderFrame DEF AddCopy, history
  <2>4. CASE AddPublish
    BY <1>1, <1>2, <2>4, AddPublishKeeps, OrderFrame DEF AddPublish, history
  <2>5. CASE AddReturn
    BY <1>1, <1>2, <2>5, AddReturnKeeps
  <2>6. CASE IsrAdd
    BY <1>1, <1>2, <2>6, IsrAddKeeps
  <2>7. CASE WriteCall \/ WriteLoop
    BY <1>1, <1>2, <2>7, WriteKeeps, OrderFrame DEF WriteCall, WriteLoop, history
  <2>8. CASE GetCheck
    BY <1>1, <1>2, <2>8, GetCheckKeeps, OrderFrame DEF GetCheck, history
  <2>9. CASE GetTake
    BY <1>1, <1>2, <2>9, GetTakeKeeps, OrderFrame DEF GetTake, history
  <2>10. CASE GetRelease
    BY <1>1, <1>2, <2>10, GetReleaseKeeps, OrderFrame DEF GetRelease, history
  <2>11. CASE GetReturn
    BY <1>1, <1>2, <2>11, GetReturnKeeps, OrderFrame DEF GetReturn, history
  <2>12. CASE Send
    BY <1>1, <1>2, <2>12, SendKeeps
  <2>13. CASE MailboxDone \/ Tick \/ UNCHANGED vars
    <3>1. UNCHANGED <<ring, task, history>>
      BY <2>13 DEF MailboxDone, Tick, vars
    <3>2. clean /\ InOrder'
      BY <1>1, <1>2, <3>1, OrderFrame DEF history
    <3>3. RingHolds /\ AddHolds /\ GetHolds
      BY <1>1, <3>2 DEF RingInv
    <3>4. RingHolds' /\ AddHolds' /\ GetHolds'
      BY <3>1, <3>3 DEF ring, task, history, RingHolds, AddHolds, GetHolds, InAdd,
                        Taken, Head0, Pending, At, Whole
    <3> QED
      BY <3>2, <3>4
  <2> QED
    BY <2>1, <2>2, <2>3, <2>4, <2>5, <2>6, <2>7, <2>8, <2>9, <2>10, <2>11, <2>12,
       <2>13 DEF Next, CanTask
<1>3. RingInv' /\ InOrder'
  BY <1>2 DEF RingInv, InOrder
<1> QED
  BY <1>1, <1>3 DEF RingIInv

\* Until the first overflow or torn add, the ring holds exactly the packets
\* accepted and not yet sent.
THEOREM RingCorrect == Spec => []RingInv
<1>1. RingIInv => RingInv
  BY DEF RingIInv
<1> QED
  BY RingInit, RingStep, <1>1, PTL DEF Spec

\* Until then, the mailboxes receive the packets whole and in the order of the adds.
THEOREM SentInOrder == Spec => []InOrder
<1>1. RingIInv => InOrder
  BY DEF RingIInv
<1> QED
  BY RingInit, RingStep, <1>1, PTL DEF Spec

\* A get that finds nothing leaves nothing behind in an undamaged ring.
THEOREM NeverStranded == Spec => []NothingStranded
<1>1. RingIInv => NothingStranded
  <2> SUFFICES ASSUME RingIInv, clean, pc = "check", slot[read_position].state # "READY"
               PROVE  Len(sent) = Len(accepted)
    BY DEF NothingStranded
  <2>1. TypeInv /\ RingHolds
    BY DEF RingIInv, RingInv
  <2>2. /\ At(0) = read_position /\ Taken = Len(sent) /\ Pending \in Int
        /\ Len(sent) \in Nat /\ Len(accepted) \in Nat /\ 0 \in Slots
    BY <2>1, AtFacts, RingTypes, StackAssumption DEF Head0, Taken, Slots
  <2>3. ~(0 < Pending)
    <3> SUFFICES ASSUME 0 < Pending PROVE FALSE
      OBVIOUS
    <3>1. slot[At(0)] = [state |-> "READY", part |-> Whole(accepted[Taken + 0 + 1])]
      BY <2>1, <2>2 DEF RingHolds
    <3> QED
      BY <2>2, <3>1
  <2> QED
    BY <2>1, <2>2, <2>3 DEF RingHolds, Pending
<1> QED
  BY RingInit, RingStep, <1>1, PTL DEF Spec

-----------------------------------------------------------------------------
(* The refinement of CanQueue. *)

QueueInv ==
  /\ RingIInv
  /\ issued \in 0 .. MaxPackets
  /\ InAdd => cur \in 1 .. MaxPackets

LEMMA QueueInvInit == Init => QueueInv
BY RingInit, StackAssumption DEF Init, QueueInv, InAdd

LEMMA QueueInvStep == QueueInv /\ [Next]_vars => QueueInv'
<1> SUFFICES ASSUME QueueInv, [Next]_vars PROVE QueueInv'
  OBVIOUS
<1>1. RingIInv'
  BY RingStep DEF QueueInv
<1>2. issued \in 0 .. MaxPackets /\ (InAdd => cur \in 1 .. MaxPackets) /\ MaxPackets \in Nat
  BY StackAssumption DEF QueueInv
<1>3. CASE AddCall
  BY <1>1, <1>2, <1>3 DEF AddCall, QueueInv, InAdd
<1>4. CASE IsrAdd
  BY <1>1, <1>2, <1>4 DEF IsrAdd, task, QueueInv, InAdd
<1>5. CASE AddClaim \/ AddCopy \/ AddPublish \/ AddReturn
  BY <1>1, <1>2, <1>5
     DEF AddClaim, AddCopy, AddPublish, AddReturn, history, QueueInv, InAdd
<1>6. CASE WriteCall \/ WriteLoop \/ GetCheck \/ GetTake \/ GetRelease \/ GetReturn \/ Send
  BY <1>1, <1>2, <1>6
     DEF WriteCall, WriteLoop, GetCheck, GetTake, GetRelease, GetReturn, Send, QueueInv, InAdd
<1>7. CASE MailboxDone \/ Tick \/ UNCHANGED vars
  BY <1>1, <1>2, <1>7 DEF MailboxDone, Tick, vars, task, QueueInv, InAdd
<1> QED
  BY <1>3, <1>4, <1>5, <1>6, <1>7 DEF Next, CanTask

LEMMA QueueUnchanged ==
  ASSUME UNCHANGED <<accepted, sent, clean>>
  PROVE  UNCHANGED Queue!vars
BY DEF Queue!vars

LEMMA WaitingGrows ==
  ASSUME NEW S, NEW a \in Seq(S), NEW n \in 0 .. Len(a), NEW m \in S
  PROVE  SubSeq(Append(a, m), n + 1, Len(Append(a, m))) = Append(SubSeq(a, n + 1, Len(a)), m)
<1> DEFINE b == Append(a, m)
           l == SubSeq(b, n + 1, Len(b))
           r == Append(SubSeq(a, n + 1, Len(a)), m)
<1>1. /\ b \in Seq(S) /\ Len(b) = Len(a) + 1 /\ b[Len(a) + 1] = m
      /\ \A i \in 1 .. Len(a) : b[i] = a[i]
  BY AppendProperties
<1>2. /\ l \in Seq(S) /\ Len(l) = Len(a) - n + 1
      /\ \A i \in 1 .. Len(a) - n + 1 : l[i] = b[n + i]
  <2>1. \A i \in n + 1 .. Len(b) : b[i] \in S
    BY <1>1, ElementOfSeq
  <2> HIDE DEF b
  <2> QED
    BY <1>1, <2>1, SubSeqProperties
<1>3. /\ r \in Seq(S) /\ Len(r) = Len(a) - n + 1 /\ r[Len(a) - n + 1] = m
      /\ \A i \in 1 .. Len(a) - n : r[i] = a[n + i]
  <2> DEFINE w == SubSeq(a, n + 1, Len(a))
  <2>1. \A i \in n + 1 .. Len(a) : a[i] \in S
    BY ElementOfSeq
  <2>2. /\ w \in Seq(S) /\ Len(w) = Len(a) - n
        /\ \A i \in 1 .. Len(a) - n : w[i] = a[n + i]
    BY <2>1, SubSeqProperties
  <2> HIDE DEF w
  <2> QED
    BY <2>2, AppendProperties
<1>4. \A i \in 1 .. Len(l) : l[i] = r[i]
  <2> HIDE DEF b, l, r
  <2> SUFFICES ASSUME NEW i \in 1 .. Len(a) - n + 1 PROVE l[i] = r[i]
    BY <1>2
  <2>1. l[i] = b[n + i]
    BY <1>2
  <2>2. CASE i = Len(a) - n + 1
    <3>1. n + i = Len(a) + 1
      BY <2>2
    <3> QED
      BY <1>1, <1>3, <2>1, <2>2, <3>1
  <2>3. CASE i # Len(a) - n + 1
    <3>1. i \in 1 .. Len(a) - n /\ n + i \in 1 .. Len(a)
      BY <2>3
    <3> QED
      BY <1>1, <1>3, <2>1, <3>1
  <2> QED
    BY <2>2, <2>3
<1> HIDE DEF l, r
<1>5. l = r
  BY <1>2, <1>3, <1>4, SeqEqual
<1> QED
  BY <1>5 DEF l, r, b

LEMMA WaitingShrinks ==
  ASSUME NEW S, NEW a \in Seq(S), NEW n \in 0 .. Len(a) - 1
  PROVE  /\ SubSeq(a, n + 1, Len(a)) # << >>
         /\ Head(SubSeq(a, n + 1, Len(a))) = a[n + 1]
         /\ Tail(SubSeq(a, n + 1, Len(a))) = SubSeq(a, n + 2, Len(a))
<1>1. n + 1 \in 1 .. Len(a) /\ Len(a) \in n + 1 .. Len(a) /\ (n + 1) + 1 = n + 2
  OBVIOUS
<1>2. Len(SubSeq(a, n + 1, Len(a))) = Len(a) - n
  OBVIOUS
<1>3. SubSeq(a, n + 1, Len(a)) # << >>
  <2> SUFFICES ASSUME SubSeq(a, n + 1, Len(a)) = << >> PROVE FALSE
    OBVIOUS
  <2>1. Len(SubSeq(a, n + 1, Len(a))) = 0
    OBVIOUS
  <2> QED
    BY <1>2, <2>1
<1>4. /\ Head(SubSeq(a, n + 1, Len(a))) = a[n + 1]
      /\ Tail(SubSeq(a, n + 1, Len(a))) = SubSeq(a, (n + 1) + 1, Len(a))
  BY <1>1, HeadTailOfSubSeq
<1> QED
  BY <1>1, <1>3, <1>4

\* An add that completes with the ring undamaged puts its packet in the queue.
LEMMA QueueAccepts ==
  ASSUME QueueInv, clean, clean', NEW m \in 1 .. MaxPackets,
         accepted' = Append(accepted, m), sent' = sent
  PROVE  Queue!Accept
<1>1. accepted \in Seq(Nat) /\ Len(sent) \in 0 .. Len(accepted) /\ m \in Nat
  BY StackAssumption DEF QueueInv, RingIInv, TypeInv, TypeOK, InOrder
<1>2. SubSeq(accepted', Len(sent) + 1, Len(accepted'))
        = Append(SubSeq(accepted, Len(sent) + 1, Len(accepted)), m)
  BY <1>1, WaitingGrows
<1> QED
  BY <1>2 DEF Queue!Accept

\* The packet handed to a mailbox is the head of the queue.
LEMMA QueueTransmits ==
  ASSUME QueueInv, clean, Send
  PROVE  Queue!Transmit
<1> DEFINE n == Len(sent)
           q == SubSeq(accepted, n + 1, Len(accepted))
<1>1. /\ accepted \in Seq(Nat) /\ sent \in Seq(Packet) /\ pkt \in Packet /\ pc = "send"
      /\ clean' = clean /\ accepted' = accepted /\ sent' = Append(sent, pkt)
  BY DEF QueueInv, RingIInv, TypeInv, TypeOK, Send
<1>2. Taken = n + 1 /\ Taken <= Len(accepted) /\ pkt = Whole(accepted[Taken])
  BY <1>1 DEF QueueInv, RingIInv, RingInv, RingHolds, GetHolds, Taken
<1>3. n \in 0 .. Len(accepted) - 1 /\ Len(sent') = n + 1
  BY <1>1, <1>2
<1>4. /\ q # << >>
      /\ Head(q) = accepted[n + 1]
      /\ Tail(q) = SubSeq(accepted, n + 2, Len(accepted))
  BY <1>1, <1>3, WaitingShrinks
<1>5. pkt = [p \in Parts |-> Head(q)]
  BY <1>2, <1>4 DEF Whole
<1>6. SubSeq(accepted', Len(sent') + 1, Len(accepted')) = Tail(q)
  <2>1. Len(sent') + 1 = n + 2
    BY <1>1, <1>3
  <2> QED
    BY <1>1, <1>4, <2>1
<1> QED
  BY <1>1, <1>4, <1>5, <1>6 DEF Queue!Transmit

\* After the first fault nothing is promised, and the fault itself is seen.
LEMMA QueueFaults ==
  ASSUME clean \in BOOLEAN, clean' \in BOOLEAN, ~clean'
  PROVE  Queue!Fault
BY DEF Queue!Fault

LEMMA QueueStep == QueueInv /\ QueueInv' /\ [Next]_vars => [Queue!Next]_(Queue!vars)
<1> SUFFICES ASSUME QueueInv, QueueInv', [Next]_vars
             PROVE  Queue!Next \/ UNCHANGED Queue!vars
  OBVIOUS
<1>1. clean \in BOOLEAN /\ clean' \in BOOLEAN
  BY DEF QueueInv, RingIInv, TypeInv, TypeOK
<1>2. CASE ~clean'
  BY <1>1, <1>2, QueueFaults DEF Queue!Next
<1>3. CASE clean' /\ AddReturn
  <2>1. /\ clean /\ sent' = sent /\ accepted' = Append(accepted, cur)
        /\ cur \in 1 .. MaxPackets
    BY <1>3 DEF AddReturn, QueueInv, InAdd
  <2> QED
    BY <1>3, <2>1, QueueAccepts DEF Queue!Next
<1>4. CASE clean' /\ IsrAdd
  <2>1. clean
    BY <1>4, Zenon DEF IsrAdd
  <2>2. sent' = sent /\ accepted' = Append(accepted, issued') /\ issued' = issued + 1
    BY <1>4 DEF IsrAdd
  <2>3. issued' \in 1 .. MaxPackets
    BY <1>4, StackAssumption DEF IsrAdd, QueueInv
  <2> QED
    BY <1>4, <2>1, <2>2, <2>3, QueueAccepts DEF Queue!Next
<1>5. CASE clean' /\ Send
  BY <1>5, QueueTransmits DEF Queue!Next, Send
<1>6. CASE clean' /\ AddClaim
  BY <1>1, <1>6, QueueUnchanged DEF AddClaim
<1>7. CASE AddCall \/ AddCopy \/ AddPublish
  BY <1>7, QueueUnchanged DEF AddCall, AddCopy, AddPublish, history
<1>8. CASE WriteCall \/ WriteLoop \/ GetCheck \/ GetTake \/ GetRelease \/ GetReturn
  BY <1>8, QueueUnchanged
     DEF WriteCall, WriteLoop, GetCheck, GetTake, GetRelease, GetReturn, history
<1>9. CASE MailboxDone \/ Tick \/ UNCHANGED vars
  BY <1>9, QueueUnchanged DEF MailboxDone, Tick, vars, history
<1> QED
  BY <1>1, <1>2, <1>3, <1>4, <1>5, <1>6, <1>7, <1>8, <1>9 DEF Next, CanTask

\* The ring implements the queue its callers rely on (add_tx_can_packet and
\* can_write_from_stack): up to the first overflow or torn add, an add puts one
\* whole packet at the tail and a transmission takes one from the head.
THEOREM QueueRefined == Spec => QueueSpec
<1>1. Init => Queue!Init
  BY DEF Init, Queue!Init
<1> QED
  BY QueueInvInit, QueueInvStep, QueueStep, <1>1, PTL DEF Spec, QueueSpec, Queue!Spec

-----------------------------------------------------------------------------
(* No part of a packet is sent twice, damaged ring or not. *)

\* A number whose part p some step may still carry towards the bus is in one
\* place only: in a slot, in the packet being taken out or in the packet being
\* added.
Live(i, p) ==
  \/ /\ slot[i].state = "READY"
     /\ ~(pc \in {"take", "release"} /\ i = read_position /\ p \notin left)
  \/ pc \in {"copy", "publish"} /\ i = wr_pos /\ p \notin left
Held(p) == pc \in {"release", "next", "send"} \/ (pc = "take" /\ p \notin left)
Adding(p) == pc = "claim" \/ (pc = "copy" /\ p \in left)

Unsent(n, p) == n \in 1 .. issued /\ \A k \in 1 .. Len(sent) : sent[k][p] # n

SentOnce(p) ==
  \A i, j \in 1 .. Len(sent) :
    /\ sent[i][p] \in 1 .. issued
    /\ i # j => sent[i][p] # sent[j][p]
LiveOnce(p) ==
  /\ \A i \in Slots : Live(i, p) => Unsent(slot[i].part[p], p)
  /\ \A i, j \in Slots :
       i # j /\ Live(i, p) /\ Live(j, p) => slot[i].part[p] # slot[j].part[p]
HeldOnce(p) ==
  Held(p) => /\ Unsent(pkt[p], p)
             /\ \A i \in Slots : Live(i, p) => slot[i].part[p] # pkt[p]
AddingOnce(p) ==
  Adding(p) => /\ Unsent(cur, p)
               /\ \A i \in Slots : Live(i, p) => slot[i].part[p] # cur
Once(p) == SentOnce(p) /\ LiveOnce(p) /\ HeldOnce(p) /\ AddingOnce(p)

\* What the label of canTask says of the slot it reads and of the parts left.
LabelHolds ==
  /\ pc \in {"take", "release"} => slot[read_position].state = "READY"
  /\ pc \in {"release", "publish"} => left = {}

OnceInv == TypeInv /\ LabelHolds /\ \A p \in Parts : Once(p)

LEMMA OnceInit == Init => OnceInv
<1> SUFFICES ASSUME Init PROVE OnceInv
  OBVIOUS
<1>1. TypeInv
  BY TypeInit
<1>2. ASSUME NEW p \in Parts PROVE Once(p)
  BY DEF Init, Once, SentOnce, LiveOnce, HeldOnce, AddingOnce, Live, Held, Adding
<1> QED
  BY <1>1, <1>2 DEF Init, OnceInv, LabelHolds

\* A step that carries nothing anywhere new.
LEMMA OnceFrame ==
  ASSUME NEW p \in Parts, Once(p),
         issued' = issued, sent' = sent,
         \A i \in Slots : Live(i, p)' => Live(i, p) /\ slot'[i].part[p] = slot[i].part[p],
         Held(p)' => Held(p) /\ pkt'[p] = pkt[p],
         Adding(p)' => Adding(p) /\ cur' = cur
  PROVE  Once(p)'
<1>1. SentOnce(p)'
  BY DEF Once, SentOnce
<1>2. LiveOnce(p)'
  BY DEF Once, LiveOnce, Unsent
<1>3. HeldOnce(p)'
  BY DEF Once, HeldOnce, Unsent
<1>4. AddingOnce(p)'
  BY DEF Once, AddingOnce, Unsent
<1> QED
  BY <1>1, <1>2, <1>3, <1>4 DEF Once

\* A number that was just given to a packet is in no place yet.
LEMMA OnceIssued ==
  ASSUME NEW p \in Parts, Once(p), issued \in Nat, sent' = sent, issued' = issued + 1
  PROVE  /\ SentOnce(p)'
         /\ \A n : Unsent(n, p) => Unsent(n, p)' /\ n # issued'
         /\ \A n : n = issued' => Unsent(n, p)'
<1>1. 1 .. issued \subseteq 1 .. issued' /\ issued' \in 1 .. issued' /\ issued' \notin 1 .. issued
  OBVIOUS
<1>2. \A k \in 1 .. Len(sent) : sent[k][p] \in 1 .. issued
  BY DEF Once, SentOnce
<1> QED
  BY <1>1, <1>2 DEF Once, SentOnce, Unsent

\* canTask takes up a packet with a number of its own.
LEMMA OnceAdded ==
  ASSUME NEW p \in Parts, Once(p), issued \in Nat, sent' = sent, issued' = issued + 1,
         \A i \in Slots : Live(i, p)' => Live(i, p) /\ slot'[i].part[p] = slot[i].part[p],
         ~Held(p)', cur' = issued'
  PROVE  Once(p)'
<1>1. /\ SentOnce(p)'
      /\ \A n : Unsent(n, p) => Unsent(n, p)' /\ n # issued'
      /\ \A n : n = issued' => Unsent(n, p)'
  BY OnceIssued
<1>2. LiveOnce(p)'
  BY <1>1 DEF Once, LiveOnce
<1>3. AddingOnce(p)'
  BY <1>1 DEF Once, AddingOnce, LiveOnce
<1> QED
  BY <1>1, <1>2, <1>3 DEF Once, HeldOnce

\* An interrupt fills the slot k with a packet that has a number of its own.
LEMMA OnceFilled ==
  ASSUME NEW p \in Parts, Once(p), issued \in Nat, sent' = sent, issued' = issued + 1,
         NEW k \in Slots,
         Live(k, p)' => slot'[k].part[p] = issued',
         \A i \in Slots \ {k} :
           Live(i, p)' => Live(i, p) /\ slot'[i].part[p] = slot[i].part[p],
         Held(p)' => Held(p) /\ pkt'[p] = pkt[p],
         Adding(p)' => Adding(p) /\ cur' = cur
  PROVE  Once(p)'
<1>1. /\ SentOnce(p)'
      /\ \A n : Unsent(n, p) => Unsent(n, p)' /\ n # issued'
      /\ \A n : n = issued' => Unsent(n, p)'
  BY OnceIssued
<1>2. LiveOnce(p)'
  BY <1>1 DEF Once, LiveOnce
<1>3. HeldOnce(p)'
  BY <1>1 DEF Once, HeldOnce
<1>4. AddingOnce(p)'
  BY <1>1 DEF Once, AddingOnce
<1> QED
  BY <1>1, <1>2, <1>3, <1>4 DEF Once

\* canTask stores the part p of its packet in the slot k.
LEMMA OnceCopied ==
  ASSUME NEW p \in Parts, Once(p), issued' = issued, sent' = sent, NEW k \in Slots,
         Adding(p), ~Adding(p)', ~Held(p)', slot'[k].part[p] = cur,
         \A i \in Slots \ {k} :
           Live(i, p)' => Live(i, p) /\ slot'[i].part[p] = slot[i].part[p]
  PROVE  Once(p)'
<1>1. \A n : Unsent(n, p)' = Unsent(n, p)
  BY DEF Unsent
<1>2. SentOnce(p)'
  BY DEF Once, SentOnce
<1>3. LiveOnce(p)'
  BY <1>1 DEF Once, LiveOnce, AddingOnce
<1> QED
  BY <1>2, <1>3 DEF Once, HeldOnce, AddingOnce

\* canTask reads the part p of the packet in the slot k.
LEMMA OnceTaken ==
  ASSUME NEW p \in Parts, Once(p), issued' = issued, sent' = sent, NEW k \in Slots,
         Live(k, p), ~Live(k, p)', pkt'[p] = slot[k].part[p], ~Adding(p)',
         \A i \in Slots \ {k} :
           Live(i, p)' => Live(i, p) /\ slot'[i].part[p] = slot[i].part[p]
  PROVE  Once(p)'
<1>1. \A n : Unsent(n, p)' = Unsent(n, p)
  BY DEF Unsent
<1>2. SentOnce(p)'
  BY DEF Once, SentOnce
<1>3. LiveOnce(p)'
  BY <1>1 DEF Once, LiveOnce
<1>4. HeldOnce(p)'
  BY <1>1 DEF Once, HeldOnce, LiveOnce
<1> QED
  BY <1>2, <1>3, <1>4 DEF Once, AddingOnce

\* The packet taken out is handed to a mailbox.
LEMMA OnceSent ==
  ASSUME NEW p \in Parts, Once(p), sent \in Seq(Packet), pkt \in Packet,
         issued' = issued, sent' = Append(sent, pkt), Held(p), ~Held(p)', ~Adding(p)',
         \A i \in Slots : Live(i, p)' => Live(i, p) /\ slot'[i].part[p] = slot[i].part[p]
  PROVE  Once(p)'
<1> DEFINE n == Len(sent)
<1>1. /\ n \in Nat /\ Len(sent') = n + 1 /\ sent'[n + 1] = pkt
      /\ \A k \in 1 .. n : sent'[k] = sent[k]
  BY AppendProperties
<1>2. 1 .. n + 1 = (1 .. n) \cup {n + 1}
  BY <1>1
<1> HIDE DEF n
<1>3. /\ pkt[p] \in 1 .. issued
      /\ \A k \in 1 .. n : sent[k][p] # pkt[p]
      /\ \A i \in Slots : Live(i, p) => slot[i].part[p] # pkt[p]
  BY DEF Once, HeldOnce, Unsent, n
<1>4. SentOnce(p)'
  <2>1. \A k \in 1 .. n : sent[k][p] \in 1 .. issued
    BY DEF Once, SentOnce, n
  <2>2. \A i, j \in 1 .. n : i # j => sent[i][p] # sent[j][p]
    BY DEF Once, SentOnce, n
  <2> QED
    BY <1>1, <1>2, <1>3, <2>1, <2>2 DEF SentOnce
<1>5. \A m : Unsent(m, p) /\ m # pkt[p] => Unsent(m, p)'
  BY <1>1, <1>2 DEF Unsent, n
<1>6. LiveOnce(p)'
  BY <1>3, <1>5 DEF Once, LiveOnce
<1> QED
  BY <1>4, <1>6 DEF Once, HeldOnce, AddingOnce

LEMMA OnceIsrAdd == OnceInv /\ IsrAdd => \A p \in Parts : Once(p)'
<1> SUFFICES ASSUME OnceInv, IsrAdd, NEW p \in Parts PROVE Once(p)'
  OBVIOUS
<1> DEFINE k == write_position
<1>1. /\ issued \in Nat /\ k \in Slots /\ Once(p)
      /\ \A i \in Slots : slot[i] \in SlotType
      /\ pc' = pc /\ wr_pos' = wr_pos /\ cur' = cur /\ left' = left /\ pkt' = pkt
      /\ read_position' = read_position /\ sent' = sent /\ issued' = issued + 1
  BY DEF OnceInv, TypeInv, TypeOK, IsrAdd, task
<1>2. /\ slot'[k] = [state |-> "READY", part |-> Whole(issued')]
      /\ \A i \in Slots \ {k} : slot'[i] = slot[i]
  BY DEF IsrAdd, OnceInv, TypeInv, TypeOK
<1>3. slot'[k].part[p] = issued'
  BY <1>2 DEF Whole
<1>4. \A i \in Slots \ {k} : Live(i, p)' => Live(i, p) /\ slot'[i].part[p] = slot[i].part[p]
  BY <1>1, <1>2 DEF Live
<1>5. Held(p)' = Held(p) /\ Adding(p)' = Adding(p)
  BY <1>1 DEF Held, Adding
<1> HIDE DEF k
<1> QED
  BY <1>1, <1>3, <1>4, <1>5, OnceFilled

LEMMA OnceAddCopy == OnceInv /\ AddCopy => \A p \in Parts : Once(p)'
<1> SUFFICES ASSUME OnceInv, AddCopy, NEW p \in Parts PROVE Once(p)'
  OBVIOUS
<1>1. PICK q \in left : /\ slot' = [slot EXCEPT ![wr_pos].part[q] = cur]
                        /\ left' = left \ {q}
  BY DEF AddCopy
<1>2. /\ Once(p) /\ pc = "copy" /\ pc' = (IF left' = {} THEN "publish" ELSE "copy")
      /\ wr_pos \in Slots /\ wr_pos' = wr_pos /\ cur' = cur /\ pkt' = pkt
      /\ read_position' = read_position /\ sent' = sent /\ issued' = issued
      /\ left \subseteq Parts
  BY DEF OnceInv, TypeInv, TypeOK, AddCopy, history
<1>3. /\ slot'[wr_pos].state = slot[wr_pos].state
      /\ slot'[wr_pos].part[q] = cur
      /\ \A r \in Parts \ {q} : slot'[wr_pos].part[r] = slot[wr_pos].part[r]
      /\ \A i \in Slots \ {wr_pos} : slot'[i] = slot[i]
  <2>1. slot \in [Slots -> SlotType] /\ slot[wr_pos].part \in Packet
    BY <1>2 DEF OnceInv, TypeInv, TypeOK, SlotType
  <2>2. slot'[wr_pos] = [slot[wr_pos] EXCEPT !.part = [@ EXCEPT ![q] = cur]]
    BY <1>1, <1>2, <2>1
  <2>3. slot[wr_pos] \in [state : {"EMPTY", "BUSY", "READY"}, part : Packet] /\ q \in Parts
    BY <1>2, <2>1 DEF SlotType
  <2> QED
    BY <1>1, <1>2, <2>1, <2>2, <2>3 DEF Packet
<1>4. ~Held(p)'
  BY <1>2 DEF Held
<1>5. CASE p = q
  <2>1. \A i \in Slots \ {wr_pos} :
          Live(i, p)' => Live(i, p) /\ slot'[i].part[p] = slot[i].part[p]
    BY <1>2, <1>3 DEF Live
  <2>2. Adding(p) /\ ~Adding(p)'
    BY <1>1, <1>2, <1>5 DEF Adding
  <2> QED
    BY <1>2, <1>3, <1>4, <1>5, <2>1, <2>2, OnceCopied
<1>6. CASE p # q
  <2>1. p \in left' <=> p \in left
    BY <1>1, <1>6
  <2>2. \A i \in Slots : Live(i, p)' => Live(i, p) /\ slot'[i].part[p] = slot[i].part[p]
    BY <1>2, <1>3, <1>6, <2>1 DEF Live
  <2>3. Adding(p)' => Adding(p)
    BY <1>2, <2>1 DEF Adding
  <2> QED
    BY <1>2, <1>4, <2>2, <2>3, OnceFrame
<1> QED
  BY <1>5, <1>6

LEMMA OnceGetTake == OnceInv /\ GetTake => \A p \in Parts : Once(p)'
<1> SUFFICES ASSUME OnceInv, GetTake, NEW p \in Parts PROVE Once(p)'
  OBVIOUS
<1> DEFINE k == read_position
<1>1. PICK q \in left : /\ pkt' = [pkt EXCEPT ![q] = slot[k].part[q]]
                        /\ left' = left \ {q}
  BY DEF GetTake
<1>2. /\ Once(p) /\ pc = "take" /\ pc' = (IF left' = {} THEN "release" ELSE "take")
      /\ k \in Slots /\ k' = k /\ wr_pos' = wr_pos /\ cur' = cur /\ slot' = slot
      /\ sent' = sent /\ issued' = issued /\ left \subseteq Parts /\ pkt \in Packet
      /\ slot[k].state = "READY"
  BY DEF OnceInv, LabelHolds, TypeInv, TypeOK, GetTake, ring, history
<1>3. ~Adding(p)'
  BY <1>2 DEF Adding
<1>4. CASE p = q
  <2>1. Live(k, p) /\ ~Live(k, p)'
    BY <1>1, <1>2, <1>4 DEF Live
  <2>2. \A i \in Slots \ {k} :
          Live(i, p)' => Live(i, p) /\ slot'[i].part[p] = slot[i].part[p]
    BY <1>2 DEF Live
  <2>3. pkt'[p] = slot[k].part[p]
    BY <1>1, <1>2, <1>4 DEF Packet
  <2> HIDE DEF k
  <2> QED
    BY <1>2, <1>3, <2>1, <2>2, <2>3, OnceTaken
<1>5. CASE p # q
  <2>1. p \in left' <=> p \in left
    BY <1>1, <1>5
  <2>2. \A i \in Slots : Live(i, p)' => Live(i, p) /\ slot'[i].part[p] = slot[i].part[p]
    BY <1>2, <2>1 DEF Live
  <2>3. Held(p)' => Held(p) /\ pkt'[p] = pkt[p]
    BY <1>1, <1>2, <1>5, <2>1 DEF Held, Packet
  <2> QED
    BY <1>2, <1>3, <2>2, <2>3, OnceFrame
<1> QED
  BY <1>4, <1>5

\* Steps that change the label of canTask or the state of a slot.
LEMMA OnceSlotState ==
  ASSUME OnceInv, NEW k \in Slots, NEW st,
         \/ AddClaim /\ k = wr_pos /\ st = "BUSY"
         \/ AddPublish /\ k = wr_pos /\ st = "READY"
         \/ GetRelease /\ k = read_position /\ st = "EMPTY"
  PROVE  \A p \in Parts : Once(p)'
<1> SUFFICES ASSUME NEW p \in Parts PROVE Once(p)'
  OBVIOUS
<1>1. /\ slot' = [slot EXCEPT ![k].state = st] /\ Once(p)
      /\ issued' = issued /\ sent' = sent /\ pkt' = pkt /\ cur' = cur
      /\ read_position' = read_position /\ wr_pos' = wr_pos
  BY DEF OnceInv, AddClaim, AddPublish, GetRelease, history
<1>2. slot \in [Slots -> [state : {"EMPTY", "BUSY", "READY"}, part : Packet]]
  BY DEF OnceInv, TypeInv, TypeOK, SlotType
<1>3. /\ slot'[k].state = st
      /\ \A i \in Slots : slot'[i].part = slot[i].part
      /\ \A i \in Slots \ {k} : slot'[i] = slot[i]
  BY <1>1, <1>2
<1>4. CASE AddClaim /\ k = wr_pos /\ st = "BUSY"
  BY <1>1, <1>3, <1>4, OnceFrame DEF AddClaim, Live, Held, Adding
<1>5. CASE AddPublish /\ k = wr_pos /\ st = "READY"
  BY <1>1, <1>3, <1>5, OnceFrame DEF AddPublish, Live, Held, Adding, OnceInv, LabelHolds
<1>6. CASE GetRelease /\ k = read_position /\ st = "EMPTY"
  BY <1>1, <1>3, <1>6, OnceFrame DEF GetRelease, Live, Held, Adding, OnceInv, LabelHolds
<1> QED
  BY <1>4, <1>5, <1>6

LEMMA LabelStep == OnceInv /\ [Next]_vars => LabelHolds'
<1> SUFFICES ASSUME OnceInv, [Next]_vars PROVE LabelHolds'
  OBVIOUS
<1> USE DEF OnceInv, LabelHolds
<1>1. CASE IsrAdd
  BY <1>1 DEF IsrAdd, task, TypeInv, TypeOK
<1>2. CASE AddCall \/ AddClaim \/ AddCopy \/ AddPublish \/ AddReturn
  BY <1>2 DEF AddCall, AddClaim, AddCopy, AddPublish, AddReturn
<1>3. CASE WriteCall \/ WriteLoop
  BY <1>3 DEF WriteCall, WriteLoop
<1>4. CASE GetCheck
  BY <1>4 DEF GetCheck, ring, TypeInv, TypeOK
<1>5. CASE GetTake
  BY <1>5 DEF GetTake, ring
<1>6. CASE GetRelease \/ GetReturn \/ Send
  BY <1>6 DEF GetRelease, GetReturn, Send
<1>7. CASE MailboxDone \/ Tick \/ UNCHANGED vars
  BY <1>7 DEF MailboxDone, Tick, vars, ring, task
<1> QED
  BY <1>1, <1>2, <1>3, <1>4, <1>5, <1>6, <1>7 DEF Next, CanTask

LEMMA OnceStep == OnceInv /\ [Next]_vars => OnceInv'
<1> SUFFICES ASSUME OnceInv, [Next]_vars PROVE OnceInv'
  OBVIOUS
<1>1. TypeInv' /\ LabelHolds'
  BY TypeStep, LabelStep DEF OnceInv
<1>2. SUFFICES ASSUME NEW p \in Parts PROVE Once(p)'
  BY <1>1 DEF OnceInv
<1>3. Once(p) /\ issued \in Nat /\ wr_pos \in Slots /\ read_position \in Slots
  BY DEF OnceInv, TypeInv, TypeOK
<1>4. CASE AddCall
  BY <1>3, <1>4, OnceAdded DEF AddCall, ring, history, Live, Held
<1>5. CASE AddClaim \/ AddPublish \/ GetRelease
  BY <1>3, <1>5, OnceSlotState
<1>6. CASE AddCopy
  BY <1>6, OnceAddCopy
<1>7. CASE AddReturn
  BY <1>3, <1>7, OnceFrame DEF AddReturn, Live, Held, Adding
<1>8. CASE IsrAdd
  BY <1>8, OnceIsrAdd
<1>9. CASE WriteCall \/ WriteLoop
  BY <1>3, <1>9, OnceFrame DEF WriteCall, WriteLoop, ring, history, Live, Held, Adding
<1>10. CASE GetCheck
  BY <1>3, <1>10, OnceFrame DEF GetCheck, ring, history, Live, Held, Adding
<1>11. CASE GetTake
  BY <1>11, OnceGetTake
<1>12. CASE GetReturn
  BY <1>3, <1>12, OnceFrame DEF GetReturn, history, Live, Held, Adding
<1>13. CASE Send
  <2>1. sent \in Seq(Packet) /\ pkt \in Packet
    BY DEF OnceInv, TypeInv, TypeOK
  <2> QED
    BY <1>3, <1>13, <2>1, OnceSent DEF Send, ring, Live, Held, Adding
<1>14. CASE MailboxDone \/ Tick \/ UNCHANGED vars
  BY <1>3, <1>14, OnceFrame DEF MailboxDone, Tick, vars, ring, task, history, Live, Held, Adding
<1> QED
  BY <1>4, <1>5, <1>6, <1>7, <1>8, <1>9, <1>10, <1>11, <1>12, <1>13, <1>14 DEF Next, CanTask

\* However the ring is damaged by overflows and by interrupts that add in the
\* middle of an add, no part of a packet reaches the mailboxes twice and every
\* part that does was added by a caller (get_tx_can_packet).
THEOREM SentAtMostOnce == Spec => []NeverSentTwice
<1>1. OnceInv => NeverSentTwice
  BY DEF OnceInv, Once, SentOnce, NeverSentTwice
<1> QED
  BY OnceInit, OnceStep, <1>1, PTL DEF Spec
===============================================================================
