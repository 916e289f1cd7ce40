--------------------------- MODULE DiPublishProofs ----------------------------
(***************************************************************************)
(* Proofs about the publication of the discrete inputs, for any number of  *)
(* inputs, any division of them into frames and any number of changes.     *)
(***************************************************************************)
EXTENDS DiPublish, Integers, WellFoundedInduction, TLAPS

LEMMA MinIn ==
  ASSUME NEW S \in SUBSET Nat, S # {}
  PROVE  Min(S) \in S
<1>1. PICK x \in S : \A y \in S : ~(<<y, x>> \in OpToRel(<, Nat))
  BY NatLessThanWellFounded, WFMin
<1>2. ASSUME NEW y \in S PROVE x =< y
  <2>1. <<y, x>> \in Nat \X Nat /\ ~(y < x)
    BY <1>1 DEF OpToRel
  <2> QED
    BY <2>1
<1> QED
  BY <1>2 DEF Min

LEMMA BitSet ==
  ASSUME NEW S, NEW f \in [S -> BOOLEAN], NEW k \in S, NEW b \in BOOLEAN
  PROVE  [f EXCEPT ![k] = b] \in [S -> BOOLEAN]
OBVIOUS

LEMMA ConstantFacts ==
  /\ 1 \in Inputs /\ Inputs \subseteq Nat
  /\ \A i \in Inputs : i # NumInputs => i + 1 \in Inputs
  /\ 1 \in DOMAIN Bytes
  /\ \A b \in DOMAIN Bytes : Bytes[b] \subseteq Inputs
  /\ \A b \in DOMAIN Bytes : b # Len(Bytes) => b + 1 \in DOMAIN Bytes
BY DiAssumption DEF Inputs

\* Between two frames nothing is left to be read; while one is read, something is.
TodoHolds == cpc \in {"state", "fault"} <=> todo # {}

TypeInv == TypeOK /\ TodoHolds

LEMMA TypeInit == Init => TypeInv
BY ConstantFacts, DiAssumption
   DEF Init, TypeInv, TypeOK, TodoHolds, Levels, Value, Healthy

LEMMA TypeStep == TypeInv /\ [Next]_vars => TypeInv'
<1> SUFFICES ASSUME TypeInv, [Next]_vars PROVE TypeInv'
  OBVIOUS
<1> USE ConstantFacts DEF TypeInv, TypeOK, TodoHolds
<1>1. CASE \E i \in Inputs : LevelChange(i)
  <2>1. PICK i \in Inputs, l \in Levels : level' = [level EXCEPT ![i] = l]
    BY <1>1 DEF LevelChange
  <2>2. changes' \in 0 .. MaxChanges /\ level' \in [Inputs -> Levels]
    BY <1>1, <2>1, DiAssumption DEF LevelChange
  <2> QED
    BY <1>1, <2>2 DEF LevelChange, values, scan, pass, history
<1>2. CASE DinStart
  BY <1>2 DEF DinStart, inputs, values, pass, history
<1>12. CASE DinState
  <2>1. din' = [din EXCEPT ![at] = level[at] \in {"on", "short"}]
    BY <1>12 DEF DinState
  <2>2. din' \in [Inputs -> BOOLEAN]
    BY <2>1, BitSet
  <2> QED
    BY <1>12, <2>2 DEF DinState, inputs, pass, history
<1>13. CASE DinShort
  <2>1. din' = [din EXCEPT ![at] = din[at] /\ level[at] # "short"]
    BY <1>13 DEF DinShort
  <2>2. din' \in [Inputs -> BOOLEAN]
    BY <2>1, BitSet
  <2> QED
    BY <1>13, <2>2 DEF DinShort, inputs, pass, history
<1>14. CASE DinFault
  <2>1. din_fault' = [din_fault EXCEPT ![at] = level[at] \in {"break", "short"}]
    BY <1>14 DEF DinFault
  <2>2. din_fault' \in [Inputs -> BOOLEAN]
    BY <2>1, BitSet
  <2> QED
    BY <1>14, <2>2 DEF DinFault, inputs, pass, history
<1>3. CASE DinCompare
  BY <1>3 DEF DinCompare, NextInput, inputs, values, pass, history
<1>4. CASE DinFlag
  <2>1. Now(at) \in Value
    BY DEF Now, Value
  <2> QED
    BY <1>4, <2>1 DEF DinFlag, NextInput, inputs, pass
<1>5. CASE PassMask
  BY <1>5 DEF PassMask, NextByte, inputs, values, scan
<1>6. CASE PassState
  <2>1. Min(todo) \in todo
    BY <1>6, MinIn DEF PassState
  <2> QED
    BY <1>6, <2>1 DEF PassState, inputs, values, scan, history, Value
<1>7. CASE PassFault
  <2>1. Min(todo) \in todo
    BY <1>7, MinIn DEF PassFault
  <2> QED
    BY <1>7, <2>1 DEF PassFault, inputs, values, scan, history, Value
<1>8. CASE PassAdd
  BY <1>8 DEF PassAdd, inputs, values, scan, history
<1>9. CASE PassClear
  BY <1>9 DEF PassClear, NextByte, inputs, values, scan
<1>10. CASE Refresh
  BY <1>10 DEF Refresh, inputs, values, scan, pass
<1>11. CASE UNCHANGED vars
  BY <1>11 DEF vars, inputs, values, scan, pass, history
<1> QED
  BY <1>1, <1>2, <1>3, <1>4, <1>5, <1>6, <1>7, <1>8, <1>9, <1>10, <1>11, <1>12,
     <1>13, <1>14 DEF Next, Din, Pass

\* Every variable of the two tasks keeps its type: the scan stays within the
\* inputs, the pass within the frames, and a frame holds inputs only.
THEOREM TypeCorrect == Spec => []TypeOK
<1>1. TypeInv => TypeOK
  BY DEF TypeInv
<1> QED
  BY TypeInit, TypeStep, <1>1, PTL DEF Spec

-----------------------------------------------------------------------------
(* What defaultTask makes of an input. *)

\* Except for the input being scanned, din and din_fault are what prev says; for
\* that one they are as far as the scan has come.
Scanned(i) == at = i /\ dpc \in {"short", "fault", "compare", "flag"}
Staged(i) ==
  IF Scanned(i)
    THEN /\ dpc = "short" => din[i] = (level[i] \in {"on", "short"})
         /\ dpc = "fault" => din[i] = (level[i] = "on")
         /\ dpc \in {"short", "fault"} => din_fault[i] = prev[i].fault
         /\ dpc \in {"compare", "flag"} => Now(i) = Shown(level[i])
         /\ dpc = "flag" => Now(i) # prev[i]
    ELSE Now(i) = prev[i]

\* The scan of the input is going to flag it.
Changing(i) == dpc # "idle" /\ at = i /\ Shown(level[i]) # prev[i]

LEMMA StagedInit == Init => \A i \in Inputs : Staged(i)
BY DEF Init, Staged, Scanned, Now, Healthy

LEMMA StagedStep ==
  ASSUME TypeInv, [Next]_vars, NEW i \in Inputs, Staged(i)
  PROVE  Staged(i)'
<1> USE DEF TypeInv, TypeOK, Staged, Scanned
<1>1. CASE \E j \in Inputs : LevelChange(j)
  BY <1>1 DEF LevelChange, values, scan, Now
<1>2. CASE DinStart
  BY <1>2 DEF DinStart, inputs, values, Now
<1>3. CASE DinState
  <2>1. CASE at = i
    BY <1>3, <2>1 DEF DinState, inputs, Now, Value
  <2>2. CASE at # i
    BY <1>3, <2>2 DEF DinState, inputs, Now
  <2> QED
    BY <2>1, <2>2
<1>4. CASE DinShort
  <2>1. CASE at = i
    <3>1. din'[i] = (din[i] /\ level[i] # "short") /\ at' = i /\ dpc' = "fault"
      BY <1>4, <2>1 DEF DinShort
    <3>2. (level[i] \in {"on", "short"} /\ level[i] # "short") = (level[i] = "on")
      OBVIOUS
    <3>3. din'[i] = (level'[i] = "on") /\ din_fault'[i] = prev'[i].fault
      BY <1>4, <2>1, <3>1, <3>2 DEF DinShort, inputs
    <3> QED
      BY <3>1, <3>3
  <2>2. CASE at # i
    BY <1>4, <2>2 DEF DinShort, inputs, Now
  <2> QED
    BY <2>1, <2>2
<1>5. CASE DinFault
  <2>1. CASE at = i
    BY <1>5, <2>1 DEF DinFault, inputs, Now, Shown
  <2>2. CASE at # i
    BY <1>5, <2>2 DEF DinFault, inputs, Now
  <2> QED
    BY <2>1, <2>2
<1>6. CASE DinCompare
  BY <1>6 DEF DinCompare, NextInput, inputs, values, Now
<1>7. CASE DinFlag
  <2>1. CASE at = i
    BY <1>7, <2>1 DEF DinFlag, NextInput, inputs, Now
  <2>2. CASE at # i
    BY <1>7, <2>2 DEF DinFlag, NextInput, inputs, Now
  <2> QED
    BY <2>1, <2>2
<1>8. CASE Pass \/ Refresh \/ UNCHANGED vars
  <2>1. UNCHANGED <<inputs, values, scan>>
    BY <1>8 DEF Pass, PassMask, PassState, PassFault, PassAdd, PassClear, Refresh, vars
  <2> QED
    BY <2>1 DEF inputs, values, scan, Now
<1> QED
  BY <1>1, <1>2, <1>3, <1>4, <1>5, <1>6, <1>7, <1>8 DEF Next, Din

\* Once the scan is going to flag an input it does so.
LEMMA ChangingStays ==
  ASSUME TypeInv, [Next]_vars, NEW i \in Inputs, Staged(i), Changing(i)
  PROVE  Changing(i)' \/ (DinFlag /\ at = i)
<1> USE DEF Changing, Staged, Scanned
<1>1. CASE \E j \in Inputs : LevelChange(j)
  BY <1>1 DEF LevelChange
<1>2. CASE DinStart \/ DinState \/ DinShort \/ DinFault
  BY <1>2 DEF DinStart, DinState, DinShort, DinFault, inputs
<1>3. CASE DinCompare
  BY <1>3 DEF DinCompare, inputs, values
<1>4. CASE DinFlag
  BY <1>4
<1>5. CASE Pass \/ Refresh \/ UNCHANGED vars
  <2>1. UNCHANGED <<inputs, values, scan>>
    BY <1>5 DEF Pass, PassMask, PassState, PassFault, PassAdd, PassClear, Refresh, vars
  <2> QED
    BY <2>1 DEF inputs, values, scan
<1> QED
  BY <1>1, <1>2, <1>3, <1>4, <1>5 DEF Next, Din

-----------------------------------------------------------------------------
(* What canTask makes of an input, while the two tasks keep out of each     *)
(* other's way on update_di.                                                *)

Known(i) == Same(published[i], prev[i]) \/ i \in update_di \/ Changing(i)

\* The frame holds the inputs of its byte that were flagged when it was begun;
\* what has been flagged since is unread.
Marked(i) ==
  /\ i \in di_mask => i \in update_di \cap Bytes[byte]
  /\ i \in update_di \cap Bytes[byte] => i \in di_mask \cup unread

\* What has been read of an input is what prev says, or the input is going to be
\* flagged, or has been since.
Fresh(i) == i \in unread \/ Changing(i)
Read(i) ==
  /\ i \in di_mask \ todo => Fresh(i) \/ Same(packet[i], prev[i])
  /\ cpc = "fault" /\ i = Min(todo) =>
       Fresh(i) \/ prev[i].fault \/ packet[i].state = prev[i].state
  /\ cpc = "clear" /\ i \in di_mask => published[i] = packet[i]

KeptInput(i) == Known(i) /\ (cpc # "idle" => Marked(i) /\ Read(i))

KeptInv ==
  /\ TypeInv
  /\ \A i \in Inputs : Staged(i)
  /\ clean => \A i \in Inputs : KeptInput(i)

LEMMA KeptInit == Init => KeptInv
<1> SUFFICES ASSUME Init PROVE KeptInv
  OBVIOUS
<1>1. \A i \in Inputs : KeptInput(i)
  BY DEF Init, KeptInput, Known, Same
<1> QED
  BY <1>1, TypeInit, StagedInit DEF KeptInv

\* Steps that touch neither the flags nor the frame.
LEMMA KeptFrame ==
  ASSUME NEW i \in Inputs, KeptInput(i), UNCHANGED <<prev, update_di, pass, published, unread>>,
         Changing(i) => Changing(i)'
  PROVE  KeptInput(i)'
BY DEF KeptInput, Known, Marked, Read, Fresh, pass

LEMMA KeptDinFlag ==
  ASSUME TypeInv, NEW i \in Inputs, Staged(i), KeptInput(i), DinFlag, clean'
  PROVE  KeptInput(i)'
<1>1. /\ update_di' = update_di \cup {at} /\ unread' = unread \cup {at}
      /\ published' = published /\ UNCHANGED pass /\ UNCHANGED inputs
      /\ prev' = [prev EXCEPT ![at] = Now(at)] /\ prev \in [Inputs -> Value]
  BY DEF DinFlag, TypeInv, TypeOK
<1>2. CASE at = i
  BY <1>1, <1>2 DEF KeptInput, Known, Marked, Read, Fresh, pass
<1>3. CASE at # i
  <2>1. prev'[i] = prev[i] /\ (i \in update_di' <=> i \in update_di)
        /\ (i \in unread' <=> i \in unread)
    BY <1>1, <1>3
  <2>2. ~Changing(i)
    BY <1>3 DEF Changing
  <2> QED
    BY <1>1, <2>1, <2>2 DEF KeptInput, Known, Marked, Read, Fresh, pass
<1> QED
  BY <1>2, <1>3

LEMMA KeptMask ==
  ASSUME TypeInv, NEW i \in Inputs, KeptInput(i), PassMask, Changing(i) => Changing(i)'
  PROVE  KeptInput(i)'
<1>1. /\ Known(i)'
      /\ todo = {} /\ cpc = "idle"
  BY DEF PassMask, KeptInput, Known, TypeInv, TodoHolds, values
<1>2. CASE update_di \cap Bytes[byte] = {}
  BY <1>1, <1>2 DEF PassMask, KeptInput
<1>3. CASE update_di \cap Bytes[byte] # {}
  <2>1. /\ cpc' = "state" /\ di_mask' = update_di \cap Bytes[byte] /\ todo' = di_mask'
        /\ byte' = byte /\ update_di' = update_di
    BY <1>3 DEF PassMask
  <2> QED
    BY <1>1, <2>1 DEF KeptInput, Marked, Read
<1> QED
  BY <1>2, <1>3

LEMMA KeptState ==
  ASSUME TypeInv, NEW i \in Inputs, Staged(i), KeptInput(i), PassState,
         Changing(i) => Changing(i)'
  PROVE  KeptInput(i)'
<1> DEFINE m == Min(todo)
<1>1. /\ m \in todo /\ todo \in SUBSET Inputs
  BY MinIn, ConstantFacts DEF TypeInv, TypeOK, TodoHolds, PassState
<1>2. /\ packet' = [packet EXCEPT ![m].state = din[m]] /\ packet \in [Inputs -> Value]
      /\ cpc = "state" /\ cpc' = "fault" /\ todo' = todo /\ di_mask' = di_mask
      /\ byte' = byte /\ update_di' = update_di /\ unread' = unread /\ prev' = prev
      /\ published' = published
  BY DEF PassState, TypeInv, TypeOK, values, history
<1>3. Min(todo)' = m
  BY <1>2
<1> HIDE DEF m
<1>4. Known(i)' /\ Marked(i)'
  BY <1>2 DEF KeptInput, Known, Marked
<1>5. CASE i # m
  <2>1. packet'[i] = packet[i]
    BY <1>2, <1>5
  <2> QED
    BY <1>2, <1>3, <1>4, <1>5, <2>1 DEF KeptInput, Read, Fresh
<1>6. CASE i = m
  <2>1. packet'[i].state = din[i]
    BY <1>2, <1>6 DEF Value
  <2>2. Changing(i) \/ prev[i].fault \/ din[i] = prev[i].state
    <3>1. CASE Scanned(i)
      BY <3>1 DEF Changing, Staged, Scanned, Now, Shown, TypeInv, TypeOK, Levels, Value
    <3>2. CASE ~Scanned(i)
      BY <3>2 DEF Staged, Now
    <3> QED
      BY <3>1, <3>2
  <2> QED
    BY <1>1, <1>2, <1>3, <1>4, <1>6, <2>1, <2>2 DEF KeptInput, Read, Fresh
<1> QED
  BY <1>5, <1>6

LEMMA KeptFault ==
  ASSUME TypeInv, NEW i \in Inputs, Staged(i), KeptInput(i), PassFault,
         Changing(i) => Changing(i)'
  PROVE  KeptInput(i)'
<1> DEFINE m == Min(todo)
<1>1. /\ m \in todo /\ todo \in SUBSET Inputs
  BY MinIn, ConstantFacts DEF TypeInv, TypeOK, TodoHolds, PassFault
<1>2. /\ packet' = [packet EXCEPT ![m].fault = din_fault[m]] /\ packet \in [Inputs -> Value]
      /\ cpc = "fault" /\ cpc' \in {"add", "state"} /\ todo' = todo \ {m}
      /\ di_mask' = di_mask /\ byte' = byte /\ update_di' = update_di
      /\ unread' = unread /\ prev' = prev /\ published' = published
  BY DEF PassFault, TypeInv, TypeOK, values, history
<1>3. Known(i)' /\ Marked(i)'
  BY <1>2 DEF KeptInput, Known, Marked
<1>4. CASE i # m
  <2>1. packet'[i] = packet[i]
    BY <1>2, <1>4
  <2> QED
    BY <1>2, <1>3, <1>4, <2>1 DEF KeptInput, Read, Fresh
<1>5. CASE i = m
  <2>1. packet'[i].fault = din_fault[i] /\ packet'[i].state = packet[i].state
    BY <1>2, <1>5 DEF Value
  <2>2. Fresh(i) \/ prev[i].fault \/ packet[i].state = prev[i].state
    BY <1>2, <1>5 DEF KeptInput, Read
  <2>3. Changing(i) \/ din_fault[i] = prev[i].fault
    <3>1. CASE Scanned(i)
      BY <3>1 DEF Changing, Staged, Scanned, Now
    <3>2. CASE ~Scanned(i)
      BY <3>2 DEF Staged, Now
    <3> QED
      BY <3>1, <3>2
  <2> HIDE DEF m
  <2>4. Fresh(i)' \/ Same(packet[i], prev[i])'
    BY <1>2, <2>1, <2>2, <2>3 DEF Fresh, Same
  <2> QED
    BY <1>2, <1>3, <2>4 DEF KeptInput, Read
<1> QED
  BY <1>4, <1>5

LEMMA KeptAdd ==
  ASSUME TypeInv, NEW i \in Inputs, KeptInput(i), PassAdd, Changing(i) => Changing(i)'
  PROVE  KeptInput(i)'
<1>1. /\ published' = [j \in Inputs |-> IF j \in di_mask THEN packet[j] ELSE published[j]]
      /\ UNCHANGED <<prev, update_di, byte, di_mask, todo, packet, unread>>
      /\ cpc = "add" /\ cpc' = "clear"
  BY DEF PassAdd, values, history
<1>2. Marked(i) /\ Read(i) /\ Known(i)
  BY <1>1 DEF KeptInput
<1>3. Marked(i)' /\ Read(i)'
  BY <1>1, <1>2 DEF Marked, Read, Fresh
<1>4. Known(i)'
  BY <1>1, <1>2 DEF Marked, Known
<1> QED
  BY <1>3, <1>4 DEF KeptInput

\* The flags of the frame may be cleared: every input of its byte that is still
\* flagged was in the frame, and nothing has come since it was read.
LEMMA KeptClear ==
  ASSUME TypeInv, NEW i \in Inputs, KeptInput(i), PassClear, clean',
         Changing(i) => Changing(i)'
  PROVE  KeptInput(i)'
<1>1. /\ cpc = "clear" /\ cpc' = "idle" /\ update_di' = update_di \ Bytes[byte]
      /\ unread \cap Bytes[byte] = {} /\ UNCHANGED <<prev, published>>
      /\ todo = {}
  BY DEF PassClear, TypeInv, TodoHolds, values
<1>2. Marked(i) /\ Read(i) /\ Known(i)
  BY <1>1 DEF KeptInput
<1>3. CASE i \in Bytes[byte] \cap update_di
  <2>1. i \in di_mask /\ i \notin unread
    BY <1>1, <1>2, <1>3 DEF Marked
  <2>2. Changing(i) \/ Same(published[i], prev[i])
    BY <1>1, <1>2, <2>1 DEF Read, Fresh
  <2> QED
    BY <1>1, <2>2 DEF KeptInput, Known
<1>4. CASE i \notin Bytes[byte] \cap update_di
  BY <1>1, <1>2, <1>4 DEF KeptInput, Known
<1> QED
  BY <1>3, <1>4

LevelChanged == \E j \in Inputs : LevelChange(j)

LEMMA KeptStep == KeptInv /\ [Next]_vars => KeptInv'
<1> SUFFICES ASSUME KeptInv, [Next]_vars PROVE KeptInv'
  OBVIOUS
<1>1. TypeInv' /\ \A i \in Inputs : Staged(i)'
  BY TypeStep, StagedStep DEF KeptInv
<1>2. SUFFICES ASSUME clean', NEW i \in Inputs PROVE KeptInput(i)'
  BY <1>1 DEF KeptInv
<1>3. TypeInv /\ Staged(i) /\ (clean => KeptInput(i))
  BY DEF KeptInv
<1>4. CASE LevelChanged \/ DinStart \/ DinState \/ DinShort \/ DinFault \/ DinCompare
  <2>1. /\ clean /\ UNCHANGED <<prev, update_di, pass, published, unread>> /\ ~DinFlag
    BY <1>2, <1>4
       DEF LevelChanged, LevelChange, DinStart, DinState, DinShort, DinFault, DinCompare,
           DinFlag, values, history
  <2>2. Changing(i) => Changing(i)'
    BY <1>3, <2>1, ChangingStays
  <2> QED
    BY <1>3, <2>1, <2>2, KeptFrame
<1>5. CASE UNCHANGED vars
  BY <1>2, <1>3, <1>5, KeptFrame DEF vars, inputs, values, scan, history, Changing
<1>6. CASE DinFlag
  BY <1>2, <1>3, <1>6, KeptDinFlag DEF DinFlag
<1>7. CASE Pass
  <2>1. (Changing(i) => Changing(i)') /\ clean
    BY <1>2, <1>7
       DEF Pass, PassMask, PassState, PassFault, PassAdd, PassClear, inputs, values, scan,
           history, Changing
  <2> QED
    BY <1>2, <1>3, <1>7, <2>1, KeptMask, KeptState, KeptFault, KeptAdd, KeptClear DEF Pass
<1>8. CASE Refresh
  BY <1>2, <1>3, <1>8 DEF Refresh, KeptInput, Known, pass
<1> QED
  BY <1>4, <1>5, <1>6, <1>7, <1>8 DEF Next, Din, LevelChanged

\* For any number of inputs and any frames: as long as the two tasks have not
\* got into each other's way on update_di, a change of an input is published, is
\* flagged or is about to be (update_din, update_di_data).
THEOREM ChangeAlwaysKept == Spec => []ChangeKept
<1>1. KeptInv => ChangeKept
  BY DEF KeptInv, KeptInput, Known, Changing, ChangeKept
<1> QED
  BY KeptInit, KeptStep, <1>1, PTL DEF Spec
===============================================================================
