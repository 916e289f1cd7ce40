----------------------------- MODULE EepromProofs -----------------------------
(***************************************************************************)
(* Proofs about the EEPROM emulation, for any variables, any data, pages   *)
(* of any size that have the room EepromAssumption asks for, and any       *)
(* number of losses of power.                                              *)
(***************************************************************************)
EXTENDS Eeprom, Integers, SequenceTheorems, TLAPS

-----------------------------------------------------------------------------
(* The words of a page are written in order, whatever the losses of power. *)

Num == Len(VarTab)
Data == Vals \cup {FFFF}
Blank == [val |-> FFFF, var |-> FFFF]

Filled(pg, k) == \A i \in Words : i > k <=> pg.word[i] = Blank
Last(pg, v, i) ==
  i \in Words /\ pg.word[i].var = v /\ \A j \in Words : j > i => pg.word[j].var # v

\* The search of EE_ReadVariable finds a last word for every variable there is.
Sound(pg) ==
  /\ \E k \in 0 .. PageSize : Filled(pg, k)
  /\ \A v \in Vars : (\E i \in Words : pg.word[i].var = v) => \E i \in Words : Last(pg, v, i)

\* The operations; an address is only programmed right after its data, behind all others.
Free ==
  [op : {"erase", "clean"}, page : {0, 1}]
    \cup [op : {"mark"}, page : {0, 1}, status : {"RECEIVE", "VALID"}]
    \cup [op : {"store", "put"}, var : Vars, val : Vals \cup {FFFF}]
    \cup [op : {"copy"}, var : Vars, skip : Vars \cup {FFFF}]
Ops == Free \cup [op : {"seal"}, page : {0, 1}, at : Words, var : Vars]
Behind(pg, i) ==
  \A j \in Words : /\ j < i => pg.word[j] # Blank
                   /\ j > i => pg.word[j] = Blank
                   /\ j = i => pg.word[j].var = FFFF

FlashInv ==
  /\ page \in [{0, 1} -> PageType] /\ \A p \in {0, 1} : Sound(page[p])
  /\ booted \in BOOLEAN /\ intact \in BOOLEAN /\ resets \in 0 .. MaxResets
  /\ request \in [var : Vars, val : Vals] \cup {NoRequest}
  /\ plan \in Seq(Ops) /\ (plan # << >> => Tail(plan) \in Seq(Free))
  /\ Doing("seal") => Behind(page[Head(plan).page], Head(plan).at)
  /\ ~booted => plan = << >> /\ request = NoRequest

-----------------------------------------------------------------------------
(* Where the functions stand, as long as every reset was one to recover from. *)

\* Page pg receives the variables of page og.
First(pg) == pg.word[1].var
Emptied(og) == \A v \in Vars : Search(og, v) = Absent
Partial(pg, og) == \A v \in Vars : v # First(pg) => Search(pg, v) \in {Absent, Search(og, v)}
Done(pg, og, j) == \A i \in 1 .. j - 1 :
  VarTab[i] = First(pg) \/ Search(pg, VarTab[i]) = Search(og, VarTab[i])

\* The words that are still to be written, now and by the repairs to come.
Cost(pg) == IF First(pg) \in Vars THEN Num - 1 ELSE Num
Left(j, skip) == IF \E i \in j .. Num : VarTab[i] = skip THEN Num - j ELSE Num - j + 1
Room(pg, used, left, times) == used + left + times * Cost(pg) =< PageSize

\* The loop over VarTab before its j-th entry, and while it copies that entry.
Skips(pg, j, skip) ==
  First(pg) \in Vars => \A i \in j .. Num : VarTab[i] = First(pg) => skip = First(pg)
Before(pg, og, j, skip, times) ==
  /\ Skips(pg, j, skip)
  /\ \/ Emptied(og)
     \/ /\ Partial(pg, og) /\ Done(pg, og, j)
        /\ \E k \in 0 .. PageSize : Filled(pg, k) /\ Room(pg, k, Left(j, skip), times)
During(pg, og, j, skip) ==
  /\ Skips(pg, j + 1, skip) /\ VarTab[j] # First(pg) /\ VarTab[j] # skip
  /\ Partial(pg, og) /\ Done(pg, og, j) /\ Search(og, VarTab[j]) # Absent
Restartable(pg, og, times) ==
  \/ Emptied(og)
  \/ /\ Partial(pg, og)
     /\ \E k \in 0 .. PageSize : Filled(pg, k) /\ Room(pg, k, Cost(pg), times)

\* Its operations from the j-th entry on, and what follows them.
Rest(j, skip, end) ==
  [i \in 1 .. (Num - j + 1) + 2 |->
     IF i =< Num - j + 1 THEN [op |-> "copy", var |-> VarTab[j + i - 1], skip |-> skip]
                         ELSE end[i - (Num - j + 1)]]
TransferEnd(n) == Erase(Other(n)) \o Mark(n, "VALID")
ResumeEnd == Mark(1, "VALID") \o Clean(0)

Receiving(n) == page[n].status = "RECEIVE" /\ page[Other(n)].status = "VALID"
Loop(n, skip, end) ==
  /\ Receiving(n) /\ skip \in Vars \cup {FFFF} /\ (skip \in Vars => First(page[n]) = skip)
  /\ \/ /\ end = TransferEnd(n) /\ request # NoRequest
        /\ skip = request.var /\ Search(page[n], skip) = request.val
     \/ end = ResumeEnd /\ n = 1 /\ request = NoRequest

CopyNext(n, j, skip, end) ==
  /\ plan = Rest(j, skip, end) /\ Loop(n, skip, end)
  /\ Before(page[n], page[Other(n)], j, skip, MaxResets - resets)
CopyPut(n, j, skip, end) ==
  /\ plan = Put(VarTab[j], Search(page[Other(n)], VarTab[j])) \o Rest(j + 1, skip, end)
  /\ Loop(n, skip, end) /\ During(page[n], page[Other(n)], j, skip)
  /\ \E k \in 0 .. PageSize :
       Filled(page[n], k) /\ Room(page[n], k + 1, Left(j + 1, skip), MaxResets - resets)
CopySeal(n, j, skip, end) ==
  /\ \E i \in Words : /\ plan = Seal(n, i, VarTab[j]) \o Rest(j + 1, skip, end)
                      /\ page[n].word[i].val = Search(page[Other(n)], VarTab[j])
                      /\ Room(page[n], i, Left(j + 1, skip), MaxResets - resets)
  /\ Loop(n, skip, end) /\ During(page[n], page[Other(n)], j, skip)
Copying ==
  \E n \in {0, 1}, skip \in Vars \cup {FFFF} : \E end \in {TransferEnd(n), ResumeEnd} :
    \/ \E j \in 1 .. Num + 1 : CopyNext(n, j, skip, end)
    \/ \E j \in 1 .. Num : CopyPut(n, j, skip, end) \/ CopySeal(n, j, skip, end)

\* A call of EE_WriteVariable.
Known(p) == page[p].status = "VALID" /\ page[Other(p)] = Erased
Answered(p) == request # NoRequest => Search(page[p], request.var) = request.val
Ready(p) == plan = << >> /\ Known(p) /\ Answered(p)
Storing(p) == request # NoRequest /\ plan = Store(request) /\ Known(p)
Sealing(p) ==
  /\ request # NoRequest /\ Known(p)
  /\ \E i \in Words : plan = Seal(p, i, request.var) /\ page[p].word[i].val = request.val

\* ... that goes on with a transfer to page n.
Copied(n) == Rest(1, request.var, TransferEnd(n))
MoveMark(n) ==
  /\ request # NoRequest /\ Known(Other(n))
  /\ plan = Mark(n, "RECEIVE") \o (Put(request.var, request.val) \o Copied(n))
MovePut(n) ==
  /\ request # NoRequest /\ Receiving(n) /\ page[n].word = Erased.word
  /\ plan = Put(request.var, request.val) \o Copied(n)
MoveSeal(n) ==
  /\ request # NoRequest /\ Receiving(n) /\ plan = Seal(n, 1, request.var) \o Copied(n)
  /\ page[n].word[1].val = request.val
  /\ \A i \in Words : page[n].word[i].var = FFFF /\ (i # 1 => page[n].word[i] = Blank)
Moved(n) ==
  plan = Mark(n, "VALID") /\ page[Other(n)] = Erased /\ page[n].status = "RECEIVE" /\ Answered(n)

\* EE_Init.
Kept0 == page[0].status = "ERASED" /\ \E i \in Words : page[0].word[i].val # FFFF
Gone0 == page[0] = Erased \/ Kept0
Format0 == plan = Format /\ page[0] = Erased /\ page[1] = Erased
Format1 == plan = Mark(0, "VALID") \o Clean(1) /\ page[0] = Erased /\ page[1] = Erased
Clean1 == plan = Clean(1) /\ Known(0)
CleanMark1 == plan = Clean(1) \o Mark(0, "VALID") /\ page[1] = Erased /\ page[0].status = "RECEIVE"
Clean0 == /\ plan \in {Clean(0), Erase(0)} /\ page[1].status = "VALID"
          /\ page[0].status = "VALID" \/ Gone0
CleanMark0 == /\ plan \in {Clean(0) \o Mark(1, "VALID"), Erase(0) \o Mark(1, "VALID")}
              /\ page[1].status = "RECEIVE" /\ Gone0
Initialising ==
  request = NoRequest /\ (Format0 \/ Format1 \/ Clean1 \/ CleanMark1 \/ Clean0 \/ CleanMark0)

On ==
  \/ Copying \/ Initialising
  \/ \E n \in {0, 1} : \/ Ready(n) \/ Storing(n) \/ Sealing(n)
                       \/ MoveMark(n) \/ MovePut(n) \/ MoveSeal(n) \/ Moved(n)

\* Before EE_Init, after a reset.
CutShort == Receiving(1) /\ Restartable(page[1], page[0], MaxResets - resets)
Off ==
  \/ page[0] = Erased /\ page[1] = Erased
  \/ Known(0)
  \/ page[1].status \in {"VALID", "RECEIVE"} /\ Gone0
  \/ page[0].status = "RECEIVE" /\ page[1] = Erased
  \/ CutShort

FlashIInv == FlashInv /\ (intact => IF booted THEN On ELSE Off)

-----------------------------------------------------------------------------
(* Sequences and constants. *)

LEMMA Cons ==
  ASSUME NEW S, NEW x \in S, NEW s \in Seq(S)
  PROVE  /\ <<x>> \o s \in Seq(S) /\ <<x>> \o s # << >>
         /\ Head(<<x>> \o s) = x /\ Tail(<<x>> \o s) = s
<1> DEFINE t == <<x>> \o s
<1>1. <<x>> \in Seq(S) /\ Len(<<x>>) = 1 /\ <<x>>[1] = x
  OBVIOUS
<1>2. /\ t \in Seq(S) /\ Len(t) = 1 + Len(s)
      /\ \A i \in 1 .. 1 + Len(s) : t[i] = IF i =< 1 THEN x ELSE s[i - 1]
  BY <1>1, ConcatProperties
<1>3. Len(s) \in Nat /\ s \in [1 .. Len(s) -> S]
  OBVIOUS
<1> HIDE DEF t
<1>4. t # << >> /\ Head(t) = x
  BY <1>2, <1>3
<1>5. Tail(t) = s
  <2>1. Tail(t) \in Seq(S) /\ Len(Tail(t)) = Len(t) - 1
        /\ \A i \in 1 .. Len(t) - 1 : Tail(t)[i] = t[i + 1]
    BY <1>2, <1>4
  <2>2. Len(Tail(t)) = Len(s) /\ \A i \in 1 .. Len(s) : Tail(t)[i] = s[i]
    BY <1>2, <1>3, <2>1
  <2> QED
    BY <2>1, <2>2, SeqEqual
<1> QED
  BY <1>2, <1>4, <1>5 DEF t

LEMMA Single ==
  ASSUME NEW S, NEW x \in S
  PROVE  <<x>> \in Seq(S) /\ <<x>> # << >> /\ Head(<<x>>) = x /\ Tail(<<x>>) = << >>
         /\ Len(<<x>>) = 1 /\ <<x>>[1] = x
OBVIOUS

LEMMA Constants ==
  /\ Num \in Nat \ {0} /\ DOMAIN VarTab = 1 .. Num /\ \A i \in 1 .. Num : VarTab[i] \in Vars
  /\ \A v \in Vars : \E i \in 1 .. Num : VarTab[i] = v
  /\ \A i, j \in 1 .. Num : VarTab[i] = VarTab[j] => i = j
  /\ FFFF \notin Vars /\ Absent \notin Vals \cup {FFFF}
  /\ PageSize \in Nat \ {0} /\ MaxResets \in Nat /\ 1 \in Words
  /\ Num + (Num - 1) * MaxResets =< PageSize /\ 1 + Num * MaxResets =< PageSize
  /\ NoRequest \notin [var : Vars, val : Vals]
<1>1. Num \in Nat \ {0} /\ DOMAIN VarTab = 1 .. Num /\ \A i \in 1 .. Num : VarTab[i] \in Vars
  BY EepromAssumption DEF Num
<1>2. \A v \in Vars : \E i \in 1 .. Num : VarTab[i] = v
  BY <1>1 DEF Vars
<1>3. PageSize \in Nat \ {0} /\ MaxResets \in Nat
  <2>1. Num * MaxResets \in Nat
    BY <1>1, EepromAssumption
  <2> QED
    BY <2>1, EepromAssumption DEF Num
<1> QED
  BY <1>1, <1>2, <1>3, EepromAssumption DEF Num, Words

-----------------------------------------------------------------------------
(* Pages. *)

LEMMA PageFacts ==
  ASSUME NEW pg \in PageType
  PROVE  /\ pg.status \in {"ERASED", "RECEIVE", "VALID"} /\ pg.word \in [Words -> Word]
         /\ \A i \in Words : pg.word[i].val \in Vals \cup {FFFF} /\ pg.word[i].var \in Vars \cup {FFFF}
                             /\ pg.word[i] \in Word
         /\ pg = [status |-> pg.status, word |-> pg.word]
BY DEF PageType, Word

LEMMA ErasedFacts ==
  /\ Erased \in PageType /\ Erased.status = "ERASED"
  /\ \A i \in Words : Erased.word[i] = Blank /\ Erased.word[i].val = FFFF /\ Erased.word[i].var = FFFF
  /\ Filled(Erased, 0) /\ \A v \in Vars : Search(Erased, v) = Absent
<1>1. /\ Erased \in PageType /\ Erased.status = "ERASED"
      /\ \A i \in Words : Erased.word[i] = Blank /\ Erased.word[i].val = FFFF
                          /\ Erased.word[i].var = FFFF
  BY DEF Erased, PageType, Word, Blank
<1>2. Filled(Erased, 0)
  BY <1>1 DEF Filled, Words
<1>3. \A v \in Vars : Search(Erased, v) = Absent
  BY <1>1, Constants DEF Search
<1> QED
  BY <1>1, <1>2, <1>3

\* The search finds the last word of a variable.
LEMMA SearchLast ==
  ASSUME NEW pg, NEW v, NEW i \in Words, Last(pg, v, i)
  PROVE  Search(pg, v) = pg.word[i].val
<1> DEFINE Is(k) == /\ pg.word[k].var = v
                    /\ \A j \in Words : j > k => pg.word[j].var # v
<1>1. Is(i) /\ \A k \in Words : Is(k) => k = i
  BY DEF Last, Words
<1>2. (CHOOSE k \in Words : Is(k)) = i
  BY <1>1
<1>3. \E k \in Words : pg.word[k].var = v
  BY DEF Last
<1> QED
  BY <1>2, <1>3 DEF Search

LEMMA SearchNone ==
  ASSUME NEW pg, NEW v, \A i \in Words : pg.word[i].var # v
  PROVE  Search(pg, v) = Absent
BY DEF Search

\* What it finds is data, or there is no word of the variable.
LEMMA SearchData ==
  ASSUME NEW pg \in PageType, Sound(pg), NEW v \in Vars
  PROVE  /\ Search(pg, v) \in Vals \cup {FFFF} \cup {Absent}
         /\ Search(pg, v) = Absent <=> \A i \in Words : pg.word[i].var # v
<1>1. CASE \A i \in Words : pg.word[i].var # v
  BY <1>1, SearchNone
<1>2. CASE \E i \in Words : pg.word[i].var = v
  <2>1. PICK i \in Words : Last(pg, v, i)
    BY <1>2 DEF Sound
  <2>2. Search(pg, v) = pg.word[i].val /\ pg.word[i].val \in Vals \cup {FFFF}
    BY <2>1, SearchLast, PageFacts
  <2> QED
    BY <1>2, <2>2, Constants
<1> QED
  BY <1>1, <1>2

\* The search depends on the words of the variable only.
LEMMA SearchSame ==
  ASSUME NEW pg, NEW qg, Sound(pg), NEW v \in Vars,
         \A i \in Words : /\ qg.word[i].var = v <=> pg.word[i].var = v
                          /\ pg.word[i].var = v => qg.word[i].val = pg.word[i].val
  PROVE  Search(qg, v) = Search(pg, v) /\ \A i \in Words : Last(qg, v, i) <=> Last(pg, v, i)
<1>0. \A i \in Words : Last(qg, v, i) <=> Last(pg, v, i)
  BY DEF Last
<1>1. CASE \A i \in Words : pg.word[i].var # v
  BY <1>0, <1>1, SearchNone
<1>2. CASE \E i \in Words : pg.word[i].var = v
  <2>1. PICK i \in Words : Last(pg, v, i)
    BY <1>2 DEF Sound
  <2>2. Last(qg, v, i) /\ qg.word[i].val = pg.word[i].val
    BY <1>0, <2>1 DEF Last
  <2> QED
    BY <1>0, <2>1, <2>2, SearchLast
<1> QED
  BY <1>1, <1>2

LEMMA FilledOnce ==
  ASSUME NEW pg, NEW k \in 0 .. PageSize, Filled(pg, k), NEW j \in 0 .. PageSize, Filled(pg, j)
  PROVE  j = k
<1>1. PageSize \in Nat /\ Words = 1 .. PageSize
  BY Constants DEF Words
<1>2. \A m \in 0 .. PageSize, n \in 0 .. PageSize : m < n /\ Filled(pg, m) => ~Filled(pg, n)
  <2> SUFFICES ASSUME NEW m \in 0 .. PageSize, NEW n \in 0 .. PageSize, m < n,
                      Filled(pg, m), Filled(pg, n)
               PROVE  FALSE
    OBVIOUS
  <2>1. n \in Words /\ n > m /\ ~(n > n)
    BY <1>1
  <2> QED
    BY <2>1 DEF Filled
<1> QED
  BY <1>1, <1>2

LEMMA BlankFirst ==
  ASSUME NEW f, NEW p, \E k \in 0 .. PageSize : Filled(f[p], k)
  PROVE  IF Blanks(f, p) = {} THEN Filled(f[p], PageSize)
                              ELSE FirstBlank(f, p) \in Words /\ Filled(f[p], FirstBlank(f, p) - 1)
<1>1. PICK k \in 0 .. PageSize : Filled(f[p], k)
  OBVIOUS
<1>2. Blanks(f, p) = {i \in Words : i > k}
  BY <1>1 DEF Filled, Blanks, Blank
<1>3. PageSize \in Nat /\ Words = 1 .. PageSize
  BY Constants DEF Words
<1>4. CASE k = PageSize
  BY <1>1, <1>2, <1>3, <1>4
<1>5. CASE k < PageSize
  <2> DEFINE i == k + 1
  <2>1. i \in Blanks(f, p) /\ \A j \in Blanks(f, p) : i =< j
    BY <1>2, <1>3, <1>5
  <2>2. \A m \in Blanks(f, p) : (\A j \in Blanks(f, p) : m =< j) => m = i
    <3> SUFFICES ASSUME NEW m \in Blanks(f, p), \A j \in Blanks(f, p) : m =< j PROVE m = i
      OBVIOUS
    <3>1. m =< i /\ i =< m /\ m \in Nat
      BY <1>2, <1>3, <2>1
    <3> QED
      BY <3>1
  <2>3. (CHOOSE m \in Blanks(f, p) : \A j \in Blanks(f, p) : m =< j) = i
    BY <2>1, <2>2
  <2>4. FirstBlank(f, p) = i /\ i \in Words /\ i - 1 = k /\ Blanks(f, p) # {}
    BY <1>2, <1>3, <2>1, <2>3 DEF FirstBlank
  <2> QED
    BY <1>1, <2>4
<1> QED
  BY <1>3, <1>4, <1>5
\* What programming half a word does to the flash, and marking or erasing a page.
LEMMA PutWord ==
  ASSUME page \in [{0, 1} -> PageType], NEW p \in {0, 1}, NEW i \in Words,
         NEW d \in Data, page' = [page EXCEPT ![p].word[i].val = d]
  PROVE  /\ page' \in [{0, 1} -> PageType]
         /\ \A q \in {0, 1} : page'[q].status = page[q].status /\ (q # p => page'[q] = page[q])
         /\ \A j \in Words : j # i => page'[p].word[j] = page[p].word[j]
         /\ page'[p].word[i].val = d /\ page'[p].word[i].var = page[p].word[i].var
<1> DEFINE w == [page[p].word[i] EXCEPT !.val = d]
           ws == [page[p].word EXCEPT ![i] = w]
<1>1. page[p] \in PageType
  OBVIOUS
<1>2. w = [val |-> d, var |-> page[p].word[i].var] /\ w \in Word
  BY <1>1, PageFacts DEF Word, Data
<1>3. /\ ws \in [Words -> Word] /\ ws[i] = w
      /\ \A j \in Words : j # i => ws[j] = page[p].word[j]
  BY <1>1, <1>2, PageFacts
<1>4. page' = [page EXCEPT ![p] = [page[p] EXCEPT !.word = ws]]
  OBVIOUS
<1> HIDE DEF w, ws
<1>5. /\ [page[p] EXCEPT !.word = ws] = [status |-> page[p].status, word |-> ws]
      /\ [status |-> page[p].status, word |-> ws] \in PageType
  BY <1>1, <1>3, PageFacts DEF PageType
<1> QED
  BY <1>2, <1>3, <1>4, <1>5

LEMMA SealWord ==
  ASSUME page \in [{0, 1} -> PageType], NEW p \in {0, 1}, NEW i \in Words,
         NEW v \in Vars, page' = [page EXCEPT ![p].word[i].var = v]
  PROVE  /\ page' \in [{0, 1} -> PageType]
         /\ \A q \in {0, 1} : page'[q].status = page[q].status /\ (q # p => page'[q] = page[q])
         /\ \A j \in Words : j # i => page'[p].word[j] = page[p].word[j]
         /\ page'[p].word[i] = [val |-> page[p].word[i].val, var |-> v]
<1> DEFINE w == [page[p].word[i] EXCEPT !.var = v]
           ws == [page[p].word EXCEPT ![i] = w]
<1>1. page[p] \in PageType
  OBVIOUS
<1>2. w = [val |-> page[p].word[i].val, var |-> v] /\ w \in Word
  BY <1>1, PageFacts DEF Word
<1>3. /\ ws \in [Words -> Word] /\ ws[i] = w
      /\ \A j \in Words : j # i => ws[j] = page[p].word[j]
  BY <1>1, <1>2, PageFacts
<1>4. page' = [page EXCEPT ![p] = [page[p] EXCEPT !.word = ws]]
  OBVIOUS
<1> HIDE DEF w, ws
<1>5. /\ [page[p] EXCEPT !.word = ws] = [status |-> page[p].status, word |-> ws]
      /\ [status |-> page[p].status, word |-> ws] \in PageType
  BY <1>1, <1>3, PageFacts DEF PageType
<1> QED
  BY <1>2, <1>3, <1>4, <1>5

LEMMA MarkPage ==
  ASSUME page \in [{0, 1} -> PageType], NEW p \in {0, 1}, NEW s \in {"RECEIVE", "VALID"},
         page' = [page EXCEPT ![p].status = IF @ = "VALID" THEN @ ELSE s]
  PROVE  /\ page' \in [{0, 1} -> PageType]
         /\ \A q \in {0, 1} : page'[q].word = page[q].word /\ (q # p => page'[q] = page[q])
         /\ page[p].status # "VALID" => page'[p].status = s
         /\ page[p].status = "VALID" => page'[p] = page[p]
<1> DEFINE st == IF page[p].status = "VALID" THEN "VALID" ELSE s
<1>1. page[p] \in PageType /\ st \in {"RECEIVE", "VALID"}
  OBVIOUS
<1>2. page' = [page EXCEPT ![p] = [page[p] EXCEPT !.status = st]]
  OBVIOUS
<1>3. /\ [page[p] EXCEPT !.status = st] = [status |-> st, word |-> page[p].word]
      /\ [status |-> st, word |-> page[p].word] \in PageType
  BY <1>1, PageFacts DEF PageType
<1>4. page[p] = [status |-> page[p].status, word |-> page[p].word]
  BY <1>1, PageFacts
<1> HIDE DEF st
<1>5. page'[p] = [status |-> st, word |-> page[p].word]
  BY <1>2, <1>3
<1> QED
  BY <1>2, <1>3, <1>4, <1>5 DEF st

LEMMA ErasePage ==
  ASSUME page \in [{0, 1} -> PageType], NEW p \in {0, 1}, page' = [page EXCEPT ![p] = Erased]
  PROVE  /\ page' \in [{0, 1} -> PageType] /\ page'[p] = Erased
         /\ \A q \in {0, 1} : q # p => page'[q] = page[q]
BY ErasedFacts

\* A page stays sound.
LEMMA SoundErased == \A pg : (\A i \in Words : pg.word[i] = Blank) => Sound(pg)
<1> SUFFICES ASSUME NEW pg, \A i \in Words : pg.word[i] = Blank PROVE Sound(pg)
  OBVIOUS
<1>1. Filled(pg, 0) /\ 0 \in 0 .. PageSize
  BY Constants DEF Filled, Words
<1>2. \A v \in Vars, i \in Words : pg.word[i].var # v
  BY Constants DEF Blank
<1> QED
  BY <1>1, <1>2 DEF Sound

LEMMA SoundSame ==
  ASSUME NEW pg, NEW qg, Sound(pg), qg.word = pg.word
  PROVE  Sound(qg)
BY DEF Sound, Filled, Last

LEMMA SoundPut ==
  ASSUME NEW pg, NEW qg \in PageType, Sound(pg), NEW i \in Words, Filled(pg, i - 1),
         qg.word[i].var = pg.word[i].var,
         \A j \in Words : j # i => qg.word[j] = pg.word[j]
  PROVE  /\ Sound(qg) /\ Behind(qg, i) /\ Filled(qg, IF qg.word[i].val = FFFF THEN i - 1 ELSE i)
         /\ \A v \in Vars : Search(qg, v) = Search(pg, v)
         /\ \A j \in Words : qg.word[j].var = pg.word[j].var
<1>1. pg.word[i] = Blank /\ i \in Nat /\ PageSize \in Nat /\ 0 < i /\ i =< PageSize
  BY Constants DEF Words, Filled
<1>2. \A j \in Words : qg.word[j].var = pg.word[j].var
  OBVIOUS
<1>3. \A v \in Vars, j \in Words : pg.word[j].var = v => qg.word[j] = pg.word[j]
  BY <1>1, Constants DEF Blank
<1>4. Filled(qg, IF qg.word[i].val = FFFF THEN i - 1 ELSE i)
  <2>1. qg.word[i] = Blank <=> qg.word[i].val = FFFF
    BY <1>1, PageFacts DEF Blank, Word
  <2>2. \A j \in Words : j # i => (j > i - 1 <=> qg.word[j] = Blank)
    BY DEF Filled
  <2> QED
    BY <1>1, <2>1, <2>2 DEF Filled, Words
<1>5. Behind(qg, i)
  BY <1>1, <1>2 DEF Behind, Filled, Words, Blank
<1>6. \A v \in Vars : /\ Search(qg, v) = Search(pg, v)
                      /\ \A j \in Words : Last(qg, v, j) <=> Last(pg, v, j)
  BY <1>2, <1>3, SearchSame
<1>7. Sound(qg)
  <2>1. (IF qg.word[i].val = FFFF THEN i - 1 ELSE i) \in 0 .. PageSize
    BY <1>1
  <2> QED
    BY <1>2, <1>4, <1>6, <2>1 DEF Sound
<1> QED
  BY <1>2, <1>4, <1>5, <1>6, <1>7

LEMMA SoundSeal ==
  ASSUME NEW pg, NEW qg, Sound(pg), NEW i \in Words, Behind(pg, i), NEW v \in Vars,
         qg.word[i] = [val |-> pg.word[i].val, var |-> v],
         \A j \in Words : j # i => qg.word[j] = pg.word[j]
  PROVE  /\ Sound(qg) /\ Filled(qg, i) /\ i \in 0 .. PageSize
         /\ Search(qg, v) = pg.word[i].val
         /\ \A u \in Vars : u # v => Search(qg, u) = Search(pg, u)
<1>1. Filled(qg, i) /\ i \in 0 .. PageSize
  BY Constants DEF Filled, Behind, Words, Blank
<1>2. Last(qg, v, i)
  BY Constants DEF Last, Behind, Words, Blank
<1>3. \A u \in Vars, j \in Words : /\ u # v => (qg.word[j].var = u <=> pg.word[j].var = u)
                                   /\ pg.word[j].var = u => qg.word[j].val = pg.word[j].val
  BY Constants DEF Behind
<1>4. \A u \in Vars : u # v => /\ Search(qg, u) = Search(pg, u)
                               /\ \A j \in Words : Last(qg, u, j) <=> Last(pg, u, j)
  BY <1>3, SearchSame
<1>5. Sound(qg)
  BY <1>1, <1>2, <1>3, <1>4 DEF Sound
<1> QED
  BY <1>1, <1>2, <1>4, <1>5, SearchLast

-----------------------------------------------------------------------------
(* Types, and pages that stay sound. *)

LEMMA FreeList ==
  ASSUME NEW s \in Seq(Free)
  PROVE  s \in Seq(Ops) /\ (s # << >> => Tail(s) \in Seq(Free) /\ Head(s) \in Free)
BY DEF Ops

LEMMA FreeOps ==
  \A x \in Free : x.op \in {"erase", "clean", "mark", "store", "put", "copy"}
BY DEF Free

LEMMA Lists ==
  /\ \A p \in {0, 1} : Erase(p) \in Seq(Free) /\ Clean(p) \in Seq(Free)
  /\ \A p \in {0, 1}, s \in {"RECEIVE", "VALID"} : Mark(p, s) \in Seq(Free)
  /\ \A v \in Vars, d \in Vals \cup {FFFF} : Put(v, d) \in Seq(Free)
  /\ \A r \in [var : Vars, val : Vals] : Store(r) \in Seq(Free)
  /\ \A skip \in Vars \cup {FFFF} : Copies(skip) \in Seq(Free)
<1>1. \A x \in Free : <<x>> \in Seq(Free)
  OBVIOUS
<1>2. \A p \in {0, 1} : /\ [op |-> "erase", page |-> p] \in Free
                        /\ [op |-> "clean", page |-> p] \in Free
  BY DEF Free
<1>3. \A p \in {0, 1}, s \in {"RECEIVE", "VALID"} : [op |-> "mark", page |-> p, status |-> s] \in Free
  BY DEF Free
<1>4. \A v \in Vars, d \in Vals \cup {FFFF} : /\ [op |-> "put", var |-> v, val |-> d] \in Free
                                              /\ [op |-> "store", var |-> v, val |-> d] \in Free
  BY DEF Free
<1>5. ASSUME NEW skip \in Vars \cup {FFFF} PROVE Copies(skip) \in Seq(Free)
  <2>1. \A i \in 1 .. Num : [op |-> "copy", var |-> VarTab[i], skip |-> skip] \in Free
    BY Constants DEF Free
  <2>2. Copies(skip) \in [1 .. Num -> Free] /\ Num \in Nat
    BY <2>1, Constants DEF Copies
  <2> QED
    BY <2>2
<1> QED
  BY <1>1, <1>2, <1>3, <1>4, <1>5 DEF Erase, Clean, Mark, Put, Store

LEMMA Concat ==
  ASSUME NEW s \in Seq(Free), NEW t \in Seq(Free)
  PROVE  s \o t \in Seq(Free)
OBVIOUS

LEMMA Associative ==
  ASSUME NEW s \in Seq(Free), NEW t \in Seq(Free), NEW u \in Seq(Free)
  PROVE  (s \o t) \o u = s \o (t \o u)
BY ConcatAssociative

LEMMA InitList ==
  ASSUME NEW f \in [{0, 1} -> PageType]
  PROVE  InitPlan(f) \in Seq(Free)
<1>1. \A p \in {0, 1} : f[p].word[1].var \in Vars \cup {FFFF} /\ Other(p) \in {0, 1}
  BY PageFacts, Constants DEF Other
<1>2. \A p \in {0, 1} : Resume(f, p) \in Seq(Free)
  BY <1>1, Lists, Concat DEF Resume
<1>3. Format \in Seq(Free)
  BY Lists, Concat DEF Format
<1>4. /\ Clean(0) \in Seq(Free) /\ Clean(1) \in Seq(Free)
      /\ Clean(0) \o Mark(1, "VALID") \in Seq(Free) /\ Clean(1) \o Mark(0, "VALID") \in Seq(Free)
  BY Lists, Concat
<1> QED
  BY <1>2, <1>3, <1>4 DEF InitPlan

LEMMA TransferList ==
  ASSUME NEW f, NEW r, r.var \in Vars, r.val \in Vals \cup {FFFF}
  PROVE  TransferPlan(f, r) \in Seq(Free)
<1>1. ReadPage(f) \in {0, 1} /\ \A p \in {0, 1} : Other(p) \in {0, 1}
  BY DEF ReadPage, Other
<1>2. ASSUME NEW n \in {0, 1}
      PROVE  Mark(n, "RECEIVE") \o Put(r.var, r.val) \o Copies(r.var) \o Erase(Other(n))
               \o Mark(n, "VALID") \in Seq(Free)
  BY <1>1, Lists, Concat
<1>3. << >> \in Seq(Free)
  OBVIOUS
<1> QED
  BY <1>1, <1>2, <1>3 DEF TransferPlan

\* The operation under way.
LEMMA Under ==
  ASSUME FlashInv, plan # << >>
  PROVE  /\ Head(plan) \in Ops /\ Tail(plan) \in Seq(Free)
         /\ Doing("erase") \/ Doing("clean") => Head(plan).page \in {0, 1}
         /\ Doing("mark") => /\ Head(plan).page \in {0, 1}
                             /\ Head(plan).status \in {"RECEIVE", "VALID"}
         /\ Doing("store") \/ Doing("put") => /\ Head(plan).var \in Vars
                                              /\ Head(plan).val \in Vals \cup {FFFF}
         /\ Doing("copy") => Head(plan).var \in Vars
         /\ Doing("seal") => /\ Head(plan).page \in {0, 1} /\ Head(plan).at \in Words
                             /\ Head(plan).var \in Vars
                             /\ Behind(page[Head(plan).page], Head(plan).at)
<1>1. Head(plan) \in Ops /\ Tail(plan) \in Seq(Free)
  BY DEF FlashInv
<1>2. Doing("seal") => Behind(page[Head(plan).page], Head(plan).at)
  BY DEF FlashInv
<1> QED
  BY <1>1, <1>2 DEF Ops, Free, Doing

LEMMA PutFacts ==
  ASSUME FlashInv, DoPut
  PROVE  LET p == WritePage(page)
             h == Head(plan)
         IN
         /\ p \in {0, 1} /\ plan # << >> /\ h.var \in Vars /\ h.val \in Vals \cup {FFFF}
         /\ \/ /\ ~NoValidPage(page)
               /\ \E i \in Words :
                    /\ Filled(page[p], i - 1) /\ plan' = Seal(p, i, h.var) \o Tail(plan)
                    /\ page' \in [{0, 1} -> PageType]
                    /\ \A q \in {0, 1} : page'[q].status = page[q].status /\ (q # p => page'[q] = page[q])
                    /\ \A j \in Words : j # i => page'[p].word[j] = page[p].word[j]
                    /\ page'[p].word[i].val = h.val /\ page'[p].word[i].var = page[p].word[i].var
            \/ /\ NoValidPage(page) \/ Filled(page[p], PageSize)
               /\ page' = page
               /\ plan' = IF h.op = "store" THEN TransferPlan(page, h) ELSE << >>
<1> DEFINE p == WritePage(page)
           h == Head(plan)
<1>1. p \in {0, 1}
  BY DEF WritePage
<1>2. plan # << >> /\ h.var \in Vars /\ h.val \in Vals \cup {FFFF}
  BY Under DEF DoPut, Doing
<1>3. page \in [{0, 1} -> PageType] /\ \E k \in 0 .. PageSize : Filled(page[p], k)
  BY <1>1 DEF FlashInv, Sound
<1>4. CASE ~NoValidPage(page) /\ Blanks(page, p) # {}
  <2> DEFINE i == FirstBlank(page, p)
             d == h.val
  <2>1. page' = [page EXCEPT ![p].word[i].val = d] /\ plan' = Seal(p, i, h.var) \o Tail(plan)
    BY <1>4 DEF DoPut
  <2>2. i \in Words /\ Filled(page[p], i - 1)
    BY <1>3, <1>4, BlankFirst
  <2>3. d \in Data
    BY <1>2 DEF Data
  <2> HIDE DEF i, d
  <2>4. /\ page' \in [{0, 1} -> PageType]
        /\ \A q \in {0, 1} : page'[q].status = page[q].status /\ (q # p => page'[q] = page[q])
        /\ \A j \in Words : j # i => page'[p].word[j] = page[p].word[j]
        /\ page'[p].word[i].val = d /\ page'[p].word[i].var = page[p].word[i].var
    BY <1>1, <1>3, <2>1, <2>2, <2>3, PutWord
  <2> QED
    BY <1>1, <1>2, <1>4, <2>1, <2>2, <2>4 DEF d
<1>5. CASE NoValidPage(page) \/ Blanks(page, p) = {}
  <2>1. page' = page /\ plan' = IF h.op = "store" THEN TransferPlan(page, h) ELSE << >>
    BY <1>5 DEF DoPut
  <2>2. NoValidPage(page) \/ Filled(page[p], PageSize)
    BY <1>3, <1>5, BlankFirst
  <2> QED
    BY <1>1, <1>2, <2>1, <2>2
<1> QED
  BY <1>4, <1>5

LEMMA FlashPut == FlashInv /\ DoPut => FlashInv'
<1> SUFFICES ASSUME FlashInv, DoPut PROVE FlashInv'
  OBVIOUS
<1>1. UNCHANGED <<booted, request, resets, intact>> /\ plan # << >> /\ booted
  BY DEF DoPut, Doing, FlashInv
<1> DEFINE p == WritePage(page)
           h == Head(plan)
<1>2. /\ page \in [{0, 1} -> PageType] /\ \A q \in {0, 1} : Sound(page[q])
      /\ Tail(plan) \in Seq(Free)
  BY <1>1, Under DEF FlashInv
<1>3. /\ p \in {0, 1} /\ h.var \in Vars /\ h.val \in Vals \cup {FFFF}
      /\ \/ \E i \in Words :
              /\ Filled(page[p], i - 1) /\ plan' = Seal(p, i, h.var) \o Tail(plan)
              /\ page' \in [{0, 1} -> PageType] /\ \A q \in {0, 1} : q # p => page'[q] = page[q]
              /\ \A j \in Words : j # i => page'[p].word[j] = page[p].word[j]
              /\ page'[p].word[i].var = page[p].word[i].var
         \/ page' = page /\ plan' = IF h.op = "store" THEN TransferPlan(page, h) ELSE << >>
  BY PutFacts
<1> HIDE DEF p, h
<1>4. CASE \E i \in Words :
              /\ Filled(page[p], i - 1) /\ plan' = Seal(p, i, h.var) \o Tail(plan)
              /\ page' \in [{0, 1} -> PageType] /\ \A q \in {0, 1} : q # p => page'[q] = page[q]
              /\ \A j \in Words : j # i => page'[p].word[j] = page[p].word[j]
              /\ page'[p].word[i].var = page[p].word[i].var
  <2>1. PICK i \in Words :
              /\ Filled(page[p], i - 1) /\ plan' = Seal(p, i, h.var) \o Tail(plan)
              /\ page' \in [{0, 1} -> PageType] /\ \A q \in {0, 1} : q # p => page'[q] = page[q]
              /\ \A j \in Words : j # i => page'[p].word[j] = page[p].word[j]
              /\ page'[p].word[i].var = page[p].word[i].var
    BY <1>4
  <2>0. page'[p] \in PageType /\ Sound(page[p])
    BY <1>2, <1>3, <2>1
  <2>2. Sound(page'[p]) /\ Behind(page'[p], i)
    BY <2>0, <2>1, SoundPut
  <2> DEFINE s == [op |-> "seal", page |-> p, at |-> i, var |-> h.var]
  <2>3. s \in Ops /\ Tail(plan) \in Seq(Ops)
    BY <1>2, <1>3, <2>1, FreeList DEF Ops
  <2>4. /\ plan' \in Seq(Ops) /\ plan' # << >> /\ Head(plan') = s /\ Tail(plan') = Tail(plan)
    BY <2>1, <2>3, Cons DEF Seal
  <2>5. Head(plan').page = p /\ Head(plan').at = i
    BY <2>4
  <2> QED
    BY <1>1, <1>2, <1>3, <2>1, <2>2, <2>4, <2>5 DEF FlashInv
<1>5. CASE page' = page /\ plan' = IF h.op = "store" THEN TransferPlan(page, h) ELSE << >>
  <2>1. << >> \in Seq(Free)
    OBVIOUS
  <2>2. plan' \in Seq(Free)
    BY <1>3, <1>5, <2>1, TransferList
  <2> QED
    BY <1>1, <1>5, <2>2, FreeList, FreeOps DEF FlashInv, Doing
<1> QED
  BY <1>3, <1>4, <1>5

LEMMA FlashSeal == FlashInv /\ DoSeal => FlashInv'
<1> SUFFICES ASSUME FlashInv, DoSeal PROVE FlashInv'
  OBVIOUS
<1>1. /\ UNCHANGED <<booted, request, resets, intact>> /\ plan # << >> /\ booted
      /\ plan' = Tail(plan)
  BY DEF DoSeal, Doing, FlashInv
<1> DEFINE p == Head(plan).page
           i == Head(plan).at
           v == Head(plan).var
<1>2. /\ page \in [{0, 1} -> PageType] /\ p \in {0, 1} /\ \A q \in {0, 1} : Sound(page[q])
      /\ i \in Words /\ v \in Vars /\ Behind(page[p], i) /\ Tail(plan) \in Seq(Free)
  BY <1>1, Under DEF FlashInv, DoSeal
<1>3. page' = [page EXCEPT ![p].word[i].var = v]
  BY DEF DoSeal
<1> HIDE DEF p, i, v
<1>4. /\ page' \in [{0, 1} -> PageType] /\ \A q \in {0, 1} : q # p => page'[q] = page[q]
      /\ \A j \in Words : j # i => page'[p].word[j] = page[p].word[j]
      /\ page'[p].word[i] = [val |-> page[p].word[i].val, var |-> v]
  BY <1>2, <1>3, SealWord
<1>5. Sound(page'[p])
  BY <1>2, <1>4, SoundSeal
<1> QED
  BY <1>1, <1>2, <1>4, <1>5, FreeList, FreeOps DEF FlashInv, Doing

\* A step that goes on with a list of free operations.
LEMMA FlashFree ==
  ASSUME FlashInv, UNCHANGED <<booted, intact, resets, request>>, booted, plan' \in Seq(Free),
         page' \in [{0, 1} -> PageType], \A p \in {0, 1} : Sound(page'[p])
  PROVE  FlashInv'
BY FreeList, FreeOps DEF FlashInv, Doing

LEMMA FlashErase == FlashInv /\ DoErase => FlashInv'
<1> SUFFICES ASSUME FlashInv, DoErase PROVE FlashInv'
  OBVIOUS
<1>1. /\ UNCHANGED <<booted, request, resets, intact>> /\ plan # << >> /\ booted
      /\ plan' = Tail(plan) /\ plan' \in Seq(Free) /\ Head(plan).page \in {0, 1}
      /\ page' = [page EXCEPT ![Head(plan).page] = Erased]
  BY Under DEF DoErase, Doing, FlashInv
<1>2. page \in [{0, 1} -> PageType] /\ \A p \in {0, 1} : Sound(page[p])
  BY DEF FlashInv
<1>3. page' \in [{0, 1} -> PageType] /\ \A p \in {0, 1} : page'[p] \in {page[p], Erased}
  BY <1>1, <1>2, ErasePage
<1> QED
  BY <1>1, <1>2, <1>3, ErasedFacts, SoundErased, FlashFree

LEMMA FlashMark == FlashInv /\ DoMark => FlashInv'
<1> SUFFICES ASSUME FlashInv, DoMark PROVE FlashInv'
  OBVIOUS
<1> DEFINE s == Head(plan).status
<1>1. /\ UNCHANGED <<booted, request, resets, intact>> /\ plan # << >> /\ booted
      /\ plan' = Tail(plan) /\ plan' \in Seq(Free) /\ Head(plan).page \in {0, 1}
      /\ s \in {"RECEIVE", "VALID"}
      /\ page' = [page EXCEPT ![Head(plan).page].status = IF @ = "VALID" THEN @ ELSE s]
  BY Under DEF DoMark, Doing, FlashInv
<1>2. page \in [{0, 1} -> PageType] /\ \A p \in {0, 1} : Sound(page[p])
  BY DEF FlashInv
<1> HIDE DEF s
<1>3. page' \in [{0, 1} -> PageType] /\ \A p \in {0, 1} : page'[p].word = page[p].word
  BY <1>1, <1>2, MarkPage
<1>4. \A p \in {0, 1} : Sound(page'[p])
  BY <1>2, <1>3, SoundSame
<1> QED
  BY <1>1, <1>3, <1>4, FlashFree

LEMMA FlashCopy == FlashInv /\ DoCopy => FlashInv'
<1> SUFFICES ASSUME FlashInv, DoCopy PROVE FlashInv'
  OBVIOUS
<1> DEFINE c == Head(plan)
           d == ReadVariable(page, c.var)
<1>1. /\ UNCHANGED <<page, booted, request, resets, intact>> /\ plan # << >> /\ booted
      /\ Tail(plan) \in Seq(Free) /\ c.var \in Vars
      /\ plan' = (IF c.var = c.skip \/ d = Absent THEN << >> ELSE Put(c.var, d)) \o Tail(plan)
  BY Under DEF DoCopy, Doing, FlashInv
<1>2. page \in [{0, 1} -> PageType] /\ \A p \in {0, 1} : Sound(page[p])
  BY DEF FlashInv
<1>3. d = Absent \/ d \in Vals \cup {FFFF}
  <2>1. ReadPage(page) \in {0, 1}
    BY DEF ReadPage
  <2> QED
    BY <1>1, <1>2, <2>1, SearchData DEF ReadVariable
<1> HIDE DEF c, d
<1>4. << >> \in Seq(Free)
  OBVIOUS
<1>5. plan' \in Seq(Free)
  BY <1>1, <1>3, <1>4, Lists, Concat
<1> QED
  BY <1>1, <1>2, <1>5, FlashFree

LEMMA FlashClean == FlashInv /\ DoClean => FlashInv'
<1> SUFFICES ASSUME FlashInv, DoClean PROVE FlashInv'
  OBVIOUS
<1> DEFINE p == Head(plan).page
<1>1. /\ UNCHANGED <<page, booted, request, resets, intact>> /\ plan # << >> /\ booted
      /\ Tail(plan) \in Seq(Free) /\ p \in {0, 1}
      /\ plan' = (IF VerifyPageFullyErased(page, p) THEN << >> ELSE Erase(p)) \o Tail(plan)
  BY Under DEF DoClean, Doing, FlashInv
<1>2. page \in [{0, 1} -> PageType] /\ \A q \in {0, 1} : Sound(page[q])
  BY DEF FlashInv
<1> HIDE DEF p
<1>3. << >> \in Seq(Free)
  OBVIOUS
<1>4. plan' \in Seq(Free)
  BY <1>1, <1>3, Lists, Concat
<1> QED
  BY <1>1, <1>2, <1>4, FlashFree

\* What a loss of power makes of the pages.
LEMMA LossFacts ==
  ASSUME FlashInv, PowerLoss
  PROVE  /\ booted /\ ~booted' /\ plan' = << >> /\ request' = NoRequest
         /\ resets' = resets + 1 /\ resets' \in 1 .. MaxResets
         /\ intact' \in BOOLEAN /\ (intact' => intact /\ Recoverable(page'))
         /\ page' \in [{0, 1} -> PageType] /\ \A p \in {0, 1} : Sound(page'[p])
         /\ \A p \in {0, 1} : (Doing("erase") /\ p = Head(plan).page) \/ page'[p] = page[p]
         /\ \A p \in {0, 1} :
              \/ page'[p].word = page[p].word /\ page'[p].status \in {page[p].status, "ERASED"}
              \/ page'[p].word = Erased.word /\ page'[p].status = page[p].status
<1>1. /\ booted /\ ~booted' /\ plan' = << >> /\ request' = NoRequest
      /\ resets' = resets + 1 /\ resets' \in 1 .. MaxResets
  BY Constants DEF PowerLoss, FlashInv
<1>0. intact' \in BOOLEAN /\ (intact' => intact /\ Recoverable(page'))
  BY DEF PowerLoss
<1>2. page \in [{0, 1} -> PageType] /\ \A p \in {0, 1} : Sound(page[p])
  BY DEF FlashInv
<1>3. CASE Doing("erase")
  <2> DEFINE p == Head(plan).page
  <2>1. p \in {0, 1}
    BY <1>3, Under DEF Doing
  <2>2. PICK pg \in PartlyErased(page[p]) : page' = [page EXCEPT ![p] = pg]
    BY <1>3 DEF PowerLoss
  <2> HIDE DEF p
  <2>3. page[p] \in PageType /\ page[p] = [status |-> page[p].status, word |-> page[p].word]
    BY <1>2, <2>1, PageFacts
  <2>4. /\ [page[p] EXCEPT !.status = "ERASED"] = [status |-> "ERASED", word |-> page[p].word]
        /\ [Erased EXCEPT !.status = page[p].status]
             = [status |-> page[p].status, word |-> Erased.word]
    BY <2>3 DEF Erased
  <2>5. /\ pg \in PageType
        /\ \/ pg.word = page[p].word /\ pg.status \in {page[p].status, "ERASED"}
           \/ pg.word = Erased.word /\ pg.status = page[p].status
    BY <2>2, <2>3, <2>4, PageFacts, ErasedFacts DEF PartlyErased, PageType
  <2>6. Sound(pg)
    BY <1>2, <2>1, <2>5, SoundSame, SoundErased, ErasedFacts
  <2>7. /\ page' \in [{0, 1} -> PageType] /\ page'[p] = pg
        /\ \A q \in {0, 1} : q # p => page'[q] = page[q]
    BY <1>2, <2>1, <2>2, <2>5
  <2> QED
    BY <1>0, <1>1, <1>2, <1>3, <2>1, <2>5, <2>6, <2>7 DEF p
<1>4. CASE ~Doing("erase")
  BY <1>0, <1>1, <1>2, <1>4 DEF PowerLoss
<1> QED
  BY <1>3, <1>4

LEMMA FlashStep == FlashInv /\ [Next]_vars => FlashInv'
<1> SUFFICES ASSUME FlashInv, [Next]_vars PROVE FlashInv'
  OBVIOUS
<1>1. CASE UNCHANGED vars
  BY <1>1 DEF vars, FlashInv, Doing
<1>2. CASE Boot
  <2>1. plan' \in Seq(Free) /\ booted' /\ UNCHANGED <<page, request, resets, intact>>
    BY <1>2, InitList DEF Boot, FlashInv
  <2> QED
    BY <2>1, FreeList, FreeOps DEF FlashInv, Doing
<1>3. CASE WriteVariable
  <2>1. PICK r \in [var : Vars, val : Vals] : request' = r /\ plan' = Store(r)
    BY <1>3 DEF WriteVariable
  <2>2. plan' \in Seq(Free)
    BY <2>1, Lists
  <2> QED
    BY <1>3, <2>1, <2>2, FreeList, FreeOps DEF WriteVariable, FlashInv, Doing
<1>4. CASE WriteReturn
  BY <1>4 DEF WriteReturn, FlashInv, Doing
<1>5. CASE PowerLoss
  <2>1. resets' \in 0 .. MaxResets /\ intact' \in BOOLEAN
    BY <1>5, LossFacts
  <2>2. /\ ~booted' /\ plan' = << >> /\ request' = NoRequest /\ plan' \in Seq(Ops)
        /\ page' \in [{0, 1} -> PageType] /\ \A p \in {0, 1} : Sound(page'[p])
    BY <1>5, LossFacts
  <2> QED
    BY <2>1, <2>2 DEF FlashInv, Doing
<1> QED
  BY <1>1, <1>2, <1>3, <1>4, <1>5, FlashPut, FlashSeal, FlashErase, FlashMark, FlashCopy,
     FlashClean DEF Next, Step

LEMMA FlashInit == Init => FlashInv
<1> SUFFICES ASSUME Init PROVE FlashInv
  OBVIOUS
<1>1. page \in [{0, 1} -> PageType] /\ \A p \in {0, 1} : Sound(page[p])
  BY ErasedFacts, SoundErased DEF Init
<1>2. << >> \in Seq(Ops) /\ 0 \in 0 .. MaxResets
  BY Constants
<1> QED
  BY <1>1, <1>2 DEF Init, FlashInv, Doing

\* For any variables and any losses of power, recoverable or not, what is in the flash keeps
\* its type and the functions only do what they are made of.
THEOREM TypeCorrect == Spec => []TypeOK
<1>1. FlashInv => TypeOK
  <2> SUFFICES ASSUME FlashInv PROVE TypeOK
    OBVIOUS
  <2>1. \A x \in Ops : x.op \in {"erase", "clean", "mark", "copy", "put", "store", "seal"}
    BY DEF Ops, Free
  <2>2. \A i \in DOMAIN plan : plan[i] \in Ops
    BY DEF FlashInv
  <2> QED
    BY <2>1, <2>2 DEF FlashInv, TypeOK
<1> QED
  BY <1>1, FlashInit, FlashStep, PTL DEF Spec


-----------------------------------------------------------------------------
(* The loop that copies the variables, and the room it needs. *)

LEMMA Products ==
  \A a, b, c \in Nat : /\ a * c \in Nat /\ (a =< b => a * c =< b * c) /\ (a >= 1 => (a - 1) * c + c = a * c)
OBVIOUS

LEMMA Costs ==
  ASSUME NEW pg
  PROVE  /\ Cost(pg) \in Nat /\ Cost(pg) =< Num
         /\ First(pg) \in Vars => Cost(pg) = Num - 1
         /\ First(pg) \notin Vars => Cost(pg) = Num
BY Constants DEF Cost

LEMMA Lefts ==
  ASSUME NEW j \in 1 .. Num, NEW skip
  PROVE  /\ Left(j, skip) \in Nat /\ Left(j + 1, skip) \in Nat
         /\ Left(j + 1, skip) =< Left(j, skip)
         /\ VarTab[j] # skip => Left(j, skip) = Left(j + 1, skip) + 1
<1>1. Num \in Nat /\ j \in Nat /\ 1 =< j /\ j =< Num
  BY Constants
<1>2. CASE \E i \in j + 1 .. Num : VarTab[i] = skip
  <2>1. \E i \in j .. Num : VarTab[i] = skip
    BY <1>1, <1>2
  <2>2. j + 1 =< Num
    BY <1>1, <1>2
  <2> QED
    BY <1>1, <1>2, <2>1, <2>2 DEF Left
<1>3. CASE ~\E i \in j + 1 .. Num : VarTab[i] = skip
  <2>1. (\E i \in j .. Num : VarTab[i] = skip) <=> VarTab[j] = skip
    BY <1>1, <1>3
  <2> QED
    BY <1>1, <1>3, <2>1 DEF Left
<1> QED
  BY <1>2, <1>3

\* The first word of the receiving page tells how many entries are left at the start.
LEMMA LeftFirst ==
  ASSUME NEW pg, First(pg) \in Vars \cup {FFFF}
  PROVE  Left(1, First(pg)) = Cost(pg)
<1>1. (\E i \in 1 .. Num : VarTab[i] = First(pg)) <=> First(pg) \in Vars
  BY Constants
<1> QED
  BY <1>1, Constants DEF Left, Cost

LEMMA RoomLess ==
  ASSUME NEW pg, NEW u \in Nat, NEW l \in Nat, NEW t \in Nat, Room(pg, u, l, t),
         NEW v \in Nat, NEW m \in Nat, v + m =< u + l
  PROVE  Room(pg, v, m, t)
<1>1. t * Cost(pg) \in Nat /\ PageSize \in Nat
  BY Costs, Products, Constants
<1> QED
  BY <1>1 DEF Room

\* A repair costs what was put aside for it.
LEMMA RoomCut ==
  ASSUME NEW pg, NEW u \in Nat, NEW l \in Nat, NEW t \in Nat, t >= 1, Room(pg, u, l, t),
         NEW v \in Nat, v =< u + l
  PROVE  Room(pg, v, Cost(pg), t - 1)
<1>1. /\ t * Cost(pg) \in Nat /\ PageSize \in Nat /\ Cost(pg) \in Nat
      /\ (t - 1) * Cost(pg) + Cost(pg) = t * Cost(pg) /\ (t - 1) * Cost(pg) \in Nat
  <2>1. t - 1 \in Nat
    OBVIOUS
  <2> QED
    BY <2>1, Costs, Products, Constants
<1> QED
  BY <1>1 DEF Room

\* An entry that is not copied.
LEMMA LoopSkips ==
  ASSUME NEW pg, NEW og, NEW j \in 1 .. Num, NEW skip, NEW t \in Nat,
         skip \in Vars => First(pg) = skip, Before(pg, og, j, skip, t),
         VarTab[j] = skip \/ Search(og, VarTab[j]) = Absent
  PROVE  Before(pg, og, j + 1, skip, t)
<1>1. j \in Nat /\ Num \in Nat /\ VarTab[j] \in Vars
  BY Constants
<1>2. Skips(pg, j + 1, skip)
  BY <1>1 DEF Before, Skips
<1>3. CASE Emptied(og)
  BY <1>2, <1>3 DEF Before
<1>4. CASE ~Emptied(og)
  <2>1. PICK k \in 0 .. PageSize : Filled(pg, k) /\ Room(pg, k, Left(j, skip), t)
    BY <1>4 DEF Before
  <2>2. Room(pg, k, Left(j + 1, skip), t)
    <3>1. Left(j, skip) \in Nat /\ Left(j + 1, skip) \in Nat /\ Left(j + 1, skip) =< Left(j, skip)
      BY Lefts
    <3> QED
      BY <2>1, <3>1, RoomLess, Constants
  <2>3. Partial(pg, og) /\ Done(pg, og, j)
    BY <1>4 DEF Before
  <2>4. VarTab[j] = First(pg) \/ Search(pg, VarTab[j]) = Search(og, VarTab[j])
    BY <1>1, <2>3 DEF Partial
  <2>5. Done(pg, og, j + 1)
    BY <1>1, <2>3, <2>4 DEF Done
  <2> QED
    BY <1>2, <2>1, <2>2, <2>3, <2>5 DEF Before
<1> QED
  BY <1>3, <1>4

\* An entry that is copied: there is a word for it, and for every repair to come.
LEMMA LoopCopies ==
  ASSUME NEW pg, NEW og, NEW j \in 1 .. Num, NEW skip, NEW t \in Nat,
         Before(pg, og, j, skip, t), VarTab[j] # skip, Search(og, VarTab[j]) # Absent
  PROVE  /\ During(pg, og, j, skip)
         /\ \E k \in 0 .. PageSize : Filled(pg, k) /\ Room(pg, k + 1, Left(j + 1, skip), t)
<1>1. j \in Nat /\ Num \in Nat /\ VarTab[j] \in Vars
  BY Constants
<1>2. ~Emptied(og)
  BY <1>1 DEF Emptied
<1>3. Skips(pg, j + 1, skip) /\ VarTab[j] # First(pg)
  BY <1>1 DEF Before, Skips
<1>4. Partial(pg, og) /\ Done(pg, og, j)
  BY <1>2 DEF Before
<1>5. PICK k \in 0 .. PageSize : Filled(pg, k) /\ Room(pg, k, Left(j, skip), t)
  BY <1>2 DEF Before
<1>6. Left(j + 1, skip) \in Nat /\ Left(j, skip) = Left(j + 1, skip) + 1
  BY Lefts
<1>7. Room(pg, k + 1, Left(j + 1, skip), t)
  <2> DEFINE m == Left(j + 1, skip)
             l == Left(j, skip)
             i == k + 1
  <2>1. k \in Nat /\ i \in Nat /\ m \in Nat /\ l \in Nat /\ i + m =< k + l
    BY <1>6, Constants
  <2>2. Room(pg, k, l, t)
    BY <1>5
  <2> HIDE DEF m, l, i
  <2>3. Room(pg, i, m, t)
    BY <2>1, <2>2, RoomLess
  <2> QED
    BY <2>3 DEF m, i
<1> QED
  BY <1>3, <1>4, <1>5, <1>7 DEF During

\* ... and has been: pg has become qg.
LEMMA LoopCopied ==
  ASSUME NEW pg, NEW qg, NEW og, NEW j \in 1 .. Num, NEW skip, NEW t \in Nat, NEW i \in Words,
         During(pg, og, j, skip), Room(pg, i, Left(j + 1, skip), t), Filled(qg, i),
         pg.word[i].var = FFFF, qg.word[i].var = VarTab[j],
         \A m \in Words : m # i => qg.word[m] = pg.word[m],
         Search(qg, VarTab[j]) = Search(og, VarTab[j]),
         \A v \in Vars : v # VarTab[j] => Search(qg, v) = Search(pg, v)
  PROVE  /\ Before(qg, og, j + 1, skip, t)
         /\ First(qg) = First(pg) \/ (First(qg) = VarTab[j] /\ First(pg) = FFFF)
<1>1. /\ j \in Nat /\ Num \in Nat /\ VarTab[j] \in Vars /\ i \in Nat /\ i \in 0 .. PageSize
      /\ \A m, n \in 1 .. Num : VarTab[m] = VarTab[n] => m = n
  BY Constants DEF Words
<1>2. First(qg) = First(pg) \/ (First(qg) = VarTab[j] /\ First(pg) = FFFF)
  BY Constants DEF First
<1>3. Skips(qg, j + 1, skip)
  <2>1. CASE First(qg) = First(pg)
    BY <2>1 DEF During, Skips
  <2>2. CASE First(qg) = VarTab[j]
    <3>1. \A m \in j + 1 .. Num : VarTab[m] # VarTab[j]
      BY <1>1
    <3> QED
      BY <2>2, <3>1 DEF Skips
  <2> QED
    BY <1>2, <2>1, <2>2
<1>4. Partial(qg, og)
  <2> SUFFICES ASSUME NEW v \in Vars, v # First(qg) PROVE Search(qg, v) \in {Absent, Search(og, v)}
    BY DEF Partial
  <2>1. CASE v = VarTab[j]
    BY <2>1
  <2>2. CASE v # VarTab[j]
    <3>1. v # First(pg)
      BY <1>2, Constants
    <3> QED
      BY <2>2, <3>1 DEF During, Partial
  <2> QED
    BY <2>1, <2>2
<1>5. Done(qg, og, j + 1)
  <2> SUFFICES ASSUME NEW m \in 1 .. j
               PROVE  VarTab[m] = First(qg) \/ Search(qg, VarTab[m]) = Search(og, VarTab[m])
    BY <1>1 DEF Done
  <2>1. CASE m = j
    BY <2>1
  <2>2. CASE m # j
    <3>1. VarTab[m] \in Vars /\ VarTab[m] # VarTab[j] /\ m \in 1 .. j - 1
      BY <1>1, <2>2, Constants
    <3>2. VarTab[m] = First(pg) \/ Search(pg, VarTab[m]) = Search(og, VarTab[m])
      BY <3>1 DEF During, Done
    <3> QED
      BY <1>2, <3>1, <3>2, Constants
  <2> QED
    BY <2>1, <2>2
<1>6. Room(qg, i, Left(j + 1, skip), t)
  <2> DEFINE l == Left(j + 1, skip)
  <2>0. Cost(qg) =< Cost(pg)
    BY <1>2, Costs, Constants DEF Cost
  <2>1. Cost(qg) \in Nat /\ Cost(pg) \in Nat /\ Cost(qg) =< Cost(pg) /\ l \in Nat /\ PageSize \in Nat
    BY <2>0, Costs, Constants, Lefts
  <2>2. Room(pg, i, l, t)
    OBVIOUS
  <2> HIDE DEF l
  <2>3. /\ Cost(qg) * t =< Cost(pg) * t
        /\ Cost(qg) * t \in Nat /\ Cost(pg) * t \in Nat
    BY <2>1, Products
  <2>4. t * Cost(qg) = Cost(qg) * t /\ t * Cost(pg) = Cost(pg) * t
    BY <2>1
  <2>5. Room(qg, i, l, t)
    BY <1>1, <2>1, <2>2, <2>3, <2>4 DEF Room
  <2> QED
    BY <2>5 DEF l
<1> QED
  BY <1>1, <1>2, <1>3, <1>4, <1>5, <1>6 DEF Before

\* The loop may be cut short anywhere, and has done its work at the end.
LEMMA LoopCut ==
  ASSUME NEW pg, NEW og, NEW t \in Nat, t >= 1, NEW j \in 1 .. Num + 1, NEW skip,
         Before(pg, og, j, skip, t)
  PROVE  Restartable(pg, og, t - 1)
<1>1. CASE Emptied(og)
  BY <1>1 DEF Restartable
<1>2. CASE ~Emptied(og)
  <2>1. PICK k \in 0 .. PageSize : Filled(pg, k) /\ Room(pg, k, Left(j, skip), t)
    BY <1>2 DEF Before
  <2>2. Left(j, skip) \in Nat /\ k \in Nat
    <3>1. j \in 1 .. Num \/ j = Num + 1
      BY Constants
    <3>2. Left(Num + 1, skip) = 0
      BY Constants DEF Left
    <3> QED
      BY <3>1, <3>2, Lefts, Constants
  <2>3. Room(pg, k, Cost(pg), t - 1)
    <3> DEFINE l == Left(j, skip)
    <3>1. l \in Nat /\ k \in Nat /\ Room(pg, k, l, t) /\ k =< k + l
      BY <2>1, <2>2
    <3> HIDE DEF l
    <3> QED
      BY <3>1, RoomCut
  <2> QED
    BY <1>2, <2>1, <2>3 DEF Before, Restartable
<1> QED
  BY <1>1, <1>2

LEMMA LoopEnds ==
  ASSUME NEW pg, NEW og, NEW skip, NEW t, Before(pg, og, Num + 1, skip, t), NEW v \in Vars
  PROVE  \/ Search(og, v) = Absent \/ First(pg) = v
         \/ Search(pg, v) = Search(og, v)
<1>1. PICK i \in 1 .. Num : VarTab[i] = v
  BY Constants
<1>2. CASE Emptied(og)
  BY <1>2 DEF Emptied
<1>3. CASE Done(pg, og, Num + 1)
  BY <1>1, <1>3, Constants DEF Done
<1> QED
  BY <1>2, <1>3 DEF Before

-----------------------------------------------------------------------------
(* Lists of operations, and what a step does of the first. *)

LEMMA Others ==
  /\ Other(0) = 1 /\ Other(1) = 0
  /\ \A p \in {0, 1} : /\ Other(p) \in {0, 1} /\ Other(p) # p /\ Other(Other(p)) = p
                       /\ \A q \in {0, 1} : q # p => q = Other(p)
BY DEF Other

Does(x, t) == plan # << >> /\ Head(plan) = x /\ Tail(plan) = t

LEMMA DoesFirst ==
  ASSUME NEW x \in Ops, NEW t \in Seq(Free), plan = <<x>> \o t
  PROVE  Does(x, t)
BY FreeList, Cons DEF Does

LEMMA DoesLast ==
  ASSUME NEW x \in Ops, plan = <<x>>
  PROVE  Does(x, << >>)
BY Single DEF Does

LEMMA Ends ==
  /\ \A n \in {0, 1} :
       /\ TransferEnd(n) = <<[op |-> "erase", page |-> Other(n)],
                             [op |-> "mark", page |-> n, status |-> "VALID"]>>
       /\ TransferEnd(n) \in Seq(Free) /\ Len(TransferEnd(n)) = 2
  /\ ResumeEnd = <<[op |-> "mark", page |-> 1, status |-> "VALID"], [op |-> "clean", page |-> 0]>>
  /\ ResumeEnd \in Seq(Free) /\ Len(ResumeEnd) = 2
<1>1. \A x, y \in Free : <<x>> \o <<y>> = <<x, y>> /\ <<x, y>> \in Seq(Free) /\ Len(<<x, y>>) = 2
  <2> SUFFICES ASSUME NEW x \in Free, NEW y \in Free
               PROVE  <<x>> \o <<y>> = <<x, y>> /\ <<x, y>> \in Seq(Free) /\ Len(<<x, y>>) = 2
    OBVIOUS
  <2>1. /\ <<x>> \in Seq(Free) /\ Len(<<x>>) = 1 /\ <<x>>[1] = x
        /\ <<y>> \in Seq(Free) /\ Len(<<y>>) = 1 /\ <<y>>[1] = y
    BY Single
  <2>2. <<x, y>> \in Seq(Free) /\ Len(<<x, y>>) = 2 /\ <<x, y>>[1] = x /\ <<x, y>>[2] = y
    OBVIOUS
  <2>3. /\ <<x>> \o <<y>> \in Seq(Free) /\ Len(<<x>> \o <<y>>) = 2
        /\ (<<x>> \o <<y>>)[1] = x /\ (<<x>> \o <<y>>)[2] = y
    BY <2>1, ConcatProperties
  <2> DEFINE s == <<x>> \o <<y>>
             t == <<x, y>>
  <2>4. s \in Seq(Free) /\ t \in Seq(Free) /\ Len(s) = Len(t) /\ \A i \in 1 .. Len(s) : s[i] = t[i]
    BY <2>2, <2>3
  <2> HIDE DEF s, t
  <2>5. s = t
    BY <2>4, SeqEqual
  <2> QED
    BY <2>2, <2>5 DEF s, t
<1>2. \A p \in {0, 1} : /\ [op |-> "erase", page |-> p] \in Free
                        /\ [op |-> "clean", page |-> p] \in Free
                        /\ [op |-> "mark", page |-> p, status |-> "VALID"] \in Free
  BY DEF Free
<1> QED
  BY <1>1, <1>2, Others DEF TransferEnd, ResumeEnd, Erase, Mark, Clean

LEMMA Rests ==
  ASSUME NEW skip \in Vars \cup {FFFF}, NEW end \in Seq(Free), Len(end) = 2
  PROVE  /\ Rest(Num + 1, skip, end) = end /\ Copies(skip) \o end = Rest(1, skip, end)
         /\ \A j \in 1 .. Num + 1 : Rest(j, skip, end) \in Seq(Free) /\ Rest(j, skip, end) # << >>
         /\ \A j \in 1 .. Num :
              LET r == Rest(j, skip, end) IN
              /\ Head(r) = [op |-> "copy", var |-> VarTab[j], skip |-> skip]
              /\ Tail(r) = Rest(j + 1, skip, end)
<1> DEFINE c(m) == [op |-> "copy", var |-> VarTab[m], skip |-> skip]
<1>1. Num \in Nat \ {0}
  BY Constants
<1>c. \A m \in 1 .. Num : c(m) \in Free
  BY Constants DEF Free
<1>r. \A j : Rest(j, skip, end) = [i \in 1 .. (Num - j + 1) + 2 |->
                  IF i =< Num - j + 1 THEN c(j + i - 1) ELSE end[i - (Num - j + 1)]]
  BY DEF Rest
<1>s. Copies(skip) = [i \in 1 .. Num |-> c(i)]
  BY Constants DEF Copies
<1>h. \A j : c(j) = [op |-> "copy", var |-> VarTab[j], skip |-> skip]
  OBVIOUS
<1> HIDE DEF c
<1>2. end[1] \in Free /\ end[2] \in Free
  <2>1. 1 \in 1 .. Len(end) /\ 2 \in 1 .. Len(end)
    OBVIOUS
  <2> QED
    BY <2>1, ElementOfSeq
<1>3. ASSUME NEW j \in 1 .. Num + 1
      PROVE  /\ Rest(j, skip, end) \in Seq(Free) /\ Rest(j, skip, end) # << >>
             /\ Len(Rest(j, skip, end)) = Num - j + 3
             /\ \A i \in 1 .. Num - j + 3 :
                  Rest(j, skip, end)[i] = IF i =< Num - j + 1 THEN c(j + i - 1) ELSE end[i - (Num - j + 1)]
  <2>1. Num - j + 3 \in Nat /\ Num - j + 3 > 0 /\ (Num - j + 1) + 2 = Num - j + 3
    BY <1>1
  <2>2. \A i \in 1 .. Num - j + 3 :
          (IF i =< Num - j + 1 THEN c(j + i - 1) ELSE end[i - (Num - j + 1)]) \in Free
    <3> SUFFICES ASSUME NEW i \in 1 .. Num - j + 3
                 PROVE  (IF i =< Num - j + 1 THEN c(j + i - 1) ELSE end[i - (Num - j + 1)]) \in Free
      OBVIOUS
    <3>1. CASE i =< Num - j + 1
      <4>1. j + i - 1 \in 1 .. Num
        BY <1>1, <3>1
      <4> QED
        BY <1>c, <3>1, <4>1
    <3>2. CASE i > Num - j + 1
      <4>1. i - (Num - j + 1) = 1 \/ i - (Num - j + 1) = 2
        BY <1>1, <3>2
      <4> QED
        BY <1>1, <1>2, <3>2, <4>1
    <3>3. i =< Num - j + 1 \/ i > Num - j + 1
      BY <1>1
    <3> QED
      BY <3>1, <3>2, <3>3
  <2>3. Rest(j, skip, end) \in [1 .. Num - j + 3 -> Free]
    BY <1>r, <2>1, <2>2
  <2>4. /\ Rest(j, skip, end) \in Seq(Free) /\ Len(Rest(j, skip, end)) = Num - j + 3
    BY <2>1, <2>3
  <2>5. Rest(j, skip, end) # << >>
    BY <2>1, <2>4
  <2> QED
    BY <1>r, <2>1, <2>4, <2>5
<1>4. Rest(Num + 1, skip, end) = end
  <2> DEFINE r == Rest(Num + 1, skip, end)
  <2>1. /\ r \in Seq(Free) /\ Len(r) = Num - (Num + 1) + 3
        /\ \A i \in 1 .. Num - (Num + 1) + 3 :
             r[i] = IF i =< Num - (Num + 1) + 1 THEN c(Num + 1 + i - 1) ELSE end[i - (Num - (Num + 1) + 1)]
    BY <1>1, <1>3
  <2> HIDE DEF r
  <2>2. Len(r) = 2 /\ \A i \in 1 .. 2 : r[i] = end[i]
    <3>1. Num - (Num + 1) + 3 = 2 /\ Num - (Num + 1) + 1 = 0
      BY <1>1
    <3> QED
      BY <2>1, <3>1
  <2>3. r = end
    BY <2>1, <2>2, SeqEqual
  <2> QED
    BY <2>3 DEF r
<1>5. Copies(skip) \o end = Rest(1, skip, end)
  <2> DEFINE r == Rest(1, skip, end)
             s == Copies(skip)
  <2>1. s \in Seq(Free) /\ Len(s) = Num /\ \A i \in 1 .. Num : s[i] = c(i)
    <3>1. s \in [1 .. Num -> Free]
      BY <1>c, <1>s
    <3> QED
      BY <1>1, <1>s, <3>1
  <2>2. /\ r \in Seq(Free) /\ Len(r) = Num + 2
        /\ \A i \in 1 .. Num + 2 : r[i] = IF i =< Num THEN c(i) ELSE end[i - Num]
    <3>1. /\ r \in Seq(Free) /\ Len(r) = Num - 1 + 3
          /\ \A i \in 1 .. Num - 1 + 3 : r[i] = IF i =< Num - 1 + 1 THEN c(1 + i - 1) ELSE end[i - (Num - 1 + 1)]
      BY <1>1, <1>3
    <3>2. Num - 1 + 3 = Num + 2 /\ Num - 1 + 1 = Num
      BY <1>1
    <3>3. \A i \in 1 .. Num + 2 : 1 + i - 1 = i
      OBVIOUS
    <3> QED
      BY <3>1, <3>2, <3>3
  <2> HIDE DEF r, s
  <2>3. /\ s \o end \in Seq(Free) /\ Len(s \o end) = Num + 2
        /\ \A i \in 1 .. Num + 2 : (s \o end)[i] = IF i =< Num THEN s[i] ELSE end[i - Num]
    <3>1. /\ s \o end \in Seq(Free) /\ Len(s \o end) = Len(s) + Len(end)
          /\ \A i \in 1 .. Len(s) + Len(end) :
               (s \o end)[i] = IF i <= Len(s) THEN s[i] ELSE end[i - Len(s)]
      BY <2>1, ConcatProperties
    <3> QED
      BY <1>1, <2>1, <3>1
  <2>4. \A i \in 1 .. Num + 2 : (s \o end)[i] = r[i]
    BY <1>1, <2>1, <2>2, <2>3
  <2>5. s \o end = r
    BY <2>2, <2>3, <2>4, SeqEqual
  <2> QED
    BY <2>5 DEF r, s
<1>6. ASSUME NEW j \in 1 .. Num
      PROVE  /\ Head(Rest(j, skip, end)) = c(j)
             /\ Tail(Rest(j, skip, end)) = Rest(j + 1, skip, end)
  <2> DEFINE r == Rest(j, skip, end)
             s == Rest(j + 1, skip, end)
  <2>1. /\ r \in Seq(Free) /\ r # << >> /\ Len(r) = Num - j + 3
        /\ \A i \in 1 .. Num - j + 3 : r[i] = IF i =< Num - j + 1 THEN c(j + i - 1) ELSE end[i - (Num - j + 1)]
    <3>1. j \in 1 .. Num + 1
      BY <1>1
    <3> QED
      BY <1>3, <3>1
  <2>2. /\ s \in Seq(Free) /\ Len(s) = Num - (j + 1) + 3
        /\ \A i \in 1 .. Num - (j + 1) + 3 :
             s[i] = IF i =< Num - (j + 1) + 1 THEN c((j + 1) + i - 1) ELSE end[i - (Num - (j + 1) + 1)]
    <3>1. j + 1 \in 1 .. Num + 1
      BY <1>1
    <3> QED
      BY <1>3, <3>1
  <2> HIDE DEF r, s
  <2>3. Head(r) = c(j)
    <3>1. 1 \in 1 .. Num - j + 3 /\ 1 =< Num - j + 1 /\ j + 1 - 1 = j
      BY <1>1
    <3> QED
      BY <2>1, <3>1
  <2>4. /\ Tail(r) \in Seq(Free) /\ Len(Tail(r)) = Num - j + 2
        /\ \A i \in 1 .. Num - j + 2 : Tail(r)[i] = r[i + 1]
    BY <1>1, <2>1, HeadTailProperties
  <2>5. ASSUME NEW i \in 1 .. Num - j + 2 PROVE Tail(r)[i] = s[i]
    <3>1. /\ i + 1 \in 1 .. Num - j + 3 /\ i \in 1 .. Num - (j + 1) + 3
          /\ j + (i + 1) - 1 = (j + 1) + i - 1
          /\ (i + 1) - (Num - j + 1) = i - (Num - (j + 1) + 1)
          /\ i + 1 =< Num - j + 1 <=> i =< Num - (j + 1) + 1
      BY <1>1
    <3> QED
      BY <2>1, <2>2, <2>4, <3>1
  <2>6. Len(s) = Num - j + 2
    BY <1>1, <2>2
  <2>7. Tail(r) = s
    BY <2>2, <2>4, <2>5, <2>6, SeqEqual
  <2> QED
    BY <2>3, <2>7 DEF r, s
<1> QED
  BY <1>3, <1>4, <1>5, <1>6, <1>h

Cat(s, t) == s \o t

LEMMA Regroup ==
  ASSUME NEW a \in Seq(Free), NEW b \in Seq(Free), NEW c \in Seq(Free), NEW d \in Seq(Free),
         NEW e \in Seq(Free)
  PROVE  Cat(Cat(Cat(Cat(a, b), c), d), e) = Cat(a, Cat(b, Cat(c, Cat(d, e))))
<1>1. \A s, t, u \in Seq(Free) : Cat(Cat(s, t), u) = Cat(s, Cat(t, u))
  BY Associative, Zenon DEF Cat
<1>2. \A s, t \in Seq(Free) : Cat(s, t) \in Seq(Free)
  BY Concat, Zenon DEF Cat
<1> DEFINE ab == Cat(a, b)
           abc == Cat(ab, c)
           de == Cat(d, e)
<1>3. ab \in Seq(Free) /\ abc \in Seq(Free) /\ de \in Seq(Free) /\ Cat(c, de) \in Seq(Free)
  BY <1>2
<1> HIDE DEF ab, abc, de
<1>4. Cat(Cat(abc, d), e) = Cat(abc, de)
  BY <1>1, <1>3 DEF de
<1>5. Cat(abc, de) = Cat(ab, Cat(c, de))
  BY <1>1, <1>3 DEF abc
<1>6. Cat(ab, Cat(c, de)) = Cat(a, Cat(b, Cat(c, de)))
  BY <1>1, <1>3 DEF ab
<1> QED
  BY <1>4, <1>5, <1>6 DEF ab, abc, de

LEMMA Plans ==
  /\ \A f \in [{0, 1} -> PageType] : Resume(f, 1) = Rest(1, First(f[1]), ResumeEnd)
  /\ \A f, r : \A n \in {0, 1} :
       r.var \in Vars /\ r.val \in Vals \cup {FFFF} /\ ~NoValidPage(f) /\ n = Other(ReadPage(f)) =>
         TransferPlan(f, r) = Mark(n, "RECEIVE")
                                \o (Put(r.var, r.val) \o Rest(1, r.var, TransferEnd(n)))
<1>1. ASSUME NEW f \in [{0, 1} -> PageType] PROVE Resume(f, 1) = Rest(1, First(f[1]), ResumeEnd)
  <2> DEFINE v == First(f[1])
  <2>1. v \in Vars \cup {FFFF} /\ Resume(f, 1) = Copies(v) \o Mark(1, "VALID") \o Clean(0)
    BY PageFacts, Constants, Others DEF First, Resume
  <2> HIDE DEF v
  <2>2. Copies(v) \in Seq(Free) /\ Mark(1, "VALID") \in Seq(Free) /\ Clean(0) \in Seq(Free)
    BY <2>1, Lists
  <2>3. Resume(f, 1) = Copies(v) \o ResumeEnd
    BY <2>1, <2>2, Associative DEF ResumeEnd
  <2>4. Resume(f, 1) = Rest(1, v, ResumeEnd)
    BY <2>1, <2>3, Ends, Rests
  <2> QED
    BY <2>4 DEF v
<1>2. ASSUME NEW f, NEW r, NEW n \in {0, 1}, r.var \in Vars, r.val \in Vals \cup {FFFF},
             ~NoValidPage(f), n = Other(ReadPage(f))
      PROVE  TransferPlan(f, r) = Mark(n, "RECEIVE")
                                    \o (Put(r.var, r.val) \o Rest(1, r.var, TransferEnd(n)))
  <2> DEFINE a == Mark(n, "RECEIVE")
             b == Put(r.var, r.val)
             c == Copies(r.var)
             d == Erase(Other(n))
             e == Mark(n, "VALID")
  <2>1. TransferPlan(f, r) = (((a \o b) \o c) \o d) \o e
    BY <1>2 DEF TransferPlan
  <2>2. a \in Seq(Free) /\ b \in Seq(Free) /\ c \in Seq(Free) /\ d \in Seq(Free) /\ e \in Seq(Free)
    BY <1>2, Lists, Others
  <2>3. c \o TransferEnd(n) = Rest(1, r.var, TransferEnd(n)) /\ TransferEnd(n) = d \o e
    BY <1>2, Ends, Rests DEF TransferEnd
  <2> HIDE DEF a, b, c, d, e
  <2>4. Cat(Cat(Cat(Cat(a, b), c), d), e) = Cat(a, Cat(b, Cat(c, Cat(d, e))))
    BY <2>2, Regroup
  <2>5. (((a \o b) \o c) \o d) \o e = a \o (b \o (c \o (d \o e)))
    BY <2>4, Zenon DEF Cat
  <2> QED
    BY <2>1, <2>3, <2>5 DEF a, b
<1> QED
  BY <1>1, <1>2

LEMMA Only ==
  Step => /\ Doing("erase") => DoErase
          /\ Doing("clean") => DoClean
          /\ Doing("mark") => DoMark
          /\ Doing("copy") => DoCopy
          /\ Doing("put") \/ Doing("store") => DoPut
          /\ Doing("seal") => DoSeal
BY DEF Step, DoErase, DoClean, DoMark, DoCopy, DoPut, DoSeal, Doing

Same == UNCHANGED <<booted, request, resets, intact>>

LEMMA StepErase ==
  ASSUME FlashInv, Step, NEW p \in {0, 1}, NEW t, Does([op |-> "erase", page |-> p], t)
  PROVE  /\ plan' = t /\ Same
         /\ page' \in [{0, 1} -> PageType] /\ page'[p] = Erased /\ page'[Other(p)] = page[Other(p)]
<1>1. DoErase /\ Head(plan).page = p
  BY Only DEF Does, Doing
<1>2. page' = [page EXCEPT ![p] = Erased] /\ plan' = t
  BY <1>1 DEF DoErase, Does
<1>3. page \in [{0, 1} -> PageType] /\ Same
  BY <1>1 DEF FlashInv, DoErase, Same
<1> QED
  BY <1>2, <1>3, ErasePage, Others

LEMMA StepClean ==
  ASSUME FlashInv, Step, NEW p \in {0, 1}, NEW t \in Seq(Free), Does([op |-> "clean", page |-> p], t)
  PROVE  /\ plan' = IF VerifyPageFullyErased(page, p) THEN t ELSE Erase(p) \o t
         /\ Same /\ page' = page
<1>1. DoClean /\ Head(plan).page = p /\ Tail(plan) = t
  BY Only DEF Does, Doing
<1>2. << >> \o t = t
  BY ConcatEmptySeq
<1> QED
  BY <1>1, <1>2 DEF DoClean, Same

LEMMA StepMark ==
  ASSUME FlashInv, Step, NEW p \in {0, 1}, NEW s \in {"RECEIVE", "VALID"}, NEW t,
         Does([op |-> "mark", page |-> p, status |-> s], t), page[p].status # "VALID"
  PROVE  /\ plan' = t /\ Same
         /\ page' \in [{0, 1} -> PageType] /\ page'[p].word = page[p].word /\ page'[p].status = s
         /\ page'[Other(p)] = page[Other(p)]
<1>1. DoMark /\ Head(plan).page = p /\ Head(plan).status = s
  BY Only DEF Does, Doing
<1>2. page' = [page EXCEPT ![p].status = IF @ = "VALID" THEN @ ELSE s] /\ plan' = t
  BY <1>1 DEF DoMark, Does
<1>3. page \in [{0, 1} -> PageType] /\ Same
  BY <1>1 DEF FlashInv, DoMark, Same
<1> QED
  BY <1>2, <1>3, MarkPage, Others

LEMMA StepCopy ==
  ASSUME FlashInv, Step, NEW v, NEW skip, NEW t \in Seq(Free),
         Does([op |-> "copy", var |-> v, skip |-> skip], t)
  PROVE  /\ plan' = IF v = skip \/ ReadVariable(page, v) = Absent
                      THEN t ELSE Put(v, ReadVariable(page, v)) \o t
         /\ Same /\ page' = page
<1>1. DoCopy /\ Head(plan).var = v /\ Head(plan).skip = skip /\ Tail(plan) = t
  BY Only DEF Does, Doing
<1>2. << >> \o t = t
  BY ConcatEmptySeq
<1> QED
  BY <1>1, <1>2 DEF DoCopy, Same

Puts(x, t, p) ==
  Does(x, t) /\ x.op \in {"put", "store"} /\ ~NoValidPage(page) /\ WritePage(page) = p

Written(x, t, p, i) ==
  /\ Filled(page[p], i - 1) /\ plan' = Seal(p, i, x.var) \o t
  /\ page' \in [{0, 1} -> PageType] /\ page'[Other(p)] = page[Other(p)]
  /\ page'[p].status = page[p].status
  /\ \A j \in Words : j # i => page'[p].word[j] = page[p].word[j]
  /\ page'[p].word[i].val = x.val
  /\ \A j \in Words : page'[p].word[j].var = page[p].word[j].var
  /\ \A u \in Vars : Search(page'[p], u) = Search(page[p], u)
Full(x, p) ==
  /\ Filled(page[p], PageSize) /\ page' = page
  /\ plan' = IF x.op = "store" THEN TransferPlan(page, x) ELSE << >>

LEMMA StepPut ==
  ASSUME FlashInv, Step, NEW x, NEW t, NEW p, Puts(x, t, p)
  PROVE  p \in {0, 1} /\ Same /\ ((\E i \in Words : Written(x, t, p, i)) \/ Full(x, p))
<1>0. ~NoValidPage(page) /\ WritePage(page) = p
  BY DEF Puts
<1>1. DoPut /\ Head(plan) = x /\ Tail(plan) = t
  BY Only DEF Puts, Does, Doing
<1>2. p \in {0, 1} /\ Same
  BY <1>0, <1>1 DEF WritePage, DoPut, Same
<1>3. \/ \E i \in Words :
           /\ Filled(page[p], i - 1) /\ plan' = Seal(p, i, x.var) \o t
           /\ page' \in [{0, 1} -> PageType]
           /\ \A q \in {0, 1} : page'[q].status = page[q].status /\ (q # p => page'[q] = page[q])
           /\ \A j \in Words : j # i => page'[p].word[j] = page[p].word[j]
           /\ page'[p].word[i].val = x.val /\ page'[p].word[i].var = page[p].word[i].var
      \/ /\ Filled(page[p], PageSize) /\ page' = page
         /\ plan' = IF x.op = "store" THEN TransferPlan(page, x) ELSE << >>
  BY <1>0, <1>1, PutFacts
<1>4. CASE \E i \in Words :
           /\ Filled(page[p], i - 1) /\ plan' = Seal(p, i, x.var) \o t
           /\ page' \in [{0, 1} -> PageType]
           /\ \A q \in {0, 1} : page'[q].status = page[q].status /\ (q # p => page'[q] = page[q])
           /\ \A j \in Words : j # i => page'[p].word[j] = page[p].word[j]
           /\ page'[p].word[i].val = x.val /\ page'[p].word[i].var = page[p].word[i].var
  <2>1. PICK i \in Words :
           /\ Filled(page[p], i - 1) /\ plan' = Seal(p, i, x.var) \o t
           /\ page' \in [{0, 1} -> PageType]
           /\ \A q \in {0, 1} : page'[q].status = page[q].status /\ (q # p => page'[q] = page[q])
           /\ \A j \in Words : j # i => page'[p].word[j] = page[p].word[j]
           /\ page'[p].word[i].val = x.val /\ page'[p].word[i].var = page[p].word[i].var
    BY <1>4
  <2>2. page'[p] \in PageType /\ Sound(page[p])
    BY <1>2, <2>1 DEF FlashInv
  <2>3. /\ \A u \in Vars : Search(page'[p], u) = Search(page[p], u)
        /\ \A j \in Words : page'[p].word[j].var = page[p].word[j].var
    BY <2>1, <2>2, SoundPut
  <2>4. page'[Other(p)] = page[Other(p)] /\ page'[p].status = page[p].status
    BY <1>2, <2>1, Others
  <2>5. Written(x, t, p, i)
    BY <2>1, <2>3, <2>4 DEF Written
  <2> QED
    BY <1>2, <2>5
<1> QED
  BY <1>2, <1>3, <1>4 DEF Full

LEMMA StepSeal ==
  ASSUME FlashInv, Step, NEW p \in {0, 1}, NEW i \in Words, NEW v \in Vars, NEW t,
         Does([op |-> "seal", page |-> p, at |-> i, var |-> v], t)
  PROVE  /\ plan' = t /\ Same
         /\ page' \in [{0, 1} -> PageType] /\ page'[Other(p)] = page[Other(p)]
         /\ page'[p].status = page[p].status
         /\ \A j \in Words : j # i => page'[p].word[j] = page[p].word[j]
         /\ page[p].word[i].var = FFFF /\ page'[p].word[i].var = v
         /\ Filled(page'[p], i) /\ Search(page'[p], v) = page[p].word[i].val
         /\ \A u \in Vars : u # v => Search(page'[p], u) = Search(page[p], u)
<1>1. DoSeal /\ Doing("seal") /\ Head(plan).page = p /\ Head(plan).at = i /\ Head(plan).var = v
  BY Only DEF Does, Doing
<1>2. page' = [page EXCEPT ![p].word[i].var = v] /\ plan' = t
  BY <1>1 DEF DoSeal, Does
<1>3. /\ page \in [{0, 1} -> PageType] /\ Same /\ Sound(page[p])
  BY <1>1 DEF FlashInv, DoSeal, Same
<1>4. Behind(page[p], i)
  BY <1>1 DEF FlashInv
<1>5. /\ page' \in [{0, 1} -> PageType]
      /\ \A q \in {0, 1} : page'[q].status = page[q].status /\ (q # p => page'[q] = page[q])
      /\ \A j \in Words : j # i => page'[p].word[j] = page[p].word[j]
      /\ page'[p].word[i] = [val |-> page[p].word[i].val, var |-> v]
  BY <1>2, <1>3, SealWord
<1>6. /\ Filled(page'[p], i) /\ Search(page'[p], v) = page[p].word[i].val
      /\ \A u \in Vars : u # v => Search(page'[p], u) = Search(page[p], u)
  BY <1>3, <1>4, <1>5, SoundSeal
<1>7. page'[Other(p)] = page[Other(p)] /\ page[p].word[i].var = FFFF /\ page'[p].word[i].var = v
  BY <1>4, <1>5, Others DEF Behind
<1> QED
  BY <1>2, <1>3, <1>5, <1>6, <1>7

-----------------------------------------------------------------------------
(* What the pages are worth, and the page that is read or written. *)

LEMMA KeptValid ==
  ASSUME NEW f \in [{0, 1} -> PageType], NEW p \in {0, 1}, f[p].status = "VALID",
         f[Other(p)].status # "RECEIVE", f[Other(p)].status # "VALID" \/ p = 1, NEW v
  PROVE  Kept(f, v) = Search(f[p], v)
<1>1. ~\E q \in {0, 1} : f[q].status = "RECEIVE"
  BY Others
<1>2. p = 0 \/ p = 1
  OBVIOUS
<1> QED
  BY <1>1, <1>2, Others DEF Kept

LEMMA KeptReceive ==
  ASSUME NEW f \in [{0, 1} -> PageType], NEW n \in {0, 1}, f[n].status = "RECEIVE",
         f[Other(n)].status # "RECEIVE", NEW v
  PROVE  Kept(f, v) = IF \/ f[Other(n)].status # "VALID" \/ Search(f[Other(n)], v) = Absent
                         \/ First(f[n]) = v
                        THEN Search(f[n], v) ELSE Search(f[Other(n)], v)
<1>1. \A q \in {0, 1} : f[q].status = "RECEIVE" => q = n
  BY Others
<1>2. (CHOOSE q \in {0, 1} : f[q].status = "RECEIVE") = n
  BY <1>1
<1> QED
  BY <1>1, <1>2 DEF Kept, First

LEMMA KeptNone ==
  ASSUME NEW f, f[0].status = "ERASED", f[1].status = "ERASED", NEW v
  PROVE  Kept(f, v) = Absent
BY DEF Kept

LEMMA Reading ==
  ASSUME NEW f, NEW p \in {0, 1}, f[p].status = "VALID", f[Other(p)].status # "VALID"
  PROVE  ~NoValidPage(f) /\ ReadPage(f) = p /\ \A v : ReadVariable(f, v) = Search(f[p], v)
<1>1. ~NoValidPage(f)
  BY DEF NoValidPage
<1>2. ReadPage(f) = p
  BY Others DEF ReadPage
<1> QED
  BY <1>1, <1>2 DEF ReadVariable

LEMMA Writing ==
  ASSUME NEW f, NEW p \in {0, 1}
  PROVE  /\ f[p].status = "VALID" /\ f[Other(p)].status = "ERASED" => WritePage(f) = p
         /\ f[p].status = "RECEIVE" /\ f[Other(p)].status = "VALID" => WritePage(f) = p
BY Others DEF WritePage

Keeps == \A v \in Vars : Kept(page', v) = Kept(page, v)
Commits ==
  \A v \in Vars : Kept(page', v) = IF v = request.var THEN request.val ELSE Kept(page, v)

LEMMA KeptKnown ==
  ASSUME FlashInv, NEW p \in {0, 1}, Known(p), NEW v
  PROVE  Kept(page, v) = Search(page[p], v)
<1>1. page \in [{0, 1} -> PageType] /\ page[Other(p)].status = "ERASED"
  BY ErasedFacts DEF FlashInv, Known
<1> QED
  BY <1>1, KeptValid DEF Known

LEMMA KeptCopying ==
  ASSUME FlashInv, NEW n \in {0, 1}, Receiving(n), NEW v
  PROVE  Kept(page, v) = IF Search(page[Other(n)], v) = Absent \/ First(page[n]) = v
                           THEN Search(page[n], v) ELSE Search(page[Other(n)], v)
<1>1. page \in [{0, 1} -> PageType] /\ page[n].status = "RECEIVE" /\ page[Other(n)].status = "VALID"
  BY DEF FlashInv, Receiving
<1> QED
  BY <1>1, KeptReceive

-----------------------------------------------------------------------------
(* A call of EE_WriteVariable. *)

LEMMA StartStep ==
  ASSUME FlashInv, NEW p \in {0, 1}, Ready(p), WriteVariable
  PROVE  Storing(p)' /\ page' = page /\ request = NoRequest /\ request' \in [var : Vars, val : Vals]
<1>1. PICK r \in [var : Vars, val : Vals] : request' = r /\ plan' = Store(r)
  BY DEF WriteVariable
<1>2. page' = page /\ request = NoRequest /\ r # NoRequest
  BY Constants DEF WriteVariable
<1> QED
  BY <1>1, <1>2 DEF Ready, Storing, Known

LEMMA ReturnStep ==
  ASSUME FlashInv, NEW p \in {0, 1}, Ready(p), WriteReturn
  PROVE  /\ Ready(p)' /\ page' = page /\ request' = NoRequest
         /\ request # NoRequest /\ request \in [var : Vars, val : Vals]
         /\ Search(page[p], request.var) = request.val
         /\ ReadVariable(page, request.var) = request.val
<1>1. /\ page' = page /\ plan' = plan /\ request' = NoRequest /\ request # NoRequest
      /\ request \in [var : Vars, val : Vals]
  BY DEF WriteReturn, FlashInv
<1>2. Search(page[p], request.var) = request.val /\ Known(p)
  BY <1>1 DEF Ready, Answered
<1>3. page[p].status = "VALID" /\ page[Other(p)].status # "VALID"
  BY <1>2, ErasedFacts DEF Known
<1>4. ReadVariable(page, request.var) = request.val
  BY <1>2, <1>3, Reading
<1>5. Ready(p)'
  BY <1>1, <1>2 DEF Ready, Known, Answered
<1> QED
  BY <1>1, <1>2, <1>4, <1>5

LEMMA StoreStep ==
  ASSUME FlashInv, NEW p \in {0, 1}, Storing(p), Step
  PROVE  Same /\ Keeps /\ (Sealing(p)' \/ MoveMark(Other(p))')
<1> DEFINE v == request.var
           d == request.val
<1>1. /\ page \in [{0, 1} -> PageType] /\ request \in [var : Vars, val : Vals] /\ request # NoRequest
      /\ v \in Vars /\ d \in Vals /\ Known(p)
  BY DEF FlashInv, Storing
<1> DEFINE x == [op |-> "store", var |-> v, val |-> d]
<1>2. Does(x, << >>) /\ x.op = "store" /\ x.var = v /\ x.val = d
  <2>1. x \in Ops
    BY <1>1 DEF Ops, Free
  <2> QED
    BY <2>1, DoesLast DEF Storing, Store
<1>3. page[p].status = "VALID" /\ page[Other(p)] = Erased /\ page[Other(p)].status = "ERASED"
  BY <1>1, ErasedFacts DEF Known
<1>4. ~NoValidPage(page) /\ ReadPage(page) = p /\ WritePage(page) = p
  BY <1>3, Reading, Writing
<1>p. Puts(x, << >>, p)
  BY <1>2, <1>4 DEF Puts
<1> HIDE DEF v, d, x
<1>5. Same /\ ((\E i \in Words : Written(x, << >>, p, i)) \/ Full(x, p))
  BY <1>p, StepPut
<1>6. CASE \E i \in Words : Written(x, << >>, p, i)
  <2>0. PICK i \in Words : Written(x, << >>, p, i)
    BY <1>6
  <2>1. /\ plan' = Seal(p, i, v) \o << >>
        /\ page' \in [{0, 1} -> PageType] /\ page'[Other(p)] = page[Other(p)]
        /\ page'[p].status = page[p].status /\ page'[p].word[i].val = d
        /\ \A u \in Vars : Search(page'[p], u) = Search(page[p], u)
    BY <1>2, <2>0 DEF Written
  <2>2. plan' = Seal(p, i, v)
    <3>1. [op |-> "seal", page |-> p, at |-> i, var |-> v] \in Ops
      BY <1>1 DEF Ops
    <3>2. Seal(p, i, v) \in Seq(Ops)
      BY <3>1, Single DEF Seal
    <3> QED
      BY <2>1, <3>2, ConcatEmptySeq
  <2>3. Sealing(p)'
    BY <1>1, <1>3, <1>5, <2>1, <2>2 DEF Sealing, Known, Same, v, d
  <2>4. Keeps
    <3> SUFFICES ASSUME NEW u \in Vars PROVE Kept(page', u) = Kept(page, u)
      BY DEF Keeps
    <3>1. Kept(page, u) = Search(page[p], u)
      BY <1>1, KeptKnown
    <3>2. page'[p].status = "VALID" /\ page'[Other(p)].status = "ERASED"
      BY <1>3, <2>1
    <3>3. Kept(page', u) = Search(page'[p], u)
      BY <2>1, <3>2, KeptValid
    <3> QED
      BY <2>1, <3>1, <3>3
  <2> QED
    BY <1>5, <2>3, <2>4
<1>7. CASE Full(x, p)
  <2>0. page' = page /\ plan' = TransferPlan(page, x)
    BY <1>2, <1>7 DEF Full
  <2> DEFINE n == Other(p)
  <2>1. n \in {0, 1} /\ Other(n) = p
    BY Others
  <2>2. x.var \in Vars /\ x.val \in Vals \cup {FFFF}
    BY <1>1, <1>2
  <2>3. plan' = Mark(n, "RECEIVE") \o (Put(v, d) \o Rest(1, v, TransferEnd(n)))
    BY <1>2, <1>4, <2>0, <2>1, <2>2, Plans
  <2>4. MoveMark(n)'
    BY <1>1, <1>3, <1>5, <2>0, <2>1, <2>3 DEF MoveMark, Copied, Known, Same, v, d
  <2>5. Keeps
    BY <2>0 DEF Keeps
  <2> QED
    BY <1>5, <2>4, <2>5
<1> QED
  BY <1>5, <1>6, <1>7

LEMMA SealStep ==
  ASSUME FlashInv, NEW p \in {0, 1}, Sealing(p), Step
  PROVE  Same /\ Commits /\ Ready(p)'
<1> DEFINE v == request.var
           d == request.val
<1>1. /\ page \in [{0, 1} -> PageType] /\ request \in [var : Vars, val : Vals] /\ request # NoRequest
      /\ v \in Vars /\ Known(p)
  BY DEF FlashInv, Sealing
<1>2. PICK i \in Words : plan = Seal(p, i, v) /\ page[p].word[i].val = d
  BY DEF Sealing
<1>3. Does([op |-> "seal", page |-> p, at |-> i, var |-> v], << >>)
  <2>1. [op |-> "seal", page |-> p, at |-> i, var |-> v] \in Ops
    BY <1>1 DEF Ops
  <2> QED
    BY <1>2, <2>1, DoesLast DEF Seal
<1> HIDE DEF v, d
<1>4. /\ plan' = << >> /\ Same
      /\ page' \in [{0, 1} -> PageType] /\ page'[Other(p)] = page[Other(p)]
      /\ page'[p].status = page[p].status
      /\ Search(page'[p], v) = page[p].word[i].val
      /\ \A u \in Vars : u # v => Search(page'[p], u) = Search(page[p], u)
  BY <1>1, <1>3, StepSeal
<1>5. page'[p].status = "VALID" /\ page'[Other(p)] = Erased /\ page'[Other(p)].status = "ERASED"
  BY <1>1, <1>4, ErasedFacts DEF Known
<1>6. Ready(p)'
  BY <1>2, <1>4, <1>5 DEF Ready, Known, Answered, Same, v, d
<1>7. ASSUME NEW u \in Vars PROVE Kept(page', u) = IF u = v THEN d ELSE Kept(page, u)
  <2>1. Kept(page, u) = Search(page[p], u)
    BY <1>1, KeptKnown
  <2>2. Kept(page', u) = Search(page'[p], u)
    BY <1>4, <1>5, KeptValid
  <2> QED
    BY <1>2, <1>4, <2>1, <2>2
<1> QED
  BY <1>4, <1>6, <1>7 DEF Commits, v, d

-----------------------------------------------------------------------------
(* The transfer of the variables to the other page. *)

LEMMA CallTypes ==
  ASSUME FlashInv, request # NoRequest, NEW n \in {0, 1}
  PROVE  /\ request.var \in Vars /\ request.val \in Vals /\ request \in [var : Vars, val : Vals]
         /\ Copied(n) \in Seq(Free) /\ Put(request.var, request.val) \in Seq(Free)
         /\ Put(request.var, request.val) \o Copied(n) \in Seq(Free)
<1>1. request.var \in Vars /\ request.val \in Vals /\ request \in [var : Vars, val : Vals]
  BY DEF FlashInv
<1>2. Copied(n) \in Seq(Free)
  <2>1. 1 \in 1 .. Num + 1
    BY Constants
  <2> QED
    BY <1>1, <2>1, Ends, Rests DEF Copied
<1>3. Put(request.var, request.val) \in Seq(Free)
  BY <1>1, Lists
<1> QED
  BY <1>1, <1>2, <1>3, Concat

LEMMA MoveMarkStep ==
  ASSUME FlashInv, NEW n \in {0, 1}, MoveMark(n), Step
  PROVE  Same /\ Keeps /\ MovePut(n)'
<1> DEFINE o == Other(n)
           t == Put(request.var, request.val) \o Copied(n)
           x == [op |-> "mark", page |-> n, status |-> "RECEIVE"]
<1>1. /\ page \in [{0, 1} -> PageType] /\ request # NoRequest /\ Known(o)
      /\ o \in {0, 1} /\ Other(o) = n /\ t \in Seq(Free)
  BY CallTypes, Others DEF FlashInv, MoveMark
<1>2. page[o].status = "VALID" /\ page[n] = Erased /\ page[n].status = "ERASED"
  BY <1>1, ErasedFacts DEF Known
<1>3. Does(x, t)
  <2>1. x \in Ops
    BY DEF Ops, Free
  <2> QED
    BY <1>1, <2>1, DoesFirst DEF MoveMark, Mark
<1>4. /\ plan' = t /\ Same
      /\ page' \in [{0, 1} -> PageType] /\ page'[n].word = page[n].word /\ page'[n].status = "RECEIVE"
      /\ page'[o] = page[o]
  BY <1>2, <1>3, StepMark
<1>5. MovePut(n)'
  BY <1>1, <1>2, <1>4 DEF MovePut, Receiving, Copied, Same
<1>6. ASSUME NEW u \in Vars PROVE Kept(page', u) = Kept(page, u)
  <2>1. Kept(page, u) = Search(page[o], u)
    BY <1>1, KeptKnown
  <2>2. Search(page'[n], u) = Absent /\ First(page'[n]) # u
    <3>1. \A i \in Words : page'[n].word[i].var = FFFF
      BY <1>2, <1>4, ErasedFacts
    <3> QED
      BY <3>1, SearchNone, Constants DEF First
  <2>3. Kept(page', u) = IF \/ page'[o].status # "VALID" \/ Search(page'[o], u) = Absent
                            \/ First(page'[n]) = u
                           THEN Search(page'[n], u) ELSE Search(page'[o], u)
    BY <1>2, <1>4, KeptReceive
  <2> QED
    BY <1>2, <1>4, <2>1, <2>2, <2>3
<1> QED
  BY <1>4, <1>5, <1>6 DEF Keeps

\* The receiving page gets half a word: nothing is changed by it.
LEMMA KeptWritten ==
  ASSUME FlashInv, NEW n \in {0, 1}, Receiving(n), NEW x, NEW t, NEW i \in Words, Written(x, t, n, i)
  PROVE  Keeps /\ Receiving(n)' /\ First(page'[n]) = First(page[n])
<1>1. /\ page' \in [{0, 1} -> PageType] /\ page'[Other(n)] = page[Other(n)]
      /\ page'[n].status = page[n].status
      /\ \A j \in Words : page'[n].word[j].var = page[n].word[j].var
      /\ \A u \in Vars : Search(page'[n], u) = Search(page[n], u)
  BY DEF Written
<1>2. Receiving(n)' /\ First(page'[n]) = First(page[n])
  BY <1>1, Constants DEF Receiving, First
<1>3. page'[n].status = "RECEIVE" /\ page'[Other(n)].status = "VALID"
  BY <1>1 DEF Receiving
<1>4. ASSUME NEW u \in Vars PROVE Kept(page', u) = Kept(page, u)
  <2>1. Kept(page, u) = IF Search(page[Other(n)], u) = Absent \/ First(page[n]) = u
                          THEN Search(page[n], u) ELSE Search(page[Other(n)], u)
    BY KeptCopying
  <2>2. Kept(page', u) = IF \/ page'[Other(n)].status # "VALID" \/ Search(page'[Other(n)], u) = Absent
                            \/ First(page'[n]) = u
                           THEN Search(page'[n], u) ELSE Search(page'[Other(n)], u)
    BY <1>1, <1>3, KeptReceive
  <2> QED
    BY <1>1, <1>2, <1>3, <2>1, <2>2
<1> QED
  BY <1>2, <1>4 DEF Keeps

LEMMA MovePutStep ==
  ASSUME FlashInv, NEW n \in {0, 1}, MovePut(n), Step
  PROVE  Same /\ Keeps /\ MoveSeal(n)'
<1> DEFINE t == Copied(n)
           v == request.var
           d == request.val
           x == [op |-> "put", var |-> v, val |-> d]
<1>1. /\ page \in [{0, 1} -> PageType] /\ request # NoRequest /\ Receiving(n)
      /\ page[n].word = Erased.word /\ t \in Seq(Free)
  BY CallTypes DEF FlashInv, MovePut
<1>2. Does(x, t) /\ x.op = "put" /\ x.var = v /\ x.val = d
  <2>1. x \in Ops
    BY <1>1, CallTypes DEF Ops, Free
  <2> QED
    BY <1>1, <2>1, DoesFirst DEF MovePut, Put
<1>3. ~NoValidPage(page) /\ WritePage(page) = n
  BY <1>1, Writing, Others DEF Receiving, NoValidPage
<1>4. Puts(x, t, n)
  BY <1>2, <1>3 DEF Puts
<1>5. Filled(page[n], 0) /\ 0 \in 0 .. PageSize /\ PageSize \in 0 .. PageSize /\ PageSize # 0
  BY <1>1, ErasedFacts, Constants DEF Filled
<1> HIDE DEF t, v, d, x
<1>6. Same /\ ((\E i \in Words : Written(x, t, n, i)) \/ Full(x, n))
  BY <1>4, StepPut
<1>7. ~Full(x, n)
  BY <1>5, FilledOnce DEF Full
<1>8. PICK i \in Words : Written(x, t, n, i)
  BY <1>6, <1>7
<1>9. i = 1
  <2>1. i - 1 \in 0 .. PageSize /\ Filled(page[n], i - 1) /\ i \in Nat
    BY <1>8, Constants DEF Written, Words
  <2>2. i - 1 = 0
    BY <1>5, <2>1, FilledOnce
  <2> QED
    BY <2>1, <2>2
<1>10. Keeps /\ Receiving(n)'
  BY <1>1, <1>8, KeptWritten
<1>11. /\ plan' = Seal(n, 1, v) \o t /\ page'[n].word[1].val = d
       /\ \A j \in Words : j # 1 => page'[n].word[j] = page[n].word[j]
       /\ \A j \in Words : page'[n].word[j].var = page[n].word[j].var
  BY <1>2, <1>8, <1>9 DEF Written
<1>12. \A j \in Words : page'[n].word[j].var = FFFF /\ (j # 1 => page'[n].word[j] = Blank)
  BY <1>1, <1>11, ErasedFacts
<1>13. plan' = Seal(n, 1, request'.var) \o Copied(n)' /\ request' # NoRequest /\ d = request'.val
  BY <1>1, <1>6, <1>11 DEF Same, t, v, d, Copied
<1>14. MoveSeal(n)'
  BY <1>10, <1>11, <1>12, <1>13 DEF MoveSeal
<1> QED
  BY <1>6, <1>10, <1>14

LEMMA MoveSealStep ==
  ASSUME FlashInv, NEW n \in {0, 1}, MoveSeal(n), Step
  PROVE  Same /\ Commits /\ CopyNext(n, 1, request.var, TransferEnd(n))'
<1> DEFINE t == Copied(n)
           v == request.var
           d == request.val
           o == Other(n)
           x == [op |-> "seal", page |-> n, at |-> 1, var |-> v]
<1>1. /\ page \in [{0, 1} -> PageType] /\ request # NoRequest /\ Receiving(n)
      /\ v \in Vars /\ t \in Seq(Free) /\ 1 \in Words /\ page[n].word[1].val = d
      /\ \A i \in Words : page[n].word[i].var = FFFF
  BY CallTypes, Constants DEF FlashInv, MoveSeal
<1>2. Does(x, t)
  <2>1. x \in Ops
    BY <1>1 DEF Ops
  <2> QED
    BY <1>1, <2>1, DoesFirst DEF MoveSeal, Seal
<1>3. /\ plan' = t /\ Same
      /\ page' \in [{0, 1} -> PageType] /\ page'[o] = page[o]
      /\ page'[n].status = page[n].status /\ page'[n].word[1].var = v
      /\ Filled(page'[n], 1) /\ Search(page'[n], v) = page[n].word[1].val
      /\ \A u \in Vars : u # v => Search(page'[n], u) = Search(page[n], u)
  BY <1>1, <1>2, StepSeal
<1>4. \A u \in Vars : Search(page[n], u) = Absent
  BY <1>1, SearchNone, Constants
<1>5. First(page[n]) = FFFF /\ First(page'[n]) = v /\ Search(page'[n], v) = d
  BY <1>1, <1>3 DEF First
<1>6. page[o].status = "VALID" /\ page[n].status = "RECEIVE"
  BY <1>1 DEF Receiving
<1>7. ASSUME NEW u \in Vars PROVE Kept(page', u) = IF u = v THEN d ELSE Kept(page, u)
  <2>1. Kept(page, u) = IF Search(page[o], u) = Absent \/ First(page[n]) = u
                          THEN Search(page[n], u) ELSE Search(page[o], u)
    BY <1>1, KeptCopying
  <2>2. Kept(page', u) = IF \/ page'[o].status # "VALID" \/ Search(page'[o], u) = Absent
                            \/ First(page'[n]) = u
                           THEN Search(page'[n], u) ELSE Search(page'[o], u)
    BY <1>3, <1>6, KeptReceive
  <2> QED
    BY <1>3, <1>4, <1>5, <1>6, <2>1, <2>2, Constants
<1>8. Before(page'[n], page'[o], 1, v, MaxResets - resets)
  <2> DEFINE pg == page'[n]
             og == page'[o]
             k == MaxResets - resets
  <2>1. First(pg) = v /\ (\A u \in Vars : u # v => Search(pg, u) = Absent)
    BY <1>3, <1>4, <1>5
  <2>2. Filled(pg, 1)
    BY <1>3
  <2>3. k \in Nat /\ k =< MaxResets
    BY Constants DEF FlashInv
  <2> HIDE DEF pg, og, k
  <2>4. Skips(pg, 1, v) /\ Partial(pg, og) /\ Done(pg, og, 1)
    BY <2>1 DEF Skips, Partial, Done
  <2>5. Room(pg, 1, Left(1, v), k)
    <3>1. Left(1, v) = Num - 1 /\ Cost(pg) = Num - 1
      BY <1>1, <2>1, LeftFirst, Costs
    <3>2. /\ k * (Num - 1) =< MaxResets * (Num - 1) /\ Num - 1 \in Nat
          /\ k * (Num - 1) \in Nat /\ MaxResets * (Num - 1) \in Nat
      <4>1. Num - 1 \in Nat /\ MaxResets \in Nat
        BY Constants
      <4> QED
        BY <2>3, <4>1, Products
    <3>3. MaxResets * (Num - 1) = (Num - 1) * MaxResets
      BY <3>2, Constants
    <3>4. 1 + (Num - 1) + k * (Num - 1) =< PageSize
      BY <3>2, <3>3, Constants
    <3> QED
      BY <3>1, <3>4 DEF Room
  <2>6. 1 \in 0 .. PageSize
    BY Constants
  <2> QED
    BY <2>2, <2>4, <2>5, <2>6 DEF Before, pg, og, k
<1>9. Loop(n, v, TransferEnd(n))'
  BY <1>1, <1>3, <1>5, <1>6 DEF Loop, Receiving, Same
<1>10. CopyNext(n, 1, request.var, TransferEnd(n))'
  BY <1>3, <1>8, <1>9 DEF CopyNext, Same, Copied
<1> QED
  BY <1>3, <1>7, <1>10 DEF Commits

LEMMA LoopTypes ==
  ASSUME FlashInv, NEW n \in {0, 1}, NEW skip, NEW end, Loop(n, skip, end)
  PROVE  /\ skip \in Vars \cup {FFFF} /\ (skip \in Vars => First(page[n]) = skip)
         /\ end \in Seq(Free) /\ Len(end) = 2 /\ Receiving(n)
         /\ \A j \in 1 .. Num + 1 : Rest(j, skip, end) \in Seq(Free) /\ Rest(j, skip, end) # << >>
         /\ page \in [{0, 1} -> PageType] /\ page[n].status = "RECEIVE" /\ page[Other(n)].status = "VALID"
         /\ Sound(page[n]) /\ Sound(page[Other(n)]) /\ MaxResets - resets \in Nat
<1>1. end \in Seq(Free) /\ Len(end) = 2
  BY Ends DEF Loop
<1>2. skip \in Vars \cup {FFFF} /\ (skip \in Vars => First(page[n]) = skip) /\ Receiving(n)
  BY DEF Loop
<1>3. MaxResets - resets \in Nat
  BY Constants DEF FlashInv
<1>4. /\ page \in [{0, 1} -> PageType] /\ page[n].status = "RECEIVE" /\ page[Other(n)].status = "VALID"
      /\ Sound(page[n]) /\ Sound(page[Other(n)])
  BY <1>2, Others DEF FlashInv, Receiving
<1> QED
  BY <1>1, <1>2, <1>3, <1>4, Rests

LEMMA NextStep ==
  ASSUME FlashInv, NEW n \in {0, 1}, NEW j \in 1 .. Num, NEW skip, NEW end,
         CopyNext(n, j, skip, end), Step
  PROVE  Same /\ Keeps /\ (CopyNext(n, j + 1, skip, end)' \/ CopyPut(n, j, skip, end)')
<1> DEFINE o == Other(n)
           v == VarTab[j]
           d == Search(page[o], v)
           t == Rest(j + 1, skip, end)
           k == MaxResets - resets
<1>1. /\ Loop(n, skip, end) /\ plan = Rest(j, skip, end) /\ v \in Vars /\ o \in {0, 1}
      /\ Before(page[n], page[o], j, skip, k) /\ k \in Nat
      /\ j \in 1 .. Num + 1 /\ j + 1 \in 1 .. Num + 1
  BY LoopTypes, Constants, Others DEF CopyNext
<1>2. t \in Seq(Free) /\ Does([op |-> "copy", var |-> v, skip |-> skip], t)
  <2>1. /\ end \in Seq(Free) /\ Len(end) = 2 /\ skip \in Vars \cup {FFFF}
    BY <1>1, LoopTypes
  <2> QED
    BY <1>1, <2>1, Rests DEF Does
<1>3. ReadVariable(page, v) = d
  BY <1>1, LoopTypes, Reading, Others
<1>4. (skip \in Vars => First(page[n]) = skip)
  BY <1>1, LoopTypes
<1>5. /\ plan' = IF v = skip \/ d = Absent THEN t ELSE Put(v, d) \o t
      /\ Same /\ page' = page
  BY <1>2, <1>3, StepCopy
<1>6. Loop(n, skip, end)'
  BY <1>1, <1>5 DEF Loop, Receiving, Same
<1>7. CASE v = skip \/ d = Absent
  <2>1. Before(page[n], page[o], j + 1, skip, k)
    BY <1>1, <1>4, <1>7, LoopSkips
  <2> QED
    BY <1>5, <1>6, <1>7, <2>1 DEF CopyNext, Keeps, Same
<1>8. CASE v # skip /\ d # Absent
  <2>1. /\ During(page[n], page[o], j, skip)
        /\ \E m \in 0 .. PageSize : Filled(page[n], m) /\ Room(page[n], m + 1, Left(j + 1, skip), k)
    BY <1>1, <1>8, LoopCopies
  <2> QED
    BY <1>5, <1>6, <1>8, <2>1 DEF CopyPut, Keeps, Same
<1> QED
  BY <1>7, <1>8

LEMMA DuringSame ==
  ASSUME NEW pg, NEW qg, NEW og, NEW j \in 1 .. Num, NEW skip, First(qg) = First(pg),
         \A u \in Vars : Search(qg, u) = Search(pg, u), During(pg, og, j, skip)
  PROVE  During(qg, og, j, skip)
<1>1. Skips(qg, j + 1, skip)
  BY DEF During, Skips
<1>2. Partial(qg, og)
  BY DEF During, Partial
<1>3. Done(qg, og, j)
  <2>1. \A i \in 1 .. j - 1 : VarTab[i] \in Vars
    BY Constants
  <2> QED
    BY <2>1 DEF During, Done
<1> QED
  BY <1>1, <1>2, <1>3 DEF During

LEMMA PutStep ==
  ASSUME FlashInv, NEW n \in {0, 1}, NEW j \in 1 .. Num, NEW skip, NEW end,
         CopyPut(n, j, skip, end), Step
  PROVE  Same /\ Keeps /\ CopySeal(n, j, skip, end)'
<1> DEFINE o == Other(n)
           v == VarTab[j]
           d == Search(page[o], v)
           t == Rest(j + 1, skip, end)
           l == Left(j + 1, skip)
           k == MaxResets - resets
           x == [op |-> "put", var |-> v, val |-> d]
<1>1. /\ Loop(n, skip, end) /\ plan = Put(v, d) \o t /\ v \in Vars /\ o \in {0, 1}
      /\ During(page[n], page[o], j, skip) /\ k \in Nat /\ l \in Nat /\ t \in Seq(Free)
  <2>1. j + 1 \in 1 .. Num + 1 /\ v \in Vars
    BY Constants
  <2>2. Loop(n, skip, end) /\ plan = Put(v, d) \o t /\ During(page[n], page[o], j, skip)
    BY DEF CopyPut
  <2>3. l \in Nat
    BY Lefts
  <2>4. k \in Nat /\ t \in Seq(Free)
    BY <2>1, <2>2, LoopTypes
  <2> QED
    BY <2>1, <2>2, <2>3, <2>4, Others
<1>2. PICK m \in 0 .. PageSize : Filled(page[n], m) /\ Room(page[n], m + 1, l, k)
  BY DEF CopyPut
<1>3. d \in Vals \cup {FFFF}
  <2>1. page[o] \in PageType /\ Sound(page[o])
    BY <1>1, LoopTypes
  <2>2. d # Absent
    BY <1>1 DEF During
  <2> QED
    BY <1>1, <2>1, <2>2, SearchData
<1>4. Does(x, t) /\ x.op = "put" /\ x.var = v /\ x.val = d
  <2>1. x \in Ops
    BY <1>1, <1>3 DEF Ops, Free
  <2> QED
    BY <1>1, <2>1, DoesFirst DEF Put
<1>5. /\ Receiving(n) /\ ~NoValidPage(page) /\ WritePage(page) = n
  BY <1>1, LoopTypes, Writing, Others DEF NoValidPage
<1>6. Puts(x, t, n)
  BY <1>4, <1>5 DEF Puts
<1>7. First(page[n]) = First(page[n]) /\ PageSize \in Nat /\ PageSize \in 0 .. PageSize /\ m \in Nat
  BY Constants
<1> HIDE DEF t, l, k, x
<1>8. Same /\ ((\E i \in Words : Written(x, t, n, i)) \/ Full(x, n))
  BY <1>6, StepPut
<1>9. ~Full(x, n)
  <2> SUFFICES ASSUME Full(x, n) PROVE FALSE
    OBVIOUS
  <2>1. m = PageSize
    BY <1>2, <1>7, FilledOnce DEF Full
  <2>2. k * Cost(page[n]) \in Nat
    BY <1>1, Costs, Products
  <2> QED
    BY <1>1, <1>2, <1>7, <2>1, <2>2 DEF Room
<1>10. PICK i \in Words : Written(x, t, n, i)
  BY <1>8, <1>9
<1>11. /\ plan' = Seal(n, i, v) \o t /\ page'[o] = page[o] /\ page'[n].word[i].val = d
       /\ \A u \in Vars : Search(page'[n], u) = Search(page[n], u)
  BY <1>4, <1>10 DEF Written
<1>12. Keeps /\ Receiving(n)' /\ First(page'[n]) = First(page[n])
  BY <1>5, <1>10, KeptWritten
<1>13. m + 1 = i
  <2>1. i - 1 \in 0 .. PageSize /\ Filled(page[n], i - 1) /\ i \in Nat
    BY <1>10, Constants DEF Written, Words
  <2>2. i - 1 = m
    BY <1>2, <2>1, FilledOnce
  <2> QED
    BY <2>1, <2>2
<1>14. Room(page'[n], i, l, k)
  <2>1. Room(page[n], i, l, k)
    BY <1>2, <1>13
  <2> QED
    BY <1>12, <2>1 DEF Room, Cost
<1>15. During(page'[n], page'[o], j, skip)
  BY <1>1, <1>11, <1>12, DuringSame
<1>16. Loop(n, skip, end)'
  <2>1. skip \in Vars => Search(page'[n], skip) = Search(page[n], skip)
    BY <1>11
  <2>2. request # NoRequest => request.var \in Vars
    BY CallTypes
  <2> QED
    BY <1>1, <1>8, <1>12, <2>1, <2>2 DEF Loop, Same
<1> QED
  BY <1>8, <1>11, <1>12, <1>14, <1>15, <1>16 DEF CopySeal, Same, t, l, k

LEMMA CopySealStep ==
  ASSUME FlashInv, NEW n \in {0, 1}, NEW j \in 1 .. Num, NEW skip, NEW end,
         CopySeal(n, j, skip, end), Step
  PROVE  Same /\ Keeps /\ CopyNext(n, j + 1, skip, end)'
<1> DEFINE o == Other(n)
           v == VarTab[j]
           d == Search(page[o], v)
           t == Rest(j + 1, skip, end)
           l == Left(j + 1, skip)
           k == MaxResets - resets
<1>1. /\ Loop(n, skip, end) /\ v \in Vars /\ o \in {0, 1}
      /\ During(page[n], page[o], j, skip) /\ k \in Nat /\ l \in Nat /\ t \in Seq(Free)
  <2>1. j + 1 \in 1 .. Num + 1 /\ v \in Vars
    BY Constants
  <2>2. Loop(n, skip, end) /\ During(page[n], page[o], j, skip)
    BY DEF CopySeal
  <2>3. l \in Nat
    BY Lefts
  <2>4. k \in Nat /\ t \in Seq(Free)
    BY <2>1, <2>2, LoopTypes
  <2> QED
    BY <2>1, <2>2, <2>3, <2>4, Others
<1>2. PICK i \in Words : /\ plan = Seal(n, i, v) \o t
                         /\ page[n].word[i].val = d /\ Room(page[n], i, l, k)
  BY DEF CopySeal
<1> DEFINE x == [op |-> "seal", page |-> n, at |-> i, var |-> v]
<1>3. Does(x, t)
  <2>1. x \in Ops
    BY <1>1 DEF Ops
  <2> QED
    BY <1>1, <1>2, <2>1, DoesFirst DEF Seal
<1>4. /\ plan' = t /\ Same
      /\ page' \in [{0, 1} -> PageType] /\ page'[o] = page[o]
      /\ page'[n].status = page[n].status
      /\ \A m \in Words : m # i => page'[n].word[m] = page[n].word[m]
      /\ page[n].word[i].var = FFFF /\ page'[n].word[i].var = v
      /\ Filled(page'[n], i) /\ Search(page'[n], v) = page[n].word[i].val
      /\ \A u \in Vars : u # v => Search(page'[n], u) = Search(page[n], u)
  BY <1>1, <1>3, StepSeal
<1>5. /\ Before(page'[n], page[o], j + 1, skip, k)
      /\ First(page'[n]) = First(page[n]) \/ (First(page'[n]) = v /\ First(page[n]) = FFFF)
  <2> DEFINE pg == page[n]
             qg == page'[n]
             og == page[o]
  <2>1. /\ During(pg, og, j, skip) /\ Room(pg, i, l, k) /\ Filled(qg, i)
        /\ pg.word[i].var = FFFF /\ qg.word[i].var = v
        /\ \A m \in Words : m # i => qg.word[m] = pg.word[m]
        /\ Search(qg, v) = d
        /\ \A u \in Vars : u # v => Search(qg, u) = Search(pg, u)
    BY <1>1, <1>2, <1>4
  <2> HIDE DEF pg, qg
  <2>2. /\ Before(qg, og, j + 1, skip, k)
        /\ First(qg) = First(pg) \/ (First(qg) = v /\ First(pg) = FFFF)
    BY <1>1, <2>1, LoopCopied
  <2> QED
    BY <2>2 DEF pg, qg
<1>6. page[n].status = "RECEIVE" /\ page[o].status = "VALID" /\ v # skip /\ d # Absent /\ v # First(page[n])
  BY <1>1, LoopTypes DEF During
<1>7. Loop(n, skip, end)'
  <2>1. skip \in Vars => /\ First(page[n]) = skip /\ First(page'[n]) = skip
                         /\ Search(page'[n], skip) = Search(page[n], skip)
    BY <1>1, <1>4, <1>5, <1>6, LoopTypes, Constants
  <2>2. request # NoRequest => request.var \in Vars
    BY CallTypes
  <2>3. Receiving(n)'
    BY <1>4, <1>6 DEF Receiving
  <2> QED
    BY <1>1, <1>4, <2>1, <2>2, <2>3 DEF Loop, Same
<1>8. ASSUME NEW u \in Vars PROVE Kept(page', u) = Kept(page, u)
  <2>1. Kept(page, u) = IF Search(page[o], u) = Absent \/ First(page[n]) = u
                          THEN Search(page[n], u) ELSE Search(page[o], u)
    BY <1>1, LoopTypes, KeptCopying
  <2>2. Kept(page', u) = IF \/ page'[o].status # "VALID" \/ Search(page'[o], u) = Absent
                            \/ First(page'[n]) = u
                           THEN Search(page'[n], u) ELSE Search(page'[o], u)
    BY <1>4, <1>6, KeptReceive
  <2> QED
    BY <1>2, <1>4, <1>5, <1>6, <2>1, <2>2, Constants
<1> QED
  BY <1>4, <1>5, <1>7, <1>8 DEF CopyNext, Keeps, Same

\* The loop over, a transfer erases the old page and a repair makes the new one valid.
LEMMA SearchWords == \A pg, qg, v : qg.word = pg.word => Search(qg, v) = Search(pg, v)
BY DEF Search

LEMMA Pieces ==
  /\ \A p \in {0, 1}, t \in Seq(Free) :
       /\ plan = Erase(p) \o t => Does([op |-> "erase", page |-> p], t)
       /\ plan = Clean(p) \o t => Does([op |-> "clean", page |-> p], t)
  /\ \A p \in {0, 1} : /\ plan = Erase(p) => Does([op |-> "erase", page |-> p], << >>)
                       /\ plan = Clean(p) => Does([op |-> "clean", page |-> p], << >>)
  /\ \A p \in {0, 1}, s \in {"RECEIVE", "VALID"}, t \in Seq(Free) :
       plan = Mark(p, s) \o t => Does([op |-> "mark", page |-> p, status |-> s], t)
  /\ \A p \in {0, 1}, s \in {"RECEIVE", "VALID"} :
       plan = Mark(p, s) => Does([op |-> "mark", page |-> p, status |-> s], << >>)
<1>1. /\ \A p \in {0, 1} : [op |-> "erase", page |-> p] \in Ops /\ [op |-> "clean", page |-> p] \in Ops
      /\ \A p \in {0, 1}, s \in {"RECEIVE", "VALID"} : [op |-> "mark", page |-> p, status |-> s] \in Ops
  BY DEF Ops, Free
<1>2. \A p \in {0, 1}, t \in Seq(Free) :
        /\ plan = Erase(p) \o t => Does([op |-> "erase", page |-> p], t)
        /\ plan = Clean(p) \o t => Does([op |-> "clean", page |-> p], t)
  BY <1>1, DoesFirst DEF Erase, Clean
<1>3. \A p \in {0, 1} : /\ plan = Erase(p) => Does([op |-> "erase", page |-> p], << >>)
                        /\ plan = Clean(p) => Does([op |-> "clean", page |-> p], << >>)
  BY <1>1, DoesLast DEF Erase, Clean
<1>4. \A p \in {0, 1}, s \in {"RECEIVE", "VALID"}, t \in Seq(Free) :
        plan = Mark(p, s) \o t => Does([op |-> "mark", page |-> p, status |-> s], t)
  BY <1>1, DoesFirst DEF Mark
<1>5. \A p \in {0, 1}, s \in {"RECEIVE", "VALID"} :
        plan = Mark(p, s) => Does([op |-> "mark", page |-> p, status |-> s], << >>)
  BY <1>1, DoesLast DEF Mark
<1> QED
  BY <1>2, <1>3, <1>4, <1>5

LEMMA EndStep ==
  ASSUME FlashInv, NEW n \in {0, 1}, NEW skip, NEW end, CopyNext(n, Num + 1, skip, end), Step
  PROVE  Same /\ Keeps /\ (Moved(n)' \/ Initialising')
<1> DEFINE o == Other(n)
<1>1. /\ Loop(n, skip, end) /\ Receiving(n) /\ o \in {0, 1} /\ Other(o) = n /\ o # n
      /\ page[n].status = "RECEIVE" /\ page[o].status = "VALID" /\ page \in [{0, 1} -> PageType]
  BY LoopTypes, Others DEF CopyNext
<1>2. plan = end
  <2>1. skip \in Vars \cup {FFFF} /\ end \in Seq(Free) /\ Len(end) = 2
    BY <1>1, LoopTypes
  <2> QED
    BY <2>1, Rests DEF CopyNext
<1>3. ASSUME NEW v \in Vars PROVE Kept(page, v) = Search(page[n], v)
  <2>1. Before(page[n], page[o], Num + 1, skip, MaxResets - resets)
    BY DEF CopyNext
  <2> QED
    BY <1>1, <2>1, LoopEnds, KeptCopying
<1>4. CASE end = TransferEnd(n) /\ request # NoRequest /\ skip = request.var
           /\ Search(page[n], skip) = request.val
  <2>1. Does([op |-> "erase", page |-> o], Mark(n, "VALID"))
    BY <1>1, <1>2, <1>4, Pieces, Lists DEF TransferEnd
  <2>2. /\ plan' = Mark(n, "VALID") /\ Same /\ page' \in [{0, 1} -> PageType]
        /\ page'[o] = Erased /\ page'[n] = page[n]
    BY <1>1, <2>1, StepErase
  <2>3. Moved(n)'
    BY <1>1, <1>4, <2>2 DEF Moved, Answered, Same
  <2>4. Keeps
    BY <1>1, <1>3, <2>2, KeptReceive, ErasedFacts DEF Keeps
  <2> QED
    BY <2>2, <2>3, <2>4
<1>5. CASE end = ResumeEnd /\ n = 1 /\ request = NoRequest
  <2>1. Does([op |-> "mark", page |-> 1, status |-> "VALID"], Clean(0))
    BY <1>1, <1>2, <1>5, Pieces, Lists DEF ResumeEnd
  <2>2. /\ plan' = Clean(0) /\ Same /\ page' \in [{0, 1} -> PageType]
        /\ page'[1].word = page[1].word /\ page'[1].status = "VALID" /\ page'[0] = page[0]
    BY <1>1, <1>5, <2>1, StepMark, Others
  <2>3. Initialising'
    BY <1>1, <1>5, <2>2, Others DEF Initialising, Clean0, Same
  <2>4. page'[Other(1)].status = "VALID"
    BY <1>1, <1>5, <2>2, Others
  <2>5. ASSUME NEW v \in Vars PROVE Kept(page', v) = Search(page'[1], v)
    BY <2>2, <2>4, KeptValid
  <2>6. Keeps
    BY <1>3, <1>5, <2>2, <2>5, SearchWords DEF Keeps
  <2> QED
    BY <2>2, <2>3, <2>6
<1> QED
  BY <1>1, <1>4, <1>5 DEF Loop

LEMMA MovedStep ==
  ASSUME FlashInv, NEW n \in {0, 1}, Moved(n), Step
  PROVE  Same /\ Keeps /\ Ready(n)'
<1> DEFINE o == Other(n)
<1>1. /\ page[o] = Erased /\ page[n].status = "RECEIVE" /\ Answered(n) /\ plan = Mark(n, "VALID")
      /\ o \in {0, 1} /\ page \in [{0, 1} -> PageType] /\ page[o].status = "ERASED"
  BY Others, ErasedFacts DEF Moved, FlashInv
<1>2. Does([op |-> "mark", page |-> n, status |-> "VALID"], << >>)
  BY <1>1, Pieces
<1>3. /\ plan' = << >> /\ Same /\ page' \in [{0, 1} -> PageType]
      /\ page'[n].word = page[n].word /\ page'[n].status = "VALID" /\ page'[o] = page[o]
  BY <1>1, <1>2, StepMark
<1>4. \A v : Search(page'[n], v) = Search(page[n], v)
  BY <1>3, SearchWords
<1>5. Ready(n)'
  BY <1>1, <1>3, <1>4 DEF Ready, Known, Answered, Same
<1>6. ASSUME NEW v \in Vars PROVE Kept(page', v) = Search(page'[n], v) /\ Kept(page, v) = Search(page[n], v)
  BY <1>1, <1>3, KeptValid, KeptReceive
<1> QED
  BY <1>3, <1>4, <1>5, <1>6 DEF Keeps

-----------------------------------------------------------------------------
(* EE_Init. *)

LEMMA Verified ==
  /\ VerifyPageFullyErased(page, 1)
  /\ page[0] = Erased => VerifyPageFullyErased(page, 0)
  /\ Gone0 /\ VerifyPageFullyErased(page, 0) => page[0] = Erased
<1>1. VerifyPageFullyErased(page, 1)
  BY DEF VerifyPageFullyErased
<1>2. page[0] = Erased => VerifyPageFullyErased(page, 0)
  BY ErasedFacts DEF VerifyPageFullyErased
<1>3. Gone0 /\ VerifyPageFullyErased(page, 0) => page[0] = Erased
  BY DEF VerifyPageFullyErased, Gone0, Kept0
<1> QED
  BY <1>1, <1>2, <1>3

LEMMA InitialStep ==
  ASSUME FlashInv, Initialising, Step
  PROVE  Same /\ Keeps /\ (Initialising' \/ \E n \in {0, 1} : Ready(n)' \/ Moved(n)')
<1>1. /\ request = NoRequest /\ page \in [{0, 1} -> PageType] /\ Other(0) = 1 /\ Other(1) = 0
      /\ 0 \in {0, 1} /\ 1 \in {0, 1} /\ Erased.status = "ERASED"
  BY Others, ErasedFacts DEF Initialising, FlashInv
<1>2. page' = page => Keeps
  BY DEF Keeps
<1>3. CASE Format0
  <2>1. plan = Clean(0) \o (Mark(0, "VALID") \o Clean(1)) /\ Mark(0, "VALID") \o Clean(1) \in Seq(Free)
    <3>1. Clean(0) \in Seq(Free) /\ Mark(0, "VALID") \in Seq(Free) /\ Clean(1) \in Seq(Free)
      BY Lists
    <3> QED
      BY <1>3, <3>1, Associative, Concat DEF Format0, Format
  <2>2. Does([op |-> "clean", page |-> 0], Mark(0, "VALID") \o Clean(1))
    BY <2>1, Pieces
  <2>3. VerifyPageFullyErased(page, 0)
    BY <1>3, Verified DEF Format0
  <2>4. plan' = Mark(0, "VALID") \o Clean(1) /\ Same /\ page' = page
    BY <1>1, <2>1, <2>2, <2>3, StepClean
  <2> QED
    BY <1>1, <1>2, <1>3, <2>4 DEF Initialising, Format0, Format1, Same
<1>4. CASE Format1
  <2>1. Does([op |-> "mark", page |-> 0, status |-> "VALID"], Clean(1))
    BY <1>1, <1>4, Lists, Pieces DEF Format1
  <2>2. page[0].status = "ERASED" /\ page[1].status = "ERASED"
    BY <1>1, <1>4 DEF Format1
  <2>3. /\ plan' = Clean(1) /\ Same /\ page' \in [{0, 1} -> PageType]
        /\ page'[0].word = page[0].word /\ page'[0].status = "VALID" /\ page'[1] = page[1]
    BY <1>1, <2>1, <2>2, StepMark
  <2>4. Initialising'
    BY <1>1, <1>4, <2>3 DEF Initialising, Format1, Clean1, Known, Same
  <2>5. ASSUME NEW v \in Vars PROVE Kept(page, v) = Absent /\ Kept(page', v) = Absent
    <3>1. Kept(page, v) = Absent
      BY <2>2, KeptNone
    <3>2. Kept(page', v) = Search(page'[0], v)
      BY <1>1, <2>2, <2>3, KeptValid
    <3>3. Search(page'[0], v) = Search(Erased, v)
      BY <1>4, <2>3, SearchWords DEF Format1
    <3> QED
      BY <3>1, <3>2, <3>3, ErasedFacts
  <2> QED
    BY <2>3, <2>4, <2>5 DEF Keeps
<1>5. CASE Clean1
  <2>1. Does([op |-> "clean", page |-> 1], << >>)
    BY <1>5, Pieces DEF Clean1
  <2>2. << >> \in Seq(Free)
    OBVIOUS
  <2>3. plan' = << >> /\ Same /\ page' = page
    BY <1>1, <2>1, <2>2, StepClean, Verified
  <2>4. Ready(0)'
    BY <1>1, <1>5, <2>3 DEF Ready, Clean1, Known, Answered, Same
  <2> QED
    BY <1>2, <2>3, <2>4
<1>6. CASE CleanMark1
  <2>1. Does([op |-> "clean", page |-> 1], Mark(0, "VALID")) /\ Mark(0, "VALID") \in Seq(Free)
    BY <1>6, Lists, Pieces DEF CleanMark1
  <2>2. plan' = Mark(0, "VALID") /\ Same /\ page' = page
    BY <1>1, <2>1, StepClean, Verified
  <2>3. Moved(0)'
    BY <1>1, <1>6, <2>2 DEF Moved, CleanMark1, Answered, Same
  <2> QED
    BY <1>2, <2>2, <2>3
<1>7. CASE Clean0 /\ plan = Clean(0)
  <2>1. Does([op |-> "clean", page |-> 0], << >>) /\ << >> \in Seq(Free)
    BY <1>7, Pieces
  <2>2. /\ plan' = IF VerifyPageFullyErased(page, 0) THEN << >> ELSE Erase(0) \o << >>
        /\ Same /\ page' = page
    BY <1>1, <2>1, StepClean
  <2>3. CASE VerifyPageFullyErased(page, 0)
    <3>1. page[0].status = "ERASED"
      BY <2>3 DEF VerifyPageFullyErased
    <3>2. page[0] = Erased
      BY <1>7, <2>3, <3>1, Verified DEF Clean0
    <3>3. Ready(1)'
      BY <1>1, <1>7, <2>2, <2>3, <3>2 DEF Ready, Clean0, Known, Answered, Same
    <3> QED
      BY <1>2, <2>2, <3>3
  <2>4. CASE ~VerifyPageFullyErased(page, 0)
    <3>1. Erase(0) \o << >> = Erase(0)
      BY Lists, ConcatEmptySeq
    <3>2. Clean0'
      BY <1>7, <2>2, <2>4, <3>1 DEF Clean0, Gone0, Kept0
    <3> QED
      BY <1>1, <1>2, <2>2, <3>2 DEF Initialising, Same
  <2> QED
    BY <2>3, <2>4
<1>8. CASE Clean0 /\ plan = Erase(0)
  <2>1. Does([op |-> "erase", page |-> 0], << >>)
    BY <1>8, Pieces
  <2>2. /\ plan' = << >> /\ Same /\ page' \in [{0, 1} -> PageType]
        /\ page'[0] = Erased /\ page'[1] = page[1]
    BY <1>1, <2>1, StepErase
  <2>3. /\ page[1].status = "VALID" /\ page[0].status # "RECEIVE" /\ page'[1].status = "VALID"
        /\ page'[0].status # "RECEIVE"
    BY <1>1, <1>8, <2>2 DEF Clean0, Gone0, Kept0
  <2>4. Ready(1)'
    BY <1>1, <2>2, <2>3 DEF Ready, Known, Answered, Same
  <2>5. ASSUME NEW v \in Vars PROVE Kept(page', v) = Search(page'[1], v) /\ Kept(page, v) = Search(page[1], v)
    BY <1>1, <2>2, <2>3, KeptValid
  <2> QED
    BY <2>2, <2>4, <2>5 DEF Keeps
<1>9. CASE CleanMark0 /\ plan = Clean(0) \o Mark(1, "VALID")
  <2>1. Does([op |-> "clean", page |-> 0], Mark(1, "VALID")) /\ Mark(1, "VALID") \in Seq(Free)
    BY <1>9, Lists, Pieces
  <2>2. /\ plan' = IF VerifyPageFullyErased(page, 0) THEN Mark(1, "VALID")
                                                     ELSE Erase(0) \o Mark(1, "VALID")
        /\ Same /\ page' = page
    BY <1>1, <2>1, StepClean
  <2>3. CASE VerifyPageFullyErased(page, 0)
    <3>1. page[0] = Erased
      BY <1>9, <2>3, Verified DEF CleanMark0
    <3>2. Moved(1)'
      BY <1>1, <1>9, <2>2, <2>3, <3>1 DEF Moved, CleanMark0, Answered, Same
    <3> QED
      BY <1>2, <2>2, <3>2
  <2>4. CASE ~VerifyPageFullyErased(page, 0)
    <3>1. CleanMark0'
      BY <1>9, <2>2, <2>4 DEF CleanMark0, Gone0, Kept0
    <3> QED
      BY <1>1, <1>2, <2>2, <3>1 DEF Initialising, Same
  <2> QED
    BY <2>3, <2>4
<1>10. CASE CleanMark0 /\ plan = Erase(0) \o Mark(1, "VALID")
  <2>1. Does([op |-> "erase", page |-> 0], Mark(1, "VALID"))
    BY <1>10, Lists, Pieces
  <2>2. /\ plan' = Mark(1, "VALID") /\ Same /\ page' \in [{0, 1} -> PageType]
        /\ page'[0] = Erased /\ page'[1] = page[1]
    BY <1>1, <2>1, StepErase
  <2>3. /\ page[1].status = "RECEIVE" /\ page[0].status = "ERASED" /\ page'[1].status = "RECEIVE"
        /\ page'[0].status = "ERASED"
    BY <1>1, <1>10, <2>2 DEF CleanMark0, Gone0, Kept0
  <2>4. Moved(1)'
    BY <1>1, <2>2, <2>3 DEF Moved, Answered, Same
  <2>5. ASSUME NEW v \in Vars PROVE Kept(page', v) = Search(page'[1], v) /\ Kept(page, v) = Search(page[1], v)
    BY <1>1, <2>2, <2>3, KeptReceive
  <2> QED
    BY <2>2, <2>4, <2>5 DEF Keeps
<1> QED
  BY <1>3, <1>4, <1>5, <1>6, <1>7, <1>8, <1>9, <1>10 DEF Initialising, Clean0, CleanMark0

LEMMA BootStep ==
  ASSUME FlashInv, ~booted, Off, Boot
  PROVE  On' /\ page' = page
<1> DEFINE a == page[0].status
           b == page[1].status
<1>1. /\ plan' = InitPlan(page) /\ page' = page /\ request' = NoRequest /\ request = NoRequest
      /\ resets' = resets /\ page \in [{0, 1} -> PageType]
  BY DEF Boot, FlashInv
<1>2. Other(0) = 1 /\ Other(1) = 0 /\ Erased.status = "ERASED" /\ 0 \in {0, 1} /\ 1 \in {0, 1}
  BY Others, ErasedFacts
<1>3. CASE page[0] = Erased /\ page[1] = Erased
  <2>1. a = "ERASED" /\ b = "ERASED"
    BY <1>2, <1>3
  <2>2. InitPlan(page) = Format
    BY <2>1 DEF InitPlan
  <2> QED
    BY <1>1, <1>3, <2>2 DEF On, Initialising, Format0
<1>4. CASE Known(0)
  <2>1. a = "VALID" /\ b = "ERASED"
    BY <1>2, <1>4 DEF Known
  <2>2. InitPlan(page) = Clean(1)
    BY <2>1 DEF InitPlan
  <2> QED
    BY <1>1, <1>4, <2>2 DEF On, Initialising, Clean1, Known
<1>5. CASE b = "VALID" /\ Gone0
  <2>1. a = "ERASED"
    BY <1>2, <1>5 DEF Gone0, Kept0
  <2>2. InitPlan(page) = Clean(0)
    BY <1>5, <2>1 DEF InitPlan
  <2> QED
    BY <1>1, <1>5, <2>2 DEF On, Initialising, Clean0, Gone0, Kept0
<1>6. CASE b = "RECEIVE" /\ Gone0
  <2>1. a = "ERASED"
    BY <1>2, <1>6 DEF Gone0, Kept0
  <2>2. InitPlan(page) = Clean(0) \o Mark(1, "VALID")
    BY <1>6, <2>1 DEF InitPlan
  <2> QED
    BY <1>1, <1>6, <2>2 DEF On, Initialising, CleanMark0, Gone0, Kept0
<1>7. CASE a = "RECEIVE" /\ page[1] = Erased
  <2>1. b = "ERASED"
    BY <1>2, <1>7
  <2>2. InitPlan(page) = Clean(1) \o Mark(0, "VALID")
    BY <1>7, <2>1 DEF InitPlan
  <2> QED
    BY <1>1, <1>7, <2>2 DEF On, Initialising, CleanMark1
<1>8. CASE CutShort
  <2> DEFINE skip == First(page[1])
             k == MaxResets - resets
  <2>1. a = "VALID" /\ b = "RECEIVE" /\ Restartable(page[1], page[0], k)
    BY <1>2, <1>8 DEF CutShort, Receiving
  <2>2. InitPlan(page) = Rest(1, skip, ResumeEnd)
    BY <1>1, <2>1, Plans DEF InitPlan
  <2>3. skip \in Vars \cup {FFFF}
    BY <1>1, <1>2, PageFacts, Constants DEF First
  <2>4. Loop(1, skip, ResumeEnd)'
    BY <1>1, <1>2, <2>1, <2>3 DEF Loop, Receiving
  <2>5. Before(page[1], page[0], 1, skip, k)
    <3>1. Skips(page[1], 1, skip)
      BY DEF Skips
    <3>2. Done(page[1], page[0], 1)
      BY DEF Done
    <3>3. Left(1, skip) = Cost(page[1])
      BY <2>3, LeftFirst
    <3> QED
      BY <2>1, <3>1, <3>2, <3>3 DEF Before, Restartable
  <2>6. CopyNext(1, 1, skip, ResumeEnd)'
    BY <1>1, <1>2, <2>2, <2>4, <2>5 DEF CopyNext
  <2>7. 1 \in 1 .. Num + 1
    BY Constants
  <2>8. Copying'
    BY <2>3, <2>6, <2>7, <1>1 DEF Copying
  <2> QED
    BY <1>1, <2>8 DEF On
<1> QED
  BY <1>3, <1>4, <1>5, <1>6, <1>7, <1>8 DEF Off

-----------------------------------------------------------------------------
(* A loss of power that EE_Init recovers from. *)

LEMMA Untouched ==
  ASSUME FlashInv, PowerLoss, ~Doing("erase")
  PROVE  page' = page /\ Keeps
BY DEF PowerLoss, Keeps

LEMMA NotErasing ==
  /\ \A x, t : Does(x, t) /\ x.op # "erase" => ~Doing("erase")
  /\ plan = << >> => ~Doing("erase")
BY DEF Does, Doing

LEMMA NotErased ==
  /\ \A p \in {0, 1}, t \in Seq(Free) : plan = Clean(p) \o t => ~Doing("erase")
  /\ \A p \in {0, 1} : plan = Clean(p) => ~Doing("erase")
  /\ \A p \in {0, 1}, s \in {"RECEIVE", "VALID"}, t \in Seq(Free) :
       plan = Mark(p, s) \o t => ~Doing("erase")
  /\ \A p \in {0, 1}, s \in {"RECEIVE", "VALID"} : plan = Mark(p, s) => ~Doing("erase")
<1>1. ASSUME NEW p \in {0, 1}, NEW t \in Seq(Free), plan = Clean(p) \o t
      PROVE  ~Doing("erase")
  <2>1. Does([op |-> "clean", page |-> p], t)
    BY <1>1, Pieces
  <2> QED
    BY <2>1 DEF Does, Doing
<1>2. \A p \in {0, 1} : plan = Clean(p) => ~Doing("erase")
  BY Pieces DEF Does, Doing
<1>3. ASSUME NEW p \in {0, 1}, NEW s \in {"RECEIVE", "VALID"}, NEW t \in Seq(Free),
             plan = Mark(p, s) \o t
      PROVE  ~Doing("erase")
  <2>1. Does([op |-> "mark", page |-> p, status |-> s], t)
    BY <1>3, Pieces
  <2> QED
    BY <2>1 DEF Does, Doing
<1>4. \A p \in {0, 1}, s \in {"RECEIVE", "VALID"} : plan = Mark(p, s) => ~Doing("erase")
  BY Pieces DEF Does, Doing
<1> QED
  BY <1>1, <1>2, <1>3, <1>4

LEMMA LossTimes ==
  ASSUME FlashInv, PowerLoss
  PROVE  /\ MaxResets - resets \in Nat /\ MaxResets - resets >= 1 /\ MaxResets - resets =< MaxResets
         /\ MaxResets - resets' = (MaxResets - resets) - 1
<1>1. resets \in 0 .. MaxResets /\ resets' = resets + 1 /\ resets' \in 1 .. MaxResets /\ MaxResets \in Nat
  BY LossFacts, Constants DEF FlashInv
<1> QED
  BY <1>1

\* An erase that was cut short leaves the page erased, or so that EE_Init finds out.
LEMMA GoneAgain ==
  ASSUME Recoverable(page')
  PROVE  /\ page'[0].status = "ERASED" => Gone0'
         /\ page'[1].status = "ERASED" => page'[1] = Erased
BY DEF Recoverable, VerifyPageFullyErased, Gone0, Kept0

LEMMA LossKnown ==
  ASSUME FlashInv, PowerLoss, NEW n \in {0, 1}, Known(n), ~Doing("erase")
  PROVE  Off' /\ Keeps
<1>1. page' = page /\ Keeps
  BY Untouched
<1>2. page'[n].status = "VALID" /\ page'[Other(n)] = Erased
  BY <1>1 DEF Known
<1>3. n = 0 => Known(0)'
  BY <1>2 DEF Known
<1>4. n = 1 => page'[1].status \in {"VALID", "RECEIVE"} /\ Gone0'
  BY <1>2, Others DEF Gone0
<1> QED
  BY <1>1, <1>3, <1>4 DEF Off

LEMMA LossReceiving ==
  ASSUME FlashInv, PowerLoss, intact', NEW n \in {0, 1}, Receiving(n), ~Doing("erase"),
         Restartable(page[n], page[Other(n)], (MaxResets - resets) - 1)
  PROVE  Off' /\ Keeps
<1>1. page' = page /\ Keeps
  BY Untouched
<1>2. Recoverable(page)
  BY <1>1, LossFacts
<1>3. n = 1
  BY <1>2, Others DEF Recoverable, Receiving
<1>4. Restartable(page'[1], page'[0], MaxResets - resets')
  BY <1>1, <1>3, LossTimes, Others
<1>5. CutShort'
  BY <1>1, <1>3, <1>4 DEF CutShort, Receiving
<1> QED
  BY <1>1, <1>5 DEF Off

LEMMA LossMoving ==
  ASSUME FlashInv, PowerLoss, intact', NEW n \in {0, 1}, MovePut(n) \/ MoveSeal(n)
  PROVE  Off' /\ Keeps
<1> DEFINE v == request.var
           d == request.val
           pg == page[n]
           t == MaxResets - resets
<1>1. /\ request # NoRequest /\ Receiving(n) /\ pg \in PageType /\ Sound(pg)
      /\ \A i \in Words : pg.word[i].var = FFFF /\ (i # 1 => pg.word[i] = Blank)
  <2>1. /\ request # NoRequest /\ Receiving(n)
        /\ pg.word = Erased.word
             \/ \A i \in Words : pg.word[i].var = FFFF /\ (i # 1 => pg.word[i] = Blank)
    BY DEF MovePut, MoveSeal
  <2>2. pg.word = Erased.word =>
          \A i \in Words : pg.word[i].var = FFFF /\ (i # 1 => pg.word[i] = Blank)
    BY ErasedFacts
  <2> QED
    BY <2>1, <2>2 DEF FlashInv
<1>2. ~Doing("erase")
  <2>1. v \in Vars /\ d \in Vals /\ Copied(n) \in Seq(Free) /\ 1 \in Words
    BY <1>1, CallTypes, Constants
  <2>2. [op |-> "put", var |-> v, val |-> d] \in Ops /\ [op |-> "seal", page |-> n, at |-> 1, var |-> v] \in Ops
    BY <2>1 DEF Ops, Free
  <2>3. MovePut(n) => Does([op |-> "put", var |-> v, val |-> d], Copied(n))
    BY <2>1, <2>2, DoesFirst DEF MovePut, Put
  <2>4. MoveSeal(n) => Does([op |-> "seal", page |-> n, at |-> 1, var |-> v], Copied(n))
    BY <2>1, <2>2, DoesFirst DEF MoveSeal, Seal
  <2>5. "put" # "erase" /\ "seal" # "erase"
    OBVIOUS
  <2> QED
    BY <2>3, <2>4, <2>5, NotErasing
<1>3. Partial(pg, page[Other(n)])
  <2>1. \A u \in Vars : Search(pg, u) = Absent
    BY <1>1, SearchData, Constants
  <2> QED
    BY <2>1 DEF Partial
<1>4. PICK k \in 0 .. PageSize : Filled(pg, k)
  BY <1>1 DEF Sound
<1>5. k =< 1 /\ k \in Nat
  <2>1. SUFFICES ASSUME k >= 2 PROVE FALSE
    BY Constants
  <2>2. k \in Words /\ k # 1 /\ ~(k > k)
    BY <2>1, Constants DEF Words
  <2> QED
    BY <1>1, <1>4, <2>2 DEF Filled
<1>6. Cost(pg) = Num
  <2>1. First(pg) = FFFF
    BY <1>1, Constants DEF First
  <2> QED
    BY <2>1, Constants, Costs
<1>7. t \in Nat /\ t >= 1 /\ t =< MaxResets /\ t - 1 \in Nat
  BY LossTimes
<1>8. Room(pg, k, Cost(pg), t - 1)
  <2> HIDE DEF t, pg
  <2>1. /\ t * Num =< MaxResets * Num /\ (t - 1) * Num + Num = t * Num
        /\ t * Num \in Nat /\ MaxResets * Num \in Nat /\ (t - 1) * Num \in Nat
    BY <1>7, Products, Constants
  <2>2. MaxResets * Num = Num * MaxResets
    BY Constants
  <2> DEFINE a == (t - 1) * Num
             b == t * Num
             c == MaxResets * Num
  <2>3. /\ b =< c /\ a + Num = b /\ a \in Nat /\ b \in Nat /\ c \in Nat /\ 1 + c =< PageSize
        /\ Num \in Nat /\ PageSize \in Nat
    BY <2>1, <2>2, Constants
  <2> HIDE DEF a, b, c
  <2>4. k + Num + a =< PageSize
    BY <1>5, <2>3
  <2> QED
    BY <1>6, <2>4 DEF Room, a
<1>9. Restartable(pg, page[Other(n)], t - 1)
  BY <1>3, <1>4, <1>8 DEF Restartable
<1> QED
  BY <1>1, <1>2, <1>9, LossReceiving

\* Behind the word that is being written there is nothing.
LEMMA BehindFilled ==
  ASSUME NEW pg, Sound(pg), NEW i \in Words, Behind(pg, i)
  PROVE  \E k \in 0 .. PageSize : Filled(pg, k) /\ k =< i
<1>1. PICK k \in 0 .. PageSize : Filled(pg, k)
  BY DEF Sound
<1>2. k =< i
  <2>1. SUFFICES ASSUME k > i PROVE FALSE
    BY Constants DEF Words
  <2>2. k \in Words /\ ~(k > k)
    BY <2>1, Constants DEF Words
  <2> QED
    BY <1>1, <2>1, <2>2 DEF Filled, Behind
<1> QED
  BY <1>1, <1>2

LEMMA LossCopying ==
  ASSUME FlashInv, PowerLoss, intact', NEW n \in {0, 1}, NEW skip, NEW end, NEW j \in 1 .. Num,
         CopyNext(n, j, skip, end) \/ CopyPut(n, j, skip, end) \/ CopySeal(n, j, skip, end)
  PROVE  Off' /\ Keeps
<1> DEFINE o == Other(n)
           v == VarTab[j]
           d == Search(page[o], v)
           r == Rest(j + 1, skip, end)
           l == Left(j + 1, skip)
           t == MaxResets - resets
           pg == page[n]
           og == page[o]
<1>1. /\ Receiving(n) /\ v \in Vars /\ r \in Seq(Free) /\ skip \in Vars \cup {FFFF}
      /\ Sound(pg) /\ og \in PageType /\ Sound(og) /\ l \in Nat
      /\ end \in Seq(Free) /\ Len(end) = 2 /\ j \in 1 .. Num + 1
  <2>1. Loop(n, skip, end)
    BY DEF CopyNext, CopyPut, CopySeal
  <2>2. j \in 1 .. Num + 1 /\ j + 1 \in 1 .. Num + 1 /\ v \in Vars
    BY Constants
  <2>3. /\ Receiving(n) /\ r \in Seq(Free) /\ skip \in Vars \cup {FFFF}
        /\ Sound(pg) /\ Sound(og) /\ end \in Seq(Free) /\ Len(end) = 2
    BY <2>1, <2>2, LoopTypes
  <2>4. og \in PageType
    BY Others DEF FlashInv
  <2> QED
    BY <2>2, <2>3, <2>4, Lefts
<1>2. t \in Nat /\ t >= 1
  BY LossTimes
<1>3. CASE CopyNext(n, j, skip, end)
  <2>1. Restartable(pg, og, t - 1)
    <3> HIDE DEF t, pg, og
    <3>1. Before(pg, og, j, skip, t)
      BY <1>3 DEF CopyNext, t, pg, og
    <3> QED
      BY <1>1, <1>2, <3>1, LoopCut
  <2>2. plan = Rest(j, skip, end) /\ plan # << >> /\ Head(plan).op = "copy"
    <3> DEFINE q == Rest(j, skip, end)
    <3>1. q # << >> /\ Head(q) = [op |-> "copy", var |-> v, skip |-> skip]
      BY <1>1, Rests
    <3>2. plan = q
      BY <1>3 DEF CopyNext
    <3> HIDE DEF q
    <3>3. plan # << >> /\ Head(plan).op = "copy"
      BY <3>1, <3>2
    <3> QED
      BY <3>2, <3>3 DEF q
  <2>3. ~Doing("erase")
    BY <2>2 DEF Doing
  <2> QED
    BY <1>1, <2>1, <2>3, LossReceiving
<1>4. CASE CopyPut(n, j, skip, end)
  <2>1. PICK k \in 0 .. PageSize : Filled(pg, k) /\ Room(pg, k + 1, l, t)
    BY <1>4 DEF CopyPut
  <2>2. plan = Put(v, d) \o r /\ During(pg, og, j, skip)
    BY <1>4 DEF CopyPut
  <2>3. d \in Vals \cup {FFFF}
    BY <1>1, <2>2, SearchData DEF During
  <2>4. ~Doing("erase")
    <3>1. [op |-> "put", var |-> v, val |-> d] \in Ops
      BY <1>1, <2>3 DEF Ops, Free
    <3>2. Does([op |-> "put", var |-> v, val |-> d], r)
      BY <1>1, <2>2, <3>1, DoesFirst DEF Put
    <3> QED
      BY <3>2, NotErasing
  <2>5. Restartable(pg, og, t - 1)
    <3>1. Partial(pg, og)
      BY <2>2 DEF During
    <3> HIDE DEF t, l, pg, og
    <3>2. k + 1 \in Nat /\ k \in Nat /\ k =< (k + 1) + l
      BY <1>1, Constants
    <3>3. Room(pg, k, Cost(pg), t - 1)
      BY <1>1, <1>2, <2>1, <3>2, RoomCut
    <3> QED
      BY <2>1, <3>1, <3>3 DEF Restartable
  <2> QED
    BY <1>1, <2>4, <2>5, LossReceiving
<1>5. CASE CopySeal(n, j, skip, end)
  <2>1. PICK i \in Words : plan = Seal(n, i, v) \o r /\ Room(pg, i, l, t)
    BY <1>5 DEF CopySeal
  <2>2. Does([op |-> "seal", page |-> n, at |-> i, var |-> v], r)
    <3>1. [op |-> "seal", page |-> n, at |-> i, var |-> v] \in Ops
      BY <1>1 DEF Ops
    <3> QED
      BY <1>1, <2>1, <3>1, DoesFirst DEF Seal
  <2>3. ~Doing("erase")
    BY <2>2, NotErasing
  <2>4. Behind(pg, i)
    BY <2>2 DEF FlashInv, Doing, Does
  <2>5. PICK k \in 0 .. PageSize : Filled(pg, k) /\ k =< i
    BY <1>1, <2>4, BehindFilled
  <2>6. Restartable(pg, og, t - 1)
    <3>1. Partial(pg, og)
      BY <1>5 DEF CopySeal, During
    <3>2. i \in Nat /\ k \in Nat
      BY Constants DEF Words
    <3> HIDE DEF t, l, pg, og
    <3>3. k =< i + l
      BY <1>1, <2>5, <3>2
    <3>4. Room(pg, k, Cost(pg), t - 1)
      BY <1>1, <1>2, <2>1, <3>2, <3>3, RoomCut
    <3> QED
      BY <2>5, <3>1, <3>4 DEF Restartable
  <2> QED
    BY <1>1, <2>3, <2>6, LossReceiving
<1> QED
  BY <1>3, <1>4, <1>5

LEMMA LossEnd ==
  ASSUME FlashInv, PowerLoss, intact', NEW n \in {0, 1}, NEW skip, NEW end,
         CopyNext(n, Num + 1, skip, end)
  PROVE  Off' /\ Keeps
<1> DEFINE o == Other(n)
           t == MaxResets - resets
<1>1. /\ Loop(n, skip, end) /\ Receiving(n) /\ o \in {0, 1} /\ Other(o) = n /\ o # n
      /\ page[n].status = "RECEIVE" /\ page[o].status = "VALID" /\ page \in [{0, 1} -> PageType]
  BY LoopTypes, Others DEF CopyNext
<1>2. plan = end
  <2>1. skip \in Vars \cup {FFFF} /\ end \in Seq(Free) /\ Len(end) = 2
    BY <1>1, LoopTypes
  <2> QED
    BY <2>1, Rests DEF CopyNext
<1>3. Before(page[n], page[o], Num + 1, skip, t)
  BY DEF CopyNext
<1>4. Restartable(page[n], page[o], t - 1)
  <2>1. t \in Nat /\ t >= 1 /\ Num + 1 \in 1 .. Num + 1
    BY LossTimes, Constants
  <2> HIDE DEF t
  <2> QED
    BY <1>3, <2>1, LoopCut
<1>5. ASSUME NEW v \in Vars PROVE Kept(page, v) = Search(page[n], v)
  BY <1>1, <1>3, LoopEnds, KeptCopying
<1>6. CASE end = ResumeEnd
  <2>1. ~Doing("erase")
    BY <1>2, <1>6, Lists, NotErased DEF ResumeEnd
  <2> QED
    BY <1>1, <1>4, <2>1, LossReceiving
<1>7. CASE end = TransferEnd(n)
  <2>1. Does([op |-> "erase", page |-> o], Mark(n, "VALID"))
    BY <1>1, <1>2, <1>7, Pieces, Lists DEF TransferEnd
  <2>2. /\ page' \in [{0, 1} -> PageType] /\ page'[n] = page[n] /\ Recoverable(page')
        /\ \/ page'[o].word = page[o].word /\ page'[o].status \in {page[o].status, "ERASED"}
           \/ page'[o].word = Erased.word /\ page'[o].status = page[o].status
    <3>1. Head(plan).page = o
      BY <2>1 DEF Does
    <3> QED
      BY <1>1, <3>1, LossFacts
  <2>3. CASE page'[o].status = "ERASED"
    <3>1. n = 0 => page'[1] = Erased
      BY <2>2, <2>3, GoneAgain, Others
    <3>2. n = 1 => Gone0'
      BY <2>2, <2>3, GoneAgain, Others
    <3>3. Off'
      BY <1>1, <2>2, <3>1, <3>2 DEF Off
    <3>4. \A v : Kept(page', v) = Search(page'[n], v)
      BY <1>1, <2>2, <2>3, KeptReceive
    <3> QED
      BY <1>5, <2>2, <3>3, <3>4 DEF Keeps
  <2>4. CASE page'[o].status = "VALID"
    <3>1. n = 1 /\ o = 0
      BY <1>1, <2>2, <2>4, Others DEF Recoverable
    <3>2. page'[0] = page[0] \/ Emptied(page'[0])
      <4>1. page'[0].word = page[0].word => page'[0] = page[0]
        BY <1>1, <2>2, <2>4, <3>1, PageFacts
      <4>2. page'[0].word = Erased.word => Emptied(page'[0])
        BY SearchWords, ErasedFacts DEF Emptied
      <4> QED
        BY <2>2, <3>1, <4>1, <4>2
    <3>3. Restartable(page'[1], page'[0], MaxResets - resets')
      <4>1. MaxResets - resets' = t - 1 /\ page'[1] = page[1]
        BY <2>2, <3>1, LossTimes
      <4>2. Restartable(page[1], page[0], t - 1)
        BY <1>4, <3>1
      <4> HIDE DEF t
      <4> QED
        BY <3>2, <4>1, <4>2 DEF Restartable
    <3>4. Off'
      BY <1>1, <2>2, <2>4, <3>1, <3>3, Others DEF Off, CutShort, Receiving
    <3>5. ASSUME NEW v \in Vars PROVE Kept(page', v) = Kept(page, v)
      <4>1. Kept(page', v) = IF Search(page'[0], v) = Absent \/ First(page'[1]) = v
                               THEN Search(page'[1], v) ELSE Search(page'[0], v)
        BY <1>1, <2>2, <2>4, <3>1, KeptReceive
      <4>2. Kept(page, v) = IF Search(page[0], v) = Absent \/ First(page[1]) = v
                              THEN Search(page[1], v) ELSE Search(page[0], v)
        BY <1>1, <3>1, KeptCopying
      <4>3. Kept(page, v) = Search(page[1], v) /\ page'[1] = page[1]
        BY <1>5, <2>2, <3>1
      <4>4. page'[0] = page[0] \/ Search(page'[0], v) = Absent
        BY <3>2 DEF Emptied
      <4> QED
        BY <4>1, <4>2, <4>3, <4>4
    <3> QED
      BY <3>4, <3>5 DEF Keeps
  <2> QED
    BY <1>1, <2>2, <2>3, <2>4
<1> QED
  BY <1>1, <1>6, <1>7 DEF Loop

LEMMA LossInitial ==
  ASSUME FlashInv, PowerLoss, intact', Initialising
  PROVE  Off' /\ Keeps
<1>1. /\ request = NoRequest /\ page \in [{0, 1} -> PageType] /\ Other(0) = 1 /\ Other(1) = 0
      /\ 0 \in {0, 1} /\ 1 \in {0, 1} /\ Erased.status = "ERASED"
  BY Others, ErasedFacts DEF Initialising, FlashInv
<1>2. Recoverable(page') /\ page' \in [{0, 1} -> PageType]
  BY LossFacts
<1>3. CASE Format0 \/ Format1 \/ Clean1 \/ CleanMark1
  <2>1. ~Doing("erase")
    <3>1. CASE Format0
      <4>1. Clean(0) \in Seq(Free) /\ Mark(0, "VALID") \in Seq(Free) /\ Clean(1) \in Seq(Free)
        BY Lists
      <4>2. Mark(0, "VALID") \o Clean(1) \in Seq(Free)
        BY <4>1, Concat
      <4>3. plan = Clean(0) \o (Mark(0, "VALID") \o Clean(1))
        BY <3>1, <4>1, Associative DEF Format0, Format
      <4> QED
        BY <4>2, <4>3, NotErased
    <3>2. CASE Format1
      BY <3>2, Lists, NotErased DEF Format1
    <3>3. CASE Clean1
      BY <3>3, NotErased DEF Clean1
    <3>4. CASE CleanMark1
      BY <3>4, Lists, NotErased DEF CleanMark1
    <3> QED
      BY <1>3, <3>1, <3>2, <3>3, <3>4
  <2>2. page' = page /\ Keeps
    BY <2>1, Untouched
  <2>3. Off'
    BY <1>1, <1>3, <2>2 DEF Off, Format0, Format1, Clean1, CleanMark1, Known
  <2> QED
    BY <2>2, <2>3
<1>4. CASE Clean0 /\ plan = Clean(0)
  <2>1. ~Doing("erase")
    BY <1>4, NotErased
  <2>2. page' = page /\ Keeps
    BY <2>1, Untouched
  <2>3. page[1].status = "VALID" /\ Gone0
    BY <1>2, <1>4, <2>2 DEF Clean0, Recoverable
  <2>4. Off'
    BY <2>2, <2>3 DEF Off, Gone0, Kept0
  <2> QED
    BY <2>2, <2>4
<1>5. CASE Clean0 /\ plan = Erase(0)
  <2>1. Does([op |-> "erase", page |-> 0], << >>)
    BY <1>5, Pieces
  <2>2. page'[1] = page[1] /\ page'[0].status \in {page[0].status, "ERASED"}
    <3>1. Head(plan).page = 0
      BY <2>1 DEF Does
    <3> QED
      BY <1>1, <3>1, LossFacts
  <2>3. page[1].status = "VALID" /\ page[0].status \in {"VALID", "ERASED"} /\ page'[0].status = "ERASED"
    BY <1>1, <1>2, <1>5, <2>2 DEF Clean0, Gone0, Kept0, Recoverable
  <2>4. Off'
    BY <1>2, <2>2, <2>3, GoneAgain DEF Off
  <2>5. page'[1].status = "VALID" /\ page'[0].status # "RECEIVE" /\ page[0].status # "RECEIVE"
    BY <2>2, <2>3
  <2>6. ASSUME NEW v \in Vars PROVE Kept(page', v) = Search(page'[1], v) /\ Kept(page, v) = Search(page[1], v)
    BY <1>1, <1>2, <2>3, <2>5, KeptValid
  <2> QED
    BY <2>2, <2>4, <2>6 DEF Keeps
<1>6. CASE CleanMark0 /\ plan = Clean(0) \o Mark(1, "VALID")
  <2>1. ~Doing("erase")
    BY <1>6, Lists, NotErased
  <2>2. page' = page /\ Keeps
    BY <2>1, Untouched
  <2>3. page[1].status = "RECEIVE" /\ Gone0
    BY <1>6 DEF CleanMark0
  <2>4. Off'
    BY <2>2, <2>3 DEF Off, Gone0, Kept0
  <2> QED
    BY <2>2, <2>4
<1>7. CASE CleanMark0 /\ plan = Erase(0) \o Mark(1, "VALID")
  <2>1. Does([op |-> "erase", page |-> 0], Mark(1, "VALID"))
    BY <1>7, Lists, Pieces
  <2>2. page'[1] = page[1] /\ page'[0].status \in {page[0].status, "ERASED"}
    <3>1. Head(plan).page = 0
      BY <2>1 DEF Does
    <3> QED
      BY <1>1, <3>1, LossFacts
  <2>3. page[1].status = "RECEIVE" /\ page[0].status = "ERASED" /\ page'[0].status = "ERASED"
    BY <1>1, <1>7, <2>2 DEF CleanMark0, Gone0, Kept0
  <2>4. Off'
    BY <1>2, <2>2, <2>3, GoneAgain DEF Off
  <2>5. page'[1].status = "RECEIVE"
    BY <2>2, <2>3
  <2>6. ASSUME NEW v \in Vars PROVE Kept(page', v) = Search(page'[1], v) /\ Kept(page, v) = Search(page[1], v)
    BY <1>1, <1>2, <2>3, <2>5, KeptReceive
  <2> QED
    BY <2>2, <2>4, <2>6 DEF Keeps
<1> QED
  BY <1>3, <1>4, <1>5, <1>6, <1>7 DEF Initialising, Clean0, CleanMark0

LEMMA LossMoved ==
  ASSUME FlashInv, PowerLoss, intact', NEW n \in {0, 1}, Moved(n)
  PROVE  Off' /\ Keeps
<1>1. /\ page[Other(n)] = Erased /\ page[n].status = "RECEIVE" /\ plan = Mark(n, "VALID")
  BY DEF Moved
<1>2. ~Doing("erase")
  BY <1>1, NotErased
<1>3. page' = page /\ Keeps
  BY <1>2, Untouched
<1>4. Off'
  BY <1>1, <1>3, Others DEF Off, Gone0
<1> QED
  BY <1>3, <1>4

LEMMA LossCall ==
  ASSUME FlashInv, PowerLoss, NEW n \in {0, 1},
         Ready(n) \/ Storing(n) \/ Sealing(n) \/ MoveMark(Other(n))
  PROVE  Off' /\ Keeps
<1> DEFINE v == request.var
           d == request.val
<1>1. Known(n)
  BY Others DEF Ready, Storing, Sealing, MoveMark
<1>2. CASE Ready(n)
  BY <1>1, <1>2, LossKnown, NotErasing DEF Ready
<1>3. CASE Storing(n)
  <2>1. v \in Vars /\ d \in Vals
    BY <1>3, CallTypes DEF Storing
  <2>2. [op |-> "store", var |-> v, val |-> d] \in Ops
    BY <2>1 DEF Ops, Free
  <2>3. Does([op |-> "store", var |-> v, val |-> d], << >>)
    BY <1>3, <2>2, DoesLast DEF Storing, Store
  <2> QED
    BY <1>1, <2>3, LossKnown, NotErasing
<1>4. CASE Sealing(n)
  <2>1. PICK i \in Words : plan = Seal(n, i, v)
    BY <1>4 DEF Sealing
  <2>2. [op |-> "seal", page |-> n, at |-> i, var |-> v] \in Ops
    BY <1>4, CallTypes DEF Ops, Sealing
  <2>3. Does([op |-> "seal", page |-> n, at |-> i, var |-> v], << >>)
    BY <2>1, <2>2, DoesLast DEF Seal
  <2> QED
    BY <1>1, <2>3, LossKnown, NotErasing
<1>5. CASE MoveMark(Other(n))
  <2> DEFINE o == Other(n)
             t == Put(v, d) \o Copied(o)
  <2>1. plan = Mark(o, "RECEIVE") \o t /\ o \in {0, 1} /\ t \in Seq(Free)
    BY <1>5, CallTypes, Others DEF MoveMark
  <2>2. ~Doing("erase")
    BY <2>1, NotErased
  <2> QED
    BY <1>1, <2>2, LossKnown
<1> QED
  BY <1>2, <1>3, <1>4, <1>5

LEMMA LossStep ==
  ASSUME FlashInv, On, PowerLoss, intact'
  PROVE  Off' /\ Keeps
<1>1. CASE Copying
  <2>1. PICK n \in {0, 1}, skip \in Vars \cup {FFFF} : \E end \in {TransferEnd(n), ResumeEnd} :
          \/ \E j \in 1 .. Num + 1 : CopyNext(n, j, skip, end)
          \/ \E j \in 1 .. Num : CopyPut(n, j, skip, end) \/ CopySeal(n, j, skip, end)
    BY <1>1 DEF Copying
  <2>2. PICK end : \/ \E j \in 1 .. Num + 1 : CopyNext(n, j, skip, end)
                   \/ \E j \in 1 .. Num : CopyPut(n, j, skip, end) \/ CopySeal(n, j, skip, end)
    BY <2>1
  <2>3. ASSUME NEW j \in 1 .. Num + 1 PROVE j \in 1 .. Num \/ j = Num + 1
    BY Constants
  <2>4. CASE \E j \in 1 .. Num : CopyNext(n, j, skip, end) \/ CopyPut(n, j, skip, end)
                                   \/ CopySeal(n, j, skip, end)
    BY <2>4, LossCopying
  <2>5. CASE CopyNext(n, Num + 1, skip, end)
    BY <2>5, LossEnd
  <2> QED
    BY <2>2, <2>3, <2>4, <2>5
<1>2. CASE \E n \in {0, 1} : Ready(n) \/ Storing(n) \/ Sealing(n) \/ MoveMark(n)
  BY <1>2, LossCall, Others
<1>3. CASE \E n \in {0, 1} : MovePut(n) \/ MoveSeal(n)
  BY <1>3, LossMoving
<1>4. CASE Initialising \/ \E n \in {0, 1} : Moved(n)
  BY <1>4, LossInitial, LossMoved
<1> QED
  BY <1>1, <1>2, <1>3, <1>4 DEF On

-----------------------------------------------------------------------------
(* The invariant. *)

LEMMA NonEmpty ==
  ASSUME NEW x, NEW s \in Seq(Free)
  PROVE  <<x>> \o s # << >> /\ <<x>> # << >>
<1>1. x \in Free \cup {x} /\ s \in Seq(Free \cup {x})
  OBVIOUS
<1> QED
  BY <1>1, Cons, Single

\* Only between two calls there is nothing to do.
LEMMA Idling ==
  ASSUME FlashInv, On, plan = << >>
  PROVE  \E n \in {0, 1} : Ready(n)
<1>1. ~Copying
  <2> SUFFICES ASSUME Copying PROVE FALSE
    OBVIOUS
  <2>1. PICK n \in {0, 1}, skip \in Vars \cup {FFFF} : \E end \in {TransferEnd(n), ResumeEnd} :
          \/ \E j \in 1 .. Num + 1 : CopyNext(n, j, skip, end)
          \/ \E j \in 1 .. Num : CopyPut(n, j, skip, end) \/ CopySeal(n, j, skip, end)
    BY DEF Copying
  <2>2. PICK end : \/ \E j \in 1 .. Num + 1 : CopyNext(n, j, skip, end)
                   \/ \E j \in 1 .. Num : CopyPut(n, j, skip, end) \/ CopySeal(n, j, skip, end)
    BY <2>1
  <2>3. ASSUME NEW j \in 1 .. Num + 1, CopyNext(n, j, skip, end) PROVE FALSE
    <3>1. plan = Rest(j, skip, end) /\ Loop(n, skip, end)
      BY <2>3 DEF CopyNext
    <3> QED
      BY <3>1, LoopTypes
  <2>4. ASSUME NEW j \in 1 .. Num, CopyPut(n, j, skip, end) \/ CopySeal(n, j, skip, end) PROVE FALSE
    <3>1. Loop(n, skip, end) /\ j + 1 \in 1 .. Num + 1
      BY <2>4, Constants DEF CopyPut, CopySeal
    <3>2. Rest(j + 1, skip, end) \in Seq(Free)
      BY <3>1, LoopTypes
    <3> QED
      BY <2>4, <3>2, NonEmpty DEF CopyPut, CopySeal, Put, Seal
  <2> QED
    BY <2>2, <2>3, <2>4
<1>2. ASSUME NEW p \in {0, 1}, NEW s \in {"RECEIVE", "VALID"}, NEW t \in Seq(Free)
      PROVE  /\ plan # Clean(p) \o t /\ plan # Clean(p) /\ plan # Erase(p) \o t /\ plan # Erase(p)
             /\ plan # Mark(p, s) \o t /\ plan # Mark(p, s)
  BY NonEmpty DEF Clean, Erase, Mark
<1>3. ~Initialising
  <2>1. Mark(0, "VALID") \in Seq(Free) /\ Mark(1, "VALID") \in Seq(Free)
        /\ Clean(0) \in Seq(Free) /\ Clean(1) \in Seq(Free)
    BY Lists
  <2>2. ~Format0
    <3>1. Format = Clean(0) \o (Mark(0, "VALID") \o Clean(1))
      BY <2>1, Associative DEF Format
    <3>2. Mark(0, "VALID") \o Clean(1) \in Seq(Free)
      BY <2>1, Concat
    <3> QED
      BY <1>2, <3>1, <3>2 DEF Format0
  <2>3. ~Format1 /\ ~CleanMark1 /\ ~CleanMark0
    BY <1>2, <2>1 DEF Format1, CleanMark1, CleanMark0
  <2>4. ~Clean1 /\ ~Clean0
    BY <1>2, <2>1 DEF Clean1, Clean0
  <2> QED
    BY <2>2, <2>3, <2>4 DEF Initialising
<1>4. ASSUME NEW n \in {0, 1}
      PROVE  ~Storing(n) /\ ~Sealing(n) /\ ~MoveMark(n) /\ ~MovePut(n) /\ ~MoveSeal(n) /\ ~Moved(n)
  <2>1. ~Storing(n) /\ ~Sealing(n)
    BY NonEmpty DEF Storing, Sealing, Store, Seal
  <2>2. ~Moved(n)
    BY <1>2, Lists DEF Moved
  <2>3. ~MoveMark(n)
    BY <1>2, CallTypes DEF MoveMark
  <2>4. ~MovePut(n)
    BY CallTypes, NonEmpty DEF MovePut, Put
  <2>5. ~MoveSeal(n)
    BY CallTypes, NonEmpty DEF MoveSeal, Seal
  <2> QED
    BY <2>1, <2>2, <2>3, <2>4, <2>5
<1> QED
  BY <1>1, <1>3, <1>4 DEF On

LEMMA OnStep ==
  ASSUME FlashInv, On, Step
  PROVE  Same /\ On' /\ (Keeps \/ (Commits /\ request # NoRequest))
<1>1. CASE Copying
  <2>1. PICK n \in {0, 1}, skip \in Vars \cup {FFFF} : \E end \in {TransferEnd(n), ResumeEnd} :
          \/ \E j \in 1 .. Num + 1 : CopyNext(n, j, skip, end)
          \/ \E j \in 1 .. Num : CopyPut(n, j, skip, end) \/ CopySeal(n, j, skip, end)
    BY <1>1 DEF Copying
  <2>2. PICK end \in {TransferEnd(n), ResumeEnd} :
          \/ \E j \in 1 .. Num + 1 : CopyNext(n, j, skip, end)
          \/ \E j \in 1 .. Num : CopyPut(n, j, skip, end) \/ CopySeal(n, j, skip, end)
    BY <2>1
  <2>3. ASSUME NEW j \in 1 .. Num + 1 PROVE j \in 1 .. Num \/ j = Num + 1
    BY Constants
  <2>4. ASSUME NEW j \in 1 .. Num, CopyNext(n, j, skip, end)
        PROVE  Same /\ Keeps /\ Copying'
    <3>1. j + 1 \in 1 .. Num + 1
      BY Constants
    <3>2. Same /\ Keeps /\ (CopyNext(n, j + 1, skip, end)' \/ CopyPut(n, j, skip, end)')
      BY <2>4, NextStep
    <3> QED
      BY <3>1, <3>2 DEF Copying
  <2>5. ASSUME NEW j \in 1 .. Num, CopyPut(n, j, skip, end)
        PROVE  Same /\ Keeps /\ Copying'
    <3>1. Same /\ Keeps /\ CopySeal(n, j, skip, end)'
      BY <2>5, PutStep
    <3> QED
      BY <3>1 DEF Copying
  <2>6. ASSUME NEW j \in 1 .. Num, CopySeal(n, j, skip, end)
        PROVE  Same /\ Keeps /\ Copying'
    <3>1. j + 1 \in 1 .. Num + 1
      BY Constants
    <3>2. Same /\ Keeps /\ CopyNext(n, j + 1, skip, end)'
      BY <2>6, CopySealStep
    <3> QED
      BY <3>1, <3>2 DEF Copying
  <2>7. ASSUME CopyNext(n, Num + 1, skip, end)
        PROVE  Same /\ Keeps /\ (Moved(n)' \/ Initialising')
    BY <2>7, EndStep
  <2> QED
    BY <2>2, <2>3, <2>4, <2>5, <2>6, <2>7 DEF On
<1>2. CASE Initialising
  BY <1>2, InitialStep DEF On
<1>3. ASSUME NEW n \in {0, 1}, Ready(n) PROVE FALSE
  BY <1>3 DEF Step, DoErase, DoClean, DoMark, DoCopy, DoPut, DoSeal, Doing, Ready
<1>4. ASSUME NEW n \in {0, 1}, Storing(n) PROVE Same /\ Keeps /\ On'
  <2>1. Same /\ Keeps /\ (Sealing(n)' \/ MoveMark(Other(n))')
    BY <1>4, StoreStep
  <2> QED
    BY <2>1, Others DEF On
<1>5. ASSUME NEW n \in {0, 1}, Sealing(n) PROVE Same /\ Commits /\ request # NoRequest /\ On'
  BY <1>5, SealStep DEF On, Sealing
<1>6. ASSUME NEW n \in {0, 1}, MoveMark(n) PROVE Same /\ Keeps /\ On'
  BY <1>6, MoveMarkStep DEF On
<1>7. ASSUME NEW n \in {0, 1}, MovePut(n) PROVE Same /\ Keeps /\ On'
  BY <1>7, MovePutStep DEF On
<1>8. ASSUME NEW n \in {0, 1}, MoveSeal(n) PROVE Same /\ Commits /\ request # NoRequest /\ On'
  <2>1. request # NoRequest /\ request.var \in Vars \cup {FFFF}
    BY <1>8, CallTypes DEF MoveSeal
  <2>2. Same /\ Commits /\ CopyNext(n, 1, request.var, TransferEnd(n))'
    BY <1>8, MoveSealStep
  <2>3. 1 \in 1 .. Num + 1
    BY Constants
  <2>4. ASSUME NEW v, v = request.var PROVE CopyNext(n, 1, v, TransferEnd(n))'
    BY <2>2, <2>4 DEF CopyNext, Loop, Same
  <2>5. Copying'
    BY <2>1, <2>3, <2>4 DEF Copying
  <2> QED
    BY <2>1, <2>2, <2>5 DEF On
<1>9. ASSUME NEW n \in {0, 1}, Moved(n) PROVE Same /\ Keeps /\ On'
  BY <1>9, MovedStep DEF On
<1> QED
  BY <1>1, <1>2, <1>3, <1>4, <1>5, <1>6, <1>7, <1>8, <1>9 DEF On

\* What one step of the module is to those who call it.
LEMMA Changes ==
  ASSUME FlashIInv, intact, intact', [Next]_vars
  PROVE  /\ IF booted' THEN On' ELSE Off'
         /\ \/ Keeps /\ request' = request
            \/ Commits /\ request # NoRequest /\ request' = request
            \/ Keeps /\ request' = NoRequest /\ ~booted'
            \/ Keeps /\ request = NoRequest /\ request' \in [var : Vars, val : Vals]
            \/ /\ Keeps /\ request # NoRequest /\ request' = NoRequest
               /\ request.var \in Vars /\ Kept(page, request.var) = request.val
               /\ ReadVariable(page, request.var) = request.val
<1>1. FlashInv /\ (IF booted THEN On ELSE Off)
  BY DEF FlashIInv
<1>2. page' = page => Keeps
  BY DEF Keeps
<1>3. CASE Boot
  <2>1. ~booted /\ booted' /\ request' = request
    BY <1>3 DEF Boot
  <2>2. On' /\ page' = page
    BY <1>1, <1>3, <2>1, BootStep
  <2> QED
    BY <1>2, <2>1, <2>2
<1>4. CASE WriteVariable
  <2>1. booted /\ booted' /\ plan = << >>
    BY <1>4 DEF WriteVariable
  <2>2. PICK n \in {0, 1} : Ready(n)
    BY <1>1, <2>1, Idling
  <2>3. Storing(n)' /\ page' = page /\ request = NoRequest /\ request' \in [var : Vars, val : Vals]
    BY <1>1, <1>4, <2>2, StartStep
  <2> QED
    BY <1>2, <2>1, <2>3 DEF On
<1>5. CASE WriteReturn
  <2>1. booted /\ booted' /\ plan = << >>
    BY <1>1, <1>5 DEF WriteReturn, FlashInv
  <2>2. PICK n \in {0, 1} : Ready(n)
    BY <1>1, <2>1, Idling
  <2>3. /\ Ready(n)' /\ page' = page /\ request' = NoRequest /\ request # NoRequest
        /\ request.var \in Vars
        /\ Search(page[n], request.var) = request.val /\ ReadVariable(page, request.var) = request.val
    BY <1>1, <1>5, <2>2, ReturnStep
  <2>4. Kept(page, request.var) = Search(page[n], request.var)
    BY <1>1, <2>2, KeptKnown DEF Ready
  <2> QED
    BY <1>2, <2>1, <2>3, <2>4 DEF On
<1>6. CASE Step
  <2>1. plan # << >>
    BY <1>6 DEF Step, DoErase, DoClean, DoMark, DoCopy, DoPut, DoSeal, Doing
  <2>2. On
    BY <1>1, <2>1 DEF FlashInv
  <2>3. Same /\ On' /\ (Keeps \/ (Commits /\ request # NoRequest))
    BY <1>1, <1>6, <2>2, OnStep
  <2>4. booted' /\ request' = request
    BY <1>1, <2>1, <2>3 DEF Same, FlashInv
  <2> QED
    BY <2>3, <2>4
<1>7. CASE PowerLoss
  <2>1. booted /\ ~booted' /\ request' = NoRequest
    BY <1>1, <1>7, LossFacts
  <2>2. Off' /\ Keeps
    BY <1>1, <1>7, <2>1, LossStep
  <2> QED
    BY <2>1, <2>2
<1>8. CASE UNCHANGED vars
  <2>1. /\ page' = page /\ request' = request /\ plan' = plan /\ booted' = booted
        /\ resets' = resets /\ intact' = intact
    BY <1>8 DEF vars
  <2>2. Copying => Copying'
    <3>1. ASSUME NEW n, NEW j, NEW skip, NEW end
          PROVE  /\ CopyNext(n, j, skip, end) => CopyNext(n, j, skip, end)'
                 /\ CopyPut(n, j, skip, end) => CopyPut(n, j, skip, end)'
                 /\ CopySeal(n, j, skip, end) => CopySeal(n, j, skip, end)'
      <4>1. Loop(n, skip, end) => Loop(n, skip, end)'
        BY <2>1 DEF Loop, Receiving
      <4> QED
        BY <2>1, <4>1 DEF CopyNext, CopyPut, CopySeal
    <3> QED
      BY <3>1 DEF Copying
  <2>3. Initialising => Initialising'
    BY <2>1 DEF Initialising, Format0, Format1, Clean1, CleanMark1, Clean0, CleanMark0, Gone0, Kept0, Known
  <2>4. ASSUME NEW n
        PROVE  /\ Ready(n) => Ready(n)'
               /\ Storing(n) => Storing(n)'
               /\ Sealing(n) => Sealing(n)'
               /\ MoveMark(n) => MoveMark(n)'
               /\ MovePut(n) => MovePut(n)'
               /\ MoveSeal(n) => MoveSeal(n)'
               /\ Moved(n) => Moved(n)'
    BY <2>1 DEF Ready, Storing, Sealing, MoveMark, MovePut, MoveSeal, Moved, Known, Answered, Copied,
      Receiving
  <2>5. On => On'
    BY <2>2, <2>3, <2>4 DEF On
  <2>6. Off => Off'
    BY <2>1 DEF Off, Known, Gone0, Kept0, CutShort, Receiving
  <2> QED
    BY <1>1, <1>2, <2>1, <2>5, <2>6
<1> QED
  BY <1>3, <1>4, <1>5, <1>6, <1>7, <1>8 DEF Next

LEMMA IntactLost == [Next]_vars /\ ~intact => ~intact'
BY DEF Next, vars, Boot, WriteVariable, WriteReturn, Step, DoErase, DoClean, DoMark, DoCopy, DoPut,
  DoSeal, PowerLoss

LEMMA FlashIInvInit == Init => FlashIInv
<1> SUFFICES ASSUME Init PROVE FlashIInv
  OBVIOUS
<1>1. ~booted /\ page[0] = Erased /\ page[1] = Erased
  BY DEF Init
<1> QED
  BY <1>1, FlashInit DEF FlashIInv, Off

LEMMA FlashIInvNext == FlashIInv /\ [Next]_vars => FlashIInv'
<1> SUFFICES ASSUME FlashIInv, [Next]_vars PROVE FlashIInv'
  OBVIOUS
<1>1. FlashInv'
  BY FlashStep DEF FlashIInv
<1>2. intact' => intact
  <2>1. intact \in BOOLEAN /\ intact' \in BOOLEAN
    BY <1>1 DEF FlashInv, FlashIInv
  <2> QED
    BY <2>1, IntactLost
<1>3. intact' => IF booted' THEN On' ELSE Off'
  BY <1>2, Changes
<1> QED
  BY <1>1, <1>3 DEF FlashIInv

\* As long as every reset hit a state EE_Init recovers from, one page is valid and the other
\* one erased whenever no function of the module is running.
THEOREM KnownGood == Spec => []KnownGoodWhileIntact
<1>1. FlashIInv => KnownGoodWhileIntact
  <2> SUFFICES ASSUME FlashIInv, intact, Idle PROVE KnownGoodPages
    BY DEF KnownGoodWhileIntact, KnownGoodState
  <2>1. FlashInv /\ On /\ plan = << >>
    BY DEF FlashIInv, Idle
  <2>2. PICK n \in {0, 1} : Ready(n)
    BY <2>1, Idling
  <2> QED
    BY <2>2 DEF Ready, Known, KnownGoodPages
<1> QED
  BY <1>1, FlashIInvInit, FlashIInvNext, PTL DEF Spec

\* As long as every reset hit a state EE_Init recovers from, EE_ReadVariable gives the data of a
\* call of EE_WriteVariable that returns, transfers to the other page included.
THEOREM ReadsBack == Spec => ReadsLastStored
<1>1. FlashIInv /\ [Next]_vars
        => [intact /\ WriteReturns => ReadVariable(page, request.var) = request.val]_vars
  <2> SUFFICES ASSUME FlashIInv, [Next]_vars, intact, WriteReturns
               PROVE  ReadVariable(page, request.var) = request.val
    OBVIOUS
  <2>1. request # NoRequest /\ request' = NoRequest /\ booted'
    BY DEF WriteReturns
  <2>2. intact'
    BY <2>1 DEF Next, vars, Boot, WriteVariable, WriteReturn, Step, DoErase, DoClean, DoMark, DoCopy,
      DoPut, DoSeal, PowerLoss
  <2>3. NoRequest \notin [var : Vars, val : Vals]
    BY Constants
  <2> QED
    BY <2>1, <2>2, <2>3, Changes
<1> QED
  BY <1>1, FlashIInvInit, FlashIInvNext, PTL DEF Spec, ReadsLastStored

LEMMA StoredStep ==
  ASSUME FlashIInv, FlashIInv', [Next]_vars
  PROVE  [Stored!Next]_(Stored!vars)
<1> DEFINE st == [v \in Vars |-> IF intact THEN Kept(page, v) ELSE Absent]
           rq == IF intact THEN request ELSE NoRequest
<1>1. CASE ~intact
  <2>1. ~intact'
    BY <1>1, IntactLost
  <2>2. intact \in BOOLEAN /\ intact' \in BOOLEAN
    BY DEF FlashIInv, FlashInv
  <2> QED
    BY <1>1, <2>1, <2>2 DEF Stored!vars
<1>2. CASE intact /\ ~intact'
  <2>1. intact' = FALSE
    BY <1>2 DEF FlashIInv, FlashInv
  <2>2. Stored!Fault
    BY <2>1 DEF Stored!Fault
  <2> QED
    BY <2>2 DEF Stored!Next
<1>3. CASE intact /\ intact'
  <2>1. /\ st = [v \in Vars |-> Kept(page, v)] /\ st' = [v \in Vars |-> Kept(page', v)]
        /\ rq = request /\ rq' = request' /\ intact = TRUE /\ intact' = TRUE
    BY <1>3 DEF FlashIInv, FlashInv
  <2>2. Keeps => st' = st
    BY <2>1 DEF Keeps
  <2>3. Commits /\ request.var \in Vars => st' = [st EXCEPT ![request.var] = request.val]
    BY <2>1 DEF Commits
  <2> HIDE DEF st, rq
  <2>4. CASE Keeps /\ request' = request
    BY <2>1, <2>2, <2>4 DEF Stored!vars, st, rq
  <2>5. CASE Commits /\ request # NoRequest /\ request' = request
    <3>1. request.var \in Vars
      BY <2>5, CallTypes DEF FlashIInv
    <3>2. Stored!Commit
      BY <2>1, <2>3, <2>5, <3>1 DEF Stored!Commit, st, rq
    <3> QED
      BY <3>2 DEF Stored!Next
  <2>6. CASE Keeps /\ request' = NoRequest /\ ~booted'
    <3>1. Stored!Reset
      BY <2>1, <2>2, <2>6 DEF Stored!Reset, st, rq
    <3> QED
      BY <3>1 DEF Stored!Next
  <2>7. CASE Keeps /\ request = NoRequest /\ request' \in [var : Vars, val : Vals]
    <3>1. Stored!Begin
      BY <2>1, <2>2, <2>7 DEF Stored!Begin, Stored!Request, st, rq
    <3> QED
      BY <3>1 DEF Stored!Next
  <2>8. CASE /\ Keeps /\ request # NoRequest /\ request' = NoRequest
             /\ request.var \in Vars /\ Kept(page, request.var) = request.val
    <3>1. st[request.var] = request.val
      BY <2>1, <2>8
    <3>2. Stored!End
      BY <2>1, <2>2, <2>8, <3>1 DEF Stored!End, st, rq
    <3> QED
      BY <3>2 DEF Stored!Next
  <2> QED
    BY <1>3, <2>4, <2>5, <2>6, <2>7, <2>8, Changes
<1>4. intact \in BOOLEAN /\ intact' \in BOOLEAN
  BY DEF FlashIInv, FlashInv
<1> QED
  BY <1>1, <1>2, <1>3, <1>4

\* EE_WriteVariable is atomic, and what it has written survives every reset EE_Init recovers from,
\* in the middle of a page transfer or of a repair of one as well: the module implements the store
\* of variables.
THEOREM Atomic == Spec => AtomicAndDurable
<1>1. Init => Stored!Init
  <2> SUFFICES ASSUME Init PROVE Stored!Init
    OBVIOUS
  <2>1. page[0].status = "ERASED" /\ page[1].status = "ERASED" /\ intact = TRUE /\ request = NoRequest
    BY ErasedFacts DEF Init
  <2>2. \A v : Kept(page, v) = Absent
    BY <2>1, KeptNone
  <2> QED
    BY <2>1, <2>2 DEF Stored!Init
<1>2. FlashIInv /\ FlashIInv' /\ [Next]_vars => [Stored!Next]_(Stored!vars)
  BY StoredStep
<1> QED
  BY <1>1, <1>2, FlashIInvInit, FlashIInvNext, PTL DEF Spec, AtomicAndDurable, Stored!Spec
===============================================================================
