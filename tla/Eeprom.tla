-------------------------------- MODULE Eeprom --------------------------------
(***************************************************************************)
(* The two-page EEPROM emulation (eeprom.c) that keeps the configuration   *)
(* of the controller, with a loss of power or a reset between any two of   *)
(* its flash operations.                                                   *)
(*                                                                         *)
(* Every function of the module is a straight list of flash operations     *)
(* chosen from what the pages hold, so the state is the content of the     *)
(* flash and the operations still to do ("plan"); a function that returns  *)
(* early drops the rest of its plan.  The half words of flash are erased   *)
(* as FFFF, and programming one can only clear bits.                       *)
(***************************************************************************)
EXTENDS Naturals, Sequences

CONSTANTS
  VarTab,        \* VirtAddVarTab, the virtual addresses in use
  Vals,          \* the data written
  FFFF,          \* the content of an erased half word
  Absent,        \* EE_ReadVariable found nothing
  NoRequest,     \* no call of EE_WriteVariable is running
  PageSize,      \* words of a page behind its header
  MaxResets      \* bound: losses of power

Vars == {VarTab[i] : i \in DOMAIN VarTab}

\* The addresses are distinct, and a page has room to repeat the copies of a transfer
\* after every loss of power (4095 words for 16 variables).
ASSUME EepromAssumption ==
  /\ VarTab \in Seq(Vars) /\ VarTab # << >>
  /\ \A i, j \in DOMAIN VarTab : VarTab[i] = VarTab[j] => i = j
  /\ Len(VarTab) + (Len(VarTab) - 1) * MaxResets =< PageSize
  /\ 1 + Len(VarTab) * MaxResets =< PageSize
  /\ FFFF \notin Vars
  /\ Absent \notin Vals \cup {FFFF}
  /\ NoRequest \notin [var : Vars, val : Vals]
  /\ PageSize \in Nat /\ MaxResets \in Nat

VARIABLES
  page,       \* the flash: status and words of PAGE0 and PAGE1
  booted,     \* EE_Init has been called since the last reset
  plan,       \* flash operations the running function has still to do
  request,    \* arguments of the call of EE_WriteVariable that is running
  resets,
  intact      \* history: every reset so far hit a state EE_Init recovers from

vars == <<page, booted, plan, request, resets, intact>>

Words == 1 .. PageSize
Erased == [status |-> "ERASED", word |-> [i \in Words |-> [val |-> FFFF, var |-> FFFF]]]
Other(p) == 1 - p

-----------------------------------------------------------------------------
(* What the functions read. *)

\* EE_FindValidPage, for reading and for writing.
NoValidPage(f) == \A p \in {0, 1} : f[p].status # "VALID"
\* Mutant: the first page, whichever is valid.
ReadPageFirst(f) == 0

ReadPage(f) == IF f[0].status = "VALID" THEN 0 ELSE 1
WritePage(f) ==
  IF f[1].status = "VALID"
    THEN IF f[0].status = "RECEIVE" THEN 0 ELSE 1
    ELSE IF f[1].status = "RECEIVE" THEN 1 ELSE 0

\* The search of EE_ReadVariable in one page, from its end.
Search(pg, v) ==
  IF \E i \in Words : pg.word[i].var = v
    THEN LET i == CHOOSE i \in Words :
                    /\ pg.word[i].var = v
                    /\ \A j \in Words : j > i => pg.word[j].var # v
         IN  pg.word[i].val
    ELSE Absent

ReadVariable(f, v) ==
  IF NoValidPage(f) THEN Absent ELSE Search(f[ReadPage(f)], v)

\* EE_VerifyPageFullyErased compares the header and the data half of every
\* word, up to the end of PAGE0: of PAGE1 it compares nothing.
VerifyPageFullyErased(f, p) ==
  p = 0 => f[p].status = "ERASED" /\ \A i \in Words : f[p].word[i].val = FFFF

Blanks(f, p) == {i \in Words : f[p].word[i] = [val |-> FFFF, var |-> FFFF]}
FirstBlank(f, p) == CHOOSE i \in Blanks(f, p) : \A j \in Blanks(f, p) : i <= j

-----------------------------------------------------------------------------
(* The lists of operations. *)

Erase(p) == <<[op |-> "erase", page |-> p]>>
Clean(p) == <<[op |-> "clean", page |-> p]>>    \* erase unless verified erased
Mark(p, s) == <<[op |-> "mark", page |-> p, status |-> s]>>
Store(r) == <<[op |-> "store", var |-> r.var, val |-> r.val]>>
Put(v, d) == <<[op |-> "put", var |-> v, val |-> d]>>
Seal(p, i, v) == <<[op |-> "seal", page |-> p, at |-> i, var |-> v]>>

\* The loop over VarTab that copies every variable but one.
Copies(skip) ==
  [i \in DOMAIN VarTab |-> [op |-> "copy", var |-> VarTab[i], skip |-> skip]]

\* EE_Format
Format == Clean(0) \o Mark(0, "VALID") \o Clean(1)

\* Mutant: the old page is not erased.
ResumeDirty(f, new) == Copies(f[new].word[1].var) \o Mark(new, "VALID")

\* Mutant: the variable being written is copied from the old page as well.
ResumeAll(f, new) == Copies(FFFF) \o Mark(new, "VALID") \o Clean(Other(new))

\* The transfer EE_Init repeats from a valid page to the other, that had begun
\* to receive.  The variable in its first word was the one being written.
Resume(f, new) ==
  Copies(f[new].word[1].var) \o Mark(new, "VALID") \o Clean(Other(new))

\* EE_Init
InitPlan(f) ==
  CASE f[0].status = "ERASED" /\ f[1].status = "VALID" -> Clean(0)
    [] f[0].status = "ERASED" /\ f[1].status = "RECEIVE" ->
         Clean(0) \o Mark(1, "VALID")
    [] f[0].status = "RECEIVE" /\ f[1].status = "VALID" -> Resume(f, 0)
    [] f[0].status = "RECEIVE" /\ f[1].status = "ERASED" ->
         Clean(1) \o Mark(0, "VALID")
    [] f[0].status = "VALID" /\ f[1].status = "ERASED" -> Clean(1)
    [] f[0].status = "VALID" /\ f[1].status = "RECEIVE" -> Resume(f, 1)
    [] OTHER -> Format

\* EE_PageTransfer
TransferPlan(f, r) ==
  IF NoValidPage(f)
    THEN << >>
    ELSE LET new == Other(ReadPage(f))
         IN  Mark(new, "RECEIVE") \o Put(r.var, r.val) \o Copies(r.var)
               \o Erase(Other(new)) \o Mark(new, "VALID")

-----------------------------------------------------------------------------
Init ==
  /\ page = [p \in {0, 1} |-> Erased]
  /\ booted = FALSE
  /\ plan = << >>
  /\ request = NoRequest
  /\ resets = 0
  /\ intact = TRUE

\* main calls EE_Init.
Boot ==
  /\ ~booted
  /\ booted' = TRUE
  /\ plan' = InitPlan(page)
  /\ UNCHANGED <<page, request, resets, intact>>

\* A call of EE_WriteVariable.
WriteVariable ==
  /\ booted /\ plan = << >> /\ request = NoRequest
  /\ \E r \in [var : Vars, val : Vals] : request' = r /\ plan' = Store(r)
  /\ UNCHANGED <<page, booted, resets, intact>>

WriteReturn ==
  /\ plan = << >> /\ request # NoRequest
  /\ request' = NoRequest
  /\ UNCHANGED <<page, booted, plan, resets, intact>>

\* The next operation of the plan is op.
Doing(op) == plan # << >> /\ Head(plan).op = op

DoErase ==
  /\ Doing("erase")
  /\ page' = [page EXCEPT ![Head(plan).page] = Erased]
  /\ plan' = Tail(plan)
  /\ UNCHANGED <<booted, request, resets, intact>>

DoClean ==
  /\ Doing("clean")
  /\ plan' = (IF VerifyPageFullyErased(page, Head(plan).page)
                THEN << >> ELSE Erase(Head(plan).page)) \o Tail(plan)
  /\ UNCHANGED <<page, booted, request, resets, intact>>

\* Programming RECEIVE_DATA over VALID_PAGE leaves VALID_PAGE, all its bits clear.
DoMark ==
  /\ Doing("mark")
  /\ page' = [page EXCEPT ![Head(plan).page].status =
                IF @ = "VALID" THEN @ ELSE Head(plan).status]
  /\ plan' = Tail(plan)
  /\ UNCHANGED <<booted, request, resets, intact>>

\* Mutant: the status of EE_ReadVariable is not looked at.
DoCopyAbsent ==
  /\ Doing("copy")
  /\ LET c == Head(plan)
     IN  plan' = (IF c.var = c.skip THEN << >> ELSE Put(c.var, ReadVariable(page, c.var)))
                   \o Tail(plan)
  /\ UNCHANGED <<page, booted, request, resets, intact>>

DoCopy ==
  /\ Doing("copy")
  /\ LET c == Head(plan)
         d == ReadVariable(page, c.var)
     IN  plan' = (IF c.var = c.skip \/ d = Absent THEN << >> ELSE Put(c.var, d)) \o Tail(plan)
  /\ UNCHANGED <<page, booted, request, resets, intact>>

\* EE_VerifyPageFullWriteVariable programs the data half of the first blank
\* word.  When the page is full, EE_WriteVariable goes on with a transfer and
\* every other caller returns.
DoPut ==
  /\ Doing("put") \/ Doing("store")
  /\ LET h == Head(plan)
         p == WritePage(page)
     IN  IF ~NoValidPage(page) /\ Blanks(page, p) # {}
           THEN LET i == FirstBlank(page, p)
                IN  /\ page' = [page EXCEPT ![p].word[i].val = h.val]
                    /\ plan' = Seal(p, i, h.var) \o Tail(plan)
           ELSE /\ plan' = IF h.op = "store" THEN TransferPlan(page, h) ELSE << >>
                /\ UNCHANGED page
  /\ UNCHANGED <<booted, request, resets, intact>>

\* ... and then the address half.
DoSeal ==
  /\ Doing("seal")
  /\ page' = [page EXCEPT ![Head(plan).page].word[Head(plan).at].var = Head(plan).var]
  /\ plan' = Tail(plan)
  /\ UNCHANGED <<booted, request, resets, intact>>

-----------------------------------------------------------------------------
(* Losses of power. *)

\* The states EE_Init recovers from: it leaves one valid page with every
\* variable and one that is erased.
Recoverable(f) ==
  /\ ~(f[0].status = "RECEIVE" /\ f[1].status = "VALID")
  /\ ~(f[0].status = "VALID" /\ f[1].status = "VALID")
  /\ \A p \in {0, 1} :
       f[p].status = "ERASED" /\ f[p] # Erased
         => p = 0 /\ ~VerifyPageFullyErased(f, p)

\* What an erase that was cut short leaves of a page: its header or its words
\* may be erased while the others are not.
PartlyErased(pg) == {pg, [pg EXCEPT !.status = "ERASED"], [Erased EXCEPT !.status = pg.status]}

PowerLoss ==
  /\ booted /\ resets < MaxResets
  /\ IF Doing("erase")
       THEN \E pg \in PartlyErased(page[Head(plan).page]) :
              page' = [page EXCEPT ![Head(plan).page] = pg]
       ELSE UNCHANGED page
  /\ booted' = FALSE
  /\ plan' = << >>
  /\ request' = NoRequest
  /\ resets' = resets + 1
  /\ intact' = (intact /\ Recoverable(page'))

Step == DoErase \/ DoClean \/ DoMark \/ DoCopy \/ DoPut \/ DoSeal

Next == Boot \/ WriteVariable \/ WriteReturn \/ Step \/ PowerLoss

Spec == Init /\ [][Next]_vars

-----------------------------------------------------------------------------
(* Properties. *)

Word == [val : Vals \cup {FFFF}, var : Vars \cup {FFFF}]
PageType == [status : {"ERASED", "RECEIVE", "VALID"}, word : [Words -> Word]]

TypeOK ==
  /\ page \in [{0, 1} -> PageType]
  /\ booted \in BOOLEAN
  /\ \A i \in DOMAIN plan :
       plan[i].op \in {"erase", "clean", "mark", "copy", "put", "store", "seal"}
  /\ request \in [var : Vars, val : Vals] \cup {NoRequest}
  /\ resets \in 0 .. MaxResets
  /\ intact \in BOOLEAN

Idle == booted /\ plan = << >>

KnownGoodPages ==
  \E p \in {0, 1} : page[p].status = "VALID" /\ page[Other(p)] = Erased

\* EE_Init restores "the pages to a known good state in case of page's status
\* corruption after a power loss": one page is valid and the other is erased
\* whenever no function of the module is running.
KnownGoodState == Idle => KnownGoodPages

\* As long as every reset hit a state that EE_Init recovers from.
KnownGoodWhileIntact == intact => KnownGoodState

WriteReturns == request # NoRequest /\ request' = NoRequest /\ booted'

\* "Returns the last stored variable data": when EE_WriteVariable returns, as long
\* as every reset hit a state EE_Init recovers from, EE_ReadVariable gives the data it
\* was called with.
ReadsLastStored ==
  [][intact /\ WriteReturns => ReadVariable(page, request.var) = request.val]_vars

\* What the pages are worth after a reset: of a transfer that was cut short,
\* the variable in the first word of the receiving page is taken from there and
\* the others from the old page, if it still has them.
Kept(f, v) ==
  IF \E p \in {0, 1} : f[p].status = "RECEIVE"
    THEN LET p == CHOOSE p \in {0, 1} : f[p].status = "RECEIVE"
             old == Search(f[Other(p)], v)
         IN  IF \/ f[Other(p)].status # "VALID"
                \/ old = Absent
                \/ f[p].word[1].var = v
               THEN Search(f[p], v)
               ELSE old
    ELSE IF f[1].status = "VALID" THEN Search(f[1], v)
    ELSE IF f[0].status = "VALID" THEN Search(f[0], v)
    ELSE Absent

\* EE_WriteVariable is atomic, and what it has written survives every reset
\* that EE_Init recovers from, in the middle of a page transfer or of a repair
\* of one as well.
Stored == INSTANCE ConfigStore WITH
  store <- [v \in Vars |-> IF intact THEN Kept(page, v) ELSE Absent],
  request <- IF intact THEN request ELSE NoRequest,
  ok <- intact

AtomicAndDurable == Stored!Spec
===============================================================================
