------------------------------ MODULE EthIpProofs -----------------------------
(***************************************************************************)
(* Proofs about the EtherNet/IP server.  What its sessions share with the  *)
(* tasks (EthIp): for every limit of canTask, every pair of rounds in      *)
(* which the two frames go out, every width of the counter, any number of  *)
(* registers and any number of writes.  The sessions themselves            *)
(* (EthIpServer): for any set of session numbers, any set of connections,  *)
(* any size of an answer and any number of requests.                       *)
(***************************************************************************)
EXTENDS EthIp, EthIpServer, Integers, FiniteSetTheorems, WellFoundedInduction, TLAPS

LEMMA ConstantFacts ==
  /\ Limit \in Nat /\ Limit > 1
  /\ TelemetryAt \in Nat /\ StatusAt \in Nat /\ TmrSize \in Nat
  /\ 0 < TelemetryAt /\ TelemetryAt < StatusAt /\ StatusAt + 1 < TmrSize
  /\ MaxTurns \in Nat /\ MaxTimes \in Nat
  /\ NumRegs \in Nat /\ NumRegs > 0 /\ MaxWrites \in Nat
BY EthIpAssumption

-----------------------------------------------------------------------------
(* The link. *)

LEMMA NextTmrFacts ==
  ASSUME ethip_tmr \in 0 .. TmrSize - 1
  PROVE  /\ Status!NextTmr \in 0 .. TmrSize - 1
         /\ Status!NextTmr = ethip_tmr + 1 \/ Status!NextTmr = 0
         /\ ethip_tmr + 1 < TmrSize => Status!NextTmr = ethip_tmr + 1
<1>0. TmrSize \in Nat /\ TmrSize > 2 /\ ethip_tmr \in Nat /\ ethip_tmr < TmrSize
  BY ConstantFacts
<1>1. CASE ethip_tmr + 1 < TmrSize
  <2>1. (ethip_tmr + 1) % TmrSize = ethip_tmr + 1
    BY <1>0, <1>1
  <2> QED
    BY <1>0, <1>1, <2>1 DEF Status!NextTmr
<1>2. CASE ethip_tmr + 1 = TmrSize
  <2>1. (ethip_tmr + 1) % TmrSize = 0
    BY <1>0, <1>2
  <2> QED
    BY <1>0, <1>2, <2>1 DEF Status!NextTmr
<1> QED
  BY <1>0, <1>1, <1>2

Labels == {"time", "send", "load", "store", "limit", "flag", "down", "announce", "clear"}

\* The timer reaches its limit only between the store and the test of it, and the
\* value in the register is the one it had when it was read.
Ticking ==
  /\ pc # "limit" => eth_ip_tmr < Limit
  /\ pc \in {"store", "limit"} => loaded < Limit
  /\ pc = "limit" => eth_ip_tmr \in {0, loaded + 1}

\* The frames that follow the flag, from the one with the telemetry to the clear.
Announced ==
  /\ ~eth_ip_upd => ethip_tmr \notin TelemetryAt + 1 .. StatusAt
  /\ Status!Between => stale \/ telemetry = Status!Shown(eth_ip_state)
  /\ pc = "clear" => eth_ip_upd /\ ethip_tmr = StatusAt /\ (missed \/ status = eth_ip_state)
  /\ pc = "down" => eth_ip_upd \/ eth_ip_state = "down"

LinkTypes == Status!TypeOK /\ Ticking
LinkInv == LinkTypes /\ Announced /\ NothingUnannounced

LEMMA LinkInit == Status!Init => LinkInv
<1> SUFFICES ASSUME Status!Init PROVE LinkInv
  OBVIOUS
<1>1. LinkTypes
  <2>1. 0 \in 0 .. Limit /\ 0 \in 0 .. MaxTimes /\ 0 \in 0 .. TmrSize - 1 /\ 0 \in 0 .. MaxTurns
    BY ConstantFacts
  <2>2. Status!TypeOK
    BY <2>1 DEF Status!Init, Status!TypeOK, Status!States
  <2>3. Ticking
    BY ConstantFacts DEF Status!Init, Ticking
  <2> QED
    BY <2>2, <2>3 DEF LinkTypes
<1>2. Announced /\ NothingUnannounced
  BY ConstantFacts
     DEF Status!Init, Announced, Status!Between, NothingUnannounced, Status!NothingUnannounced
<1> QED
  BY <1>1, <1>2 DEF LinkInv

LEMMA LinkTypesStep ==
  LinkTypes /\ (Status!Next \/ UNCHANGED link) => LinkTypes'
<1> SUFFICES ASSUME LinkTypes, Status!Next \/ UNCHANGED link PROVE LinkTypes'
  OBVIOUS
<1> USE ConstantFacts
    DEF LinkTypes, Status!TypeOK, Status!States, Ticking, Status!link, Status!time,
        Status!task, Status!frames, Status!scada, Status!history
<1>1. CASE UNCHANGED link
  BY <1>1 DEF link
<1>2. CASE Status!Request
  <2>1. eth_ip_upd' \in BOOLEAN /\ missed' \in BOOLEAN /\ stale' \in BOOLEAN
    BY <1>2 DEF Status!Request
  <2> QED
    BY <1>2, <2>1 DEF Status!Request
<1>3. CASE Status!SetTime
  BY <1>3 DEF Status!SetTime
<1>10. CASE Status!Turn
  <2>1. polling' \in BOOLEAN /\ turns' \in 0 .. MaxTurns
    BY <1>10 DEF Status!Turn
  <2> QED
    BY <1>10, <2>1 DEF Status!Turn
<1>4. CASE Status!TimeCheck \/ Status!TimeSend
  BY <1>4 DEF Status!TimeCheck, Status!TimeSend
<1>5. CASE Status!TickLoad
  BY <1>5 DEF Status!TickLoad
<1>6. CASE Status!TickStore
  BY <1>6 DEF Status!TickStore
<1>7. CASE Status!TickLimit
  BY <1>7 DEF Status!TickLimit
<1>8. CASE Status!DownFlag \/ Status!DownState
  <2>1. eth_ip_upd' \in BOOLEAN /\ stale' \in BOOLEAN
    BY <1>8 DEF Status!DownFlag, Status!DownState
  <2> QED
    BY <1>8, <2>1 DEF Status!DownFlag, Status!DownState
<1>9. CASE Status!Announce
  <2>1. CASE Status!AnnounceNothing
    BY <2>1 DEF Status!AnnounceNothing
  <2>2. CASE Status!AnnounceTelemetry
    BY <2>2, NextTmrFacts DEF Status!AnnounceTelemetry
  <2>3. CASE Status!AnnounceStatus
    BY <2>3 DEF Status!AnnounceStatus
  <2>4. CASE Status!AnnounceClear
    BY <2>4, NextTmrFacts DEF Status!AnnounceClear
  <2>5. CASE Status!AnnounceWait
    BY <2>5, NextTmrFacts DEF Status!AnnounceWait
  <2> QED
    BY <1>9, <2>1, <2>2, <2>3, <2>4, <2>5 DEF Status!Announce
<1> QED
  BY <1>1, <1>2, <1>3, <1>4, <1>5, <1>6, <1>7, <1>8, <1>9, <1>10 DEF Status!Next, Status!CanTask

LEMMA AnnouncedStep ==
  LinkInv /\ (Status!Next \/ UNCHANGED link) => Announced' /\ NothingUnannounced'
<1> SUFFICES ASSUME LinkInv, Status!Next \/ UNCHANGED link
             PROVE  Announced' /\ NothingUnannounced'
  OBVIOUS
<1>0. /\ Announced /\ NothingUnannounced
      /\ ethip_tmr \in 0 .. TmrSize - 1 /\ eth_ip_upd \in BOOLEAN
      /\ eth_ip_state \in {"down", "up", "start"}
      /\ stale \in BOOLEAN /\ missed \in BOOLEAN
  BY DEF LinkInv, LinkTypes, Status!TypeOK, Status!States
<1> USE <1>0, ConstantFacts
    DEF Announced, NothingUnannounced, Status!NothingUnannounced, Status!Between,
        Status!Shown, Status!link, Status!time, Status!task, Status!frames,
        Status!scada, Status!history
<1>1. CASE UNCHANGED link
  BY <1>1 DEF link
<1>2. CASE Status!Request
  BY <1>2 DEF Status!Request
<1>3. CASE Status!SetTime \/ Status!Turn
  BY <1>3 DEF Status!SetTime, Status!Turn
<1>4. CASE Status!TimeCheck \/ Status!TimeSend
  BY <1>4 DEF Status!TimeCheck, Status!TimeSend
<1>5. CASE Status!TickLoad \/ Status!TickStore \/ Status!TickLimit
  BY <1>5 DEF Status!TickLoad, Status!TickStore, Status!TickLimit
<1>6. CASE Status!DownFlag
  BY <1>6 DEF Status!DownFlag
<1>7. CASE Status!DownState
  BY <1>7 DEF Status!DownState
<1>8. CASE Status!AnnounceNothing \/ Status!AnnounceStatus
  BY <1>8 DEF Status!AnnounceNothing, Status!AnnounceStatus
<1>9. CASE Status!AnnounceTelemetry
  BY <1>9, NextTmrFacts DEF Status!AnnounceTelemetry
<1>10. CASE Status!AnnounceClear
  BY <1>10, NextTmrFacts DEF Status!AnnounceClear
<1>11. CASE Status!AnnounceWait
  BY <1>11, NextTmrFacts DEF Status!AnnounceWait
<1> QED
  BY <1>1, <1>2, <1>3, <1>4, <1>5, <1>6, <1>7, <1>8, <1>9, <1>10, <1>11
     DEF Status!Next, Status!CanTask, Status!Announce

-----------------------------------------------------------------------------
(* The registers. *)

\* Up to a register the copy to the program is what was last written.
Taken(n) == \A r \in Exchange!Regs : r < n => scada_regs[r] = Exchange!Whole(expected[r])
Waits == ob_9a_upd /\ \A r \in Exchange!Regs : answer_9a[r] = Exchange!Whole(expected[r])

\* As long as no write has met a copy: a copy to the program works on a write that waits
\* whole, and a copy to SCADA leaves alone what the program finds.
CopyHolds ==
  /\ dpc \in {"idle", "clear"} => i = 1
  /\ dpc \in {"take", "second", "clear"} => Waits
  /\ dpc \in {"take", "second"} => Taken(i)
  /\ dpc = "second" => held = expected[i]
  /\ dpc = "clear" => Taken(NumRegs + 1)
  /\ dpc \in {"lo", "hi"} => ~ob_9a_upd /\ Taken(NumRegs + 1)
  /\ dpc = "idle" => Waits \/ (~ob_9a_upd /\ Taken(NumRegs + 1))

CopyInv == Exchange!TypeOK /\ (clean => CopyHolds)

LEMMA WholeType ==
  ASSUME NEW w \in 0 .. MaxWrites
  PROVE  Exchange!Whole(w) \in [Exchange!Bytes -> 0 .. MaxWrites]
BY DEF Exchange!Whole

LEMMA CopyInit == Exchange!Init => CopyInv
<1> SUFFICES ASSUME Exchange!Init PROVE CopyInv
  OBVIOUS
<1>1. 0 \in 0 .. MaxWrites /\ 1 \in Exchange!Regs
  BY ConstantFacts DEF Exchange!Regs
<1>2. Exchange!TypeOK
  BY <1>1, WholeType DEF Exchange!Init, Exchange!TypeOK, Exchange!Bytes
<1>3. Taken(NumRegs + 1) /\ dpc = "idle" /\ ~ob_9a_upd /\ i = 1
  BY DEF Exchange!Init, Taken
<1> QED
  BY <1>2, <1>3 DEF CopyInv, CopyHolds

LEMMA CopyTypesStep ==
  Exchange!TypeOK /\ (Exchange!Next \/ UNCHANGED registers) => Exchange!TypeOK'
<1> SUFFICES ASSUME Exchange!TypeOK, Exchange!Next \/ UNCHANGED registers
             PROVE  Exchange!TypeOK'
  OBVIOUS
<1> USE ConstantFacts
    DEF Exchange!TypeOK, Exchange!object, Exchange!copy, Exchange!history
<1>0. \A w \in 0 .. MaxWrites : Exchange!Whole(w) \in [Exchange!Bytes -> 0 .. MaxWrites]
  BY WholeType
<1>1. CASE UNCHANGED registers
  BY <1>1 DEF registers
<1>2. CASE Exchange!ScadaWrite
  <2>1. writes' \in 0 .. MaxWrites /\ clean' \in BOOLEAN
    BY <1>2 DEF Exchange!ScadaWrite, Exchange!NewWrite
  <2> QED
    BY <1>0, <1>2, <2>1 DEF Exchange!ScadaWrite
<1>3. ASSUME NEW r \in Exchange!Regs, Exchange!ProgramWrite(r) PROVE Exchange!TypeOK'
  <2>1. writes' \in 0 .. MaxWrites
    BY <1>3 DEF Exchange!ProgramWrite, Exchange!NewWrite
  <2> QED
    BY <1>0, <1>3, <2>1 DEF Exchange!ProgramWrite
<1>4. CASE Exchange!Update \/ Exchange!TakeClear
  BY <1>4 DEF Exchange!Update, Exchange!TakeClear
<1>5. CASE Exchange!TakeFirst
  BY <1>5 DEF Exchange!TakeFirst
<1>6. CASE Exchange!TakeSecond
  <2>1. [answer_9a[i] EXCEPT ![first] = held] \in [Exchange!Bytes -> 0 .. MaxWrites]
    OBVIOUS
  <2>2. scada_regs' \in [Exchange!Regs -> [Exchange!Bytes -> 0 .. MaxWrites]]
    BY <1>6, <2>1 DEF Exchange!TakeSecond
  <2>3. i' \in Exchange!Regs
    BY <1>6 DEF Exchange!TakeSecond, Exchange!Regs
  <2>4. first' \in Exchange!Bytes /\ held' \in 0 .. MaxWrites
    BY <1>6 DEF Exchange!TakeSecond, Exchange!Bytes
  <2> QED
    BY <1>6, <2>2, <2>3, <2>4 DEF Exchange!TakeSecond
<1>7. CASE Exchange!GiveLow \/ Exchange!GiveHigh
  <2>1. answer_9a' \in [Exchange!Regs -> [Exchange!Bytes -> 0 .. MaxWrites]]
    BY <1>7 DEF Exchange!GiveLow, Exchange!GiveHigh, Exchange!Bytes
  <2>2. i' \in Exchange!Regs
    BY <1>7 DEF Exchange!GiveLow, Exchange!GiveHigh, Exchange!Regs
  <2> QED
    BY <1>7, <2>1, <2>2 DEF Exchange!GiveLow, Exchange!GiveHigh
<1> QED
  BY <1>1, <1>2, <1>3, <1>4, <1>5, <1>6, <1>7 DEF Exchange!Next, Exchange!Copy

\* The register completed by the second byte is whole.
LEMMA TakenGrows ==
  ASSUME Exchange!TypeOK, CopyHolds, Exchange!TakeSecond
  PROVE  \A r \in Exchange!Regs : r < i + 1 => scada_regs'[r] = Exchange!Whole(expected[r])
<1>1. /\ Waits /\ Taken(i) /\ held = expected[i] /\ i \in Exchange!Regs
      /\ scada_regs \in [Exchange!Regs -> [Exchange!Bytes -> 0 .. MaxWrites]]
  BY DEF CopyHolds, Exchange!TakeSecond, Exchange!TypeOK
<1>2. scada_regs' = [scada_regs EXCEPT ![i] = [answer_9a[i] EXCEPT ![first] = held]]
  BY DEF Exchange!TakeSecond
<1>3. [answer_9a[i] EXCEPT ![first] = held] = Exchange!Whole(expected[i])
  BY <1>1 DEF Waits, Exchange!Whole
<1>4. scada_regs'[i] = Exchange!Whole(expected[i])
  BY <1>1, <1>2, <1>3
<1>5. \A r \in Exchange!Regs : r # i => scada_regs'[r] = scada_regs[r]
  BY <1>1, <1>2
<1> QED
  BY <1>1, <1>4, <1>5 DEF Taken, Exchange!Regs

LEMMA CopyHoldsStep ==
  ASSUME CopyInv, Exchange!Next \/ UNCHANGED registers, clean'
  PROVE  CopyHolds'
<1>0. Exchange!TypeOK /\ clean \in BOOLEAN
  BY DEF CopyInv, Exchange!TypeOK
<1>1. clean
  BY <1>0 DEF Exchange!Next, Exchange!ScadaWrite, Exchange!ProgramWrite, Exchange!Copy,
     Exchange!Update, Exchange!TakeFirst, Exchange!TakeSecond, Exchange!TakeClear,
     Exchange!GiveLow, Exchange!GiveHigh, Exchange!history, registers
<1>2. CopyHolds
  BY <1>1 DEF CopyInv
<1> USE <1>0, <1>2, ConstantFacts DEF Exchange!object, Exchange!copy, Exchange!history
<1>3. CASE UNCHANGED registers
  BY <1>3 DEF registers, CopyHolds, Taken, Waits
<1>4. CASE Exchange!ScadaWrite
  <2>1. dpc = "idle" /\ dpc' = "idle" /\ i' = i /\ ob_9a_upd'
    BY <1>4 DEF Exchange!ScadaWrite
  <2>2. \A r \in Exchange!Regs : answer_9a'[r] = Exchange!Whole(expected'[r])
    BY <1>4 DEF Exchange!ScadaWrite, Exchange!Whole
  <2> QED
    BY <2>1, <2>2 DEF CopyHolds, Waits
<1>5. ASSUME NEW s \in Exchange!Regs, Exchange!ProgramWrite(s) PROVE CopyHolds'
  <2>1. dpc = "idle" /\ dpc' = "idle" /\ i' = i /\ ob_9a_upd' = ob_9a_upd
    BY <1>5 DEF Exchange!ProgramWrite
  <2>2. CASE ob_9a_upd
    BY <1>5, <2>1, <2>2 DEF Exchange!ProgramWrite, CopyHolds, Waits, Exchange!Whole
  <2>3. CASE ~ob_9a_upd
    <3>1. \A r \in Exchange!Regs : scada_regs[r] = Exchange!Whole(expected[r])
      BY <2>1, <2>3 DEF CopyHolds, Waits, Taken, Exchange!Regs
    <3>2. scada_regs'[s] = Exchange!Whole(writes') /\ expected'[s] = writes'
      BY <1>5, <2>3 DEF Exchange!ProgramWrite, Exchange!TypeOK
    <3>3. \A r \in Exchange!Regs :
            r # s => scada_regs'[r] = scada_regs[r] /\ expected'[r] = expected[r]
      BY <1>5, <2>3 DEF Exchange!ProgramWrite, Exchange!TypeOK
    <3>4. Taken(NumRegs + 1)'
      BY <3>1, <3>2, <3>3 DEF Taken, Exchange!Whole
    <3> QED
      BY <2>1, <2>3, <3>4 DEF CopyHolds
  <2> QED
    BY <2>2, <2>3
<1>6. CASE Exchange!Update
  BY <1>6 DEF Exchange!Update, CopyHolds, Taken, Waits, Exchange!Regs
<1>7. CASE Exchange!TakeFirst
  <2>1. held' = expected[i]
    BY <1>7 DEF Exchange!TakeFirst, CopyHolds, Waits, Exchange!Whole, Exchange!TypeOK
  <2> QED
    BY <1>7, <2>1 DEF Exchange!TakeFirst, CopyHolds, Taken, Waits
<1>8. CASE Exchange!TakeSecond
  <2>1. \A r \in Exchange!Regs : r < i + 1 => scada_regs'[r] = Exchange!Whole(expected'[r])
    BY <1>8, TakenGrows DEF Exchange!TakeSecond
  <2>2. Waits'
    BY <1>8 DEF Exchange!TakeSecond, CopyHolds, Waits
  <2>3. CASE i < NumRegs
    BY <1>8, <2>1, <2>2, <2>3 DEF Exchange!TakeSecond, CopyHolds, Taken
  <2>4. CASE ~(i < NumRegs)
    <3>1. i = NumRegs /\ dpc' = "clear" /\ i' = 1
      BY <1>8, <2>4 DEF Exchange!TakeSecond, Exchange!TypeOK, Exchange!Regs
    <3>2. Taken(NumRegs + 1)'
      BY <2>1, <3>1 DEF Taken
    <3> QED
      BY <2>2, <3>1, <3>2 DEF CopyHolds
  <2> QED
    BY <2>3, <2>4
<1>9. CASE Exchange!TakeClear
  BY <1>9 DEF Exchange!TakeClear, CopyHolds, Taken
<1>10. CASE Exchange!GiveLow \/ Exchange!GiveHigh
  <2>1. /\ scada_regs' = scada_regs /\ expected' = expected /\ ob_9a_upd' = ob_9a_upd
        /\ dpc' \in {"lo", "hi"} \/ (dpc' = "idle" /\ i' = 1)
        /\ dpc \in {"lo", "hi"}
    BY <1>10 DEF Exchange!GiveLow, Exchange!GiveHigh
  <2> QED
    BY <2>1 DEF CopyHolds, Taken
<1> QED
  BY <1>3, <1>4, <1>5, <1>6, <1>7, <1>8, <1>9, <1>10 DEF Exchange!Next, Exchange!Copy

LEMMA CopyStep == CopyInv /\ (Exchange!Next \/ UNCHANGED registers) => CopyInv'
BY CopyTypesStep, CopyHoldsStep DEF CopyInv

LEMMA CopyArrives == CopyInv => WritesArrive
<1> SUFFICES ASSUME CopyInv, clean, dpc = "idle", NEW r \in Exchange!Regs
             PROVE  (IF ob_9a_upd THEN answer_9a ELSE scada_regs)[r] = Exchange!Whole(expected[r])
  BY DEF WritesArrive, Exchange!WritesArrive
<1>1. Waits \/ (~ob_9a_upd /\ Taken(NumRegs + 1))
  BY DEF CopyInv, CopyHolds
<1> QED
  BY <1>1, ConstantFacts DEF Waits, Taken, Exchange!Regs

-----------------------------------------------------------------------------
(* The two together. *)

IInv == LinkInv /\ CopyInv

LEMMA Parts ==
  [Next]_vars => /\ Status!Next \/ UNCHANGED link
                 /\ Exchange!Next \/ UNCHANGED registers
BY DEF Next, vars, GetAnswer, CanTask, DefaultTask, ProgTask, Scada, Status!Next, Exchange!Next

LEMMA Invariant == Spec => []IInv
<1>1. Init => IInv
  BY LinkInit, CopyInit DEF Init, IInv
<1>2. IInv /\ [Next]_vars => IInv'
  BY Parts, LinkTypesStep, AnnouncedStep, CopyStep DEF IInv, LinkInv
<1> QED
  BY <1>1, <1>2, PTL DEF Spec

\* For every limit, every pair of rounds, every width of the counter and any number of
\* registers, every variable keeps its type: the timer of the link never passes its limit.
THEOREM TypeCorrect == Spec => []TypeOK
<1>1. IInv => TypeOK
  BY DEF IInv, LinkInv, LinkTypes, CopyInv, TypeOK
<1> QED
  BY <1>1, Invariant, PTL

\* Wherever requests come between the accesses of canTask: with the flag of the link down,
\* the two frames say what the state is, unless it changed after they were built.
THEOREM AlwaysAnnounced == Spec => []NothingUnannounced
<1>1. IInv => NothingUnannounced
  BY DEF IInv, LinkInv
<1> QED
  BY <1>1, Invariant, PTL

\* Whatever the order in which the two bytes of a register are read: a write acknowledged
\* to SCADA waits or is what the program finds, whole and in every register, unless a
\* write met a copy.
THEOREM WritesAlwaysArrive == Spec => []WritesArrive
<1>1. IInv => WritesArrive
  BY CopyArrives DEF IInv
<1> QED
  BY <1>1, Invariant, PTL

-----------------------------------------------------------------------------
(* The sessions: their numbers are the least there are. *)

LEMMA MinIn ==
  ASSUME NEW S \in SUBSET Nat, S # {}
  PROVE  Min(S) \in S
<1>1. PICK x \in S : \A y \in S : ~(<<y, x>> \in OpToRel(<, Nat))
  BY NatLessThanWellFounded, WFMin
<1>2. ASSUME NEW y \in S PROVE x =< y
  <2>1. <<y, x>> \in Nat \X Nat /\ ~(y < x)
    BY <1>1 DEF OpToRel
  <2> QED
    BY <2>1
<1> QED
  BY <1>2 DEF Min

-----------------------------------------------------------------------------
(* The sessions: types. *)

SessionLabels == {"offered", "pick", "load", "store", "ready", "copy", "unclaim", "clear", "closed"}

\* From Pick to FreeStore a session has a number.
Numbered == {"load", "store", "ready", "copy", "unclaim", "clear"}

TypeInv == ServerTypeOK /\ \A c \in Conns : spc[c] \in Numbered => num[c] \in Slots

LEMMA TypeInit == ServerInit => TypeInv
<1> SUFFICES ASSUME ServerInit PROVE TypeInv
  OBVIOUS
<1>1. /\ 0 \in 0 .. Size /\ 0 \in 0 .. MaxRequests
      /\ None \in [slot : Slots \cup {0}, request : 0 .. MaxRequests, whole : BOOLEAN]
  BY ServerAssumption DEF None
<1> QED
  BY <1>1 DEF ServerInit, TypeInv, ServerTypeOK, Numbered

LEMMA GotoFacts ==
  ASSUME ServerTypeOK, NEW c \in Conns, NEW from, NEW to, Goto(c, from, to)
  PROVE  /\ spc[c] = from /\ spc'[c] = to
         /\ \A d \in Conns : d # c => spc'[d] = spc[d]
         /\ to \in SessionLabels => spc' \in [Conns -> SessionLabels]
BY DEF Goto, ServerTypeOK, SessionLabels

LEMMA TypeStep == TypeInv /\ [ServerNext \/ Over]_server_vars => TypeInv'
<1> SUFFICES ASSUME TypeInv, [ServerNext \/ Over]_server_vars PROVE TypeInv'
  OBVIOUS
<1>1. ServerTypeOK /\ \A c \in Conns : spc[c] \in Numbered => num[c] \in Slots
  BY DEF TypeInv
<1>2. CASE Over \/ UNCHANGED server_vars
  BY <1>1, <1>2
     DEF Over, server_vars, session, answer, stack, history, TypeInv, ServerTypeOK
<1>3. ASSUME NEW c \in Conns,
             Accept(c) \/ Session(c) \/ Request(c) \/ End(c) \/ Send(c)
      PROVE  TypeInv'
  <2>1. CASE Accept(c)
    <3>1. spc' \in [Conns -> SessionLabels] /\ \A d \in Conns : spc'[d] \in Numbered => spc[d] = spc'[d]
      BY <1>1, <2>1, GotoFacts DEF Accept, SessionLabels, Numbered
    <3> QED
      BY <1>1, <2>1, <3>1 DEF Accept, answer, stack, history, TypeInv, ServerTypeOK, SessionLabels
  <2>2. CASE Pick(c)
    <3>1. nums # Slots => Min(Slots \ nums) \in Slots
      <4>1. Slots \ nums \in SUBSET Nat /\ (nums # Slots => Slots \ nums # {})
        BY <1>1, ServerAssumption DEF ServerTypeOK
      <4> QED
        BY <4>1, MinIn
    <3>2. spc' \in [Conns -> SessionLabels] /\ num' \in [Conns -> Slots \cup {0}] /\ raced' \in BOOLEAN
      BY <1>1, <2>2, <3>1, GotoFacts DEF Pick, SessionLabels, ServerTypeOK, Others
    <3>3. \A d \in Conns : spc'[d] \in Numbered => num'[d] \in Slots
      BY <1>1, <2>2, <3>1, GotoFacts DEF Pick, SessionLabels, ServerTypeOK, Numbered
    <3> QED
      BY <1>1, <2>2, <3>2, <3>3 DEF Pick, answer, stack, TypeInv, ServerTypeOK, SessionLabels
  <2>3. CASE ClaimLoad(c) \/ FreeLoad(c)
    <3>1. PICK from \in {"load", "unclaim"}, to \in {"store", "clear"} : Load(c, from, to)
      BY <2>3 DEF ClaimLoad, FreeLoad
    <3>2. /\ spc' \in [Conns -> SessionLabels] /\ nums_read' \in [Conns -> SUBSET Slots]
          /\ raced' \in BOOLEAN
      BY <1>1, <3>1, GotoFacts DEF Load, SessionLabels, ServerTypeOK, Others
    <3>3. \A d \in Conns : spc'[d] \in Numbered => num'[d] \in Slots
      BY <1>1, <3>1, GotoFacts DEF Load, Numbered
    <3> QED
      BY <1>1, <3>1, <3>2, <3>3 DEF Load, answer, stack, TypeInv, ServerTypeOK, SessionLabels
  <2>4. CASE ClaimStore(c)
    <3>1. /\ spc' \in [Conns -> SessionLabels] /\ nums_read' \in [Conns -> SUBSET Slots]
          /\ nums' \subseteq Slots
          /\ \A d \in Conns : spc'[d] \in Numbered => num'[d] \in Slots
      BY <1>1, <2>4, GotoFacts DEF ClaimStore, SessionLabels, ServerTypeOK, Numbered
    <3> QED
      BY <1>1, <2>4, <3>1 DEF ClaimStore, answer, stack, history, TypeInv, ServerTypeOK, SessionLabels
  <2>5. CASE FreeStore(c)
    <3>1. /\ spc' \in [Conns -> SessionLabels] /\ nums_read' \in [Conns -> SUBSET Slots]
          /\ nums' \subseteq Slots /\ num' \in [Conns -> Slots \cup {0}]
          /\ \A d \in Conns : spc'[d] \in Numbered => num'[d] \in Slots
      BY <1>1, <2>5, GotoFacts DEF FreeStore, SessionLabels, ServerTypeOK, Numbered
    <3> QED
      BY <1>1, <2>5, <3>1 DEF FreeStore, answer, stack, history, TypeInv, ServerTypeOK, SessionLabels
  <2>6. CASE End(c)
    <3>1. /\ spc' \in [Conns -> SessionLabels]
          /\ \A d \in Conns : spc'[d] \in Numbered => num'[d] \in Slots
      BY <1>1, <2>6, GotoFacts DEF End, SessionLabels, Numbered
    <3> QED
      BY <1>1, <2>6, <3>1 DEF End, answer, stack, history, TypeInv, ServerTypeOK, SessionLabels
  <2>7. CASE Request(c)
    <3>1. /\ spc' \in [Conns -> SessionLabels]
          /\ \A d \in Conns : spc'[d] \in Numbered => num'[d] \in Slots
      BY <1>1, <2>7, GotoFacts DEF Request, SessionLabels, Numbered
    <3>2. /\ asked' \in [Conns -> 0 .. MaxRequests] /\ asked'[c] \in 0 .. MaxRequests
          /\ len' \in [Conns -> Nat] /\ straight' \in [Conns -> BOOLEAN] /\ shared_i' \in 0 .. Size
      BY <1>1, <2>7, ServerAssumption DEF Request, ServerTypeOK
    <3>3. out_buf' \in [Slots -> SUBSET (Conns \X (0 .. MaxRequests))]
      <4> DEFINE T == SUBSET (Conns \X (0 .. MaxRequests))
      <4>1. {<<c, asked'[c]>>} \in T
        BY <3>2
      <4> HIDE DEF T
      <4>2. out_buf' \in [Slots -> T]
        BY <1>1, <2>7, <4>1 DEF Request, ServerTypeOK, T
      <4> QED
        BY <4>2 DEF T
    <3>4. mixed' \in BOOLEAN
      BY <1>1, <2>7 DEF Request, ServerTypeOK, Others
    <3> QED
      BY <1>1, <2>7, <3>1, <3>2, <3>3, <3>4 DEF Request, TypeInv, ServerTypeOK, SessionLabels
  <2>8. CASE CopyByte(c)
    <3>1. len' \in [Conns -> Nat] /\ shared_i' \in 0 .. Size
      BY <1>1, <2>8, ServerAssumption DEF CopyByte, ServerTypeOK
    <3>3. out_buf' \in [Slots -> SUBSET (Conns \X (0 .. MaxRequests))]
      <4> DEFINE T == SUBSET (Conns \X (0 .. MaxRequests))
      <4>1. num[c] \in Slots => out_buf[num[c]] \cup {<<c, asked[c]>>} \in T
        BY <1>1 DEF ServerTypeOK
      <4> HIDE DEF T
      <4>2. out_buf' \in [Slots -> T]
        BY <1>1, <2>8, <4>1 DEF CopyByte, ServerTypeOK, T
      <4> QED
        BY <4>2 DEF T
    <3>2. straight' \in [Conns -> BOOLEAN]
      BY <1>1, <2>8 DEF CopyByte, ServerTypeOK
    <3> QED
      BY <1>1, <2>8, <3>1, <3>2, <3>3 DEF CopyByte, session, stack, history, TypeInv, ServerTypeOK
  <2>9. CASE Write(c)
    <3>1. /\ spc' \in [Conns -> SessionLabels]
          /\ \A d \in Conns : spc'[d] \in Numbered => num'[d] \in Slots
      BY <1>1, <2>9, GotoFacts DEF Write, SessionLabels, Numbered
    <3>2. [slot |-> num[c], request |-> asked[c], whole |-> straight[c] /\ len[c] = Size]
            \in [slot : Slots \cup {0}, request : 0 .. MaxRequests, whole : BOOLEAN]
      BY <1>1 DEF ServerTypeOK
    <3>3. /\ unsent' \in [Conns -> [slot : Slots \cup {0}, request : 0 .. MaxRequests,
                                    whole : BOOLEAN]]
          /\ len' \in [Conns -> Nat] /\ straight' \in [Conns -> BOOLEAN]
      BY <1>1, <2>9, <3>2 DEF Write, ServerTypeOK
    <3> QED
      BY <1>1, <2>9, <3>1, <3>3 DEF Write, history, TypeInv, ServerTypeOK, SessionLabels
  <2>10. CASE Send(c)
    <3>1. None \in [slot : Slots \cup {0}, request : 0 .. MaxRequests, whole : BOOLEAN]
      BY ServerAssumption DEF None
    <3>2. wrong' \in BOOLEAN
      BY <1>1, <2>10 DEF Send, ServerTypeOK
    <3> QED
      BY <1>1, <2>10, <3>1, <3>2 DEF Send, session, answer, TypeInv, ServerTypeOK
  <2> QED
    BY <1>3, <2>1, <2>2, <2>3, <2>4, <2>5, <2>6, <2>7, <2>8, <2>9, <2>10 DEF Session
<1> QED
  BY <1>2, <1>3 DEF ServerNext

-----------------------------------------------------------------------------
(* The numbers, as long as no two sessions have been in nums at once.       *)

Apart(at) == \A c, d \in Conns : spc[c] \in at /\ spc[d] \in at => c = d

SlotsHold ==
  /\ nums = {num[c] : c \in Holders}
  /\ \A c, d \in Holders : num[c] = num[d] => c = d
  /\ \A c \in Conns : spc[c] \in {"load", "store"} => num[c] \notin nums
  /\ \A c \in Conns : spc[c] \in {"store", "clear"} => nums_read[c] = nums
  /\ Apart({"load", "store"}) /\ Apart({"store", "clear"})

SlotsInv == ~raced => SlotsHold

LEMMA SlotsInit == ServerInit => SlotsInv
BY DEF ServerInit, SlotsInv, SlotsHold, Holders, Apart

\* A step that leaves the numbers and nums alone and moves nobody into, out of or
\* about them.
LEMMA SlotsFrame ==
  ASSUME SlotsHold, UNCHANGED <<nums, num, nums_read>>, Holders' = Holders,
         \A c \in Conns : spc'[c] \in {"load", "store", "clear"} => spc'[c] = spc[c]
  PROVE  SlotsHold'
<1>1. Apart({"load", "store"})' /\ Apart({"store", "clear"})'
  BY DEF SlotsHold, Apart
<1>2. /\ \A c \in Conns : spc'[c] \in {"load", "store"} => num'[c] \notin nums'
      /\ \A c \in Conns : spc'[c] \in {"store", "clear"} => nums_read'[c] = nums'
  BY DEF SlotsHold
<1>3. nums' = {num'[c] : c \in Holders'} /\ \A c, d \in Holders' : num'[c] = num'[d] => c = d
  BY DEF SlotsHold
<1> QED
  BY <1>1, <1>2, <1>3 DEF SlotsHold

LEMMA SlotsPick ==
  ASSUME TypeInv, SlotsHold, NEW c \in Conns, Pick(c), ~raced'
  PROVE  SlotsHold'
<1>1. /\ ServerTypeOK /\ spc[c] = "pick" /\ \A d \in Conns \ {c} : spc'[d] = spc[d]
      /\ nums' = nums /\ nums_read' = nums_read
  BY GotoFacts DEF TypeInv, Pick
<1>2. Holders' = Holders
  BY <1>1, GotoFacts DEF Pick, Holders
<1>3. CASE nums = Slots
  <2>1. num' = num /\ spc'[c] = "closed"
    BY <1>1, <1>3, GotoFacts DEF Pick
  <2> QED
    BY <1>1, <1>2, <2>1, SlotsFrame
<1>4. CASE nums # Slots
  <2>1. /\ spc'[c] = "load" /\ num' = [num EXCEPT ![c] = Min(Slots \ nums)]
        /\ ~Others(c, {"load", "store"})
    BY <1>1, <1>4, GotoFacts DEF Pick
  <2>2. Slots \ nums \in SUBSET Nat /\ Slots \ nums # {}
    BY <1>1, <1>4, ServerAssumption DEF ServerTypeOK
  <2>3. Min(Slots \ nums) \notin nums
    BY <2>2, MinIn
  <2>4. num'[c] \notin nums /\ \A d \in Conns \ {c} : num'[d] = num[d]
    BY <1>1, <2>1, <2>3 DEF ServerTypeOK
  <2>5. c \notin Holders
    BY <1>1 DEF Holders
  <2>6. nums' = {num'[d] : d \in Holders'} /\ \A d, e \in Holders' : num'[d] = num'[e] => d = e
    BY <1>1, <1>2, <2>4, <2>5 DEF SlotsHold, Holders
  <2>7. Apart({"load", "store"})' /\ Apart({"store", "clear"})'
    BY <1>1, <2>1 DEF SlotsHold, Apart, Others
  <2>8. /\ \A d \in Conns : spc'[d] \in {"load", "store"} => num'[d] \notin nums'
        /\ \A d \in Conns : spc'[d] \in {"store", "clear"} => nums_read'[d] = nums'
    BY <1>1, <2>1, <2>4 DEF SlotsHold
  <2> QED
    BY <2>6, <2>7, <2>8 DEF SlotsHold
<1> QED
  BY <1>3, <1>4

LEMMA SlotsLoad ==
  ASSUME TypeInv, SlotsHold, NEW c \in Conns, ClaimLoad(c) \/ FreeLoad(c), ~raced'
  PROVE  SlotsHold'
<1>1. /\ ServerTypeOK /\ \A d \in Conns \ {c} : spc'[d] = spc[d] /\ nums_read'[d] = nums_read[d]
      /\ nums' = nums /\ num' = num /\ nums_read'[c] = nums
      /\ \/ spc[c] = "load" /\ spc'[c] = "store"
         \/ spc[c] = "unclaim" /\ spc'[c] = "clear"
      /\ ~Others(c, {"store", "clear"})
  BY GotoFacts DEF TypeInv, ServerTypeOK, ClaimLoad, FreeLoad, Load
<1>2. Holders' = Holders
  BY <1>1 DEF Holders
<1>3. Apart({"load", "store"})' /\ Apart({"store", "clear"})'
  BY <1>1 DEF SlotsHold, Apart, Others
<1>4. /\ \A d \in Conns : spc'[d] \in {"load", "store"} => num'[d] \notin nums'
      /\ \A d \in Conns : spc'[d] \in {"store", "clear"} => nums_read'[d] = nums'
  BY <1>1 DEF SlotsHold
<1>5. nums' = {num'[d] : d \in Holders'} /\ \A d, e \in Holders' : num'[d] = num'[e] => d = e
  BY <1>1, <1>2 DEF SlotsHold
<1> QED
  BY <1>3, <1>4, <1>5 DEF SlotsHold

LEMMA SlotsClaim ==
  ASSUME TypeInv, SlotsHold, NEW c \in Conns, ClaimStore(c)
  PROVE  SlotsHold'
<1>1. /\ ServerTypeOK /\ spc[c] = "store" /\ spc'[c] = "ready"
      /\ \A d \in Conns \ {c} : spc'[d] = spc[d] /\ nums_read'[d] = nums_read[d]
      /\ num' = num /\ nums' = nums_read[c] \cup {num[c]}
  BY GotoFacts DEF TypeInv, ServerTypeOK, ClaimStore
<1>2. /\ nums' = nums \cup {num[c]} /\ num[c] \notin nums
      /\ \A d \in Conns \ {c} : spc'[d] \notin {"load", "store", "clear"}
  BY <1>1 DEF SlotsHold, Apart
<1>3. Holders' = Holders \cup {c}
  BY <1>1 DEF Holders
<1>4. nums' = {num'[d] : d \in Holders'} /\ \A d, e \in Holders' : num'[d] = num'[e] => d = e
  BY <1>1, <1>2, <1>3 DEF SlotsHold
<1> QED
  BY <1>1, <1>2, <1>4 DEF SlotsHold, Apart

LEMMA SlotsFree ==
  ASSUME TypeInv, SlotsHold, NEW c \in Conns, FreeStore(c)
  PROVE  SlotsHold'
<1>1. /\ ServerTypeOK /\ spc[c] = "clear" /\ spc'[c] = "closed"
      /\ \A d \in Conns \ {c} : spc'[d] = spc[d] /\ nums_read'[d] = nums_read[d] /\ num'[d] = num[d]
      /\ nums' = nums_read[c] \ {num[c]}
  BY GotoFacts DEF TypeInv, ServerTypeOK, FreeStore
<1>2. /\ nums' = nums \ {num[c]}
      /\ \A d \in Conns \ {c} : spc'[d] \notin {"store", "clear"}
  BY <1>1 DEF SlotsHold, Apart
<1>3. Holders' = Holders \ {c} /\ c \in Holders
  BY <1>1 DEF Holders
<1>4. nums' = {num'[d] : d \in Holders'} /\ \A d, e \in Holders' : num'[d] = num'[e] => d = e
  BY <1>1, <1>2, <1>3 DEF SlotsHold, Holders
<1>5. /\ \A d \in Conns : spc'[d] \in {"load", "store"} => num'[d] \notin nums'
      /\ Apart({"load", "store"})'
  BY <1>1, <1>2 DEF SlotsHold, Apart
<1> QED
  BY <1>1, <1>2, <1>4, <1>5 DEF SlotsHold, Apart

LEMMA SlotsStep == TypeInv /\ SlotsInv /\ [ServerNext \/ Over]_server_vars => SlotsInv'
<1> SUFFICES ASSUME TypeInv, SlotsInv, [ServerNext \/ Over]_server_vars, ~raced' PROVE SlotsHold'
  BY DEF SlotsInv
<1>1. ServerTypeOK /\ (~raced => SlotsHold)
  BY DEF TypeInv, SlotsInv
<1>2. CASE Over \/ UNCHANGED server_vars
  BY <1>1, <1>2, SlotsFrame DEF Over, server_vars, session, history, Holders
<1>3. ASSUME NEW c \in Conns,
             Accept(c) \/ Session(c) \/ Request(c) \/ End(c) \/ Send(c)
      PROVE  SlotsHold'
  <2>1. ~raced
    BY <1>3, Zenon
       DEF Accept, Session, Pick, ClaimLoad, FreeLoad, Load, ClaimStore, FreeStore, CopyByte,
           Write, Request, End, Send, history
  <2>2. SlotsHold
    BY <1>1, <2>1
  <2>3. CASE Accept(c) \/ End(c) \/ Request(c) \/ Write(c)
    <3>1. /\ UNCHANGED <<nums, num, nums_read>>
          /\ \A d \in Conns \ {c} : spc'[d] = spc[d]
          /\ spc[c] \in {"ready", "copy"} <=> spc'[c] \in {"ready", "copy", "unclaim"}
          /\ spc[c] \in {"offered", "ready", "copy"}
          /\ spc'[c] \in {"pick", "closed", "ready", "copy", "unclaim"}
      BY <1>1, <2>3, GotoFacts DEF Accept, End, Request, Write
    <3>2. Holders' = Holders
      BY <3>1 DEF Holders
    <3> QED
      BY <2>2, <3>1, <3>2, SlotsFrame
  <2>4. CASE CopyByte(c) \/ Send(c)
    BY <2>2, <2>4, SlotsFrame DEF CopyByte, Send, session, Holders
  <2> QED
    BY <1>3, <2>2, <2>3, <2>4, SlotsPick, SlotsLoad, SlotsClaim, SlotsFree DEF Session
<1> QED
  BY <1>2, <1>3 DEF ServerNext

\* As many numbers as sessions: the numbers tell the sessions apart.
LEMMA SlotsCounted ==
  ASSUME ServerTypeOK, SlotsHold
  PROVE  Cardinality(nums) = Cardinality(Holders)
<1> DEFINE f == [c \in Holders |-> num[c]]
<1>1. IsFiniteSet(nums)
  BY ServerAssumption, FS_Subset DEF ServerTypeOK
<1>2. f \in Injection(Holders, nums) /\ f \in Surjection(Holders, nums)
  BY DEF SlotsHold, Injection, IsInjective, Surjection
<1> QED
  BY <1>1, <1>2, FS_Injection

\* For any number of sessions: nums is the numbers of the sessions there are,
\* each with one of its own, until two sessions are in nums at once
\* (ethipserver_thread).
THEOREM OwnSlotAlways == ServerSpec => []OwnSlot
<1>1. TypeInv /\ SlotsInv => OwnSlot
  BY SlotsCounted DEF TypeInv, SlotsInv, SlotsHold, OwnSlot
<1> QED
  BY TypeInit, TypeStep, SlotsInit, SlotsStep, <1>1, PTL DEF ServerSpec

-----------------------------------------------------------------------------
(* The answers, as long as no two sessions have filled answers at once and  *)
(* none has filled a slot with an answer unsent.                            *)

\* The answer under way is in its slot alone, as far as it has come.
Filling(c) ==
  /\ shared_i = len[c] /\ straight[c] /\ out_buf[num[c]] = {<<c, asked[c]>>}
  /\ \A d \in Conns : unsent[d] # None => unsent[d].slot # num[c]

\* The answer the stack has yet to send is whole, and alone in its slot.
Right(c) ==
  unsent[c].whole /\ unsent[c].slot \in Slots /\ out_buf[unsent[c].slot] = {<<c, unsent[c].request>>}

AnswersHold ==
  /\ ~wrong /\ Apart({"copy"})
  /\ \A c \in Conns : spc[c] = "copy" => Filling(c)
  /\ \A c \in Conns : unsent[c] # None => Right(c)

AnswersInv == ~mixed => AnswersHold

LEMMA AnswersInit == ServerInit => AnswersInv
BY DEF ServerInit, AnswersInv, AnswersHold, Apart

\* A step that neither fills nor sends anything.
LEMMA AnswersFrame ==
  ASSUME AnswersHold, UNCHANGED <<answer, stack, wrong>>,
         \A c \in Conns : spc'[c] = "copy" => spc[c] = "copy" /\ num'[c] = num[c]
  PROVE  AnswersHold'
BY DEF AnswersHold, Apart, Filling, Right, answer, stack

LEMMA AnswersRequest ==
  ASSUME TypeInv, AnswersHold, NEW c \in Conns, Request(c), ~mixed'
  PROVE  AnswersHold'
<1>1. /\ ServerTypeOK /\ num[c] \in Slots
      /\ spc'[c] = "copy" /\ \A d \in Conns \ {c} : spc'[d] = spc[d] /\ spc[d] # "copy"
      /\ \A d \in Conns : unsent[d].slot # num[c]
      /\ num' = num /\ unsent' = unsent /\ wrong' = wrong /\ unsent[c] = None
  BY GotoFacts DEF TypeInv, Request, Others, Numbered
<1>2. /\ shared_i' = 0 /\ len'[c] = 0 /\ straight'[c] = TRUE
      /\ out_buf'[num[c]] = {<<c, asked'[c]>>}
      /\ \A n \in Slots \ {num[c]} : out_buf'[n] = out_buf[n]
  BY <1>1 DEF Request, ServerTypeOK
<1>3. Filling(c)'
  BY <1>1, <1>2 DEF Filling
<1>4. ASSUME NEW d \in Conns, unsent'[d] # None PROVE Right(d)'
  <2>1. Right(d) /\ unsent[d].slot # num[c]
    BY <1>1, <1>4 DEF AnswersHold
  <2> QED
    BY <1>1, <1>2, <2>1 DEF Right
<1> QED
  BY <1>1, <1>3, <1>4 DEF AnswersHold, Apart

LEMMA AnswersCopy ==
  ASSUME TypeInv, AnswersHold, NEW c \in Conns, CopyByte(c)
  PROVE  AnswersHold'
<1>1. /\ ServerTypeOK /\ spc[c] = "copy" /\ UNCHANGED <<spc, num, stack, wrong>> /\ num[c] \in Slots
      /\ Filling(c) /\ \A d \in Conns \ {c} : spc[d] # "copy"
  BY DEF TypeInv, CopyByte, session, history, Numbered, AnswersHold, Apart
<1>2. out_buf' = out_buf
  <2>1. out_buf[num[c]] \cup {<<c, asked[c]>>} = out_buf[num[c]]
    BY <1>1 DEF Filling
  <2> QED
    BY <1>1, <2>1 DEF CopyByte, ServerTypeOK
<1>3. shared_i' = len'[c] /\ straight'[c]
  BY <1>1 DEF CopyByte, ServerTypeOK, Filling
<1>4. Filling(c)'
  BY <1>1, <1>2, <1>3 DEF Filling, stack
<1> QED
  BY <1>1, <1>2, <1>4 DEF AnswersHold, Apart, Right, stack

LEMMA AnswersWrite ==
  ASSUME TypeInv, AnswersHold, NEW c \in Conns, Write(c)
  PROVE  AnswersHold'
<1>1. /\ ServerTypeOK /\ num[c] \in Slots /\ Filling(c)
      /\ spc'[c] = "ready" /\ \A d \in Conns \ {c} : spc'[d] = spc[d] /\ spc[d] # "copy"
      /\ out_buf' = out_buf /\ wrong' = wrong
      /\ \A d \in Conns \ {c} : unsent'[d] = unsent[d]
  BY GotoFacts DEF TypeInv, ServerTypeOK, Write, Numbered, history, AnswersHold, Apart
<1>2. len[c] = Size /\ straight[c]
  <2>1. shared_i \in 0 .. Size /\ shared_i >= Size /\ len[c] = shared_i /\ straight[c]
    BY <1>1 DEF Filling, Write, ServerTypeOK
  <2> QED
    BY <2>1, ServerAssumption
<1>3. /\ unsent'[c].slot = num[c] /\ unsent'[c].request = asked[c]
      /\ unsent'[c].whole
  BY <1>1, <1>2 DEF Write, ServerTypeOK
<1>4. Right(c)'
  BY <1>1, <1>3 DEF Right, Filling
<1> QED
  BY <1>1, <1>4 DEF AnswersHold, Apart, Right

LEMMA AnswersSend ==
  ASSUME TypeInv, AnswersHold, NEW c \in Conns, Send(c)
  PROVE  AnswersHold'
<1>1. /\ ServerTypeOK /\ Right(c) /\ unsent'[c] = None
      /\ \A d \in Conns \ {c} : unsent'[d] = unsent[d]
      /\ UNCHANGED <<spc, num, answer, asked>>
  BY DEF TypeInv, ServerTypeOK, Send, AnswersHold, session
<1>2. ~wrong'
  BY <1>1 DEF Send, AnswersHold, Right
<1>3. \A d \in Conns : unsent'[d] # None => unsent'[d] = unsent[d] /\ unsent[d] # None
  BY <1>1
<1> QED
  BY <1>1, <1>2, <1>3 DEF AnswersHold, Apart, Filling, Right, answer

LEMMA AnswersStep == TypeInv /\ AnswersInv /\ [ServerNext \/ Over]_server_vars => AnswersInv'
<1> SUFFICES ASSUME TypeInv, AnswersInv, [ServerNext \/ Over]_server_vars, ~mixed' PROVE AnswersHold'
  BY DEF AnswersInv
<1>1. ServerTypeOK /\ (~mixed => AnswersHold)
  BY DEF TypeInv, AnswersInv
<1>2. CASE Over \/ UNCHANGED server_vars
  BY <1>1, <1>2, AnswersFrame DEF Over, server_vars, session, history
<1>3. ASSUME NEW c \in Conns,
             Accept(c) \/ Session(c) \/ Request(c) \/ End(c) \/ Send(c)
      PROVE  AnswersHold'
  <2>1. ~mixed
    BY <1>3, Zenon
       DEF Accept, Session, Pick, ClaimLoad, FreeLoad, Load, ClaimStore, FreeStore, CopyByte,
           Write, Request, End, Send, history
  <2>2. AnswersHold
    BY <1>1, <2>1
  <2>3. CASE Accept(c) \/ End(c) \/ Pick(c) \/ ClaimLoad(c) \/ ClaimStore(c) \/ FreeLoad(c)
             \/ FreeStore(c)
    <3>1. /\ UNCHANGED <<answer, stack, wrong>>
          /\ \A d \in Conns \ {c} : spc'[d] = spc[d] /\ num'[d] = num[d]
          /\ spc'[c] # "copy"
      BY <1>1, <2>3, GotoFacts
         DEF Accept, End, Pick, ClaimLoad, Load, ClaimStore, FreeLoad, FreeStore, history, ServerTypeOK
    <3> QED
      BY <2>2, <3>1, AnswersFrame
  <2> QED
    BY <1>3, <2>2, <2>3, AnswersRequest, AnswersCopy, AnswersWrite, AnswersSend DEF Session
<1> QED
  BY <1>2, <1>3 DEF ServerNext

\* For any number of sessions and any size of an answer: a client gets the answer
\* to its request and to no other, although the answers are counted in one static
\* variable and sent without a copy, until two sessions fill answers at once or
\* one fills a slot with an answer unsent (get_answer, netconn_write).
THEOREM AnswersAlwaysRight == ServerSpec => []AnswersRight
<1>1. AnswersInv => AnswersRight
  BY DEF AnswersInv, AnswersHold, AnswersRight
<1> QED
  BY TypeInit, TypeStep, AnswersInit, AnswersStep, <1>1, PTL DEF ServerSpec
===============================================================================
