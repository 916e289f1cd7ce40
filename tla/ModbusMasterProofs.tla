-------------------------- MODULE ModbusMasterProofs --------------------------
(***************************************************************************)
(* Proofs about the Modbus master, for any list of requests, any slaves,   *)
(* any length of the answers and of the buffer, and every bound.           *)
(***************************************************************************)
EXTENDS ModbusMaster, Integers, TLAPS

-----------------------------------------------------------------------------
(* The operators of the model. *)

LEMMA RequestType ==
  /\ Requests = 1 .. Len(Reqs) /\ Requests # {}
  /\ \A r \in Requests : /\ Reqs[r].slave \in Slaves /\ Reqs[r].wr_flag \in BOOLEAN
                         /\ Reqs[r].answer_length \in Nat \ {0}
<1> DEFINE R == [slave : Slaves, wr_flag : BOOLEAN, answer_length : Nat \ {0}]
<1>1. Reqs \in Seq(R) /\ Reqs # <<>>
  BY MasterAssumption
<1> HIDE DEF R
<1>2. DOMAIN Reqs = 1 .. Len(Reqs) /\ Len(Reqs) \in Nat \ {0}
  BY <1>1
<1>3. \A r \in Requests : Reqs[r] \in R
  BY <1>1, <1>2 DEF Requests
<1> QED
  BY <1>2, <1>3 DEF R, Requests

LEMMA BoundType ==
  /\ BufSize \in Nat \ {0}
  /\ MaxVal \in Nat /\ MaxLate \in Nat /\ MaxHolds \in Nat /\ MaxOutages \in Nat
BY MasterAssumption

LEMMA SilentType == Silent \notin Requests /\ Silent \notin 0 .. MaxVal
BY MasterAssumption

LEMMA FollowingType ==
  ASSUME NEW n \in Requests
  PROVE  Following(n) \in Requests
<1>1. Requests = 1 .. Len(Reqs) /\ Len(Reqs) \in Nat
  BY MasterAssumption, RequestType
<1> QED
  BY <1>1 DEF Following

LEMMA OldType ==
  ASSUME NEW bytes \in Seq(Byte)
  PROVE  Old(bytes) \in Seq(Byte) /\ Len(Old(bytes)) = Len(bytes)
<1>1. DOMAIN bytes = 1 .. Len(bytes) /\ Len(bytes) \in Nat
  OBVIOUS
<1>2. \A n \in DOMAIN bytes : [bytes[n] EXCEPT !.old = TRUE] \in Byte
  <2> TAKE n \in DOMAIN bytes
  <2>1. bytes[n] \in Byte
    BY <1>1
  <2> QED
    BY <2>1 DEF Byte
<1>3. Old(bytes) \in [1 .. Len(bytes) -> Byte]
  BY <1>1, <1>2 DEF Old
<1> QED
  BY <1>1, <1>3

LEMMA FrameType ==
  ASSUME NEW r \in Requests, TypeOK
  PROVE  /\ Frame(r) \in Seq(Byte)
         /\ \A n \in 1 .. Len(Frame(r)) : Frame(r)[n].request = r /\ Frame(r)[n].old = FALSE
<1>1. Reqs[r].answer_length \in Nat
  BY RequestType
<1>2. data[r] \in 0 .. MaxVal
  BY DEF TypeOK
<1>3. \A n \in 1 .. Reqs[r].answer_length :
        [request |-> r, place |-> n, val |-> data[r], old |-> FALSE] \in Byte
  BY <1>1, <1>2 DEF Byte
<1>4. Frame(r) \in [1 .. Reqs[r].answer_length -> Byte]
  BY <1>3 DEF Frame
<1>5. Len(Frame(r)) = Reqs[r].answer_length
  BY <1>1, <1>4
<1>6. \A n \in 1 .. Len(Frame(r)) : Frame(r)[n].request = r /\ Frame(r)[n].old = FALSE
  BY <1>5 DEF Frame
<1>7. Frame(r) \in Seq(Byte)
  BY <1>1, <1>4
<1> QED
  BY <1>6, <1>7

-----------------------------------------------------------------------------
(* Types, and the slave a variable is from. *)

LEMMA OwnSlaveInit == Init => OwnSlave
<1> SUFFICES ASSUME Init PROVE OwnSlave
  OBVIOUS
<1>1. 1 \in Requests /\ 0 \in 0 .. MaxVal /\ 0 < BufSize
  BY RequestType, BoundType
<1>2. TypeOK
  <2>1. <<>> \in Seq(Byte) /\ Len(<<>>) < BufSize
    BY BoundType
  <2>2. Nothing \in [request : Requests \cup {Silent}, old : BOOLEAN]
    BY DEF Nothing
  <2>3. from \in [Requests -> [request : Requests \cup {Silent}, old : BOOLEAN]]
    BY <2>2 DEF Init
  <2>4. vars \in [Requests -> 0 .. MaxVal] /\ data \in [Requests -> 0 .. MaxVal]
    BY <1>1 DEF Init
  <2>5. err \in [Slaves -> BOOLEAN] /\ on \in [Slaves -> BOOLEAN]
    BY DEF Init
  <2>6. late \in 0 .. MaxLate /\ holds \in 0 .. MaxHolds /\ outages \in 0 .. MaxOutages
    BY BoundType DEF Init
  <2> QED
    BY <1>1, <2>1, <2>3, <2>4, <2>5, <2>6 DEF Init, TypeOK
<1>3. \A r \in Requests : from[r].request = Silent
  BY DEF Init, Nothing
<1> QED
  BY <1>2, <1>3 DEF OwnSlave

LEMMA OwnSlaveStep == OwnSlave /\ [Next]_all => OwnSlave'
<1> SUFFICES ASSUME OwnSlave, [Next]_all PROVE OwnSlave'
  OBVIOUS
<1>t. TypeOK
  BY DEF OwnSlave
<1>o. ASSUME TypeOK', UNCHANGED from PROVE OwnSlave'
  BY <1>o DEF OwnSlave
<1>1. CASE Send
  <2>1. rx' \in Seq(Byte) /\ Len(rx') < BufSize /\ line' \in Seq(Byte)
    BY <1>1, <1>t, OldType DEF Send, TypeOK
  <2>2. sending' \in 0 .. MaxVal
    BY <1>1, <1>t DEF Send, TypeOK
  <2>3. TypeOK'
    BY <1>1, <1>t, <2>1, <2>2 DEF Send, TypeOK, program, bounds
  <2> QED
    BY <1>1, <1>o, <2>3 DEF Send, program
<1>2. CASE Clear
  <2>1. <<>> \in Seq(Byte) /\ Len(<<>>) < BufSize
    BY BoundType
  <2>2. TypeOK'
    BY <1>2, <1>t, <2>1 DEF Clear, TypeOK, program, bus, bounds
  <2> QED
    BY <1>2, <1>o, <2>2 DEF Clear, program
<1>3. CASE Analyse
  <2>1. Req.slave \in Slaves /\ mb_cnt \in Requests
    BY <1>t, RequestType DEF Req, TypeOK
  <2>2. mb_cnt' \in Requests
    BY <1>3, <2>1, FollowingType DEF Analyse
  <2>3. late' \in 0 .. MaxLate
    BY <1>3, <1>t, BoundType DEF Analyse, TypeOK
  <2>4. CASE Accepted
    <3>1. rx \in Seq(Byte) /\ rx # <<>>
      BY <1>t, <2>4 DEF TypeOK, Accepted
    <3>2. rx[1] \in Byte
      BY <3>1
    <3>3. vars' \in [Requests -> 0 .. MaxVal]
      BY <1>3, <1>t, <2>4, <3>2 DEF Analyse, Take, TypeOK, Byte
    <3>4. err' \in [Slaves -> BOOLEAN]
      BY <1>3, <1>t, <2>4 DEF Analyse, Take, TypeOK
    <3>5. from' \in [Requests -> [request : Requests \cup {Silent}, old : BOOLEAN]]
      <4>1. [request |-> rx[1].request, old |-> rx[1].old]
              \in [request : Requests \cup {Silent}, old : BOOLEAN]
        BY <3>2 DEF Byte
      <4>2. from' = [from EXCEPT ![mb_cnt] = [request |-> rx[1].request, old |-> rx[1].old]]
        BY <1>3, <2>4 DEF Analyse, Take
      <4> QED
        BY <1>t, <4>1, <4>2 DEF TypeOK
    <3>6. TypeOK'
      BY <1>3, <1>t, <2>2, <2>3, <3>3, <3>4, <3>5 DEF Analyse, TypeOK, uart, bus
    <3>7. ASSUME NEW r \in Requests, from'[r].request # Silent
          PROVE  /\ Reqs[from'[r].request].slave = Reqs[r].slave
                 /\ Reqs[from'[r].request].answer_length >= Reqs[r].answer_length
      <4>1. CASE r = mb_cnt
        <5>1. from'[r].request = rx[1].request
          BY <1>3, <1>t, <2>4, <4>1 DEF Analyse, Take, TypeOK
        <5>2. Len(rx) >= Req.answer_length /\ Reqs[rx[1].request].slave = Req.slave
          BY <2>4 DEF Accepted
        <5>3. Len(rx) = Reqs[rx[1].request].answer_length
          BY <2>4 DEF Accepted, Whole
        <5> QED
          BY <4>1, <5>1, <5>2, <5>3 DEF Req
      <4>2. CASE r # mb_cnt
        <5>1. from'[r] = from[r]
          BY <1>3, <1>t, <2>4, <4>2 DEF Analyse, Take, TypeOK
        <5> QED
          BY <3>7, <5>1 DEF OwnSlave
      <4> QED
        BY <4>1, <4>2
    <3> QED
      BY <3>6, <3>7 DEF OwnSlave
  <2>5. CASE ~Accepted
    <3>1. vars' \in [Requests -> 0 .. MaxVal]
      <4>1. vars' = vars \/ vars' = [vars EXCEPT ![mb_cnt] = 0]
        BY <1>3, <2>5 DEF Analyse, Fail
      <4>2. 0 \in 0 .. MaxVal /\ vars \in [Requests -> 0 .. MaxVal]
        BY <1>t, BoundType DEF TypeOK
      <4> HIDE DEF Requests
      <4> QED
        BY <4>1, <4>2
    <3>2. err' \in [Slaves -> BOOLEAN]
      BY <1>3, <1>t, <2>5 DEF Analyse, Fail, TypeOK
    <3>3. from' = [from EXCEPT ![mb_cnt] = Nothing]
      BY <1>3, <2>5 DEF Analyse, Fail
    <3>4. from' \in [Requests -> [request : Requests \cup {Silent}, old : BOOLEAN]]
      BY <1>t, <3>3 DEF TypeOK, Nothing
    <3>5. TypeOK'
      BY <1>3, <1>t, <2>2, <2>3, <3>1, <3>2, <3>4 DEF Analyse, TypeOK, uart, bus
    <3>6. \A r \in Requests : from'[r] = from[r] \/ from'[r].request = Silent
      BY <1>t, <3>3 DEF TypeOK, Nothing
    <3> QED
      BY <3>5, <3>6 DEF OwnSlave
  <2> QED
    BY <2>4, <2>5
<1>4. CASE Requested
  <2>1. mb_cnt \in Requests /\ data \in [Requests -> 0 .. MaxVal] /\ line \in Seq(Byte)
    BY <1>t DEF TypeOK
  <2>2. data' \in [Requests -> 0 .. MaxVal]
    BY <1>4, <1>t, <2>1 DEF Requested, TypeOK
  <2>3. line' \in Seq(Byte)
    <3>1. Frame(mb_cnt) \in Seq(Byte)
      BY <1>t, <2>1, FrameType
    <3>2. line \o Frame(mb_cnt) \in Seq(Byte)
      BY <2>1, <3>1
    <3>3. line' = line \/ line' = line \o Frame(mb_cnt)
      BY <1>4 DEF Requested
    <3> QED
      BY <2>1, <3>2, <3>3
  <2>4. holds' \in 0 .. MaxHolds
    BY <1>4, <1>t, BoundType DEF Requested, TypeOK
  <2>5. TypeOK'
    BY <1>4, <1>t, <2>2, <2>3, <2>4 DEF Requested, Transmitted, TypeOK, master, program
  <2> QED
    BY <1>4, <1>o, <2>5 DEF Requested, program
<1>5. CASE Receive
  <2>1. line \in Seq(Byte) /\ line # <<>> /\ rx \in Seq(Byte)
    BY <1>5, <1>t DEF Receive, TypeOK
  <2>2. Head(line) \in Byte /\ line' \in Seq(Byte)
    BY <1>5, <2>1 DEF Receive
  <2>3. rx' \in Seq(Byte) /\ Len(rx') < BufSize
    BY <1>5, <1>t, <2>1, <2>2, BoundType DEF Receive, TypeOK
  <2>4. TypeOK'
    BY <1>5, <1>t, <2>2, <2>3 DEF Receive, TypeOK, master, program, bounds
  <2> QED
    BY <1>5, <1>o, <2>4 DEF Receive, program
<1>6. CASE Environment
  <2>1. ASSUME NEW r \in Reads, SlaveChanges(r) PROVE TypeOK' /\ UNCHANGED from
    BY <1>t, <2>1, BoundType
       DEF Reads, SlaveChanges, TypeOK, master, uart, program, bounds
  <2>2. ASSUME NEW r \in Writes, ProgramChanges(r) PROVE TypeOK' /\ UNCHANGED from
    BY <1>t, <2>2, BoundType
       DEF Writes, Reads, ProgramChanges, TypeOK, master, uart, bus, bounds
  <2>3. ASSUME NEW s \in Slaves, SlaveOff(s) \/ SlaveOn(s) PROVE TypeOK' /\ UNCHANGED from
    <3>1. on' \in [Slaves -> BOOLEAN]
      BY <1>t, <2>3 DEF SlaveOff, SlaveOn, TypeOK
    <3>2. outages' \in 0 .. MaxOutages
      BY <1>t, <2>3, BoundType DEF SlaveOff, SlaveOn, TypeOK, bounds
    <3>3. /\ UNCHANGED <<pc, mb_cnt, rx, rxne, sending, clash, vars, err, from>>
          /\ UNCHANGED <<data, line, late, holds>>
      BY <2>3 DEF SlaveOff, SlaveOn, master, uart, program, bounds
    <3> QED
      BY <1>t, <3>1, <3>2, <3>3 DEF TypeOK
  <2> QED
    BY <1>6, <1>o, <2>1, <2>2, <2>3 DEF Environment
<1>7. CASE UNCHANGED all
  BY <1>7, <1>t, <1>o DEF all, TypeOK, master, uart, program, bus, bounds
<1> QED
  BY <1>1, <1>2, <1>3, <1>4, <1>5, <1>6, <1>7 DEF Next, Master

\* Every variable keeps its type, and the variables of a request are only ever taken
\* from a whole answer of the slave the request is for (modbus_master.c:74-77),
\* however late the answers are and however the receive interrupt cuts them up.
THEOREM OwnSlaveAlways == Spec => []OwnSlave
<1> QED
  BY OwnSlaveInit, OwnSlaveStep, PTL DEF Spec

-----------------------------------------------------------------------------
(* The answer the variables of a request are from.  As long as no answer has *)
(* been late, what is on the line and, once it has been cleared, what is in  *)
(* the buffer belong to the request the master waits for.                    *)

LEMMA ConcatParts ==
  ASSUME NEW S, NEW a \in Seq(S), NEW b \in Seq(S), NEW n \in 1 .. Len(a \o b)
  PROVE  \/ n \in 1 .. Len(a) /\ (a \o b)[n] = a[n]
         \/ n - Len(a) \in 1 .. Len(b) /\ (a \o b)[n] = b[n - Len(a)]
<1>1. Len(a) \in Nat /\ Len(b) \in Nat /\ Len(a \o b) = Len(a) + Len(b)
  OBVIOUS
<1>2. CASE n <= Len(a)
  BY <1>1, <1>2
<1>3. CASE n > Len(a)
  BY <1>1, <1>3
<1> QED
  BY <1>1, <1>2, <1>3

LEMMA AppendParts ==
  ASSUME NEW S, NEW a \in Seq(S), NEW e \in S, NEW n \in 1 .. Len(Append(a, e))
  PROVE  (n \in 1 .. Len(a) /\ Append(a, e)[n] = a[n]) \/ Append(a, e)[n] = e
<1>1. Len(a) \in Nat /\ Len(Append(a, e)) = Len(a) + 1
  OBVIOUS
<1>2. CASE n \in 1 .. Len(a)
  BY <1>1, <1>2
<1>3. CASE n = Len(a) + 1
  BY <1>1, <1>3
<1> QED
  BY <1>1, <1>2, <1>3

\* Every byte belongs to the answer the master waits for.
Fresh(bytes) == \A n \in 1 .. Len(bytes) : bytes[n].request = mb_cnt /\ bytes[n].old = FALSE

\* The inductive invariant.
InTime ==
  /\ OwnSlave
  /\ pc = "send" => sending = Silent
  /\ late = 0 => /\ IF pc = "send" THEN line = <<>> ELSE Fresh(line)
                 /\ pc = "wait" => Fresh(rx)
                 /\ OwnAnswer

LEMMA InTimeInit == Init => InTime
<1> SUFFICES ASSUME Init PROVE InTime
  OBVIOUS
<1>1. OwnSlave
  BY OwnSlaveInit
<1>2. OwnAnswer
  BY DEF Init, OwnAnswer, Nothing
<1> QED
  BY <1>1, <1>2 DEF Init, InTime

LEMMA InTimeStep == InTime /\ [Next]_all => InTime'
<1> SUFFICES ASSUME InTime, [Next]_all PROVE InTime'
  OBVIOUS
<1>t. TypeOK
  BY DEF InTime, OwnSlave
<1>s. OwnSlave'
  BY OwnSlaveStep DEF InTime
<1>o. ASSUME UNCHANGED <<from, late>>, late' = 0 PROVE OwnAnswer'
  BY <1>o DEF InTime, OwnAnswer
<1>1. CASE Send
  <2>1. pc = "send" /\ pc' = "clear" /\ UNCHANGED <<mb_cnt, late, from>> /\ line' = Old(line)
    BY <1>1 DEF Send, program, bounds
  <2>2. ASSUME late' = 0 PROVE Fresh(line)'
    <3>1. line \in Seq(Byte) /\ line = <<>>
      BY <1>t, <2>1, <2>2 DEF InTime, TypeOK
    <3>2. Len(line') = 0
      BY <2>1, <3>1, OldType
    <3> QED
      BY <3>2 DEF Fresh
  <2> QED
    BY <1>s, <1>o, <2>1, <2>2 DEF InTime
<1>2. CASE Clear
  <2>1. pc = "clear" /\ pc' = "wait" /\ rx' = <<>> /\ UNCHANGED <<mb_cnt, line, late, from>>
    BY <1>2 DEF Clear, program, bus, bounds
  <2>2. Fresh(rx)'
    BY <2>1 DEF Fresh
  <2>3. ASSUME late' = 0 PROVE Fresh(line)'
    BY <2>1, <2>3 DEF InTime, Fresh
  <2> QED
    BY <1>s, <1>o, <2>1, <2>2, <2>3 DEF InTime
<1>3. CASE Analyse
  <2>1. pc = "wait" /\ pc' = "send" /\ sending = Silent /\ UNCHANGED <<sending, line>>
    BY <1>3 DEF Analyse, uart, bus
  <2>2. ASSUME late' = 0 PROVE late = 0 /\ line = <<>>
    BY <1>3, <1>t, <2>2, BoundType DEF Analyse, TypeOK
  <2>3. ASSUME late' = 0 PROVE OwnAnswer'
    <3>1. late = 0 /\ Fresh(rx) /\ OwnAnswer
      BY <2>1, <2>2, <2>3 DEF InTime
    <3>2. /\ mb_cnt \in Requests
          /\ from \in [Requests -> [request : Requests \cup {Silent}, old : BOOLEAN]]
      BY <1>t DEF TypeOK
    <3>3. CASE Accepted
      <4>1. 1 \in 1 .. Len(rx)
        BY <1>t, <3>3 DEF Accepted, TypeOK
      <4>2. rx[1].request = mb_cnt /\ rx[1].old = FALSE
        BY <3>1, <4>1 DEF Fresh
      <4>3. from' = [from EXCEPT ![mb_cnt] = [request |-> mb_cnt, old |-> FALSE]]
        BY <1>3, <3>3, <4>2 DEF Analyse, Take
      <4>4. \A r \in Requests : from'[r] = from[r] \/ from'[r] = [request |-> r, old |-> FALSE]
        BY <3>2, <4>3
      <4> QED
        BY <3>1, <4>4 DEF OwnAnswer
    <3>4. CASE ~Accepted
      <4>1. from' = [from EXCEPT ![mb_cnt] = Nothing]
        BY <1>3, <3>4 DEF Analyse, Fail
      <4>2. \A r \in Requests : from'[r] = from[r] \/ from'[r].request = Silent
        BY <3>2, <4>1 DEF Nothing
      <4> QED
        BY <3>1, <4>2 DEF OwnAnswer
    <3> QED
      BY <3>3, <3>4
  <2> QED
    BY <1>s, <2>1, <2>2, <2>3 DEF InTime
<1>4. CASE Requested
  <2>1. sending' = Silent /\ pc # "send" /\ UNCHANGED <<pc, mb_cnt, rx, late, from>>
    BY <1>4 DEF InTime, Requested, Transmitted, master, program
  <2>2. mb_cnt \in Requests /\ line \in Seq(Byte)
    BY <1>t DEF TypeOK
  <2>3. line' = line \/ line' = line \o Frame(mb_cnt)
    BY <1>4 DEF Requested
  <2>4. ASSUME late' = 0 PROVE Fresh(line)'
    <3>1. \A n \in 1 .. Len(line) : line[n].request = mb_cnt /\ line[n].old = FALSE
      BY <2>1, <2>4 DEF InTime, Fresh
    <3> DEFINE f == Frame(mb_cnt)
    <3>2. f \in Seq(Byte) /\ \A n \in 1 .. Len(f) : f[n].request = mb_cnt /\ f[n].old = FALSE
      BY <1>t, <2>2, FrameType
    <3> HIDE DEF f
    <3>3. \A n \in 1 .. Len(line \o f) :
            (line \o f)[n].request = mb_cnt /\ (line \o f)[n].old = FALSE
      BY <2>2, <3>1, <3>2, ConcatParts
    <3> QED
      BY <2>1, <2>3, <3>1, <3>3 DEF Fresh, f
  <2>5. ASSUME late' = 0, pc' = "wait" PROVE Fresh(rx)'
    BY <2>1, <2>5 DEF InTime, Fresh
  <2> QED
    BY <1>s, <1>o, <2>1, <2>4, <2>5 DEF InTime
<1>5. CASE Receive
  <2>1. UNCHANGED <<pc, mb_cnt, sending, late, from>> /\ line # <<>> /\ line' = Tail(line)
    BY <1>5 DEF Receive, master, program, bounds
  <2>2. line \in Seq(Byte) /\ rx \in Seq(Byte)
    BY <1>t DEF TypeOK
  <2>3. ASSUME late' = 0
        PROVE  /\ pc # "send"
               /\ \A n \in 1 .. Len(line) : line[n].request = mb_cnt /\ line[n].old = FALSE
    BY <2>1, <2>3 DEF InTime, Fresh
  <2>4. ASSUME late' = 0 PROVE Fresh(line)'
    <3>1. \A n \in 1 .. Len(line') : line'[n] = line[n + 1] /\ n + 1 \in 1 .. Len(line)
      BY <2>1, <2>2
    <3> QED
      BY <2>1, <2>3, <2>4, <3>1 DEF Fresh
  <2>5. ASSUME late' = 0, pc' = "wait" PROVE Fresh(rx)'
    <3>1. \A n \in 1 .. Len(rx) : rx[n].request = mb_cnt /\ rx[n].old = FALSE
      BY <2>1, <2>5 DEF InTime, Fresh
    <3>2. Head(line).request = mb_cnt /\ Head(line).old = FALSE
      <4>1. Head(line) = line[1] /\ 1 \in 1 .. Len(line)
        BY <2>1, <2>2
      <4> QED
        BY <2>3, <2>5, <4>1
    <3>3. rx' = rx \/ rx' = <<>> \/ rx' = Append(rx, Head(line))
      BY <1>5 DEF Receive
    <3>4. CASE rx' = Append(rx, Head(line))
      <4>1. Head(line) \in Byte
        BY <2>1, <2>2
      <4>2. \A n \in 1 .. Len(rx') :
              (n \in 1 .. Len(rx) /\ rx'[n] = rx[n]) \/ rx'[n] = Head(line)
        BY <2>2, <3>4, <4>1, AppendParts
      <4> QED
        BY <2>1, <3>1, <3>2, <4>2 DEF Fresh
    <3>5. CASE rx' = <<>>
      BY <3>5 DEF Fresh
    <3>6. CASE rx' = rx
      BY <2>1, <3>1, <3>6 DEF Fresh
    <3> QED
      BY <3>3, <3>4, <3>5, <3>6
  <2> QED
    BY <1>s, <1>o, <2>1, <2>3, <2>4, <2>5 DEF InTime
<1>6. ASSUME UNCHANGED <<pc, mb_cnt, rx, sending, line, late, from>> PROVE InTime'
  BY <1>s, <1>o, <1>6 DEF InTime, Fresh
<1>7. CASE Environment
  <2>1. UNCHANGED <<pc, mb_cnt, rx, sending, line, late, from>>
    BY <1>7 DEF Environment, SlaveChanges, ProgramChanges, SlaveOff, SlaveOn,
                master, uart, program, bus, bounds
  <2> QED
    BY <1>6, <2>1
<1>8. CASE UNCHANGED all
  BY <1>6, <1>8 DEF all, master, uart, program, bus, bounds
<1> QED
  BY <1>1, <1>2, <1>3, <1>4, <1>5, <1>7, <1>8 DEF Next, Master

\* As long as no answer has been late, the variables of a request are from the answer
\* to that request, given since it was last sent: clearing the buffer after each
\* request (rx1_cnt=0) is enough, although nothing in an answer names its request.
THEOREM OwnAnswerAlways == Spec => []OwnAnswer
<1>1. InTime => OwnAnswer
  BY DEF InTime, OwnAnswer
<1> QED
  BY <1>1, InTimeInit, InTimeStep, PTL DEF Spec
===============================================================================
