---------------------------- MODULE RsModuleProofs ----------------------------
(***************************************************************************)
(* Proofs about the transfer of a configuration to an RS485 module, for    *)
(* any number of packets, any timeout and any number of lost and late      *)
(* frames, foreign answers and restarts.                                   *)
(***************************************************************************)
EXTENDS RsModule, Integers, SequenceTheorems, TLAPS

\* The counters stop in time: a packet waited for has not timed out yet, and a
\* heartbeat counter about to be incremented is below its limit.
TypeInv ==
  /\ TypeOK
  /\ write_state = "WAIT_RESPONSE" => tmr < Timeout
  /\ sup = "count" => loaded < HeartbeatMax

LEMMA TypeInit == Init => TypeInv
<1> SUFFICES ASSUME Init PROVE TypeInv
  OBVIOUS
<1>1. 0 \in All /\ << >> \in Seq(All) /\ HeartbeatMax \in 0 .. HeartbeatMax
      /\ 0 \in 0 .. Timeout /\ 0 \in 0 .. MaxFaults /\ 0 \in 0 .. HeartbeatMax
  BY RsAssumption DEF All
<1> QED
  BY <1>1 DEF Init, TypeInv, TypeOK

LEMMA FaultCounted ==
  ASSUME TypeOK, Fault \/ faults' = faults
  PROVE  faults' \in 0 .. MaxFaults
BY RsAssumption DEF TypeOK, Fault

LEMMA TypeStep == TypeInv /\ [Next]_vars => TypeInv'
<1> SUFFICES ASSUME TypeInv, [Next]_vars PROVE TypeInv'
  OBVIOUS
<1> USE RsAssumption DEF TypeInv, TypeOK
<1>1. CASE StartConfig
  <2>1. slipped' \in BOOLEAN /\ restarted' \in BOOLEAN
    BY <1>1 DEF StartConfig, InFlight
  <2>2. UNCHANGED <<link, supervision, bus, module, faults, answered, late>>
        /\ tmr' = 0 /\ last_packet_num' = 0 /\ rcv_id_value' = "none" /\ rcv_id_flag' = FALSE
        /\ write_state' = "WR_CONFIG"
    BY <1>1 DEF StartConfig
  <2>3. tmr' \in 0 .. Timeout /\ last_packet_num' \in All
    BY <2>2 DEF All
  <2> QED
    BY <2>1, <2>2, <2>3 DEF link, supervision, bus, module
<1>2. CASE SendPacket
  <2>1. requests' \in Seq(All)
    BY <1>2 DEF SendPacket
  <2>2. tmr' \in 0 .. Timeout /\ tmr' < Timeout
    BY <1>2 DEF SendPacket
  <2>3. /\ UNCHANGED <<link, last_packet_num, supervision, answers, module, faults, history>>
        /\ rcv_id_value' = "none" /\ rcv_id_flag' = FALSE /\ write_state' = "WAIT_RESPONSE"
    BY <1>2 DEF SendPacket
  <2> QED
    BY <2>1, <2>2, <2>3 DEF link, supervision, module, history
<1>3. CASE TakeAnswer
  <2>1. last_packet_num' \in All /\ tmr' \in 0 .. Timeout
    BY <1>3 DEF TakeAnswer, Writing, All
  <2> QED
    BY <1>3, <2>1 DEF TakeAnswer, link, supervision, bus, module
<1>4. CASE WaitAnswer
  <2>1. /\ tmr' \in 0 .. Timeout
        /\ write_state' = "WAIT_RESPONSE" => tmr' < Timeout
    BY <1>4 DEF WaitAnswer, Writing
  <2>2. faults' \in 0 .. MaxFaults /\ late' \in BOOLEAN
    BY <1>4, FaultCounted DEF WaitAnswer
  <2> QED
    BY <1>4, <2>1, <2>2 DEF WaitAnswer, link, supervision, bus, module
<1>5. CASE Supervise
  <2>1. faults' \in 0 .. MaxFaults /\ late' \in BOOLEAN
    BY <1>5, FaultCounted DEF Supervise, SupCheck, SupCount, SupDown, SupClear, history
  <2>2. heartbeat_cnt' \in 0 .. HeartbeatMax /\ loaded' \in 0 .. HeartbeatMax
        /\ (sup' = "count" => loaded' < HeartbeatMax)
    BY <1>5 DEF Supervise, SupCheck, SupCount, SupDown, SupClear, link
  <2> QED
    BY <1>5, <2>1, <2>2
       DEF Supervise, SupCheck, SupCount, SupDown, SupClear, link, config, bus, module, history
<1>6. CASE Heartbeat
  <2>1. faults' \in 0 .. MaxFaults /\ late' \in BOOLEAN
    BY <1>6, FaultCounted DEF Heartbeat
  <2> QED
    BY <1>6, <2>1 DEF Heartbeat, supervision, bus, module
<1>7. CASE Answer
  <2>1. answers' \in Seq(All) /\ answered' \in All
    BY <1>7, HeadTailProperties DEF Answer
  <2> QED
    BY <1>7, <2>1 DEF Answer, link, supervision, module
<1>8. CASE ForeignAnswer
  BY <1>8, FaultCounted DEF ForeignAnswer, link, supervision, bus, module, history
<1>9. CASE RegsState
  BY <1>9 DEF RegsState, config, supervision, bus, module, history
<1>10. CASE ModuleReceive
  <2>1. Head(requests) \in All /\ requests' \in Seq(All) /\ answers' \in Seq(All)
    BY <1>10, HeadTailProperties, AppendProperties DEF ModuleReceive
  <2>2. got' \subseteq All
    BY <1>10, <2>1 DEF ModuleReceive, All
  <2> QED
    BY <1>10, <2>1, <2>2 DEF ModuleReceive, link, config, supervision, history
<1>11. CASE LoseFrame
  <2>1. requests' \in Seq(All) /\ answers' \in Seq(All)
    BY <1>11, HeadTailProperties DEF LoseFrame
  <2> QED
    BY <1>11, <2>1, FaultCounted DEF LoseFrame, link, config, supervision, module, history
<1>12. CASE PowerOff
  <2>1. faults' \in 0 .. MaxFaults /\ requests' \in Seq(All) /\ got' \subseteq All
    BY <1>12, FaultCounted DEF PowerOff
  <2>2. /\ UNCHANGED <<link, config, supervision, answers, answered, late, slipped>>
        /\ alive' = FALSE /\ restarted' = TRUE
    BY <1>12 DEF PowerOff
  <2>3. /\ link_state' = link_state /\ heartbeat_cnt' = heartbeat_cnt /\ data' = data
        /\ write_state' = write_state /\ last_packet_num' = last_packet_num /\ tmr' = tmr
        /\ rcv_id_flag' = rcv_id_flag /\ rcv_id_value' = rcv_id_value
        /\ sup' = sup /\ loaded' = loaded
        /\ answers' = answers /\ answered' = answered /\ late' = late /\ slipped' = slipped
    BY <2>2 DEF link, config, supervision
  <2>4. /\ link_state' \in {0, 1} /\ heartbeat_cnt' \in 0 .. HeartbeatMax
        /\ data' \in {"cleared", "reported"} /\ last_packet_num' \in All
        /\ write_state' \in {"WAIT_CMD", "START_WR_CONFIG", "WR_CONFIG", "WAIT_RESPONSE"}
        /\ tmr' \in 0 .. Timeout
        /\ write_state' = "WAIT_RESPONSE" => tmr' < Timeout
        /\ sup' = "count" => loaded' < HeartbeatMax
    BY <2>3
  <2> QED
    BY <2>1, <2>2, <2>3, <2>4
<1>13. CASE PowerOn
  BY <1>13 DEF PowerOn, link, config, supervision, bus, history
<1>14. CASE UNCHANGED vars
  BY <1>14 DEF vars, link, config, supervision, bus, module, history
<1> QED
  BY <1>1, <1>2, <1>3, <1>4, <1>5, <1>6, <1>7, <1>8, <1>9, <1>10, <1>11, <1>12, <1>13, <1>14
     DEF Next, WriteConfig

\* The number of the packet, the timer and the counter of missing heartbeats
\* stay within their limits, whatever the interrupt and the bus do.
THEOREM TypeCorrect == Spec => []TypeOK
<1>1. TypeInv => TypeOK
  BY DEF TypeInv
<1> QED
  BY TypeInit, TypeStep, <1>1, PTL DEF Spec

-----------------------------------------------------------------------------
(* As long as no frame is late, one frame at most is on its way, and it is  *)
(* the packet last sent or its answer.                                      *)

\* An answer for this node has arrived and is waiting for TakeAnswer.
AnswerThere == write_state = "WAIT_RESPONSE" /\ rcv_id_flag /\ rcv_id_value = "own"

OneFrame ==
  \/ requests = << >> /\ answers = << >>
  \/ requests = <<last_packet_num>> /\ answers = << >>
  \/ requests = << >> /\ answers = <<last_packet_num>>

Punctual ==
  /\ ~slipped
  /\ OneFrame
  /\ InFlight => write_state = "WAIT_RESPONSE" /\ sup # "clear" /\ ~AnswerThere
  /\ AnswerThere => answered = last_packet_num

PunctualInv == ~late => Punctual

LEMMA PunctualInit == Init => PunctualInv
BY DEF Init, PunctualInv, Punctual, OneFrame, InFlight, AnswerThere

LEMMA SingleFrame ==
  ASSUME NEW m
  PROVE  /\ Append(<< >>, m) = <<m>> /\ <<m>> # << >>
         /\ Head(<<m>>) = m /\ Tail(<<m>>) = << >>
OBVIOUS

LEMMA PunctualStep == TypeInv /\ PunctualInv /\ [Next]_vars => PunctualInv'
<1> SUFFICES ASSUME TypeInv, PunctualInv, [Next]_vars, ~late' PROVE Punctual'
  BY DEF PunctualInv
<1>1. TypeOK /\ (~late => Punctual)
  BY DEF TypeInv, PunctualInv
<1> USE DEF Punctual, OneFrame, InFlight, AnswerThere
<1>2. CASE StartConfig
  BY <1>1, <1>2 DEF StartConfig, Writing, supervision, bus
<1>3. CASE SendPacket
  <2>1. requests = << >> /\ answers = << >> /\ ~slipped /\ sup = "idle"
    BY <1>1, <1>3 DEF SendPacket, Writing, history
  <2>2. (requests' = <<last_packet_num>> \/ requests' = << >>) /\ answers' = << >>
    BY <1>3, <2>1, SingleFrame DEF SendPacket
  <2> QED
    BY <1>3, <2>1, <2>2 DEF SendPacket, supervision, history
<1>4. CASE TakeAnswer
  <2>1. /\ requests = << >> /\ answers = << >> /\ ~slipped
        /\ answered = last_packet_num
    BY <1>1, <1>4 DEF TakeAnswer, Writing
  <2> QED
    BY <1>4, <2>1 DEF TakeAnswer, bus
<1>5. CASE WaitAnswer
  <2>1. ~late /\ (InFlight => write_state' = "WAIT_RESPONSE")
    BY <1>1, <1>5 DEF WaitAnswer, TypeOK
  <2> QED
    BY <1>1, <1>5, <2>1 DEF WaitAnswer, bus, supervision
<1>6. CASE SupCheck \/ SupCount \/ SupClear
  BY <1>1, <1>6 DEF SupCheck, SupCount, SupClear, config, bus, history
<1>7. CASE SupDown
  BY <1>1, <1>7 DEF SupDown, config, bus
<1>8. CASE Heartbeat
  <2>1. ~late /\ (InFlight => write_state' = write_state)
    BY <1>1, <1>8 DEF Heartbeat, TypeOK
  <2> QED
    BY <1>1, <1>8, <2>1 DEF Heartbeat, supervision, bus
<1>9. CASE Answer
  <2>1. requests = << >> /\ answers = <<last_packet_num>> /\ ~slipped
    BY <1>1, <1>9 DEF Answer
  <2>2. requests' = << >> /\ answers' = << >> /\ answered' = last_packet_num
    BY <1>9, <2>1, SingleFrame DEF Answer
  <2> QED
    BY <1>9, <2>1, <2>2 DEF Answer, supervision
<1>10. CASE ForeignAnswer
  BY <1>1, <1>10 DEF ForeignAnswer, supervision, bus, history
<1>11. CASE ModuleReceive
  <2>1. requests = <<last_packet_num>> /\ answers = << >> /\ ~late
    BY <1>1, <1>11 DEF ModuleReceive, history
  <2>2. requests' = << >> /\ answers' = <<last_packet_num>>
    BY <1>11, <2>1, SingleFrame DEF ModuleReceive
  <2> QED
    BY <1>1, <1>11, <2>1, <2>2, SingleFrame DEF ModuleReceive, config, supervision, history
<1>12. CASE LoseFrame
  <2>1. requests' = << >> /\ answers' = << >> /\ ~late
    BY <1>1, <1>12, SingleFrame DEF LoseFrame, history
  <2> QED
    BY <1>1, <1>12, <2>1 DEF LoseFrame, config, supervision, history
<1>13. CASE PowerOff
  BY <1>1, <1>13 DEF PowerOff, config, supervision
<1>14. CASE RegsState \/ PowerOn \/ UNCHANGED vars
  BY <1>1, <1>14 DEF RegsState, PowerOn, vars, config, supervision, bus, history
<1> QED
  BY <1>2, <1>3, <1>4, <1>5, <1>6, <1>7, <1>8, <1>9, <1>10, <1>11, <1>12, <1>13, <1>14
     DEF Next, WriteConfig, Supervise

\* Although answers do not name their packet: as long as none comes later than
\* its timeout, none is taken for the answer to another packet, for any number
\* of losses, foreign answers and restarts (rs_module_write_config).
THEOREM NeverSlipsAlways == Spec => []NeverSlips
<1>1. PunctualInv => NeverSlips
  BY DEF PunctualInv, Punctual, NeverSlips
<1> QED
  BY TypeInit, TypeStep, PunctualInit, PunctualStep, <1>1, PTL DEF Spec

-----------------------------------------------------------------------------
(* What a finished transfer has left in the module, late frames or not.     *)

Only(s, S) == \A k \in 1 .. Len(s) : s[k] \in S
Ordered(s) == \A j, k \in 1 .. Len(s) : j <= k => s[j] <= s[k]

\* The module has the packet last sent, and nothing older is on its way to it.
Reached == last_packet_num \in got /\ Only(requests, {last_packet_num})

Transfer ==
  /\ 0 .. last_packet_num - 1 \subseteq got
  /\ Only(requests, {last_packet_num - 1, last_packet_num}) /\ Ordered(requests)
  /\ Only(answers, 0 .. last_packet_num)
  /\ ~Only(answers, 0 .. last_packet_num - 1) => Reached
  /\ AnswerThere /\ answered = last_packet_num => Reached

TransferInv ==
  ~slipped /\ ~restarted /\ write_state \in {"WR_CONFIG", "WAIT_RESPONSE"} => Transfer

LEMMA TransferInit == Init => TransferInv
BY DEF Init, TransferInv

LEMMA AppendOnly ==
  ASSUME NEW T, NEW s \in Seq(T), NEW m \in T, NEW S
  PROVE  Only(Append(s, m), S) <=> Only(s, S) /\ m \in S
<1>1. /\ Len(Append(s, m)) = Len(s) + 1 /\ Append(s, m)[Len(s) + 1] = m
      /\ \A k \in 1 .. Len(s) : Append(s, m)[k] = s[k]
  BY AppendProperties
<1>2. 1 .. Len(s) + 1 = (1 .. Len(s)) \cup {Len(s) + 1}
  OBVIOUS
<1> QED
  BY <1>1, <1>2 DEF Only

LEMMA TailOnly ==
  ASSUME NEW T, NEW s \in Seq(T), s # << >>, NEW S, Only(s, S)
  PROVE  Head(s) \in S /\ Only(Tail(s), S)
<1>1. /\ Head(s) = s[1] /\ 1 \in 1 .. Len(s) /\ Len(Tail(s)) = Len(s) - 1
      /\ \A k \in 1 .. Len(Tail(s)) : Tail(s)[k] = s[k + 1] /\ k + 1 \in 1 .. Len(s)
  BY HeadTailProperties
<1> QED
  BY <1>1 DEF Only

LEMMA TailOrdered ==
  ASSUME NEW T \in SUBSET Int, NEW s \in Seq(T), s # << >>, Ordered(s)
  PROVE  Ordered(Tail(s)) /\ \A k \in 1 .. Len(s) : Head(s) <= s[k]
<1>1. /\ Head(s) = s[1] /\ 1 \in 1 .. Len(s) /\ Len(Tail(s)) = Len(s) - 1
      /\ \A k \in 1 .. Len(Tail(s)) : Tail(s)[k] = s[k + 1] /\ k + 1 \in 1 .. Len(s)
  BY HeadTailProperties
<1>2. Ordered(Tail(s))
  BY <1>1 DEF Ordered
<1> QED
  BY <1>1, <1>2 DEF Ordered

LEMMA AppendOrdered ==
  ASSUME NEW T \in SUBSET Int, NEW s \in Seq(T), NEW m \in T, Ordered(s),
         \A k \in 1 .. Len(s) : s[k] <= m
  PROVE  Ordered(Append(s, m))
<1>1. /\ Len(Append(s, m)) = Len(s) + 1 /\ Append(s, m)[Len(s) + 1] = m
      /\ \A k \in 1 .. Len(s) : Append(s, m)[k] = s[k]
  BY AppendProperties
<1>2. 1 .. Len(s) + 1 = (1 .. Len(s)) \cup {Len(s) + 1} /\ Len(s) \in Nat
  OBVIOUS
<1> SUFFICES ASSUME NEW j \in 1 .. Len(s) + 1, NEW k \in 1 .. Len(s) + 1, j <= k
             PROVE  Append(s, m)[j] <= Append(s, m)[k]
  BY <1>1 DEF Ordered
<1>3. CASE k = Len(s) + 1
  BY <1>1, <1>2, <1>3
<1>4. CASE k # Len(s) + 1
  <2>1. j \in 1 .. Len(s) /\ k \in 1 .. Len(s)
    BY <1>4
  <2> QED
    BY <1>1, <2>1 DEF Ordered
<1> QED
  BY <1>3, <1>4

LEMMA TransferSend ==
  ASSUME TypeOK, Transfer, SendPacket
  PROVE  Transfer'
<1> DEFINE n == last_packet_num
<1>1. /\ n' = n /\ got' = got /\ answers' = answers /\ ~AnswerThere'
      /\ n \in All /\ All \subseteq Int /\ n \in Int
      /\ requests \in Seq(All)
  BY RsAssumption DEF SendPacket, TypeOK, All, module, AnswerThere
<1>2. CASE requests' = requests
  BY <1>1, <1>2 DEF Transfer, Reached
<1>3. CASE requests' = Append(requests, n)
  <2> HIDE DEF n
  <2>1. Only(requests, {n - 1, n}) /\ Ordered(requests)
    BY DEF Transfer, n
  <2>2. Only(requests', {n - 1, n})
    BY <1>1, <1>3, <2>1, AppendOnly
  <2>3. \A k \in 1 .. Len(requests) : requests[k] <= n
    BY <1>1, <2>1 DEF Only
  <2>4. Ordered(requests')
    BY <1>1, <1>3, <2>1, <2>3, AppendOrdered
  <2>5. Reached => Reached'
    BY <1>1, <1>3, AppendOnly DEF Reached, n
  <2> QED
    BY <1>1, <2>2, <2>4, <2>5 DEF Transfer, n
<1> QED
  BY <1>2, <1>3 DEF SendPacket

\* The module stores the packet at the head of those on their way.
LEMMA TransferReceive ==
  ASSUME TypeOK, Transfer, ModuleReceive
  PROVE  Transfer'
<1> DEFINE n == last_packet_num
           h == Head(requests)
<1>1. /\ n' = n /\ n \in All /\ All \subseteq Nat /\ requests \in Seq(All) /\ answers \in Seq(All)
      /\ requests # << >> /\ h \in All
      /\ requests' = Tail(requests) /\ answers' = Append(answers, h)
      /\ got' = (IF h = 0 THEN {0} ELSE got \cup {h})
      /\ AnswerThere' = AnswerThere /\ answered' = answered
  BY HeadTailProperties, RsAssumption
     DEF ModuleReceive, TypeOK, All, config, history, AnswerThere
<1> HIDE DEF n, h
<1>2. /\ 0 .. n - 1 \subseteq got /\ Only(requests, {n - 1, n}) /\ Ordered(requests)
      /\ Only(answers, 0 .. n)
      /\ ~Only(answers, 0 .. n - 1) => n \in got /\ Only(requests, {n})
      /\ AnswerThere /\ answered = n => n \in got /\ Only(requests, {n})
  BY DEF Transfer, Reached, n
<1>3. /\ h \in {n - 1, n} /\ Only(requests', {n - 1, n}) /\ Ordered(requests')
      /\ \A k \in 1 .. Len(requests) : h <= requests[k]
  BY <1>1, <1>2, TailOnly, TailOrdered DEF h
<1>4. 0 .. n - 1 \subseteq got'
  BY <1>1, <1>2, <1>3
<1>5. Only(answers', 0 .. n)
  BY <1>1, <1>2, <1>3, AppendOnly
<1>6. ASSUME Only(requests, {n}), n \in got
      PROVE  n \in got' /\ Only(requests', {n})
  BY <1>1, <1>6, TailOnly DEF h
<1>7. ASSUME h = n
      PROVE  n \in got' /\ Only(requests', {n})
  <2>1. Only(requests, {n})
    BY <1>1, <1>2, <1>3, <1>7 DEF Only
  <2> QED
    BY <1>1, <1>7, <2>1, TailOnly
<1>8. ~Only(answers', 0 .. n - 1) => n \in got' /\ Only(requests', {n})
  <2>1. Only(answers', 0 .. n - 1) <=> Only(answers, 0 .. n - 1) /\ h \in 0 .. n - 1
    BY <1>1, AppendOnly
  <2>2. h = n \/ h \in 0 .. n - 1
    BY <1>1, <1>3
  <2> QED
    BY <1>2, <1>6, <1>7, <2>1, <2>2
<1>9. AnswerThere' /\ answered' = n => n \in got' /\ Only(requests', {n})
  BY <1>1, <1>2, <1>6
<1> QED
  BY <1>1, <1>3, <1>4, <1>5, <1>8, <1>9 DEF Transfer, Reached, n

LEMMA TransferLose ==
  ASSUME TypeOK, Transfer, LoseFrame
  PROVE  Transfer'
<1> DEFINE n == last_packet_num
<1>1. /\ n' = n /\ got' = got /\ AnswerThere' = AnswerThere /\ answered' = answered
      /\ All \subseteq Int /\ requests \in Seq(All) /\ answers \in Seq(All)
      /\ \/ requests # << >> /\ requests' = Tail(requests) /\ answers' = answers
         \/ answers # << >> /\ answers' = Tail(answers) /\ requests' = requests
  BY RsAssumption DEF LoseFrame, TypeOK, All, config, history, module, AnswerThere
<1>2. \A S : /\ Only(requests, S) => Only(requests', S)
             /\ Only(answers, S) => Only(answers', S)
  BY <1>1, TailOnly
<1>3. Ordered(requests) => Ordered(requests')
  BY <1>1, TailOrdered
<1> HIDE DEF n
<1> QED
  BY <1>1, <1>2, <1>3 DEF Transfer, Reached, n

LEMMA TransferAnswer ==
  ASSUME TypeOK, Transfer, Answer
  PROVE  Transfer'
<1> DEFINE n == last_packet_num
<1>1. /\ n' = n /\ got' = got /\ requests' = requests /\ n \in Nat
      /\ answers \in Seq(All) /\ answers # << >>
      /\ answers' = Tail(answers) /\ answered' = Head(answers)
  BY DEF Answer, TypeOK, All, module
<1> HIDE DEF n
<1>2. \A S : Only(answers, S) => Head(answers) \in S /\ Only(answers', S)
  BY <1>1, TailOnly
<1>3. Only(answers, 0 .. n - 1) => answered' # n
  BY <1>1, <1>2
<1> QED
  BY <1>1, <1>2, <1>3 DEF Transfer, Reached, n

\* The answer is the one to the packet last sent: that packet is the one before
\* the next.
LEMMA TransferTake ==
  ASSUME TypeOK, Transfer, TakeAnswer, ~slipped', write_state' = "WR_CONFIG"
  PROVE  Transfer'
<1> DEFINE n == last_packet_num
<1>1. /\ n' = n + 1 /\ got' = got /\ UNCHANGED bus /\ n \in Nat
      /\ AnswerThere /\ answered = n /\ ~AnswerThere'
  <2>1. answered = n
    BY Zenon DEF TakeAnswer
  <2>2. /\ AnswerThere /\ ~AnswerThere'
        /\ n' = n + 1 /\ got' = got /\ UNCHANGED bus
    BY DEF TakeAnswer, Writing, AnswerThere, module
  <2> QED
    BY <2>1, <2>2 DEF TypeOK, All
<1>2. n \in got /\ Only(requests, {n}) /\ 0 .. n - 1 \subseteq got
      /\ Ordered(requests) /\ Only(answers, 0 .. n)
  BY <1>1 DEF Transfer, Reached
<1> HIDE DEF n
<1>3. 0 .. n' - 1 \subseteq got' /\ Only(requests', {n' - 1, n'}) /\ Ordered(requests')
  BY <1>1, <1>2 DEF Only, bus
<1>4. Only(answers', 0 .. n') /\ Only(answers', 0 .. n' - 1)
  BY <1>1, <1>2 DEF Only, bus
<1> QED
  BY <1>1, <1>3, <1>4 DEF Transfer, n

LEMMA TransferStart ==
  ASSUME StartConfig, ~slipped'
  PROVE  Transfer'
<1>1. requests' = << >> /\ answers' = << >> /\ last_packet_num' = 0 /\ ~AnswerThere'
  BY DEF StartConfig, InFlight, bus, AnswerThere
<1> QED
  BY <1>1 DEF Transfer, Only, Ordered

LEMMA TransferStep == TypeInv /\ TransferInv /\ [Next]_vars => TransferInv'
<1> SUFFICES ASSUME TypeInv, TransferInv, [Next]_vars, ~slipped', ~restarted',
                    write_state' \in {"WR_CONFIG", "WAIT_RESPONSE"}
             PROVE  Transfer'
  BY DEF TransferInv
<1>1. /\ TypeOK
      /\ ~slipped /\ ~restarted /\ write_state \in {"WR_CONFIG", "WAIT_RESPONSE"} => Transfer
  BY DEF TypeInv, TransferInv
<1>2. CASE StartConfig
  BY <1>2, TransferStart
<1>3. CASE SendPacket
  BY <1>1, <1>3, TransferSend DEF SendPacket, Writing, history
<1>4. CASE TakeAnswer
  <2>1. ~slipped /\ ~restarted /\ write_state = "WAIT_RESPONSE" /\ write_state' = "WR_CONFIG"
    BY <1>4 DEF TakeAnswer, Writing
  <2> QED
    BY <1>1, <1>4, <2>1, TransferTake
<1>5. CASE ModuleReceive
  BY <1>1, <1>5, TransferReceive DEF ModuleReceive, config, history
<1>6. CASE LoseFrame
  BY <1>1, <1>6, TransferLose DEF LoseFrame, config, history
<1>7. CASE Answer
  BY <1>1, <1>7, TransferAnswer DEF Answer
<1>8. CASE WaitAnswer \/ Supervise \/ Heartbeat \/ ForeignAnswer \/ RegsState \/ PowerOn
           \/ UNCHANGED vars
  <2>1. /\ UNCHANGED <<last_packet_num, requests, answers, got, answered>>
        /\ ~slipped /\ ~restarted
        /\ write_state \in {"WR_CONFIG", "WAIT_RESPONSE"}
        /\ AnswerThere' => AnswerThere
    BY <1>8
       DEF WaitAnswer, Writing, Supervise, SupCheck, SupCount, SupDown, SupClear, Heartbeat,
           ForeignAnswer, RegsState, PowerOn, vars, config, bus, module, history, AnswerThere
  <2> QED
    BY <1>1, <2>1 DEF Transfer, Reached
<1>9. CASE PowerOff
  BY <1>9 DEF PowerOff
<1> QED
  BY <1>2, <1>3, <1>4, <1>5, <1>6, <1>7, <1>8, <1>9 DEF Next, WriteConfig

\* Late frames or not: a transfer that rs_module_write_config takes for finished
\* has left the whole configuration in the module, unless an answer was taken
\* for one to another packet or the module lost its power.
THEOREM FinishedConfigured == Spec => FinishedMeansConfigured
<1> DEFINE Good == Finishes /\ ~slipped' /\ ~restarted => got = All
<1>1. TypeInv /\ TransferInv /\ [Next]_vars => [Good]_vars
  <2> SUFFICES ASSUME TypeInv, TransferInv, Next, Finishes, ~slipped', ~restarted
               PROVE  got = All
    OBVIOUS
  <2>1. TakeAnswer
    BY DEF Next, WriteConfig, Finishes, StartConfig, SendPacket, Writing, WaitAnswer, Supervise,
           SupCheck, SupCount, SupDown, SupClear, Heartbeat, Answer, ForeignAnswer, RegsState,
           ModuleReceive, LoseFrame, PowerOff, PowerOn, config
  <2>2. /\ Transfer /\ AnswerThere /\ answered = last_packet_num
        /\ last_packet_num = PackQuantity
    BY <2>1 DEF TakeAnswer, Writing, TransferInv, AnswerThere, Finishes
  <2>3. 0 .. PackQuantity - 1 \subseteq got /\ PackQuantity \in got /\ got \subseteq All
    BY <2>2 DEF Transfer, Reached, TypeInv, TypeOK
  <2>4. All = (0 .. PackQuantity - 1) \cup {PackQuantity}
    BY RsAssumption DEF All
  <2> QED
    BY <2>3, <2>4
<1> QED
  BY TypeInit, TypeStep, TransferInit, TransferStep, <1>1, PTL
     DEF Spec, FinishedMeansConfigured
===============================================================================
