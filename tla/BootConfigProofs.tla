---------------------------- MODULE BootConfigProofs ---------------------------
(***************************************************************************)
(* Proofs about the configuration, for any registers and any data of them, *)
(* any number of orders and any number of losses of power.                 *)
(***************************************************************************)
EXTENDS BootConfig, Integers, SequenceTheorems, TLAPS

\* The steps of main and of the handlers.
Marks == {Call(LoaderVar, ToProgram)}
MainSteps ==
  Marks \cup {Call(KeyVar, Key), Call(ConfigKeyVar, ConfigKey)} \cup {Call(v, Default) : v \in Conf}
HandlerSteps ==
  {Restart, Wait, Call(LoaderVar, ToLoader)}
    \cup {Assign(v, x) : v \in Conf, x \in Vals} \cup {Call(v, x) : v \in Conf, x \in Vals}

\* A variable is only ever stored with data of its own kind.
Kind == [v \in Vars |-> IF v = KeyVar THEN {Key}
                        ELSE IF v = ConfigKeyVar THEN {ConfigKey}
                        ELSE IF v = LoaderVar THEN {ToLoader, ToProgram} ELSE Vals]

Lists ==
  /\ todo \in [Handlers \cup {"main"} -> Seq(Steps)]
  /\ \A n \in DOMAIN todo["main"] : todo["main"][n] \in MainSteps
  /\ \A h \in Handlers : \A n \in DOMAIN todo[h] : todo[h][n] \in HandlerSteps

Types ==
  /\ \A v \in Vars : store[v] \in Kind[v] \cup {Absent}
  /\ store \in [Vars -> AllVals \cup {Absent}]
  /\ request = NoRequest \/ (request \in CS!Request /\ request.val \in Kind[request.var])
  /\ pc \in {"reset", "loader", "main", "init", "run"}
  /\ Lists
  /\ ram \in [Conf -> Vals] /\ loader_flag \in 0 .. LoaderTicks
  /\ watchdog \in BOOLEAN /\ torn \in BOOLEAN
  /\ orders \in 0 .. MaxOrders /\ cuts \in 0 .. MaxCuts

\* Main has its list while it initialises, the handlers have theirs while the program
\* runs, and before that nothing is being written.
Phases ==
  /\ pc # "init" => todo["main"] = <<>>
  /\ pc # "run" => \A h \in Handlers : todo[h] = <<>>
  /\ pc \notin {"init", "run"} => request = NoRequest

Requested(v) == request # NoRequest /\ request.var = v
ToDo(h, v) == \E n \in DOMAIN todo[h] : todo[h][n].do = "write" /\ todo[h][n].var = v

\* The key of the configuration is the last to be stored: with it everything is.
Complete(S) == \A v \in S : store[v] # Absent
KeyLast ==
  /\ store[ConfigKeyVar] # Absent \/ Requested(ConfigKeyVar) => Complete(Conf \cup {KeyVar})
  /\ pc = "init" => \A v \in Conf \cup {KeyVar, ConfigKeyVar} :
                       store[v] # Absent \/ Requested(v) \/ ToDo("main", v)
  /\ \A n \in DOMAIN todo["main"] :
       todo["main"][n].var = ConfigKeyVar => n = Len(todo["main"])
  /\ pc = "run" => store[ConfigKeyVar] # Absent

\* The order to stay in the boot loader is only there once the program has run, and main
\* takes it back before the program runs again.
LoaderMarked ==
  /\ store[LoaderVar] = ToLoader => store[KeyVar] # Absent
  /\ pc = "init" /\ store[LoaderVar] = ToLoader => Requested(LoaderVar) \/ ToDo("main", LoaderVar)
  /\ pc = "init" /\ Requested(LoaderVar) => request.val = ToProgram
  /\ pc = "run" /\ loader_flag = 0 =>
       /\ store[LoaderVar] # ToLoader
       /\ ~Requested(LoaderVar)
       /\ \A h \in Handlers : ~ToDo(h, LoaderVar)

-----------------------------------------------------------------------------
(* The constants and the lists of steps. *)

LEMMA Names == Handlers = {"lcd", "can", "udp", "task"} /\ "main" \notin Handlers
BY DEF Handlers, Above

LEMMA Variables ==
  /\ Conf \subseteq Vars /\ KeyVar \in Vars /\ LoaderVar \in Vars /\ ConfigKeyVar \in Vars
  /\ KeyVar \notin Conf /\ LoaderVar \notin Conf /\ ConfigKeyVar \notin Conf
  /\ KeyVar # LoaderVar /\ KeyVar # ConfigKeyVar /\ LoaderVar # ConfigKeyVar
  /\ Regs \in Seq(Conf) /\ \A n \in DOMAIN Regs : Regs[n] \in Conf
  /\ {1, 2, 3} \subseteq DOMAIN Regs
BY ConfigAssumption DEF Vars

LEMMA Kinds ==
  /\ Kind[KeyVar] = {Key} /\ Kind[ConfigKeyVar] = {ConfigKey}
  /\ Kind[LoaderVar] = {ToLoader, ToProgram}
  /\ \A v \in Conf : Kind[v] = Vals
  /\ \A v \in Vars : Kind[v] \subseteq AllVals /\ Absent \notin Kind[v]
<1>1. \A v \in Vars : v \in Conf \/ v = KeyVar \/ v = LoaderVar \/ v = ConfigKeyVar
  BY DEF Vars
<1>2. /\ Kind[KeyVar] = {Key} /\ Kind[ConfigKeyVar] = {ConfigKey}
      /\ Kind[LoaderVar] = {ToLoader, ToProgram}
      /\ \A v \in Conf : Kind[v] = Vals
  BY Variables DEF Kind
<1>3. Vals \subseteq AllVals /\ {Key, ConfigKey, ToLoader, ToProgram} \subseteq AllVals
  BY DEF AllVals
<1>4. \A v \in Vars : Kind[v] \subseteq AllVals
  BY <1>1, <1>2, <1>3
<1> QED
  BY <1>2, <1>4, ConfigAssumption

\* What a step of a list is made of.
LEMMA StepKinds ==
  /\ MainSteps \cup HandlerSteps \subseteq Steps
  /\ \A s \in MainSteps : s.do = "write" /\ s.var \in Vars /\ s.val \in Kind[s.var]
  /\ \A s \in MainSteps : /\ s.var = LoaderVar => s.val = ToProgram
                          /\ s.var \in Conf => s.val = Default
  /\ \A s \in HandlerSteps :
       /\ s.do = "write" => /\ s.var \in Conf \cup {LoaderVar} /\ s.val \in Kind[s.var]
                            /\ s.val \in AllVals
                            /\ s = Call(s.var, s.val)
       /\ s.do = "assign" => s.var \in Conf /\ s.val \in Vals /\ s = Assign(s.var, s.val)
<1>1. /\ Vals \subseteq AllVals /\ {Key, ConfigKey, ToLoader, ToProgram} \subseteq AllVals
      /\ Default \in Vals
  BY ConfigAssumption DEF AllVals
<1>2. ASSUME NEW s \in MainSteps
      PROVE  /\ s \in Steps
             /\ s.do = "write" /\ s.var \in Vars /\ s.val \in Kind[s.var]
             /\ s.var = LoaderVar => s.val = ToProgram
             /\ s.var \in Conf => s.val = Default
  <2>1. PICK v \in Vars, x \in AllVals :
          /\ s = Call(v, x) /\ x \in Kind[v]
          /\ v = LoaderVar => x = ToProgram
          /\ v \in Conf => x = Default
    BY <1>1, Variables, Kinds DEF MainSteps, Marks
  <2> QED
    BY <2>1 DEF Call, Steps
<1>3. ASSUME NEW s \in HandlerSteps
      PROVE  /\ s \in Steps
             /\ s.do = "write" => /\ s.var \in Conf \cup {LoaderVar} /\ s.val \in Kind[s.var]
                                  /\ s.val \in AllVals /\ s = Call(s.var, s.val)
             /\ s.do = "assign" => s.var \in Conf /\ s.val \in Vals /\ s = Assign(s.var, s.val)
  <2>1. CASE s \in {Restart, Wait}
    BY <2>1 DEF Restart, Wait, Steps
  <2>2. CASE s = Call(LoaderVar, ToLoader)
    BY <1>1, <2>2, Variables, Kinds DEF Call, Steps
  <2>3. CASE \E v \in Conf, x \in Vals : s = Call(v, x) \/ s = Assign(v, x)
    BY <1>1, <2>3, Variables, Kinds DEF Call, Assign, Steps
  <2> QED
    BY <2>1, <2>2, <2>3 DEF HandlerSteps
<1> QED
  BY <1>2, <1>3

LEMMA ListTail ==
  ASSUME NEW list \in Seq(Steps), list # <<>>
  PROVE  /\ Tail(list) \in Seq(Steps) /\ Len(list) \in Nat /\ Len(list) >= 1
         /\ Len(Tail(list)) = Len(list) - 1
         /\ DOMAIN list = 1 .. Len(list) /\ DOMAIN Tail(list) = 1 .. Len(list) - 1
         /\ 1 \in DOMAIN list /\ Head(list) = list[1]
         /\ \A n \in DOMAIN Tail(list) : n + 1 \in DOMAIN list /\ Tail(list)[n] = list[n + 1]
         /\ \A n \in DOMAIN list :
              n = 1 \/ (n - 1 \in DOMAIN Tail(list) /\ Tail(list)[n - 1] = list[n])
<1>1. /\ Tail(list) \in Seq(Steps) /\ Len(Tail(list)) = Len(list) - 1 /\ Head(list) = list[1]
      /\ Len(list) \in Nat /\ Len(list) >= 1
      /\ \A n \in 1 .. Len(Tail(list)) : Tail(list)[n] = list[n + 1]
  BY HeadTailProperties, EmptySeq
<1>2. DOMAIN list = 1 .. Len(list) /\ DOMAIN Tail(list) = 1 .. Len(list) - 1
  BY <1>1
<1>3. ASSUME NEW n \in DOMAIN list, n # 1
      PROVE  n - 1 \in DOMAIN Tail(list) /\ Tail(list)[n - 1] = list[n]
  <2>1. n - 1 \in 1 .. Len(Tail(list)) /\ (n - 1) + 1 = n
    BY <1>1, <1>2, <1>3
  <2> QED
    BY <1>1, <1>2, <2>1
<1> QED
  BY <1>1, <1>2, <1>3

\* A handler assigns a variable once, and stores what it has assigned once afterwards.
Paired(list) ==
  /\ \A n \in DOMAIN list : list[n].do = "assign" =>
       \E m \in DOMAIN list : m > n /\ list[m] = Call(list[n].var, list[n].val)
  /\ \A n, m \in DOMAIN list :
       list[n].do \in {"assign", "write"} /\ list[n].do = list[m].do /\ list[n].var = list[m].var
         => n = m

\* The list of an order stores nothing but what it has assigned before.
OrderList(list) ==
  /\ list \in Seq(HandlerSteps) /\ Paired(list)
  /\ \A n \in DOMAIN list : list[n].do = "write" =>
       list[n].var \in Conf /\ \E k \in 1 .. n : list[k] = Assign(list[n].var, list[n].val)

LEMMA StepFields ==
  ASSUME NEW v \in Conf, NEW x \in Vals
  PROVE  /\ Assign(v, x).do = "assign" /\ Assign(v, x).var = v /\ Assign(v, x).val = x
         /\ Call(v, x).do = "write" /\ Call(v, x).var = v /\ Call(v, x).val = x
         /\ Restart.do = "restart" /\ Wait.do = "wait"
         /\ Assign(v, x) \in HandlerSteps /\ Call(v, x) \in HandlerSteps
         /\ Restart \in HandlerSteps /\ Wait \in HandlerSteps
BY DEF Assign, Call, Restart, Wait, HandlerSteps

LEMMA CanList ==
  ASSUME NEW v \in Conf, NEW w \in Conf, v # w, NEW x \in Vals, NEW y \in Vals
  PROVE  OrderList(<<Assign(v, x), Assign(w, y), Call(v, x), Call(w, y), Restart>>)
<1> DEFINE list == <<Assign(v, x), Assign(w, y), Call(v, x), Call(w, y), Restart>>
<1>1. /\ list \in Seq(HandlerSteps) /\ DOMAIN list = 1 .. 5
      /\ list[1] = Assign(v, x) /\ list[2] = Assign(w, y) /\ list[3] = Call(v, x)
      /\ list[4] = Call(w, y) /\ list[5] = Restart
  BY StepFields
<1> HIDE DEF list
<1>2. \A n \in DOMAIN list : list[n].do = "assign" =>
        \E m \in DOMAIN list : m > n /\ list[m] = Call(list[n].var, list[n].val)
  <2>1. SUFFICES ASSUME NEW n \in 1 .. 5, list[n].do = "assign"
                 PROVE  \E m \in DOMAIN list : m > n /\ list[m] = Call(list[n].var, list[n].val)
    BY <1>1
  <2>2. n = 1 \/ n = 2
    BY <1>1, <2>1, StepFields
  <2> QED
    BY <1>1, <2>2, StepFields
<1>3. \A n, m \in DOMAIN list :
        list[n].do \in {"assign", "write"} /\ list[n].do = list[m].do /\ list[n].var = list[m].var
          => n = m
  BY <1>1, StepFields
<1>4. \A n \in DOMAIN list : list[n].do = "write" =>
        list[n].var \in Conf /\ \E k \in 1 .. n : list[k] = Assign(list[n].var, list[n].val)
  <2>1. SUFFICES ASSUME NEW n \in 1 .. 5, list[n].do = "write"
                 PROVE  /\ list[n].var \in Conf
                        /\ \E k \in 1 .. n : list[k] = Assign(list[n].var, list[n].val)
    BY <1>1
  <2>2. n = 3 \/ n = 4
    BY <1>1, <2>1, StepFields
  <2> QED
    BY <1>1, <2>2, StepFields
<1> QED
  BY <1>1, <1>2, <1>3, <1>4 DEF OrderList, Paired, list

LEMMA LcdList ==
  ASSUME NEW v \in Conf, NEW w \in Conf, v # w, NEW x \in Vals, NEW y \in Vals
  PROVE  OrderList(<<Assign(v, x), Call(v, x), Assign(w, y), Call(w, y), Wait>>)
<1> DEFINE list == <<Assign(v, x), Call(v, x), Assign(w, y), Call(w, y), Wait>>
<1>1. /\ list \in Seq(HandlerSteps) /\ DOMAIN list = 1 .. 5
      /\ list[1] = Assign(v, x) /\ list[2] = Call(v, x) /\ list[3] = Assign(w, y)
      /\ list[4] = Call(w, y) /\ list[5] = Wait
  BY StepFields
<1> HIDE DEF list
<1>2. \A n \in DOMAIN list : list[n].do = "assign" =>
        \E m \in DOMAIN list : m > n /\ list[m] = Call(list[n].var, list[n].val)
  <2>1. SUFFICES ASSUME NEW n \in 1 .. 5, list[n].do = "assign"
                 PROVE  \E m \in DOMAIN list : m > n /\ list[m] = Call(list[n].var, list[n].val)
    BY <1>1
  <2>2. n = 1 \/ n = 3
    BY <1>1, <2>1, StepFields
  <2> QED
    BY <1>1, <2>2, StepFields
<1>3. \A n, m \in DOMAIN list :
        list[n].do \in {"assign", "write"} /\ list[n].do = list[m].do /\ list[n].var = list[m].var
          => n = m
  BY <1>1, StepFields
<1>4. \A n \in DOMAIN list : list[n].do = "write" =>
        list[n].var \in Conf /\ \E k \in 1 .. n : list[k] = Assign(list[n].var, list[n].val)
  <2>1. SUFFICES ASSUME NEW n \in 1 .. 5, list[n].do = "write"
                 PROVE  /\ list[n].var \in Conf
                        /\ \E k \in 1 .. n : list[k] = Assign(list[n].var, list[n].val)
    BY <1>1
  <2>2. n = 2 \/ n = 4
    BY <1>1, <2>1, StepFields
  <2> QED
    BY <1>1, <2>2, StepFields
<1> QED
  BY <1>1, <1>2, <1>3, <1>4 DEF OrderList, Paired, list

LEMMA NetList ==
  ASSUME NEW v \in Conf, NEW x \in Vals
  PROVE  OrderList(<<Assign(v, x), Call(v, x), Wait>>)
<1> DEFINE list == <<Assign(v, x), Call(v, x), Wait>>
<1>1. /\ list \in Seq(HandlerSteps) /\ DOMAIN list = 1 .. 3
      /\ list[1] = Assign(v, x) /\ list[2] = Call(v, x) /\ list[3] = Wait
  BY StepFields
<1> HIDE DEF list
<1>2. Paired(list)
  BY <1>1, StepFields DEF Paired
<1>3. \A n \in DOMAIN list : list[n].do = "write" =>
        list[n].var \in Conf /\ \E k \in 1 .. n : list[k] = Assign(list[n].var, list[n].val)
  BY <1>1, StepFields
<1> QED
  BY <1>1, <1>2, <1>3 DEF OrderList, list

LEMMA CoilList ==
  ASSUME NEW x \in Vals
  PROVE  OrderList(Coil(x))
<1> DEFINE list == Coil(x)
<1>0. AiType \in Conf
  BY ConfigAssumption
<1>1. /\ list \in Seq(HandlerSteps) /\ DOMAIN list = 1 .. 2
      /\ list[1] = Assign(AiType, x) /\ list[2] = Call(AiType, x)
  BY <1>0, StepFields DEF Coil
<1> HIDE DEF list
<1>2. Paired(list)
  BY <1>0, <1>1, StepFields DEF Paired
<1>3. \A n \in DOMAIN list : list[n].do = "write" =>
        list[n].var \in Conf /\ \E k \in 1 .. n : list[k] = Assign(list[n].var, list[n].val)
  BY <1>0, <1>1, StepFields
<1> QED
  BY <1>1, <1>2, <1>3 DEF OrderList, list

LEMMA RegistersList ==
  ASSUME NEW i \in DOMAIN Regs, NEW j \in DOMAIN Regs, i <= j, NEW x \in Vals
  PROVE  OrderList(Registers(i, j, x))
<1> DEFINE list == Registers(i, j, x)
           v(n) == Regs[i + (n - 1) \div 2]
<1>1. DOMAIN Regs = 1 .. Len(Regs) /\ Len(Regs) \in Nat
  BY Variables
<1>2. DOMAIN list = 1 .. 2 * (j - i + 1)
  BY DEF Registers
<1>3. ASSUME NEW n \in DOMAIN list
      PROVE  /\ v(n) \in Conf
             /\ i + (n - 1) \div 2 \in DOMAIN Regs
             /\ n % 2 = 1 => list[n] = Assign(v(n), x) /\ n + 1 \in DOMAIN list /\ v(n + 1) = v(n)
             /\ n % 2 # 1 => list[n] = Call(v(n), x) /\ n - 1 \in DOMAIN list /\ v(n - 1) = v(n)
  <2>1. i \in 1 .. Len(Regs) /\ j \in 1 .. Len(Regs) /\ n \in 1 .. 2 * (j - i + 1)
    BY <1>1, <1>2
  <2>2. i + (n - 1) \div 2 \in 1 .. Len(Regs)
    BY <1>1, <2>1
  <2>3. n % 2 = 1 => n + 1 \in 1 .. 2 * (j - i + 1) /\ n \div 2 = (n - 1) \div 2
    BY <1>1, <2>1
  <2>4. n % 2 # 1 => n - 1 \in 1 .. 2 * (j - i + 1) /\ (n - 2) \div 2 = (n - 1) \div 2
    BY <1>1, <2>1
  <2>5. v(n) \in Conf
    BY <1>1, <2>2, Variables
  <2>6. /\ n % 2 = 1 => list[n] = Assign(v(n), x)
        /\ n % 2 # 1 => list[n] = Call(v(n), x)
    BY <2>1 DEF Registers
  <2>7. (n + 1) - 1 = n /\ (n - 1) - 1 = n - 2
    BY <2>1
  <2> QED
    BY <1>1, <1>2, <2>2, <2>3, <2>4, <2>5, <2>6, <2>7
<1>4. ASSUME NEW n \in DOMAIN list, NEW m \in DOMAIN list, v(n) = v(m), n % 2 = m % 2
      PROVE  n = m
  <2>1. i + (n - 1) \div 2 = i + (m - 1) \div 2
    BY <1>3, <1>4, ConfigAssumption
  <2>2. i \in Nat /\ n \in Nat /\ m \in Nat
    BY <1>1, <1>2
  <2>3. (n - 1) \div 2 = (m - 1) \div 2
    BY <2>1, <2>2
  <2> QED
    BY <1>4, <2>2, <2>3
<1>5. list \in Seq(HandlerSteps)
  <2>1. \A n \in DOMAIN list : list[n] \in HandlerSteps
    BY <1>3, StepFields
  <2>2. 2 * (j - i + 1) \in Nat
    BY <1>1
  <2>3. list = [n \in 1 .. 2 * (j - i + 1) |-> list[n]]
    BY <1>2 DEF Registers
  <2> HIDE DEF list
  <2> QED
    BY <1>2, <2>1, <2>2, <2>3
<1>6. \A n \in DOMAIN list : n \in Nat /\ (n % 2 = 1 \/ n % 2 = 0) /\ (n + 1) % 2 # n % 2
  BY <1>1, <1>2
<1> HIDE DEF list
<1>7. \A n \in DOMAIN list : list[n].do = "assign" =>
        \E m \in DOMAIN list : m > n /\ list[m] = Call(list[n].var, list[n].val)
  <2>1. SUFFICES ASSUME NEW n \in DOMAIN list, list[n].do = "assign"
                 PROVE  n + 1 \in DOMAIN list /\ n + 1 > n
                        /\ list[n + 1] = Call(list[n].var, list[n].val)
    OBVIOUS
  <2>2. n % 2 = 1
    BY <1>3, <2>1, StepFields
  <2> QED
    BY <1>3, <1>6, <2>2, StepFields
<1>8. \A n, m \in DOMAIN list :
        list[n].do \in {"assign", "write"} /\ list[n].do = list[m].do /\ list[n].var = list[m].var
          => n = m
  <2>1. SUFFICES ASSUME NEW n \in DOMAIN list, NEW m \in DOMAIN list,
                        list[n].do = list[m].do, list[n].var = list[m].var
                 PROVE  n = m
    OBVIOUS
  <2>2. ASSUME NEW k \in DOMAIN list
        PROVE  /\ list[k].var = v(k)
               /\ list[k].do = IF k % 2 = 1 THEN "assign" ELSE "write"
    BY <1>3, StepFields
  <2>3. n % 2 = m % 2
    BY <1>6, <2>1, <2>2
  <2>4. v(n) = v(m)
    BY <2>1, <2>2
  <2> QED
    BY <1>4, <2>3, <2>4
<1>9. \A n \in DOMAIN list : list[n].do = "write" =>
        list[n].var \in Conf /\ \E k \in 1 .. n : list[k] = Assign(list[n].var, list[n].val)
  <2>1. SUFFICES ASSUME NEW n \in DOMAIN list, list[n].do = "write"
                 PROVE  /\ list[n].var \in Conf /\ n - 1 \in 1 .. n
                        /\ list[n - 1] = Assign(list[n].var, list[n].val)
    OBVIOUS
  <2>2. n % 2 # 1 /\ list[n] = Call(v(n), x) /\ n - 1 \in DOMAIN list /\ v(n - 1) = v(n)
    BY <1>3, <2>1, StepFields
  <2>3. (n - 1) % 2 = 1 /\ n - 1 \in 1 .. n
    BY <1>1, <1>2, <1>6, <2>2
  <2> QED
    BY <1>3, <2>2, <2>3, StepFields
<1> QED
  BY <1>5, <1>7, <1>8, <1>9 DEF OrderList, Paired, list

LEMMA OrderLists ==
  ASSUME Orders
  PROVE  AskLoader \/ \E h \in Handlers, list \in Seq(HandlerSteps) : OrderList(list) /\ Order(h, list)
<1>1. {"lcd", "can", "udp", "task"} \subseteq Handlers
  BY Names
<1>2. /\ Regs[1] \in Conf /\ Regs[2] \in Conf /\ Regs[3] \in Conf
      /\ Regs[2] # Regs[3]
  BY Variables, ConfigAssumption
<1>3. CASE CanAddress
  BY <1>1, <1>2, <1>3, CanList DEF CanAddress, OrderList
<1>4. CASE LcdAddress
  BY <1>1, <1>2, <1>4, LcdList DEF LcdAddress, OrderList
<1>5. CASE LcdNet
  BY <1>1, <1>2, <1>5, NetList DEF LcdNet, OrderList
<1>6. CASE UdpWrite
  BY <1>1, <1>6, RegistersList DEF UdpWrite, OrderList
<1>7. CASE ModbusWrite
  <2>1. CASE \E i, j \in DOMAIN Regs, x \in Vals : i <= j /\ Order("task", Registers(i, j, x))
    BY <1>1, <2>1, RegistersList DEF OrderList
  <2>2. CASE \E x \in Vals : Order("task", Coil(x))
    BY <1>1, <2>2, CoilList DEF OrderList
  <2> QED
    BY <1>7, <2>1, <2>2 DEF ModbusWrite
<1> QED
  BY <1>3, <1>4, <1>5, <1>6, <1>7 DEF Orders

-----------------------------------------------------------------------------
(* Types. *)

\* The first step of a list, and what is left of it.
LEMMA FirstStep ==
  ASSUME Lists, NEW h \in Handlers \cup {"main"}, todo[h] # <<>>
  PROVE  /\ Head(todo[h]) = todo[h][1] /\ 1 \in DOMAIN todo[h]
         /\ h = "main" => Head(todo[h]) \in MainSteps
         /\ h # "main" => Head(todo[h]) \in HandlerSteps
BY ListTail, Names DEF Lists

LEMMA ListsTail ==
  ASSUME Lists, NEW h \in Handlers \cup {"main"}, todo[h] # <<>>,
         todo' = [todo EXCEPT ![h] = Tail(todo[h])]
  PROVE  /\ Lists'
         /\ todo'[h] = Tail(todo[h])
         /\ \A g \in Handlers \cup {"main"} : g # h => todo'[g] = todo[g]
<1>1. todo'[h] = Tail(todo[h]) /\ \A g \in Handlers \cup {"main"} : g # h => todo'[g] = todo[g]
  BY DEF Lists
<1>2. /\ Tail(todo[h]) \in Seq(Steps)
      /\ \A n \in DOMAIN Tail(todo[h]) :
           n + 1 \in DOMAIN todo[h] /\ Tail(todo[h])[n] = todo[h][n + 1]
  BY ListTail DEF Lists
<1>3. todo' \in [Handlers \cup {"main"} -> Seq(Steps)]
  BY <1>2 DEF Lists
<1> QED
  BY <1>1, <1>2, <1>3, Names DEF Lists

LEMMA ListsSet ==
  ASSUME Lists, NEW h \in Handlers, NEW list \in Seq(HandlerSteps),
         todo' = [todo EXCEPT ![h] = list]
  PROVE  /\ Lists'
         /\ todo'[h] = list
         /\ \A g \in Handlers \cup {"main"} : g # h => todo'[g] = todo[g]
<1>1. todo'[h] = list /\ \A g \in Handlers \cup {"main"} : g # h => todo'[g] = todo[g]
  BY DEF Lists
<1>2. list \in Seq(Steps) /\ \A n \in DOMAIN list : list[n] \in HandlerSteps
  <2>1. HandlerSteps \subseteq Steps
    BY StepKinds
  <2>2. Len(list) \in Nat /\ list \in [1 .. Len(list) -> HandlerSteps]
    OBVIOUS
  <2>3. list \in [1 .. Len(list) -> Steps]
    BY <2>1, <2>2
  <2> QED
    BY <2>2, <2>3
<1>3. todo' \in [Handlers \cup {"main"} -> Seq(Steps)]
  BY <1>2 DEF Lists
<1> QED
  BY <1>1, <1>2, <1>3, Names DEF Lists

\* The list of main, from the check of the keys.
MainList == Mark \o IF store[ConfigKeyVar] # ConfigKey THEN Defaults ELSE <<>>

LEMMA MainListFacts ==
  /\ MainList \in Seq(Steps) /\ \A n \in DOMAIN MainList : MainList[n] \in MainSteps
  /\ \A n \in DOMAIN MainList : MainList[n].var = ConfigKeyVar => n = Len(MainList)
  /\ store[KeyVar] = Key /\ store[LoaderVar] # ToProgram =>
       \E n \in DOMAIN MainList : MainList[n] = Call(LoaderVar, ToProgram)
  /\ store[ConfigKeyVar] # ConfigKey =>
       \A v \in Conf \cup {KeyVar, ConfigKeyVar} : \E n \in DOMAIN MainList : MainList[n].var = v
  /\ store[ConfigKeyVar] = ConfigKey =>
       \A n \in DOMAIN MainList : MainList[n] \in Marks
<1> DEFINE conf == [n \in DOMAIN Regs |-> Call(Regs[n], Default)]
           L == Len(Regs)
<1>0. DOMAIN Regs = 1 .. L /\ L \in Nat
  BY Variables
<1>1. /\ {Call(KeyVar, Key), Call(ConfigKeyVar, ConfigKey), Call(LoaderVar, ToProgram)} \subseteq MainSteps
      /\ \A n \in DOMAIN Regs : Call(Regs[n], Default) \in MainSteps
  BY Variables DEF MainSteps, Marks
<1>2. conf \in Seq(MainSteps) /\ Len(conf) = L /\ \A n \in 1 .. L : conf[n] = Call(Regs[n], Default)
  <2>1. conf \in [1 .. L -> MainSteps]
    BY <1>0, <1>1
  <2> QED
    BY <1>0, <2>1
<1> HIDE DEF conf
<1>3. /\ Defaults \in Seq(MainSteps) /\ Len(Defaults) = L + 2
      /\ Defaults[1] = Call(KeyVar, Key) /\ Defaults[L + 2] = Call(ConfigKeyVar, ConfigKey)
      /\ \A n \in 1 .. L : Defaults[n + 1] = Call(Regs[n], Default)
  <2>1. Defaults = <<Call(KeyVar, Key)>> \o conf \o <<Call(ConfigKeyVar, ConfigKey)>>
    BY DEF Defaults, conf
  <2> DEFINE first == <<Call(KeyVar, Key)>>
             last == <<Call(ConfigKeyVar, ConfigKey)>>
             front == first \o conf
  <2>2. /\ first \in Seq(MainSteps) /\ Len(first) = 1 /\ first[1] = Call(KeyVar, Key)
        /\ last \in Seq(MainSteps) /\ Len(last) = 1 /\ last[1] = Call(ConfigKeyVar, ConfigKey)
    BY <1>1
  <2> HIDE DEF first, last
  <2>3. /\ front \in Seq(MainSteps) /\ Len(front) = L + 1 /\ front[1] = Call(KeyVar, Key)
        /\ \A n \in 1 .. L : front[n + 1] = Call(Regs[n], Default)
    <3>5. front = first \o conf
      OBVIOUS
    <3> HIDE DEF front
    <3>0. /\ front \in Seq(MainSteps) /\ Len(front) = Len(first) + Len(conf)
          /\ \A n \in 1 .. Len(first) + Len(conf) :
               front[n] = IF n <= Len(first) THEN first[n] ELSE conf[n - Len(first)]
      BY <1>2, <2>2, <3>5, ConcatProperties
    <3>1. front \in Seq(MainSteps) /\ Len(front) = L + 1
      BY <1>0, <1>2, <2>2, <3>0
    <3>2. \A n \in 1 .. L + 1 : front[n] = IF n <= 1 THEN first[n] ELSE conf[n - 1]
      BY <1>0, <1>2, <2>2, <3>0
    <3>3. ASSUME NEW n \in 1 .. L PROVE front[n + 1] = Call(Regs[n], Default)
      <4>1. n + 1 \in 1 .. L + 1 /\ ~(n + 1 <= 1) /\ (n + 1) - 1 = n
        BY <1>0
      <4> QED
        BY <1>2, <3>2, <4>1
    <3>4. front[1] = first[1]
      BY <1>0, <3>2
    <3> QED
      BY <2>2, <3>1, <3>3, <3>4
  <2>4. Defaults = front \o last
    BY <2>1 DEF first, last
  <2> HIDE DEF front
  <2>5. /\ Defaults \in Seq(MainSteps) /\ Len(Defaults) = L + 2
        /\ \A n \in 1 .. L + 2 :
             Defaults[n] = IF n <= L + 1 THEN front[n] ELSE last[n - (L + 1)]
    <3>1. /\ Defaults \in Seq(MainSteps) /\ Len(Defaults) = Len(front) + Len(last)
          /\ \A n \in 1 .. Len(front) + Len(last) :
               Defaults[n] = IF n <= Len(front) THEN front[n] ELSE last[n - Len(front)]
      BY <2>2, <2>3, <2>4, ConcatProperties
    <3>2. Len(front) + Len(last) = L + 2 /\ Len(front) = L + 1
      BY <1>0, <2>2, <2>3
    <3> QED
      BY <3>1, <3>2
  <2>6. Defaults[1] = front[1] /\ Defaults[L + 2] = last[1]
    BY <1>0, <2>5
  <2>7. ASSUME NEW n \in 1 .. L PROVE Defaults[n + 1] = front[n + 1]
    <3>1. n + 1 \in 1 .. L + 2 /\ n + 1 <= L + 1
      BY <1>0
    <3> QED
      BY <2>5, <3>1
  <2> QED
    BY <2>2, <2>3, <2>5, <2>6, <2>7
<1>4. /\ Mark \in Seq(MainSteps) /\ Len(Mark) \in {0, 1}
      /\ Len(Mark) = 1 => Mark[1] = Call(LoaderVar, ToProgram)
      /\ store[KeyVar] = Key /\ store[LoaderVar] # ToProgram => Len(Mark) = 1
  BY <1>1 DEF Mark
<1> DEFINE rest == IF store[ConfigKeyVar] # ConfigKey THEN Defaults ELSE <<>>
<1>5. rest \in Seq(MainSteps) /\ Len(rest) \in Nat
  BY <1>3
<1>6. /\ MainList \in Seq(MainSteps) /\ Len(MainList) = Len(Mark) + Len(rest)
      /\ \A n \in 1 .. Len(Mark) : MainList[n] = Mark[n]
      /\ \A n \in 1 .. Len(rest) : MainList[Len(Mark) + n] = rest[n]
      /\ DOMAIN MainList = 1 .. Len(MainList)
  BY <1>4, <1>5 DEF MainList
<1>7. \A n \in DOMAIN MainList : MainList[n] \in MainSteps
  BY <1>6
<1>8. MainList \in Seq(Steps)
  <2>1. MainList \in [1 .. Len(MainList) -> MainSteps] /\ Len(MainList) \in Nat
    BY <1>6
  <2>2. MainList \in [1 .. Len(MainList) -> Steps]
    BY <2>1, StepKinds
  <2> QED
    BY <2>1, <2>2
<1>9. \A n \in DOMAIN MainList :
        \/ n \in 1 .. Len(Mark)
        \/ n - Len(Mark) \in 1 .. Len(rest) /\ MainList[n] = rest[n - Len(Mark)]
  <2>1. SUFFICES ASSUME NEW n \in DOMAIN MainList, n \notin 1 .. Len(Mark)
                 PROVE  n - Len(Mark) \in 1 .. Len(rest) /\ MainList[n] = rest[n - Len(Mark)]
    OBVIOUS
  <2>2. n - Len(Mark) \in 1 .. Len(rest) /\ Len(Mark) + (n - Len(Mark)) = n
    BY <1>4, <1>5, <1>6, <2>1
  <2> QED
    BY <1>6, <2>2
<1>10. \A n \in DOMAIN MainList : MainList[n].var = ConfigKeyVar => n = Len(MainList)
  <2>1. SUFFICES ASSUME NEW n \in DOMAIN MainList, MainList[n].var = ConfigKeyVar
                 PROVE  n = Len(MainList)
    OBVIOUS
  <2>2. n \notin 1 .. Len(Mark)
    BY <1>4, <1>6, <2>1, Variables DEF Call
  <2>3. rest = Defaults /\ n - Len(Mark) \in 1 .. L + 2 /\ MainList[n] = Defaults[n - Len(Mark)]
    BY <1>3, <1>9, <2>2
  <2>4. ASSUME NEW k \in 1 .. L + 2, Defaults[k].var = ConfigKeyVar PROVE k = L + 2
    <3>1. k # 1
      BY <1>3, <2>4, Variables DEF Call
    <3>2. ASSUME k # L + 2 PROVE FALSE
      <4>1. k - 1 \in 1 .. L /\ (k - 1) + 1 = k
        BY <1>0, <3>1, <3>2
      <4>3. Defaults[k] = Call(Regs[k - 1], Default)
        BY <1>3, <4>1
      <4>2. Defaults[k].var = Regs[k - 1] /\ Regs[k - 1] \in Conf
        BY <1>0, <4>1, <4>3, Variables DEF Call
      <4> QED
        BY <2>4, <4>2, Variables
    <3> QED
      BY <3>2
  <2>5. n - Len(Mark) = L + 2
    BY <2>1, <2>3, <2>4
  <2> QED
    BY <1>0, <1>3, <1>4, <1>6, <2>3, <2>5
<1>11. store[KeyVar] = Key /\ store[LoaderVar] # ToProgram =>
         \E n \in DOMAIN MainList : MainList[n] = Call(LoaderVar, ToProgram)
  BY <1>4, <1>5, <1>6
<1>12. ASSUME store[ConfigKeyVar] # ConfigKey, NEW v \in Conf \cup {KeyVar, ConfigKeyVar}
       PROVE  \E n \in DOMAIN MainList : MainList[n].var = v
  <2>1. \E k \in 1 .. L + 2 : Defaults[k].var = v
    <3>1. CASE v = KeyVar \/ v = ConfigKeyVar
      BY <1>0, <1>3, <3>1 DEF Call
    <3>2. CASE v \in Conf
      <4>1. PICK r \in DOMAIN Regs : v = Regs[r]
        BY <3>2 DEF Conf, ToSet
      <4>2. r \in 1 .. L /\ r + 1 \in 1 .. L + 2
        BY <1>0
      <4>3. Defaults[r + 1] = Call(Regs[r], Default)
        BY <1>3, <4>2
      <4>4. Defaults[r + 1].var = v
        BY <4>1, <4>3 DEF Call
      <4> QED
        BY <4>2, <4>4
    <3> QED
      BY <3>1, <3>2
  <2>2. PICK k \in 1 .. L + 2 : Defaults[k].var = v
    BY <2>1
  <2>3. rest = Defaults /\ k \in 1 .. Len(rest)
    BY <1>3, <1>12
  <2>4. Len(Mark) + k \in DOMAIN MainList
    BY <1>4, <1>5, <1>6, <2>3
  <2> QED
    BY <1>6, <2>2, <2>3, <2>4
<1>13. store[ConfigKeyVar] = ConfigKey => \A n \in DOMAIN MainList : MainList[n] \in Marks
  BY <1>4, <1>6 DEF Marks
<1> QED
  BY <1>7, <1>8, <1>10, <1>11, <1>12, <1>13

LEMMA TypesInit == Init => Types
<1> SUFFICES ASSUME Init PROVE Types
  OBVIOUS
<1>1. store = [v \in Vars |-> Absent] /\ request = NoRequest
  BY DEF Init, CS!Init
<1>2. Lists
  BY DEF Init, Idle, Lists
<1>3. ram \in [Conf -> Vals]
  BY ConfigAssumption DEF Init
<1>4. 0 \in 0 .. LoaderTicks /\ 0 \in 0 .. MaxOrders /\ 0 \in 0 .. MaxCuts
  BY ConfigAssumption
<1> QED
  BY <1>1, <1>2, <1>3, <1>4 DEF Init, Types

\* The steps of the lists, one by one.
LEMMA Domain == Lists => DOMAIN todo = Handlers \cup {"main"}
BY DEF Lists

LEMMA ListsReset == todo' = Idle => Lists' /\ \A h \in Handlers \cup {"main"} : todo'[h] = <<>>
BY DEF Idle, Lists

LEMMA AssignStep ==
  ASSUME Types, NEW h \in Handlers \cup {"main"}, DoAssign(h)
  PROVE  \E v \in Conf, x \in Vals :
           /\ h \in Handlers /\ pc = "run" /\ todo[h] # <<>> /\ todo[h][1] = Assign(v, x)
           /\ todo' = [todo EXCEPT ![h] = Tail(todo[h])]
           /\ ram' = [ram EXCEPT ![v] = x]
           /\ torn' = (torn \/ \E g \in Handlers \ {h} : v \in Unstored(g))
           /\ UNCHANGED <<eeprom, pc, loader_flag, watchdog, bounds>>
<1>1. /\ todo[h] # <<>> /\ Head(todo[h]).do = "assign"
      /\ h # "main" => pc = "run"
      /\ todo' = [todo EXCEPT ![h] = Tail(todo[h])]
  BY DEF DoAssign, Step
<1>2. Lists
  BY DEF Types
<1>3. h # "main"
  BY <1>1, <1>2, FirstStep, StepKinds
<1>4. /\ Head(todo[h]) = todo[h][1]
      /\ Head(todo[h]).var \in Conf /\ Head(todo[h]).val \in Vals
      /\ Head(todo[h]) = Assign(Head(todo[h]).var, Head(todo[h]).val)
  BY <1>1, <1>2, <1>3, FirstStep, StepKinds
<1> QED
  BY <1>1, <1>3, <1>4 DEF DoAssign

LEMMA WriteStep ==
  ASSUME Types, NEW h \in Handlers \cup {"main"}, DoWrite(h)
  PROVE  \E v \in Vars, x \in AllVals :
           /\ x \in Kind[v]
           /\ h = "main" => pc = "init" /\ todo[h][1] \in MainSteps
           /\ h # "main" => pc = "run" /\ v \in Conf \cup {LoaderVar} /\ todo[h][1] = Call(v, x)
           /\ todo[h] # <<>> /\ todo[h][1].do = "write"
           /\ todo[h][1].var = v /\ todo[h][1].val = x
           /\ todo' = [todo EXCEPT ![h] = Tail(todo[h])]
           /\ request = NoRequest /\ request' = [var |-> v, val |-> x] /\ store' = store
           /\ UNCHANGED <<pc, ram, loader_flag, watchdog, bounds, torn>>
<1>1. /\ todo[h] # <<>> /\ Head(todo[h]).do = "write"
      /\ IF h = "main" THEN pc = "init" ELSE pc = "run"
      /\ todo' = [todo EXCEPT ![h] = Tail(todo[h])]
  BY DEF DoWrite, Step
<1>2. Lists
  BY DEF Types
<1>3. /\ Head(todo[h]) = todo[h][1]
      /\ Head(todo[h]).var \in Vars /\ Head(todo[h]).val \in Kind[Head(todo[h]).var]
      /\ h = "main" => Head(todo[h]) \in MainSteps
      /\ h # "main" => /\ Head(todo[h]).var \in Conf \cup {LoaderVar}
                       /\ Head(todo[h]) = Call(Head(todo[h]).var, Head(todo[h]).val)
  BY <1>1, <1>2, FirstStep, StepKinds, Variables
<1>4. request = NoRequest /\ store' = store
  BY DEF DoWrite, CS!Begin
<1> QED
  BY <1>1, <1>3, <1>4, Kinds DEF DoWrite

LEMMA RequestFields ==
  ASSUME NEW v \in Vars, NEW x \in Kind[v], request' = [var |-> v, val |-> x]
  PROVE  /\ request' # NoRequest /\ request' \in CS!Request
         /\ request'.var = v /\ request'.val = x
BY Kinds, ConfigAssumption DEF CS!Request

\* A reset, whatever it is caused by.
AnyReset == (\E h \in DOMAIN todo : SystemReset(h)) \/ WatchdogReset \/ PowerLoss

LEMMA ResetFacts ==
  ASSUME AnyReset
  PROVE  /\ pc' = "reset" /\ todo' = Idle /\ store' = store /\ request' = NoRequest
         /\ loader_flag' = 0 /\ watchdog' = FALSE /\ torn' = (torn \/ Halfway)
         /\ ram' = ram /\ orders' = orders
         /\ cuts' = cuts \/ (cuts < MaxCuts /\ cuts' = cuts + 1)
BY DEF AnyReset, SystemReset, WatchdogReset, PowerLoss, Reset, CS!Reset

BootInv == Types /\ Phases /\ KeyLast /\ LoaderMarked

\* When main reads the configuration all of it has been stored.
LEMMA LoadComplete ==
  ASSUME BootInv, Load
  PROVE  /\ Complete(Conf \cup {KeyVar, ConfigKeyVar})
         /\ request = NoRequest /\ pc = "init" /\ pc' = "run"
         /\ \A h \in Handlers \cup {"main"} : todo[h] = <<>>
         /\ ram' \in [Conf -> Vals] /\ \A v \in Conf : ram'[v] = store[v]
         /\ ~torn' /\ UNCHANGED <<eeprom, todo, loader_flag, watchdog, bounds>>
<1>1. pc = "init" /\ todo["main"] = <<>> /\ request = NoRequest /\ pc' = "run"
  BY DEF Load
<1>2. \A v \in Conf \cup {KeyVar, ConfigKeyVar} : store[v] # Absent
  BY <1>1 DEF BootInv, KeyLast, Requested, ToDo
<1>3. ram' = [v \in Conf |-> IF store[v] = Absent THEN Junk ELSE store[v]]
  BY DEF Load
<1>4. \A v \in Conf : ram'[v] = store[v] /\ store[v] \in Vals
  BY <1>2, <1>3, Variables, Kinds DEF BootInv, Types
<1>5. ram' \in [Conf -> Vals]
  BY <1>3, <1>4
<1> QED
  BY <1>1, <1>2, <1>4, <1>5 DEF Load, BootInv, Phases, Complete

LEMMA TypesStep == BootInv /\ [Next]_vars => Types'
<1> SUFFICES ASSUME BootInv, [Next]_vars PROVE Types'
  OBVIOUS
<1>0. /\ store \in [Vars -> AllVals \cup {Absent}]
      /\ \A v \in Vars : store[v] \in Kind[v] \cup {Absent}
      /\ request = NoRequest \/ (request \in CS!Request /\ request.val \in Kind[request.var])
      /\ Lists /\ ram \in [Conf -> Vals] /\ loader_flag \in 0 .. LoaderTicks
      /\ pc \in {"reset", "loader", "main", "init", "run"}
      /\ watchdog \in BOOLEAN /\ torn \in BOOLEAN
      /\ orders \in 0 .. MaxOrders /\ cuts \in 0 .. MaxCuts
      /\ Types
  BY DEF BootInv, Types
<1>1. CASE UNCHANGED vars
  BY <1>0, <1>1 DEF vars, eeprom, bounds, Types, Lists
<1>2. CASE Start \/ LeaveLoader \/ Watch
  <2>1. watchdog' \in BOOLEAN
    BY <1>0, <1>2 DEF Start, LeaveLoader, Watch
  <2> QED
    BY <1>0, <1>2, <2>1 DEF Start, LeaveLoader, Watch, eeprom, bounds, Types, Lists
<1>3. CASE Check
  <2>1. todo' = [todo EXCEPT !["main"] = MainList]
    BY <1>3 DEF Check, MainList
  <2>2. Lists'
    BY <1>0, <2>1, MainListFacts, Names DEF Lists
  <2> QED
    BY <1>0, <1>3, <2>2 DEF Check, eeprom, bounds, Types
<1>4. CASE Load
  <2>1. torn' \in BOOLEAN
    BY <1>4 DEF Load
  <2> QED
    BY <1>0, <1>4, <2>1, LoadComplete DEF eeprom, bounds, Types, Lists
<1>5. CASE Written
  <2>1. /\ request # NoRequest /\ store' = [store EXCEPT ![request.var] = request.val]
        /\ request' = request
    BY <1>5 DEF Written, CS!Commit
  <2>2. request.var \in Vars /\ request.val \in AllVals
    BY <1>0, <2>1 DEF CS!Request
  <2>3. /\ store' \in [Vars -> AllVals \cup {Absent}]
        /\ \A v \in Vars : store'[v] \in Kind[v] \cup {Absent}
    BY <1>0, <2>1, <2>2
  <2> QED
    BY <1>0, <1>5, <2>1, <2>3 DEF Written, bounds, Types, Lists
<1>6. CASE Returned
  BY <1>0, <1>6 DEF Returned, CS!End, bounds, Types, Lists
<1>7. CASE AskLoader
  BY <1>0, <1>7, ConfigAssumption DEF AskLoader, eeprom, Types, Lists
<1>8. ASSUME NEW h \in Handlers, NEW list \in Seq(HandlerSteps), Order(h, list)
      PROVE  Types'
  <2>1. Lists'
    BY <1>0, <1>8, ListsSet DEF Order
  <2> QED
    BY <1>0, <1>8, <2>1, ConfigAssumption DEF Order, eeprom, Types
<1>9. CASE LoaderTick
  <2>1. <<Call(LoaderVar, ToLoader), Restart>> \in Seq(HandlerSteps) /\ <<>> \in Seq(HandlerSteps)
    BY DEF HandlerSteps
  <2>2. PICK list \in Seq(HandlerSteps) : todo' = [todo EXCEPT !["task"] = list]
    BY <1>9, <2>1 DEF LoaderTick
  <2>3. Lists'
    BY <1>0, <2>2, ListsSet, Names
  <2> QED
    BY <1>0, <1>9, <2>3, ConfigAssumption DEF LoaderTick, LoaderCount, eeprom, bounds, Types
<1>10. ASSUME NEW h \in Handlers \cup {"main"}, DoAssign(h) PROVE Types'
  <2>1. PICK v \in Conf, x \in Vals :
          /\ todo[h] # <<>> /\ todo' = [todo EXCEPT ![h] = Tail(todo[h])]
          /\ ram' = [ram EXCEPT ![v] = x]
          /\ torn' = (torn \/ \E g \in Handlers \ {h} : v \in Unstored(g))
          /\ UNCHANGED <<eeprom, pc, loader_flag, watchdog, bounds>>
    BY <1>0, <1>10, AssignStep
  <2>2. Lists' /\ torn' \in BOOLEAN
    BY <1>0, <2>1, ListsTail
  <2>3. ram' \in [Conf -> Vals]
    BY <1>0, <2>1
  <2> QED
    BY <1>0, <2>1, <2>2, <2>3 DEF eeprom, bounds, Types
<1>11. ASSUME NEW h \in Handlers \cup {"main"}, DoWrite(h) PROVE Types'
  <2>1. PICK v \in Vars, x \in AllVals :
          /\ x \in Kind[v]
          /\ todo[h] # <<>> /\ todo' = [todo EXCEPT ![h] = Tail(todo[h])]
          /\ request' = [var |-> v, val |-> x] /\ store' = store
          /\ UNCHANGED <<pc, ram, loader_flag, watchdog, bounds, torn>>
    BY <1>0, <1>11, WriteStep
  <2>2. Lists'
    BY <1>0, <2>1, ListsTail
  <2>3. request' \in CS!Request /\ request'.val \in Kind[request'.var]
    BY <2>1, RequestFields
  <2> QED
    BY <1>0, <2>1, <2>2, <2>3 DEF bounds, Types
<1>12. CASE AnyReset
  <2>1. Lists'
    BY <1>12, ResetFacts, ListsReset
  <2>2. 0 \in 0 .. LoaderTicks /\ torn' \in BOOLEAN /\ cuts' \in 0 .. MaxCuts
    BY <1>0, <1>12, ResetFacts, ConfigAssumption
  <2> QED
    BY <1>0, <1>12, <2>1, <2>2, ResetFacts DEF Types
<1> QED
  BY <1>0, <1>1, <1>2, <1>3, <1>4, <1>5, <1>6, <1>7, <1>8, <1>9, <1>10, <1>11, <1>12,
     OrderLists, Domain DEF Next, Main, Handle, AnyReset

-----------------------------------------------------------------------------
(* The order in which things are stored. *)

LEMMA PhasesStep == BootInv /\ [Next]_vars => Phases'
<1> SUFFICES ASSUME BootInv, [Next]_vars PROVE Phases'
  OBVIOUS
<1>0. Types /\ Phases /\ Lists
  BY DEF BootInv, Types
<1>1. CASE UNCHANGED vars
  BY <1>0, <1>1 DEF vars, eeprom, Phases
<1>2. CASE Start \/ LeaveLoader \/ Watch
  BY <1>0, <1>2 DEF Start, LeaveLoader, Watch, eeprom, Phases
<1>3. CASE Check
  <2>1. \A h \in Handlers : todo'[h] = todo[h]
    BY <1>0, <1>3, Names DEF Check, Lists
  <2> QED
    BY <1>0, <1>3, <2>1 DEF Check, eeprom, Phases
<1>4. CASE Load
  BY <1>4, LoadComplete DEF eeprom, Phases
<1>5. CASE Written \/ Returned
  BY <1>0, <1>5 DEF Written, Returned, CS!Commit, CS!End, Phases
<1>6. CASE AskLoader
  BY <1>0, <1>6 DEF AskLoader, eeprom, Phases
<1>7. ASSUME NEW h \in Handlers, NEW list \in Seq(HandlerSteps), Order(h, list)
      PROVE  Phases'
  <2>1. todo'["main"] = todo["main"]
    BY <1>0, <1>7, ListsSet, Names DEF Order
  <2> QED
    BY <1>0, <1>7, <2>1 DEF Order, eeprom, Phases
<1>8. CASE LoaderTick
  <2>1. todo'["main"] = todo["main"]
    BY <1>0, <1>8 DEF LoaderTick, Lists
  <2> QED
    BY <1>0, <1>8, <2>1 DEF LoaderTick, eeprom, Phases
<1>9. ASSUME NEW h \in Handlers \cup {"main"}, DoAssign(h) PROVE Phases'
  <2>1. /\ h \in Handlers /\ pc = "run" /\ todo[h] # <<>> /\ pc' = pc /\ request' = request
        /\ todo' = [todo EXCEPT ![h] = Tail(todo[h])]
    BY <1>0, <1>9, AssignStep DEF eeprom
  <2>2. todo'["main"] = todo["main"]
    BY <1>0, <2>1, ListsTail, Names
  <2> QED
    BY <1>0, <2>1, <2>2 DEF Phases
<1>10. ASSUME NEW h \in Handlers \cup {"main"}, DoWrite(h) PROVE Phases'
  <2>1. /\ todo[h] # <<>> /\ pc' = pc
        /\ h = "main" => pc = "init"
        /\ h # "main" => pc = "run"
        /\ todo' = [todo EXCEPT ![h] = Tail(todo[h])]
    BY <1>0, <1>10, WriteStep
  <2>2. \A g \in Handlers \cup {"main"} : g # h => todo'[g] = todo[g]
    BY <1>0, <2>1, ListsTail
  <2> QED
    BY <1>0, <2>1, <2>2, Names DEF Phases
<1>11. CASE AnyReset
  BY <1>11, ResetFacts, ListsReset DEF Phases
<1> QED
  BY <1>0, <1>1, <1>2, <1>3, <1>4, <1>5, <1>6, <1>7, <1>8, <1>9, <1>10, <1>11,
     OrderLists, Domain DEF Next, Main, Handle, AnyReset

\* What is requested and what main has still to do, when main takes its next step.
LEMMA MainWrites ==
  ASSUME BootInv, DoWrite("main")
  PROVE  /\ pc = "init" /\ pc' = pc /\ store' = store /\ request = NoRequest
         /\ request' # NoRequest
         /\ todo["main"] # <<>> /\ todo["main"][1] \in MainSteps
         /\ request'.var = todo["main"][1].var /\ request'.val = todo["main"][1].val
         /\ todo'["main"] = Tail(todo["main"])
         /\ \A h \in Handlers : todo'[h] = todo[h]
         /\ \A v \in Vars : ToDo("main", v) => ToDo("main", v)' \/ Requested(v)'
         /\ \A n \in DOMAIN todo'["main"] : /\ n \in Nat /\ n + 1 \in DOMAIN todo["main"]
                                           /\ todo'["main"][n] = todo["main"][n + 1]
         /\ Len(todo'["main"]) = Len(todo["main"]) - 1 /\ Len(todo["main"]) \in Nat \ {0}
         /\ DOMAIN todo["main"] = 1 .. Len(todo["main"]) /\ 1 \in DOMAIN todo["main"]
         /\ UNCHANGED <<ram, loader_flag, torn>>
<1>1. Lists /\ Types
  BY DEF BootInv, Types
<1>2. PICK v \in Vars, x \in AllVals :
        /\ x \in Kind[v]
        /\ pc = "init" /\ todo["main"][1] \in MainSteps
        /\ todo["main"] # <<>> /\ todo["main"][1].var = v /\ todo["main"][1].val = x
        /\ todo' = [todo EXCEPT !["main"] = Tail(todo["main"])]
        /\ request = NoRequest /\ request' = [var |-> v, val |-> x] /\ store' = store
        /\ UNCHANGED <<pc, ram, loader_flag, watchdog, bounds, torn>>
  BY <1>1, WriteStep
<1>3. todo["main"] \in Seq(Steps)
  BY <1>1 DEF Lists
<1>4. /\ Len(Tail(todo["main"])) = Len(todo["main"]) - 1 /\ Len(todo["main"]) \in Nat \ {0}
      /\ DOMAIN todo["main"] = 1 .. Len(todo["main"]) /\ 1 \in DOMAIN todo["main"]
      /\ DOMAIN Tail(todo["main"]) = 1 .. Len(todo["main"]) - 1
      /\ \A n \in DOMAIN Tail(todo["main"]) :
           n + 1 \in DOMAIN todo["main"] /\ Tail(todo["main"])[n] = todo["main"][n + 1]
      /\ \A n \in DOMAIN todo["main"] :
           \/ n = 1
           \/ n - 1 \in DOMAIN Tail(todo["main"]) /\ Tail(todo["main"])[n - 1] = todo["main"][n]
  <2>1. todo["main"] # <<>>
    BY <1>2
  <2> QED
    BY <1>3, <2>1, ListTail
<1>5. request' # NoRequest /\ request'.var = v /\ request'.val = x
  BY <1>2, RequestFields
<1>6. todo'["main"] = Tail(todo["main"]) /\ \A h \in Handlers : todo'[h] = todo[h]
  BY <1>1, <1>2, ListsTail, Names
<1>7. ASSUME NEW w \in Vars, ToDo("main", w) PROVE ToDo("main", w)' \/ Requested(w)'
  <2>1. PICK n \in DOMAIN todo["main"] : todo["main"][n].do = "write" /\ todo["main"][n].var = w
    BY <1>7 DEF ToDo
  <2>2. CASE n = 1
    BY <1>2, <1>5, <2>1, <2>2 DEF Requested
  <2>3. CASE n # 1
    <3>1. n - 1 \in DOMAIN todo'["main"] /\ todo'["main"][n - 1] = todo["main"][n]
      BY <1>6, <1>4, <2>3
    <3> QED
      BY <2>1, <3>1 DEF ToDo
  <2> QED
    BY <2>2, <2>3
<1>8. /\ \A n \in DOMAIN todo'["main"] : /\ n \in Nat /\ n + 1 \in DOMAIN todo["main"]
                                        /\ todo'["main"][n] = todo["main"][n + 1]
      /\ Len(todo'["main"]) = Len(todo["main"]) - 1 /\ Len(todo["main"]) \in Nat \ {0}
      /\ DOMAIN todo["main"] = 1 .. Len(todo["main"]) /\ 1 \in DOMAIN todo["main"]
  BY <1>6, <1>4
<1> QED
  BY <1>2, <1>5, <1>6, <1>7, <1>8

\* A step of a handler moves nothing main depends on.
LEMMA HandlerWrites ==
  ASSUME BootInv, NEW h \in Handlers, DoWrite(h)
  PROVE  /\ pc = "run" /\ pc' = pc /\ store' = store /\ request = NoRequest
         /\ request' # NoRequest /\ todo[h] # <<>> /\ 1 \in DOMAIN todo[h]
         /\ request'.var \in Conf \cup {LoaderVar}
         /\ todo[h][1] = Call(request'.var, request'.val) /\ todo[h][1].do = "write"
         /\ todo[h][1].var = request'.var /\ todo[h][1].val = request'.val
         /\ todo' = [todo EXCEPT ![h] = Tail(todo[h])]
         /\ todo'["main"] = todo["main"] /\ todo["main"] = <<>>
         /\ UNCHANGED <<ram, loader_flag, torn>>
<1>1. Lists /\ Types /\ h # "main"
  BY Names DEF BootInv, Types
<1>2. PICK v \in Vars, x \in AllVals :
        /\ x \in Kind[v]
        /\ pc = "run" /\ v \in Conf \cup {LoaderVar} /\ todo[h][1] = Call(v, x)
        /\ todo[h] # <<>> /\ todo[h][1].do = "write"
        /\ todo[h][1].var = v /\ todo[h][1].val = x
        /\ todo' = [todo EXCEPT ![h] = Tail(todo[h])]
        /\ request = NoRequest /\ request' = [var |-> v, val |-> x] /\ store' = store
        /\ UNCHANGED <<pc, ram, loader_flag, watchdog, bounds, torn>>
  BY <1>1, WriteStep
<1>3. request' # NoRequest /\ request'.var = v /\ request'.val = x
  BY <1>2, RequestFields
<1>4. todo'["main"] = todo["main"] /\ todo["main"] = <<>>
  BY <1>1, <1>2, ListsTail DEF BootInv, Phases
<1>5. 1 \in DOMAIN todo[h]
  BY <1>1, <1>2, FirstStep
<1> QED
  BY <1>2, <1>3, <1>4, <1>5

\* What a write that takes effect changes.
LEMMA WrittenFacts ==
  ASSUME BootInv, Written
  PROVE  /\ request # NoRequest /\ request' = request /\ request.var \in Vars
         /\ request.val \in Kind[request.var] /\ request.val # Absent
         /\ store'[request.var] = request.val
         /\ \A v \in Vars : v # request.var => store'[v] = store[v]
         /\ UNCHANGED <<pc, todo, ram, loader_flag, watchdog, bounds, torn>>
BY Kinds DEF Written, CS!Commit, CS!Request, BootInv, Types

LEMMA ReturnedFacts ==
  ASSUME BootInv, Returned
  PROVE  /\ request # NoRequest /\ request' = NoRequest /\ store' = store
         /\ request.var \in Vars /\ store[request.var] = request.val /\ request.val # Absent
         /\ UNCHANGED <<pc, todo, ram, loader_flag, watchdog, bounds, torn>>
BY Kinds DEF Returned, CS!End, CS!Request, BootInv, Types

LEMMA KeyLastStep == BootInv /\ [Next]_vars => KeyLast'
<1> SUFFICES ASSUME BootInv, [Next]_vars PROVE KeyLast'
  OBVIOUS
<1>0. KeyLast /\ Types /\ Phases /\ Lists
  BY DEF BootInv, Types
<1>1. CASE UNCHANGED vars
  BY <1>0, <1>1 DEF vars, eeprom, KeyLast, Complete, Requested, ToDo
<1>2. CASE Start \/ LeaveLoader \/ Watch
  BY <1>0, <1>2 DEF Start, LeaveLoader, Watch, eeprom, KeyLast, Complete, Requested
<1>3. CASE Check
  <2>1. todo'["main"] = MainList /\ pc' = "init" /\ UNCHANGED eeprom /\ request = NoRequest
    BY <1>0, <1>3 DEF Check, MainList, Lists, Phases
  <2>2. store[ConfigKeyVar] \in {ConfigKey, Absent} /\ ConfigKey # Absent
    BY <1>0, Kinds, Variables DEF Types
  <2>3. \A v \in Conf \cup {KeyVar, ConfigKeyVar} : store'[v] # Absent \/ ToDo("main", v)'
    <3>1. CASE store[ConfigKeyVar] = ConfigKey
      BY <1>0, <2>1, <2>2, <3>1 DEF eeprom, KeyLast, Complete
    <3>2. CASE store[ConfigKeyVar] # ConfigKey
      <4>1. \A n \in DOMAIN MainList : MainList[n].do = "write"
        BY MainListFacts, StepKinds
      <4> QED
        BY <2>1, <3>2, <4>1, MainListFacts DEF ToDo
    <3> QED
      BY <3>1, <3>2
  <2> QED
    BY <1>0, <2>1, <2>3, MainListFacts DEF eeprom, KeyLast, Complete, Requested
<1>4. CASE Load
  <2>1. UNCHANGED <<store, request, todo>> /\ pc' = "run"
    BY <1>4, LoadComplete DEF eeprom
  <2> QED
    BY <1>0, <1>4, <2>1, LoadComplete DEF KeyLast, Complete, Requested
<1>5. CASE Written
  BY <1>0, <1>5, WrittenFacts, Variables DEF KeyLast, Complete, Requested, ToDo
<1>6. CASE Returned
  BY <1>0, <1>6, ReturnedFacts, Variables DEF KeyLast, Complete, Requested, ToDo
<1>7. CASE AskLoader
  BY <1>0, <1>7 DEF AskLoader, eeprom, KeyLast, Complete, Requested, ToDo
<1>8. ASSUME todo'["main"] = todo["main"], UNCHANGED <<eeprom, pc>> PROVE KeyLast'
  BY <1>0, <1>8 DEF eeprom, KeyLast, Complete, Requested, ToDo
<1>9. ASSUME NEW h \in Handlers, NEW list \in Seq(HandlerSteps), Order(h, list)
      PROVE  KeyLast'
  BY <1>0, <1>8, <1>9, ListsSet, Names DEF Order
<1>10. CASE LoaderTick
  BY <1>0, <1>8, <1>10 DEF LoaderTick, Lists
<1>11. ASSUME NEW h \in Handlers \cup {"main"}, DoAssign(h) PROVE KeyLast'
  <2>1. /\ h \in Handlers /\ todo[h] # <<>> /\ UNCHANGED <<eeprom, pc>>
        /\ todo' = [todo EXCEPT ![h] = Tail(todo[h])]
    BY <1>0, <1>11, AssignStep
  <2> QED
    BY <1>0, <1>8, <2>1, ListsTail, Names
<1>12. CASE DoWrite("main")
  <2>1. ASSUME request'.var = ConfigKeyVar PROVE Complete(Conf \cup {KeyVar})
    <3>0. 1 \in DOMAIN todo["main"] /\ todo["main"][1].var = ConfigKeyVar
      BY <1>12, <2>1, MainWrites
    <3>1. Len(todo["main"]) = 1
      BY <1>0, <3>0 DEF KeyLast
    <3>2. \A n \in DOMAIN todo["main"] : todo["main"][n].var = ConfigKeyVar
      BY <1>12, <2>1, <3>1, MainWrites
    <3>3. \A v \in Conf \cup {KeyVar} : ~ToDo("main", v)
      BY <3>2, Variables DEF ToDo
    <3> QED
      BY <1>0, <1>12, <3>3, MainWrites DEF KeyLast, Complete, Requested
  <2>2. \A n \in DOMAIN todo'["main"] :
          todo'["main"][n].var = ConfigKeyVar => n = Len(todo'["main"])
    BY <1>0, <1>12, MainWrites DEF KeyLast
  <2>3. \A v \in Conf \cup {KeyVar, ConfigKeyVar} :
          store'[v] # Absent \/ Requested(v)' \/ ToDo("main", v)'
    BY <1>0, <1>12, MainWrites, Variables DEF KeyLast, Requested
  <2> QED
    BY <1>0, <1>12, <2>1, <2>2, <2>3, MainWrites DEF KeyLast, Complete, Requested
<1>13. ASSUME NEW h \in Handlers, DoWrite(h) PROVE KeyLast'
  BY <1>0, <1>13, HandlerWrites, Variables DEF KeyLast, Complete, Requested
<1>14. CASE AnyReset
  <2>1. todo'["main"] = <<>>
    BY <1>14, ResetFacts, ListsReset
  <2> QED
    BY <1>0, <1>14, <2>1, ResetFacts DEF KeyLast, Complete, Requested
<1> QED
  BY <1>0, <1>1, <1>2, <1>3, <1>4, <1>5, <1>6, <1>7, <1>9, <1>10, <1>11, <1>12, <1>13, <1>14,
     OrderLists, Domain DEF Next, Main, Handle, AnyReset

LEMMA LoaderMarkedStep == BootInv /\ [Next]_vars => LoaderMarked'
<1> SUFFICES ASSUME BootInv, [Next]_vars PROVE LoaderMarked'
  OBVIOUS
<1>0. LoaderMarked /\ KeyLast /\ Types /\ Phases /\ Lists
  BY DEF BootInv, Types
<1>1. CASE UNCHANGED vars
  BY <1>0, <1>1 DEF vars, eeprom, LoaderMarked, Requested, ToDo
<1>2. CASE Start \/ LeaveLoader \/ Watch
  BY <1>0, <1>2 DEF Start, LeaveLoader, Watch, eeprom, LoaderMarked, Requested, ToDo
<1>3. CASE Check
  <2>1. todo'["main"] = MainList /\ pc' = "init" /\ UNCHANGED eeprom /\ request = NoRequest
    BY <1>0, <1>3 DEF Check, MainList, Lists, Phases
  <2>2. store[KeyVar] # Absent => store[KeyVar] = Key
    BY <1>0, Kinds, Variables DEF Types
  <2>3. ASSUME store[LoaderVar] = ToLoader PROVE ToDo("main", LoaderVar)'
    <3>1. \E n \in DOMAIN MainList : MainList[n] = Call(LoaderVar, ToProgram)
      BY <1>0, <2>2, <2>3, MainListFacts, ConfigAssumption DEF LoaderMarked
    <3> QED
      BY <2>1, <3>1 DEF ToDo, Call
  <2> QED
    BY <1>0, <2>1, <2>3 DEF eeprom, LoaderMarked, Requested
<1>4. CASE Load
  <2>1. store[LoaderVar] # ToLoader
    BY <1>0, <1>4, LoadComplete DEF LoaderMarked, Requested, ToDo
  <2> QED
    BY <1>0, <1>4, <2>1, LoadComplete DEF eeprom, LoaderMarked, Requested, ToDo
<1>5. CASE Written
  <2>1. store'[LoaderVar] = ToLoader => store[LoaderVar] = ToLoader \/ Requested(LoaderVar)
    BY <1>5, WrittenFacts, Variables DEF Requested
  <2>2. store[KeyVar] # Absent => store'[KeyVar] # Absent
    BY <1>5, WrittenFacts, Variables
  <2>3. ASSUME store'[LoaderVar] = ToLoader PROVE store'[KeyVar] # Absent
    <3>1. CASE store[LoaderVar] = ToLoader
      BY <1>0, <2>2, <3>1 DEF LoaderMarked
    <3>2. CASE store[LoaderVar] # ToLoader
      <4>1. Requested(LoaderVar) /\ request.val = ToLoader
        BY <1>5, <2>1, <2>3, <3>2, WrittenFacts DEF Requested
      <4>2. pc = "run"
        BY <1>0, <4>1, ConfigAssumption DEF LoaderMarked, Phases, Requested, Types
      <4> QED
        BY <1>0, <2>2, <4>2 DEF KeyLast, Complete
    <3> QED
      BY <3>1, <3>2
  <2>4. ASSUME pc = "init", store'[LoaderVar] = ToLoader
        PROVE  Requested(LoaderVar)' \/ ToDo("main", LoaderVar)'
    <3>1. ~Requested(LoaderVar)
      BY <1>0, <1>5, <2>4, WrittenFacts, ConfigAssumption DEF LoaderMarked, Requested
    <3> QED
      BY <1>0, <1>5, <2>1, <2>4, <3>1, WrittenFacts DEF LoaderMarked, Requested, ToDo
  <2> QED
    BY <1>0, <1>5, <2>1, <2>3, <2>4, WrittenFacts DEF LoaderMarked, Requested, ToDo
<1>6. CASE Returned
  <2>1. ASSUME pc = "init", store[LoaderVar] = ToLoader PROVE ToDo("main", LoaderVar)
    BY <1>0, <1>6, <2>1, ReturnedFacts, ConfigAssumption DEF LoaderMarked, Requested
  <2> QED
    BY <1>0, <1>6, <2>1, ReturnedFacts DEF LoaderMarked, Requested, ToDo
<1>7. CASE AskLoader
  BY <1>0, <1>7 DEF AskLoader, eeprom, LoaderMarked, Requested, ToDo
<1>8. ASSUME NEW h \in Handlers, NEW list \in Seq(HandlerSteps), OrderList(list), Order(h, list)
      PROVE  LoaderMarked'
  <2>1. pc = "run" /\ pc' = pc /\ UNCHANGED <<eeprom, loader_flag>>
    BY <1>8 DEF Order
  <2>2. todo'[h] = list /\ \A g \in Handlers : g # h => todo'[g] = todo[g]
    BY <1>0, <1>8, ListsSet DEF Order
  <2>3. \A n \in DOMAIN list : list[n].do = "write" => list[n].var # LoaderVar
    BY <1>8, Variables DEF OrderList
  <2> QED
    BY <1>0, <2>1, <2>2, <2>3 DEF eeprom, LoaderMarked, Requested, ToDo
<1>9. CASE LoaderTick
  <2>1. /\ pc = "run" /\ pc' = pc /\ UNCHANGED eeprom
        /\ loader_flag \in 1 .. LoaderTicks - 1 /\ loader_flag' = loader_flag + 1
    BY <1>9 DEF LoaderTick, LoaderCount
  <2>2. loader_flag' # 0
    BY <2>1
  <2> QED
    BY <1>0, <2>1, <2>2 DEF eeprom, LoaderMarked
<1>10. ASSUME NEW h \in Handlers, todo[h] # <<>>, pc = "run", pc' = pc,
              todo' = [todo EXCEPT ![h] = Tail(todo[h])],
              store' = store, loader_flag' = loader_flag,
              request' = request \/ ~Requested(LoaderVar)'
                \/ (1 \in DOMAIN todo[h] /\ todo[h][1].do = "write"
                       /\ todo[h][1].var = request'.var)
       PROVE  LoaderMarked'
  <2>1. \A g \in Handlers : ToDo(g, LoaderVar)' => ToDo(g, LoaderVar)
    <3>1. todo'[h] = Tail(todo[h]) /\ \A g \in Handlers : g # h => todo'[g] = todo[g]
      BY <1>0, <1>10, ListsTail
    <3>2. todo[h] \in Seq(Steps)
      BY <1>0 DEF Lists
    <3>3. \A n \in DOMAIN Tail(todo[h]) :
            n + 1 \in DOMAIN todo[h] /\ Tail(todo[h])[n] = todo[h][n + 1]
      BY <1>10, <3>2, ListTail
    <3>4. ToDo(h, LoaderVar)' => ToDo(h, LoaderVar)
      BY <3>1, <3>3 DEF ToDo
    <3>5. ASSUME NEW g \in Handlers, g # h PROVE ToDo(g, LoaderVar)' => ToDo(g, LoaderVar)
      BY <3>1, <3>5 DEF ToDo
    <3> QED
      BY <3>4, <3>5
  <2>2. Requested(LoaderVar)' => Requested(LoaderVar) \/ ToDo(h, LoaderVar)
    BY <1>10 DEF Requested, ToDo
  <2> QED
    BY <1>0, <1>10, <2>1, <2>2 DEF LoaderMarked
<1>11. ASSUME NEW h \in Handlers \cup {"main"}, DoAssign(h) PROVE LoaderMarked'
  <2>1. /\ h \in Handlers /\ todo[h] # <<>> /\ pc = "run" /\ UNCHANGED <<eeprom, pc, loader_flag>>
        /\ todo' = [todo EXCEPT ![h] = Tail(todo[h])]
    BY <1>0, <1>11, AssignStep
  <2> QED
    BY <1>10, <2>1 DEF eeprom
<1>12. ASSUME NEW h \in Handlers, DoWrite(h) PROVE LoaderMarked'
  BY <1>10, <1>12, HandlerWrites
<1>13. CASE DoWrite("main")
  <2>1. Requested(LoaderVar)' => request'.val = ToProgram
    BY <1>13, MainWrites, StepKinds DEF Requested
  <2>2. store[LoaderVar] = ToLoader => Requested(LoaderVar)' \/ ToDo("main", LoaderVar)'
    BY <1>0, <1>13, MainWrites, Variables DEF LoaderMarked, Requested
  <2> QED
    BY <1>0, <1>13, <2>1, <2>2, MainWrites DEF LoaderMarked
<1>14. CASE AnyReset
  BY <1>0, <1>14, ResetFacts DEF LoaderMarked
<1> QED
  BY <1>0, <1>1, <1>2, <1>3, <1>4, <1>5, <1>6, <1>7, <1>8, <1>9, <1>11, <1>12, <1>13, <1>14,
     OrderLists, Domain DEF Next, Main, Handle, AnyReset

LEMMA BootInit ==
  ASSUME Init
  PROVE  /\ BootInv
         /\ store = [v \in Vars |-> Absent] /\ request = NoRequest
         /\ ram = [v \in Conf |-> Default]
         /\ \A h \in Handlers \cup {"main"} : todo[h] = <<>>
<1>1. store = [v \in Vars |-> Absent] /\ request = NoRequest /\ pc = "reset"
  BY DEF Init, CS!Init
<1>2. ram = [v \in Conf |-> Default] /\ \A h \in Handlers \cup {"main"} : todo[h] = <<>>
  BY DEF Init, Idle
<1>3. Absent # ToLoader
  BY ConfigAssumption DEF AllVals
<1> QED
  BY <1>1, <1>2, <1>3, TypesInit, Variables
     DEF BootInv, Phases, KeyLast, LoaderMarked, Complete, Requested

LEMMA BootInvariant == Spec => []BootInv
<1>1. Init => BootInv
  BY BootInit
<1>2. BootInv /\ [Next]_vars => BootInv'
  BY TypesStep, PhasesStep, KeyLastStep, LoaderMarkedStep DEF BootInv
<1> QED
  BY <1>1, <1>2, PTL DEF Spec

\* For any registers, any data and any number of losses of power while the defaults are
\* written: every variable keeps its type, and the program never runs with a
\* configuration that was not in the EEPROM.
THEOREM AlwaysConfigured == Spec => []Configured
<1>1. BootInv => Configured
  <2> SUFFICES ASSUME BootInv PROVE Configured
    OBVIOUS
  <2>1. Vals \subseteq AllVals
    BY DEF AllVals
  <2>2. ram \in [Conf -> Vals] /\ \A v \in Conf : ram[v] # Junk
    BY <2>1, ConfigAssumption DEF BootInv, Types
  <2>3. DOMAIN Idle = Handlers \cup {"main"}
    BY DEF Idle
  <2> QED
    BY <2>2, <2>3 DEF BootInv, Types, Lists, Configured, TypeOK
<1> QED
  BY <1>1, BootInvariant, PTL

\* Wherever the power is lost: the order to stay in the boot loader is only in the EEPROM
\* of a program that runs when it was asked for since the program was started.
THEOREM LoaderAlwaysAsked == Spec => []LoaderOnlyAsked
<1>1. BootInv => LoaderOnlyAsked
  <2> SUFFICES ASSUME BootInv, pc = "run", store[LoaderVar] = ToLoader PROVE loader_flag > 0
    BY DEF LoaderOnlyAsked
  <2>1. loader_flag # 0 /\ loader_flag \in 0 .. LoaderTicks /\ LoaderTicks \in Nat
    BY ConfigAssumption DEF BootInv, LoaderMarked, Types
  <2> QED
    BY <2>1
<1> QED
  BY <1>1, BootInvariant, PTL

-----------------------------------------------------------------------------
(* The configuration in the memory and the one that is stored. *)

Pending(v) == \E h \in Handlers : v \in Unstored(h)

\* Until the key of the configuration is stored there are only the defaults.
DefaultsFirst ==
  store[ConfigKeyVar] = Absent =>
    \A v \in Conf : /\ ram[v] = Default /\ store[v] \in {Absent, Default}
                    /\ Requested(v) => request.val = Default

\* With the key, or while it is being stored, main has only its mark left to store.
OnlyMarks ==
  pc = "init" /\ (store[ConfigKeyVar] # Absent \/ Requested(ConfigKeyVar)) =>
    /\ \A n \in DOMAIN todo["main"] : todo["main"][n] \in Marks
    /\ \A v \in Conf : ~Requested(v)

\* What is in the memory of the controller is stored, is being stored or is still to be.
SameOrPending ==
  /\ \A h \in Handlers : Paired(todo[h])
  /\ ~torn /\ store[ConfigKeyVar] # Absent =>
       \A v \in Conf : /\ store[v] = ram[v] \/ Requested(v) \/ Pending(v)
                       /\ Requested(v) => request.val = ram[v] \/ Pending(v)
  /\ ~torn => \A h \in Handlers : \A n \in DOMAIN todo[h] :
       Storing(h, n) => ram[todo[h][n].var] = todo[h][n].val

KeptInv == BootInv /\ DefaultsFirst /\ OnlyMarks /\ SameOrPending

LEMMA UnstoredStoring ==
  /\ \A h, v : v \in Unstored(h) <=> \E n \in DOMAIN todo[h] : Storing(h, n) /\ todo[h][n].var = v
  /\ \A h, v : (v \in Unstored(h) <=> \E n \in DOMAIN todo[h] : Storing(h, n) /\ todo[h][n].var = v)'
BY DEF Unstored

LEMMA NothingPending ==
  ASSUME \A h \in Handlers : todo[h] = <<>>
  PROVE  /\ \A h \in Handlers : DOMAIN todo[h] = {} /\ Paired(todo[h])
         /\ \A v : ~Pending(v)
<1>1. \A h \in Handlers : DOMAIN todo[h] = {}
  OBVIOUS
<1> QED
  BY <1>1, UnstoredStoring DEF Pending, Paired

\* Before the key of the configuration is stored.
LEMMA DefaultsFirstStep == KeptInv /\ [Next]_vars => DefaultsFirst'
<1> SUFFICES ASSUME KeptInv, [Next]_vars PROVE DefaultsFirst'
  OBVIOUS
<1>0. DefaultsFirst /\ BootInv /\ KeyLast /\ Types /\ Phases /\ Lists
  BY DEF KeptInv, BootInv, Types
<1>1. ASSUME UNCHANGED <<store, request, ram>> PROVE DefaultsFirst'
  BY <1>0, <1>1 DEF DefaultsFirst, Requested
<1>2. CASE UNCHANGED vars \/ Start \/ LeaveLoader \/ Watch \/ Check \/ AskLoader \/ LoaderTick
  BY <1>1, <1>2 DEF vars, eeprom, Start, LeaveLoader, Watch, Check, AskLoader, LoaderTick
<1>3. ASSUME NEW h \in Handlers, NEW list \in Seq(HandlerSteps), Order(h, list)
      PROVE  DefaultsFirst'
  BY <1>1, <1>3 DEF Order, eeprom
<1>4. ASSUME store' = store, store[ConfigKeyVar] # Absent PROVE DefaultsFirst'
  BY <1>4 DEF DefaultsFirst
<1>5. CASE Load
  BY <1>0, <1>4, <1>5, LoadComplete DEF Complete, eeprom
<1>6. ASSUME NEW h \in Handlers \cup {"main"}, h # "main", DoAssign(h) \/ DoWrite(h)
      PROVE  DefaultsFirst'
  <2>1. pc = "run" /\ store' = store
    BY <1>0, <1>6, AssignStep, HandlerWrites DEF eeprom
  <2> QED
    BY <1>0, <1>4, <2>1 DEF KeyLast
<1>7. CASE DoWrite("main")
  <2>1. \A v \in Conf : Requested(v)' => request'.val = Default
    BY <1>0, <1>7, MainWrites, StepKinds DEF Requested
  <2> QED
    BY <1>0, <1>7, <2>1, MainWrites DEF DefaultsFirst
<1>8. CASE DoAssign("main")
  BY <1>0, <1>8, AssignStep, Names
<1>9. CASE Written
  BY <1>0, <1>9, WrittenFacts, Variables DEF DefaultsFirst, Requested
<1>10. CASE Returned
  BY <1>0, <1>10, ReturnedFacts DEF DefaultsFirst, Requested
<1>11. CASE AnyReset
  BY <1>0, <1>11, ResetFacts DEF DefaultsFirst, Requested
<1> QED
  BY <1>0, <1>2, <1>3, <1>5, <1>6, <1>7, <1>8, <1>9, <1>10, <1>11,
     OrderLists, Domain, Names DEF Next, Main, Handle, AnyReset

LEMMA OnlyMarksStep == KeptInv /\ [Next]_vars => OnlyMarks'
<1> SUFFICES ASSUME KeptInv, [Next]_vars PROVE OnlyMarks'
  OBVIOUS
<1>0. OnlyMarks /\ BootInv /\ KeyLast /\ Types /\ Phases /\ Lists
  BY DEF KeptInv, BootInv, Types
<1>1. ASSUME pc' # "init" PROVE OnlyMarks'
  BY <1>1 DEF OnlyMarks
<1>2. CASE UNCHANGED vars
  BY <1>0, <1>2 DEF vars, eeprom, OnlyMarks, Requested
<1>3. CASE Start \/ LeaveLoader \/ Watch \/ AskLoader \/ LoaderTick
  BY <1>1, <1>3 DEF Start, LeaveLoader, Watch, AskLoader, LoaderTick
<1>4. CASE Check
  <2>1. todo'["main"] = MainList /\ UNCHANGED eeprom /\ request = NoRequest
    BY <1>0, <1>4 DEF Check, MainList, Lists, Phases
  <2>2. store[ConfigKeyVar] # Absent => store[ConfigKeyVar] = ConfigKey
    BY <1>0, Kinds, Variables DEF Types
  <2> QED
    BY <2>1, <2>2, MainListFacts DEF eeprom, OnlyMarks, Requested
<1>5. CASE Load
  BY <1>0, <1>1, <1>5, LoadComplete
<1>6. ASSUME NEW h \in Handlers, NEW list \in Seq(HandlerSteps), Order(h, list)
      PROVE  OnlyMarks'
  BY <1>1, <1>6 DEF Order
<1>7. ASSUME NEW h \in Handlers \cup {"main"}, h # "main", DoAssign(h) \/ DoWrite(h)
      PROVE  OnlyMarks'
  BY <1>0, <1>1, <1>7, AssignStep, HandlerWrites
<1>8. CASE DoAssign("main")
  BY <1>0, <1>8, AssignStep, Names
<1>9. CASE DoWrite("main")
  <2>1. CASE store[ConfigKeyVar] # Absent
    <3>1. \A n \in DOMAIN todo["main"] : todo["main"][n] \in Marks
      BY <1>0, <1>9, <2>1, MainWrites DEF OnlyMarks
    <3>2. request'.var = LoaderVar
      BY <1>0, <1>9, <3>1, MainWrites DEF Marks, Call
    <3> QED
      BY <1>0, <1>9, <3>1, <3>2, MainWrites, Variables DEF OnlyMarks, Requested
  <2>2. CASE request'.var = ConfigKeyVar
    <3>0. 1 \in DOMAIN todo["main"] /\ todo["main"][1].var = ConfigKeyVar
      BY <1>0, <1>9, <2>2, MainWrites
    <3>1. Len(todo["main"]) = 1
      BY <1>0, <3>0 DEF KeyLast
    <3>2. todo'["main"] \in Seq(Steps) /\ Len(todo'["main"]) = 0
      BY <1>0, <1>9, <3>1, MainWrites, ListTail DEF Lists
    <3>3. DOMAIN todo'["main"] = {}
      BY <3>2
    <3> QED
      BY <1>0, <1>9, <2>2, <3>3, MainWrites, Variables DEF OnlyMarks, Requested
  <2> QED
    BY <1>0, <1>9, <2>1, <2>2, MainWrites DEF OnlyMarks, Requested
<1>10. CASE Written
  BY <1>0, <1>10, WrittenFacts, Variables DEF OnlyMarks, Requested
<1>11. CASE Returned
  BY <1>0, <1>11, ReturnedFacts DEF OnlyMarks, Requested
<1>12. CASE AnyReset
  BY <1>1, <1>12, ResetFacts
<1> QED
  BY <1>0, <1>2, <1>3, <1>4, <1>5, <1>6, <1>7, <1>8, <1>9, <1>10, <1>11, <1>12,
     OrderLists, Domain, Names DEF Next, Main, Handle, AnyReset

LEMMA PairedTail ==
  ASSUME NEW list \in Seq(Steps), list # <<>>, Paired(list)
  PROVE  Paired(Tail(list))
<1>1. /\ Len(list) \in Nat
      /\ DOMAIN list = 1 .. Len(list) /\ DOMAIN Tail(list) = 1 .. Len(list) - 1
      /\ \A n \in DOMAIN Tail(list) : n + 1 \in DOMAIN list /\ Tail(list)[n] = list[n + 1]
      /\ \A n \in DOMAIN list :
           n = 1 \/ (n - 1 \in DOMAIN Tail(list) /\ Tail(list)[n - 1] = list[n])
  BY ListTail
<1>2. ASSUME NEW n \in DOMAIN Tail(list), Tail(list)[n].do = "assign"
      PROVE  \E m \in DOMAIN Tail(list) :
               m > n /\ Tail(list)[m] = Call(Tail(list)[n].var, Tail(list)[n].val)
  <2>1. PICK m \in DOMAIN list : m > n + 1 /\ list[m] = Call(list[n + 1].var, list[n + 1].val)
    BY <1>1, <1>2 DEF Paired
  <2>2. n \in Nat /\ m \in Nat /\ m # 1 /\ m - 1 > n
    BY <1>1, <2>1
  <2> QED
    BY <1>1, <2>1, <2>2
<1>3. ASSUME NEW n \in DOMAIN Tail(list), NEW m \in DOMAIN Tail(list),
             Tail(list)[n].do \in {"assign", "write"}, Tail(list)[n].do = Tail(list)[m].do,
             Tail(list)[n].var = Tail(list)[m].var
      PROVE  n = m
  <2>1. n + 1 = m + 1
    BY <1>1, <1>3 DEF Paired
  <2>2. n \in Nat /\ m \in Nat
    BY <1>1
  <2> QED
    BY <2>1, <2>2
<1> QED
  BY <1>2, <1>3 DEF Paired

\* What is still to be stored when a list loses its first step.
LEMMA FrontGone ==
  ASSUME Lists, NEW h \in Handlers, todo[h] # <<>>, todo' = [todo EXCEPT ![h] = Tail(todo[h])]
  PROVE  /\ \A v : v \in Unstored(h) =>
              v \in Unstored(h)' \/ (todo[h][1].do = "write" /\ todo[h][1].var = v)
         /\ \A n \in DOMAIN todo'[h] :
              /\ n \in Nat \ {0} /\ n + 1 \in DOMAIN todo[h] /\ todo'[h][n] = todo[h][n + 1]
              /\ Storing(h, n)' =>
                   \/ Storing(h, n + 1)
                   \/ todo[h][1] = Assign(todo'[h][n].var, todo'[h][n].val)
         /\ \A g \in Handlers : g # h =>
              /\ todo'[g] = todo[g] /\ Unstored(g)' = Unstored(g)
              /\ \A n : Storing(g, n)' <=> Storing(g, n)
         /\ \A g \in Handlers : Paired(todo[g]) => Paired(todo'[g])
<1>1. todo'[h] = Tail(todo[h]) /\ \A g \in Handlers : g # h => todo'[g] = todo[g]
  BY ListsTail
<1>2. todo[h] \in Seq(Steps)
  BY DEF Lists
<1>3. /\ Len(todo[h]) \in Nat
      /\ DOMAIN todo[h] = 1 .. Len(todo[h]) /\ DOMAIN Tail(todo[h]) = 1 .. Len(todo[h]) - 1
      /\ \A n \in DOMAIN Tail(todo[h]) :
           n + 1 \in DOMAIN todo[h] /\ Tail(todo[h])[n] = todo[h][n + 1]
      /\ \A n \in DOMAIN todo[h] :
           n = 1 \/ (n - 1 \in DOMAIN Tail(todo[h]) /\ Tail(todo[h])[n - 1] = todo[h][n])
  BY <1>2, ListTail
<1>4. ASSUME NEW n \in DOMAIN todo[h], Storing(h, n), n # 1
      PROVE  n - 1 \in DOMAIN todo'[h] /\ Storing(h, n - 1)' /\ todo'[h][n - 1] = todo[h][n]
  <2>1. n - 1 \in DOMAIN todo'[h] /\ todo'[h][n - 1] = todo[h][n]
    BY <1>1, <1>3, <1>4
  <2>2. ASSUME NEW k \in 1 .. n - 1
        PROVE  todo'[h][k] # Assign(todo[h][n].var, todo[h][n].val)
    <3>1. k \in DOMAIN Tail(todo[h]) /\ k + 1 \in 1 .. n
      BY <1>3
    <3> QED
      BY <1>1, <1>3, <1>4, <3>1 DEF Storing
  <2> QED
    BY <1>4, <2>1, <2>2 DEF Storing
<1>5. ASSUME NEW v, v \in Unstored(h)
      PROVE  v \in Unstored(h)' \/ (todo[h][1].do = "write" /\ todo[h][1].var = v)
  <2>1. PICK n \in DOMAIN todo[h] : Storing(h, n) /\ todo[h][n].var = v
    BY <1>5, UnstoredStoring
  <2>2. CASE n = 1
    BY <2>1, <2>2 DEF Storing
  <2>3. CASE n # 1
    BY <1>4, <2>1, <2>3, UnstoredStoring
  <2> QED
    BY <2>2, <2>3
<1>6. ASSUME NEW n \in DOMAIN todo'[h]
      PROVE  /\ n \in Nat \ {0} /\ n + 1 \in DOMAIN todo[h] /\ todo'[h][n] = todo[h][n + 1]
             /\ Storing(h, n)' =>
                  \/ Storing(h, n + 1)
                  \/ todo[h][1] = Assign(todo'[h][n].var, todo'[h][n].val)
  <2>0. n \in DOMAIN Tail(todo[h])
    BY <1>1
  <2>3. n \in 1 .. Len(todo[h]) - 1
    BY <1>3, <2>0
  <2>4. n \in Nat \ {0}
    BY <1>3, <2>3
  <2>1. n \in Nat \ {0} /\ n + 1 \in DOMAIN todo[h] /\ todo'[h][n] = todo[h][n + 1]
    BY <1>1, <1>3, <2>0, <2>4
  <2>2. ASSUME Storing(h, n)', todo[h][1] # Assign(todo'[h][n].var, todo'[h][n].val)
        PROVE  Storing(h, n + 1)
    <3>1. todo[h][n + 1].do = "write" /\ todo[h][n + 1].var \in Conf
      BY <2>1, <2>2 DEF Storing
    <3>2. ASSUME NEW k \in 1 .. n + 1
          PROVE  todo[h][k] # Assign(todo[h][n + 1].var, todo[h][n + 1].val)
      <4>1. CASE k = 1
        BY <2>1, <2>2, <4>1
      <4>2. CASE k # 1
        <5>1. k - 1 \in 1 .. n /\ k \in DOMAIN todo[h]
          BY <1>3, <2>1, <4>2
        <5>2. todo'[h][k - 1] = todo[h][k]
          BY <1>1, <1>3, <4>2, <5>1
        <5> QED
          BY <2>1, <2>2, <5>1, <5>2 DEF Storing
      <4> QED
        BY <4>1, <4>2
    <3> QED
      BY <3>1, <3>2 DEF Storing
  <2> QED
    BY <2>1, <2>2
<1>7. ASSUME NEW g \in Handlers, g # h
      PROVE  /\ todo'[g] = todo[g] /\ Unstored(g)' = Unstored(g)
             /\ \A n : Storing(g, n)' <=> Storing(g, n)
  <2>1. todo'[g] = todo[g]
    BY <1>1, <1>7
  <2>2. ASSUME NEW n PROVE Storing(g, n)' <=> Storing(g, n)
    BY <2>1 DEF Storing
  <2>3. Unstored(g)' = Unstored(g)
    BY <2>1, <2>2 DEF Unstored
  <2> QED
    BY <2>1, <2>2, <2>3
<1>8. ASSUME NEW g \in Handlers, Paired(todo[g]) PROVE Paired(todo'[g])
  <2>1. CASE g = h
    BY <1>1, <1>2, <1>8, <2>1, PairedTail
  <2>2. CASE g # h
    BY <1>1, <1>8, <2>2
  <2> QED
    BY <2>1, <2>2
<1> QED
  BY <1>5, <1>6, <1>7, <1>8

Same ==
  ~torn /\ store[ConfigKeyVar] # Absent =>
    \A v \in Conf : /\ store[v] = ram[v] \/ Requested(v) \/ Pending(v)
                    /\ Requested(v) => request.val = ram[v] \/ Pending(v)
AsAssigned ==
  ~torn => \A h \in Handlers : \A n \in DOMAIN todo[h] :
             Storing(h, n) => ram[todo[h][n].var] = todo[h][n].val

\* An assignment takes its variable away from what is stored, until it is stored as well.
LEMMA AssignKeeps ==
  ASSUME KeptInv, NEW h \in Handlers, DoAssign(h)
  PROVE  SameOrPending'
<1>0. Types /\ Lists /\ SameOrPending /\ h \in Handlers \cup {"main"} /\ torn \in BOOLEAN
  BY DEF KeptInv, BootInv, Types
<1>1. PICK v \in Conf, x \in Vals :
        /\ todo[h] # <<>> /\ todo[h][1] = Assign(v, x)
        /\ todo' = [todo EXCEPT ![h] = Tail(todo[h])]
        /\ ram' = [ram EXCEPT ![v] = x]
        /\ torn' = (torn \/ \E g \in Handlers \ {h} : v \in Unstored(g))
        /\ UNCHANGED eeprom
  BY <1>0, AssignStep
<1>2. ram'[v] = x /\ \A w \in Conf : w # v => ram'[w] = ram[w]
  BY <1>0, <1>1 DEF Types
<1>3. /\ todo[h][1].do = "assign" /\ todo[h][1].var = v /\ todo[h][1].val = x
      /\ 1 \in DOMAIN todo[h] /\ Paired(todo[h]) /\ todo[h] \in Seq(Steps)
  BY <1>0, <1>1, StepFields, FirstStep DEF SameOrPending, Lists
<1>4. \A g \in Handlers : Paired(todo'[g])
  BY <1>0, <1>1, FrontGone DEF SameOrPending
<1>5. \A g \in Handlers : \A w : w \in Unstored(g) => w \in Unstored(g)'
  <2>1. todo[h][1].do # "write"
    BY <1>3
  <2>2. \A w : w \in Unstored(h) => w \in Unstored(h)'
    BY <1>0, <1>1, <2>1, FrontGone
  <2>3. \A g \in Handlers : g # h => Unstored(g)' = Unstored(g)
    BY <1>0, <1>1, FrontGone
  <2> QED
    BY <2>2, <2>3
<1>6. v \in Unstored(h)'
  <2>1. PICK m \in DOMAIN todo[h] : m > 1 /\ todo[h][m] = Call(v, x)
    BY <1>3 DEF Paired
  <2>2. /\ m - 1 \in DOMAIN todo'[h] /\ todo'[h][m - 1] = todo[h][m]
        /\ m \in Nat /\ DOMAIN todo[h] = 1 .. Len(todo[h])
        /\ Len(todo[h]) \in Nat /\ DOMAIN todo'[h] = 1 .. Len(todo[h]) - 1
        /\ \A n \in DOMAIN todo'[h] : todo'[h][n] = todo[h][n + 1]
    <3>1. todo'[h] = Tail(todo[h])
      BY <1>0, <1>1, ListsTail
    <3>2. /\ DOMAIN todo[h] = 1 .. Len(todo[h]) /\ Len(todo[h]) \in Nat
          /\ DOMAIN Tail(todo[h]) = 1 .. Len(todo[h]) - 1
          /\ \A n \in DOMAIN Tail(todo[h]) : Tail(todo[h])[n] = todo[h][n + 1]
          /\ \A n \in DOMAIN todo[h] :
               n = 1 \/ (n - 1 \in DOMAIN Tail(todo[h]) /\ Tail(todo[h])[n - 1] = todo[h][n])
      BY <1>1, <1>3, ListTail
    <3>3. m # 1
      BY <2>1, <3>2
    <3> QED
      BY <3>1, <3>2, <3>3
  <2>3. ASSUME NEW k \in 1 .. m - 1 PROVE todo'[h][k] # Assign(v, x)
    <3>1. k + 1 \in DOMAIN todo[h] /\ k + 1 # 1 /\ k \in DOMAIN todo'[h]
      BY <2>2
    <3>2. todo'[h][k] = todo[h][k + 1]
      BY <2>2, <3>1
    <3>3. todo[h][k + 1] # Assign(v, x)
      BY <1>3, <3>1, StepFields DEF Paired
    <3> QED
      BY <3>2, <3>3
  <2>4. Storing(h, m - 1)' /\ todo'[h][m - 1].var = v
    BY <2>1, <2>2, <2>3, StepFields DEF Storing
  <2> QED
    BY <2>2, <2>4, UnstoredStoring
<1>7. Same'
  <2>1. SUFFICES ASSUME ~torn', store'[ConfigKeyVar] # Absent, NEW w \in Conf
                 PROVE  /\ store'[w] = ram'[w] \/ Requested(w)' \/ Pending(w)'
                        /\ Requested(w)' => request'.val = ram'[w] \/ Pending(w)'
    BY DEF Same
  <2>2. /\ store[w] = ram[w] \/ Requested(w) \/ Pending(w)
        /\ Requested(w) => request.val = ram[w] \/ Pending(w)
    BY <1>0, <1>1, <2>1 DEF SameOrPending, eeprom
  <2>3. CASE w = v
    BY <1>6, <2>3 DEF Pending
  <2>4. CASE w # v
    BY <1>1, <1>2, <1>5, <2>2, <2>4 DEF Pending, Requested, eeprom
  <2> QED
    BY <2>3, <2>4
<1>8. AsAssigned'
  <2>1. SUFFICES ASSUME ~torn', NEW g \in Handlers, NEW n \in DOMAIN todo'[g], Storing(g, n)'
                 PROVE  ram'[todo'[g][n].var] = todo'[g][n].val
    BY DEF AsAssigned
  <2>2. ~torn /\ \A f \in Handlers : f # h => v \notin Unstored(f)
    BY <1>0, <1>1, <2>1
  <2>3. \A f \in Handlers : \A k \in DOMAIN todo[f] :
          Storing(f, k) => ram[todo[f][k].var] = todo[f][k].val
    BY <1>0, <2>2 DEF SameOrPending
  <2>4. todo'[g][n].var \in Conf
    BY <2>1 DEF Storing
  <2>5. CASE g # h
    <3>1. n \in DOMAIN todo[g] /\ Storing(g, n) /\ todo'[g][n] = todo[g][n]
      BY <1>0, <1>1, <2>1, <2>5, FrontGone
    <3>2. todo[g][n].var # v
      BY <2>2, <2>5, <3>1, UnstoredStoring
    <3> QED
      BY <1>2, <2>3, <2>4, <3>1, <3>2
  <2>6. CASE g = h
    <3>1. /\ n \in Nat \ {0} /\ n + 1 \in DOMAIN todo[h] /\ todo'[h][n] = todo[h][n + 1]
          /\ Storing(h, n + 1) \/ todo[h][1] = Assign(todo'[h][n].var, todo'[h][n].val)
      BY <1>0, <1>1, <2>1, <2>6, FrontGone
    <3>2. CASE todo[h][1] = Assign(todo'[h][n].var, todo'[h][n].val)
      <4>1. /\ Assign(todo'[h][n].var, todo'[h][n].val).var = todo'[h][n].var
            /\ Assign(todo'[h][n].var, todo'[h][n].val).val = todo'[h][n].val
        BY DEF Assign
      <4>2. todo'[h][n].var = v /\ todo'[h][n].val = x
        BY <1>3, <3>2, <4>1
      <4> QED
        BY <1>2, <2>6, <4>2
    <3>3. CASE Storing(h, n + 1)
      <4>1. todo[h][n + 1].var # v
        <5>1. SUFFICES ASSUME todo[h][n + 1].var = v PROVE FALSE
          OBVIOUS
        <5>2. PICK m \in DOMAIN todo[h] : todo[h][m] = Call(v, x)
          BY <1>3 DEF Paired
        <5>3. m = n + 1
          BY <1>3, <3>1, <3>3, <5>1, <5>2, StepFields DEF Paired, Storing
        <5>4. todo[h][n + 1].val = x /\ 1 \in 1 .. n + 1
          BY <3>1, <5>2, <5>3, StepFields
        <5> QED
          BY <1>1, <3>3, <5>1, <5>4 DEF Storing
      <4> QED
        BY <1>2, <2>3, <2>4, <2>6, <3>1, <3>3, <4>1
    <3> QED
      BY <3>1, <3>2, <3>3
  <2> QED
    BY <2>5, <2>6
<1> QED
  BY <1>4, <1>7, <1>8 DEF SameOrPending, Same, AsAssigned

\* What is handed to EE_WriteVariable is what is in the memory, or will be stored again.
LEMMA CallKeeps ==
  ASSUME KeptInv, NEW h \in Handlers, DoWrite(h)
  PROVE  SameOrPending'
<1>0. Types /\ Lists /\ SameOrPending /\ BootInv
  BY DEF KeptInv, BootInv, Types
<1>1. /\ store' = store /\ request = NoRequest /\ request' # NoRequest
      /\ todo[h] # <<>> /\ 1 \in DOMAIN todo[h]
      /\ todo[h][1] = Call(request'.var, request'.val) /\ todo[h][1].do = "write"
      /\ todo[h][1].var = request'.var /\ todo[h][1].val = request'.val
      /\ todo' = [todo EXCEPT ![h] = Tail(todo[h])]
      /\ UNCHANGED <<ram, torn>>
  BY <1>0, HandlerWrites
<1>2. \A g \in Handlers : Paired(todo'[g])
  BY <1>0, <1>1, FrontGone DEF SameOrPending
<1>3. \A a, b : todo[h][1] # Assign(a, b)
  BY <1>1 DEF Assign
<1>4. \A v : v # request'.var => (Pending(v) => Pending(v)')
  <2>1. \A v : v \in Unstored(h) /\ v # request'.var => v \in Unstored(h)'
    BY <1>0, <1>1, FrontGone
  <2>2. \A g \in Handlers : g # h => Unstored(g)' = Unstored(g)
    BY <1>0, <1>1, FrontGone
  <2> QED
    BY <2>1, <2>2 DEF Pending
<1>5. ASSUME ~torn, request'.var \in Conf PROVE request'.val = ram[request'.var]
  <2>1. Storing(h, 1)
    <3>1. \A k \in 1 .. 1 : todo[h][k] # Assign(todo[h][1].var, todo[h][1].val)
      BY <1>3
    <3> QED
      BY <1>1, <1>5, <3>1 DEF Storing
  <2> QED
    BY <1>0, <1>1, <1>5, <2>1 DEF SameOrPending
<1>6. Same'
  <2>1. SUFFICES ASSUME ~torn, store[ConfigKeyVar] # Absent, NEW w \in Conf
                 PROVE  /\ store[w] = ram[w] \/ Requested(w)' \/ Pending(w)'
                        /\ Requested(w)' => request'.val = ram[w] \/ Pending(w)'
    BY <1>1 DEF Same
  <2>2. store[w] = ram[w] \/ Pending(w)
    BY <1>0, <1>1, <2>1 DEF SameOrPending, Requested
  <2>3. CASE request'.var = w
    BY <1>1, <1>5, <2>1, <2>3 DEF Requested
  <2>4. CASE request'.var # w
    BY <1>4, <2>2, <2>4 DEF Requested
  <2> QED
    BY <2>3, <2>4
<1>7. AsAssigned'
  <2>1. SUFFICES ASSUME ~torn, NEW g \in Handlers, NEW n \in DOMAIN todo'[g], Storing(g, n)'
                 PROVE  ram[todo'[g][n].var] = todo'[g][n].val
    BY <1>1 DEF AsAssigned
  <2>2. \A f \in Handlers : \A k \in DOMAIN todo[f] :
          Storing(f, k) => ram[todo[f][k].var] = todo[f][k].val
    BY <1>0, <2>1 DEF SameOrPending
  <2>3. CASE g # h
    <3>1. n \in DOMAIN todo[g] /\ Storing(g, n) /\ todo'[g][n] = todo[g][n]
      BY <1>0, <1>1, <2>1, <2>3, FrontGone
    <3> QED
      BY <2>2, <3>1
  <2>4. CASE g = h
    <3>1. n \in DOMAIN todo'[h] /\ Storing(h, n)'
      BY <2>1, <2>4
    <3>2. /\ n + 1 \in DOMAIN todo[h] /\ todo'[h][n] = todo[h][n + 1]
          /\ \/ Storing(h, n + 1)
             \/ todo[h][1] = Assign(todo'[h][n].var, todo'[h][n].val)
      BY <1>0, <1>1, <3>1, FrontGone
    <3>3. Storing(h, n + 1)
      BY <1>3, <3>2
    <3> QED
      BY <2>2, <2>4, <3>2, <3>3
  <2> QED
    BY <2>3, <2>4
<1> QED
  BY <1>2, <1>6, <1>7 DEF SameOrPending, Same, AsAssigned

\* The lists and the memory stay as they are: what matters is the store and the request.
LEMMA ListsStay ==
  ASSUME KeptInv, todo' = todo, ram' = ram, torn' = torn,
         \A v \in Conf :
           /\ store'[v] = store[v] \/ (Requested(v) /\ store'[v] = request.val)
           /\ Requested(v) => (Requested(v)' \/ store'[v] = request.val)
           /\ Requested(v)' => (Requested(v) /\ request' = request),
         store[ConfigKeyVar] = Absent /\ store'[ConfigKeyVar] # Absent =>
           \A v \in Conf : store'[v] = ram[v] /\ ~Requested(v)'
  PROVE  SameOrPending'
<1>0. SameOrPending
  BY DEF KeptInv
<1>1. /\ \A h \in Handlers : Paired(todo'[h])
      /\ \A h, n : Storing(h, n)' <=> Storing(h, n)
  BY <1>0 DEF SameOrPending, Storing
<1>2. \A v : Pending(v)' <=> Pending(v)
  BY <1>1, UnstoredStoring DEF Pending
<1>3. AsAssigned'
  BY <1>0, <1>1 DEF SameOrPending, AsAssigned
<1>4. Same'
  <2>1. SUFFICES ASSUME ~torn, store'[ConfigKeyVar] # Absent, NEW w \in Conf
                 PROVE  /\ store'[w] = ram[w] \/ Requested(w)' \/ Pending(w)
                        /\ Requested(w)' => request'.val = ram[w] \/ Pending(w)
    BY <1>2 DEF Same
  <2>2. CASE store[ConfigKeyVar] = Absent
    BY <2>1, <2>2
  <2>3. CASE store[ConfigKeyVar] # Absent
    <3>1. /\ store[w] = ram[w] \/ Requested(w) \/ Pending(w)
          /\ Requested(w) => request.val = ram[w] \/ Pending(w)
      BY <1>0, <2>1, <2>3 DEF SameOrPending
    <3>2. /\ store'[w] = store[w] \/ (Requested(w) /\ store'[w] = request.val)
          /\ Requested(w) => (Requested(w)' \/ store'[w] = request.val)
          /\ Requested(w)' => (Requested(w) /\ request' = request)
      OBVIOUS
    <3>3. CASE store'[w] = store[w]
      BY <3>1, <3>2, <3>3
    <3>4. CASE store'[w] # store[w]
      BY <3>1, <3>2, <3>4
    <3> QED
      BY <3>3, <3>4
  <2> QED
    BY <2>2, <2>3
<1> QED
  BY <1>1, <1>3, <1>4 DEF SameOrPending, Same, AsAssigned

\* No handler has anything to do.
LEMMA NoLists ==
  ASSUME \A h \in Handlers : todo'[h] = <<>>,
         ~torn' /\ store'[ConfigKeyVar] # Absent =>
           \A v \in Conf : store'[v] = ram'[v] /\ ~Requested(v)'
  PROVE  SameOrPending'
<1>1. \A h \in Handlers : DOMAIN todo'[h] = {} /\ Paired(todo'[h])
  BY DEF Paired
<1> QED
  BY <1>1 DEF SameOrPending

\* With nothing to do, what is not the same as in the memory has been torn.
LEMMA NothingHalfway ==
  ASSUME KeptInv, ~torn, ~Halfway, store[ConfigKeyVar] # Absent, NEW v \in Conf
  PROVE  store[v] = ram[v]
<1>1. ~Requested(v) /\ ~Pending(v)
  BY DEF Halfway, Requested, Pending
<1> QED
  BY <1>1 DEF KeptInv, SameOrPending

LEMMA SameStep == KeptInv /\ [Next]_vars => SameOrPending'
<1> SUFFICES ASSUME KeptInv, [Next]_vars PROVE SameOrPending'
  OBVIOUS
<1>0. /\ SameOrPending /\ DefaultsFirst /\ OnlyMarks /\ BootInv /\ KeyLast /\ Types
      /\ Phases /\ Lists /\ torn \in BOOLEAN
  BY DEF KeptInv, BootInv, Types
<1>1. ASSUME UNCHANGED <<store, request, todo, ram, torn>> PROVE SameOrPending'
  BY <1>1, ListsStay DEF Requested
<1>2. CASE UNCHANGED vars \/ Start \/ LeaveLoader \/ Watch \/ AskLoader
  BY <1>1, <1>2 DEF vars, eeprom, Start, LeaveLoader, Watch, AskLoader
<1>3. CASE Check
  <2>1. /\ \A h \in Handlers : todo'[h] = todo[h] /\ todo[h] = <<>>
        /\ request = NoRequest /\ UNCHANGED <<store, request, ram, torn>>
    BY <1>0, <1>3, Names DEF Check, eeprom, Lists, Phases
  <2>2. \A v \in Conf : ~Requested(v) /\ ~Requested(v)' /\ ~Pending(v)
    BY <2>1, NothingPending DEF Requested
  <2> QED
    BY <1>0, <2>1, <2>2, NoLists DEF SameOrPending
<1>4. CASE Load
  <2>1. /\ \A h \in Handlers : todo'[h] = <<>>
        /\ \A v \in Conf : store'[v] = ram'[v]
        /\ request' = NoRequest
    BY <1>0, <1>4, LoadComplete DEF eeprom
  <2> QED
    BY <2>1, NoLists DEF Requested
<1>5. CASE Written
  <2>1. ASSUME store[ConfigKeyVar] = Absent, store'[ConfigKeyVar] # Absent, NEW v \in Conf
        PROVE  store'[v] = ram[v] /\ ~Requested(v)'
    <3>1. Requested(ConfigKeyVar)
      BY <1>0, <1>5, <2>1, WrittenFacts, Variables DEF Requested
    <3>2. store[v] # Absent /\ v # request.var
      BY <1>0, <3>1, Variables DEF KeyLast, Complete, Requested
    <3> QED
      BY <1>0, <1>5, <2>1, <3>2, WrittenFacts, Variables DEF DefaultsFirst, Requested
  <2> QED
    BY <1>0, <1>5, <2>1, ListsStay, WrittenFacts, Variables DEF Requested
<1>6. CASE Returned
  BY <1>0, <1>6, ListsStay, ReturnedFacts DEF Requested
<1>7. ASSUME NEW h \in Handlers, NEW list \in Seq(HandlerSteps),
             \A n \in DOMAIN list : list[n].do = "write" /\ list[n].var \in Conf =>
               \E k \in 1 .. n : list[k] = Assign(list[n].var, list[n].val),
             Paired(list), todo[h] = <<>>, todo' = [todo EXCEPT ![h] = list],
             UNCHANGED <<store, request, ram, torn>>
      PROVE  SameOrPending'
  <2>1. todo'[h] = list /\ \A g \in Handlers : g # h => todo'[g] = todo[g]
    BY <1>0, <1>7, ListsSet
  <2>2. \A n \in DOMAIN todo'[h] : ~Storing(h, n)'
    BY <1>7, <2>1 DEF Storing
  <2>3. \A g \in Handlers : g # h => \A n : Storing(g, n)' <=> Storing(g, n)
    BY <2>1 DEF Storing
  <2>4. \A g \in Handlers : g # h => Unstored(g)' = Unstored(g)
    BY <2>1, <2>3 DEF Unstored
  <2>5. \A v : v \notin Unstored(h)
    BY <1>7, UnstoredStoring
  <2>6. \A v : Pending(v) => Pending(v)'
    BY <2>4, <2>5 DEF Pending
  <2>7. Same'
    BY <1>0, <1>7, <2>6 DEF SameOrPending, Same, Requested
  <2>8. AsAssigned'
    <3>1. SUFFICES ASSUME ~torn, NEW g \in Handlers, NEW n \in DOMAIN todo'[g], Storing(g, n)'
                   PROVE  ram[todo'[g][n].var] = todo'[g][n].val
      BY <1>7 DEF AsAssigned
    <3>2. g # h
      BY <2>2, <3>1
    <3> QED
      BY <1>0, <2>1, <2>3, <3>1, <3>2 DEF SameOrPending
  <2>9. \A g \in Handlers : Paired(todo'[g])
    BY <1>0, <1>7, <2>1 DEF SameOrPending
  <2> QED
    BY <2>7, <2>8, <2>9 DEF SameOrPending, Same, AsAssigned
<1>8. ASSUME NEW h \in Handlers, NEW list \in Seq(HandlerSteps), OrderList(list), Order(h, list)
      PROVE  SameOrPending'
  BY <1>7, <1>8 DEF Order, OrderList, eeprom
<1>9. CASE LoaderTick
  <2> DEFINE order == <<Call(LoaderVar, ToLoader), Restart>>
  <2>1. /\ order \in Seq(HandlerSteps) /\ <<>> \in Seq(HandlerSteps)
        /\ DOMAIN order = {1, 2}
        /\ order[1].do = "write" /\ order[1].var = LoaderVar /\ order[2].do = "restart"
    BY DEF HandlerSteps, Call, Restart
  <2>2. PICK list \in {order, <<>>} : todo' = [todo EXCEPT !["task"] = list]
    BY <1>9 DEF LoaderTick
  <2> HIDE DEF order
  <2>3. Paired(<<>>) /\ Paired(order)
    BY <2>1 DEF Paired
  <2>4. \A n \in DOMAIN list : ~(list[n].do = "write" /\ list[n].var \in Conf)
    BY <2>1, Variables
  <2>5. todo["task"] = <<>> /\ "task" \in Handlers /\ UNCHANGED <<store, request, ram, torn>>
    BY <1>9, Names DEF LoaderTick, eeprom
  <2> QED
    BY <1>7, <2>1, <2>2, <2>3, <2>4, <2>5
<1>10. ASSUME NEW h \in Handlers, DoAssign(h) \/ DoWrite(h) PROVE SameOrPending'
  BY <1>10, AssignKeeps, CallKeeps
<1>11. CASE DoAssign("main")
  BY <1>0, <1>11, AssignStep, Names
<1>12. CASE DoWrite("main")
  <2>1. /\ \A h \in Handlers : todo'[h] = todo[h] /\ todo[h] = <<>>
        /\ request = NoRequest /\ UNCHANGED <<store, ram, torn>>
    BY <1>0, <1>12, MainWrites DEF Phases
  <2>2. ASSUME store[ConfigKeyVar] # Absent, NEW v \in Conf PROVE ~Requested(v)'
    <3>1. todo["main"][1] \in Marks
      BY <1>0, <1>12, <2>2, MainWrites DEF OnlyMarks
    <3> QED
      BY <1>0, <1>12, <3>1, MainWrites, Variables DEF Requested, Marks, Call
  <2>3. \A v \in Conf : ~Requested(v) /\ ~Pending(v)
    BY <2>1, NothingPending DEF Requested
  <2> QED
    BY <1>0, <2>1, <2>2, <2>3, NoLists DEF SameOrPending
<1>13. CASE AnyReset
  <2>1. /\ \A h \in Handlers : todo'[h] = <<>>
        /\ store' = store /\ ram' = ram /\ request' = NoRequest
        /\ torn' = (torn \/ Halfway)
    BY <1>13, ResetFacts, ListsReset
  <2> QED
    BY <1>0, <2>1, NothingHalfway, NoLists DEF Requested
<1> QED
  BY <1>0, <1>2, <1>3, <1>4, <1>5, <1>6, <1>8, <1>9, <1>10, <1>11, <1>12, <1>13,
     OrderLists, Domain, Names DEF Next, Main, Handle, AnyReset

LEMMA KeptInvariant == Spec => []KeptInv
<1>1. Init => KeptInv
  <2> SUFFICES ASSUME Init PROVE KeptInv
    OBVIOUS
  <2>1. /\ store = [v \in Vars |-> Absent] /\ request = NoRequest
        /\ ram = [v \in Conf |-> Default]
        /\ \A h \in Handlers \cup {"main"} : todo[h] = <<>>
    BY BootInit
  <2>2. BootInv
    BY BootInit
  <2>3. DefaultsFirst /\ OnlyMarks
    BY <2>1, Variables DEF DefaultsFirst, OnlyMarks, Requested
  <2>4. SameOrPending
    <3>1. store[ConfigKeyVar] = Absent
      BY <2>1, Variables
    <3> QED
      BY <2>1, <3>1, NothingPending DEF SameOrPending
  <2> QED
    BY <2>2, <2>3, <2>4 DEF KeptInv
<1>2. KeptInv /\ [Next]_vars => KeptInv'
  BY TypesStep, PhasesStep, KeyLastStep, LoaderMarkedStep, DefaultsFirstStep, OnlyMarksStep,
     SameStep DEF KeptInv, BootInv
<1> QED
  BY <1>1, <1>2, PTL DEF Spec

\* However the handlers interrupt each other: a reset does not change the configuration the
\* program goes on with, unless it came between an assignment and its storing, or two
\* handlers had been at one variable.
THEOREM AlwaysSurvives == Spec => Survives
<1>1. KeptInv /\ [Next]_vars => [Load => torn \/ ram' = ram]_vars
  <2> SUFFICES ASSUME KeptInv, Load, ~torn PROVE ram' = ram
    OBVIOUS
  <2>1. BootInv /\ ram \in [Conf -> Vals] /\ ram' \in [Conf -> Vals]
    BY LoadComplete DEF KeptInv, BootInv, Types
  <2>2. /\ \A h \in Handlers : todo[h] = <<>>
        /\ request = NoRequest /\ store[ConfigKeyVar] # Absent
        /\ \A v \in Conf : ram'[v] = store[v]
    BY <2>1, LoadComplete DEF Complete
  <2>3. ~Halfway
    BY <2>2, NothingPending DEF Halfway, Pending
  <2>4. \A v \in Conf : store[v] = ram[v]
    BY <2>2, <2>3, NothingHalfway
  <2> QED
    BY <2>1, <2>2, <2>4
<1> QED
  BY <1>1, KeptInvariant, PTL DEF Spec, Survives
=============================================================================
