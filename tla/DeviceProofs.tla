---------------------------- MODULE DeviceProofs ----------------------------
(***************************************************************************)
(* Proofs about start-up and dispatch (Ioe), the timer (Timer) and a       *)
(* picture drawn (FbDraw), for all values of their constants.  MCDevices   *)
(* names the instances and their properties; its bounds play no part.      *)
(***************************************************************************)
EXTENDS MCDevices, TLAPS

-----------------------------------------------------------------------------
(* The tables.                                                               *)

\* AM_DEVREG as a set.
LEMMA Devregs ==
  ToSet(AM_DEVREG) =
    { <<1, "UART_CONFIG", "RD">>, <<2, "UART_TX", "WR">>, <<3, "UART_RX", "RD">>,
      <<4, "UART_STATUS", "WR">>, <<5, "UART_CTRL", "WR">>, <<6, "UART_BAUD", "WR">>,
      <<7, "TIMER_CONFIG", "RD">>, <<8, "TIMER_RTC", "WR">>, <<9, "TIMER_UPTIME", "RD">>,
      <<10, "TIMER_INTR", "WR">>, <<11, "INPUT_CONFIG", "RD">>, <<12, "INPUT_KEYBRD", "RD">>,
      <<13, "GPU_CONFIG", "RD">>, <<14, "GPU_STATUS", "RD">>, <<15, "GPU_FBDRAW", "WR">>,
      <<16, "GPU_MEMCPY", "WR">>, <<17, "GPU_RENDER", "WR">>, <<29, "GPU_DRAW256", "WR">>,
      <<30, "GPU_TERMINAL", "WR">>, <<31, "GPU_CHCONFIG", "RD">>, <<32, "GPU_CHSCROLL", "WR">>,
      <<18, "AUDIO_CONFIG", "RD">>, <<19, "AUDIO_CTRL", "WR">>, <<20, "AUDIO_STATUS", "RD">>,
      <<21, "AUDIO_PLAY", "WR">>, <<22, "DISK_CONFIG", "RD">>, <<23, "DISK_STATUS", "RD">>,
      <<24, "DISK_BLKIO", "WR">>, <<25, "NET_CONFIG", "RD">>, <<26, "NET_STATUS", "RD">>,
      <<27, "NET_TX", "WR">>, <<28, "NET_RX", "WR">> }
  BY SMTT(60) DEF ToSet, AM_DEVREG

LEMMA Bounded == {d[1] : d \in ToSet(AM_DEVREG)} \subseteq 1..32
  BY SMTT(60), Devregs

\* No two registers have the same number.
LEMMA Numbers ==
  /\ \A reg \in Registers : Id(reg) \in Ids
  /\ \A reg, other \in Registers : Id(reg) = Id(other) => reg = other
<1>1. \A d, e \in ToSet(AM_DEVREG) : d[1] = e[1] => d[2] = e[2]
  BY SMTT(60), Devregs
<1>2. ASSUME NEW reg \in Registers
      PROVE  \E d \in ToSet(AM_DEVREG) : d[2] = reg /\ Id(reg) = d[1]
  BY DEF Registers, Id
<1> QED
  BY <1>1, <1>2, Bounded DEF Ids

Entries == ReadEntries \cup WriteEntries

\* The entries are of registers, and of the types of their handlers.
LEMMA Entered ==
  \A e \in Entries : e[1] \in Registers /\ TypeOf(e[2]) = e[1] /\ e[2] \notin {"fail", NULL}
<1>1. \A e \in Entries : TypeOf(e[2]) = e[1] /\ e[2] # "fail"
  BY SMTT(60) DEF Entries, ReadEntries, WriteEntries, CommonWrites, TypeOf
<1>2. \A e \in Entries : e[2] # NULL
  BY NullAssumption DEF Entries
<1>3. \A e \in Entries : \E d \in ToSet(AM_DEVREG) : d[2] = e[1]
  BY SMTT(60), Devregs DEF Entries, ReadEntries, WriteEntries, CommonWrites
<1> QED
  BY <1>1, <1>2, <1>3 DEF Registers

\* The tables at the beginning, and once ioe_init has filled them.
EmptyR == Table(ReadEntries)
EmptyW == Table(WriteEntries)
FullR  == Filled(EmptyR)
FullW  == Filled(EmptyW)

\* A filled table has an entry or fail at every place, and no NULL.
LEMMA FilledTable ==
  ASSUME NEW entries \in SUBSET Entries, NEW n \in Ids
  PROVE  /\ Filled(Table(entries))[n] # NULL
         /\ Filled(Table(entries))[n] # "fail" =>
              \E e \in entries : Id(e[1]) = n /\ e[2] = Filled(Table(entries))[n]
<1> DEFINE T == Table(entries)
<1>1. T[n] = IF \E e \in entries : Id(e[1]) = n
             THEN (CHOOSE e \in entries : Id(e[1]) = n)[2] ELSE NULL
  BY DEF Table
<1>2. T[n] # NULL => \E e \in entries : Id(e[1]) = n /\ e[2] = T[n]
  BY <1>1
<1>3. NULL # "fail"
  BY NullAssumption
<1> HIDE DEF T
<1>4. Filled(T)[n] = IF T[n] = NULL THEN "fail" ELSE T[n]
  BY DEF Filled
<1> QED
  BY <1>2, <1>3, <1>4 DEF T

\* A filled table stays as it is when it is filled again.
LEMMA FilledTwice ==
  ASSUME NEW entries \in SUBSET Entries
  PROVE  Filled(Filled(Table(entries))) = Filled(Table(entries))
<1>1. \A n \in Ids : Filled(Table(entries))[n] # NULL
  BY FilledTable
<1>2. Filled(Table(entries)) = [n \in Ids |-> Filled(Table(entries))[n]]
  BY DEF Filled
<1> HIDE DEF Table
<1> QED
  BY <1>1, <1>2 DEF Filled

\* A handler that is entered is found under its register's number.
LEMMA Found ==
  ASSUME NEW entries \in SUBSET Entries, NEW e \in entries,
         \A d \in entries : d[1] = e[1] => d[2] = e[2]
  PROVE  Id(e[1]) \in Ids /\ Filled(Table(entries))[Id(e[1])] = e[2]
<1>1. e[1] \in Registers /\ e[2] # NULL /\ \A d \in entries : d[1] \in Registers
  BY Entered
<1>2. \A d \in entries : Id(d[1]) = Id(e[1]) => d[2] = e[2]
  BY <1>1, Numbers
<1>3. Id(e[1]) \in Ids
  BY <1>1, Numbers
<1> DEFINE T == Table(entries)
<1>4. T[Id(e[1])] = e[2]
  <2>1. (CHOOSE d \in entries : Id(d[1]) = Id(e[1]))[2] = e[2]
    BY <1>2
  <2> QED
    BY <1>3, <2>1 DEF Table
<1> HIDE DEF T
<1>5. Filled(T)[Id(e[1])] = e[2]
  BY <1>1, <1>3, <1>4 DEF Filled
<1> QED
  BY <1>3, <1>5 DEF T

\* The handlers that start-up uses: to print, to enable the transmitter, for the clock.
LEMMA StartUpHandlers ==
  /\ Id("UART_TX") \in Ids /\ FullW[Id("UART_TX")] = "uart_send_data"
  /\ Id("UART_CTRL") \in Ids /\ FullW[Id("UART_CTRL")] = "uart_ctrl_w"
  /\ Id("TIMER_RTC") \in Ids /\ FullR[Id("TIMER_RTC")] = "timer_rtc_r"
<1>1. WriteEntries \in SUBSET Entries /\ ReadEntries \in SUBSET Entries
  BY DEF Entries
<1>2. PICK tx \in WriteEntries : tx = <<"UART_TX", "uart_send_data">>
  BY DEF WriteEntries, CommonWrites
<1>3. PICK ct \in WriteEntries : ct = <<"UART_CTRL", "uart_ctrl_w">>
  BY DEF WriteEntries, CommonWrites
<1>4. PICK clock \in ReadEntries : clock = <<"TIMER_RTC", "timer_rtc_r">>
  BY DEF ReadEntries
<1>5. \A d \in WriteEntries : d[1] = tx[1] => d[2] = tx[2]
  BY <1>2 DEF WriteEntries, CommonWrites
<1>6. \A d \in WriteEntries : d[1] = ct[1] => d[2] = ct[2]
  BY <1>3 DEF WriteEntries, CommonWrites
<1>7. \A d \in ReadEntries : d[1] = clock[1] => d[2] = clock[2]
  BY <1>4 DEF ReadEntries
<1> QED
  BY <1>1, <1>2, <1>3, <1>4, <1>5, <1>6, <1>7, Found DEF FullR, FullW, EmptyR, EmptyW

-----------------------------------------------------------------------------
(* The inductive invariant of Ioe.                                           *)

Access(op) == op.kind \in {"read", "write"}

\* The handler that an access of op to the filled tables calls.
HandlerOf(op) == IF op.kind = "read" THEN FullR[op.id] ELSE FullW[op.id]

\* What an operation starts, and what has to be started before it: main may do
\* anything, and the panic that follows an access without a handler prints.
Starts(op) ==
  IF op.kind \in {"time_base", "terminal_cells"} THEN {op.kind}
  ELSE IF op.kind = "write" /\ HandlerOf(op) = "uart_ctrl_w" THEN {"uart_ctrl"} ELSE {}

Wants(op) ==
  IF op.kind = "main" THEN {"uart_ctrl", "time_base", "terminal_cells"}
  ELSE IF Access(op)
       THEN IF HandlerOf(op) = "fail" THEN {"uart_ctrl"} ELSE Needs(HandlerOf(op))
       ELSE {}

Kinds == {"fill_r", "fill_w", "read", "write", "time_base", "terminal_cells", "main", "ebreak"}
Texts == {"none", "Init timer", "[time]", "detected screen", "AM Panic", "Exit with code"}
Ops == [kind : Kinds, id : Ids, text : Texts]

\* What is still to be done ends with main or the breakpoint.
Ending ==
  /\ todo \in Seq(Ops) /\ Len(todo) > 0
  /\ todo[Len(todo)].kind \in {"main", "ebreak"}

\* Every operation comes after those that start what it wants, ...
Ordered ==
  \A k \in 1..Len(todo) : \A what \in Wants(todo[k]) :
    what \in started \/ \E m \in 1..(k - 1) : what \in Starts(todo[m])

\* ... and after the loops that fill the tables.
FilledFirst ==
  /\ lut_r \in {EmptyR, FullR} /\ lut_w \in {EmptyW, FullW}
  /\ \A k \in 1..Len(todo) : Access(todo[k]) \/ todo[k].kind = "main" =>
       /\ lut_r = FullR \/ \E m \in 1..(k - 1) : todo[m].kind = "fill_r"
       /\ lut_w = FullW \/ \E m \in 1..(k - 1) : todo[m].kind = "fill_w"

IoeInv == state # "lost" /\ Ending /\ Ordered /\ FilledFirst

\* A first operation is ready.
LEMMA HeadReady ==
  ASSUME IoeInv
  PROVE  /\ Head(todo) = todo[1] /\ Head(todo) \in Ops /\ 1 \in 1..Len(todo)
         /\ Wants(Head(todo)) \subseteq started
         /\ Access(Head(todo)) \/ Head(todo).kind = "main" => lut_r = FullR /\ lut_w = FullW
<1>1. Len(todo) \in Nat /\ 1 \in 1..Len(todo) /\ todo[1] \in Ops /\ Head(todo) = todo[1]
  BY DEF IoeInv, Ending
<1>2. \A m \in 1..(1 - 1) : FALSE
  OBVIOUS
<1> QED
  BY <1>1, <1>2 DEF IoeInv, Ordered, FilledFirst

\* The handler called is the one of the filled table, and not NULL.
LEMMA Handled ==
  ASSUME IoeInv, Dispatching
  PROVE  /\ Handler = HandlerOf(Head(todo)) /\ Handler # NULL
         /\ Handler # "fail" => \E e \in Entries : Id(e[1]) = Head(todo).id /\ e[2] = Handler
<1>1. Access(Head(todo)) /\ Head(todo).id \in Ids
  BY HeadReady DEF Dispatching, Next_, Access, Ops
<1>2. Handler = HandlerOf(Head(todo))
  BY <1>1, HeadReady DEF Handler, HandlerOf
<1>3. ReadEntries \in SUBSET Entries /\ WriteEntries \in SUBSET Entries
  BY DEF Entries
<1>4. CASE Head(todo).kind = "read"
  BY <1>1, <1>2, <1>3, <1>4, FilledTable DEF HandlerOf, FullR, EmptyR
<1>5. CASE Head(todo).kind # "read"
  BY <1>1, <1>2, <1>3, <1>5, FilledTable DEF HandlerOf, FullW, EmptyW
<1> QED
  BY <1>2, <1>4, <1>5

-----------------------------------------------------------------------------
(* The steps of Ioe.                                                         *)

\* Members of the small sets.
LEMMA Literals ==
  /\ "none" \in Texts /\ 0 \in Ids /\ "write" \in Kinds /\ "read" \in Kinds
  /\ {"Init timer", "[time]", "detected screen", "AM Panic", "Exit with code"} \subseteq Texts
<1>1. "none" \in Texts
  BY Zenon DEF Texts
<1>2. 0 \in Ids /\ "write" \in Kinds /\ "read" \in Kinds
  BY DEF Ids, Kinds
<1>3. {"Init timer", "[time]", "detected screen", "AM Panic", "Exit with code"} \subseteq Texts
  BY Zenon DEF Texts
<1> QED
  BY <1>1, <1>2, <1>3

\* An operation's fields.
LEMMA Fields ==
  ASSUME NEW kind \in Kinds, NEW id \in Ids, NEW text \in Texts
  PROVE  /\ Op(kind, id, text).kind = kind /\ Op(kind, id, text).id = id
         /\ Op(kind, id, text) \in Ops
BY DEF Op, Ops

LEMMA Operations ==
  /\ \A id \in Ids : Write(id) \in Ops /\ Write(id).kind = "write" /\ Write(id).id = id
  /\ \A id \in Ids : Read(id) \in Ops /\ Read(id).kind = "read" /\ Read(id).id = id
  /\ \A kind \in Kinds : Do(kind) \in Ops /\ Do(kind).kind = kind
<1>1. \A id \in Ids : Write(id) \in Ops /\ Write(id).kind = "write" /\ Write(id).id = id
  BY Literals DEF Write, Op, Ops
<1>2. \A id \in Ids : Read(id) \in Ops /\ Read(id).kind = "read" /\ Read(id).id = id
  BY Literals DEF Read, Op, Ops
<1>3. \A kind \in Kinds : Do(kind) \in Ops /\ Do(kind).kind = kind
  BY Literals DEF Do, Op, Ops
<1> QED
  BY <1>1, <1>2, <1>3

\* What the operations of the AM want and start.
LEMMA SayWants ==
  ASSUME NEW text \in Texts
  PROVE  /\ Say(text) \in Ops /\ Say(text).kind = "write"
         /\ Wants(Say(text)) = {"uart_ctrl"} /\ Starts(Say(text)) = {}
<1>1. Say(text) \in Ops /\ Say(text).kind = "write" /\ Say(text).id = Id("UART_TX")
  BY StartUpHandlers, Fields DEF Say, Kinds
<1>2. Access(Say(text)) /\ HandlerOf(Say(text)) = "uart_send_data"
  BY <1>1, StartUpHandlers DEF Access, HandlerOf
<1> QED
  BY <1>1, <1>2 DEF Wants, Starts, Needs

LEMMA EnableStarts ==
  /\ Write(Id("UART_CTRL")) \in Ops /\ Write(Id("UART_CTRL")).kind = "write"
  /\ Wants(Write(Id("UART_CTRL"))) = {} /\ Starts(Write(Id("UART_CTRL"))) = {"uart_ctrl"}
<1> DEFINE op == Write(Id("UART_CTRL"))
<1>1. op \in Ops /\ op.kind = "write" /\ op.id = Id("UART_CTRL")
  BY StartUpHandlers, Operations
<1> HIDE DEF op
<1>2. Access(op) /\ HandlerOf(op) = "uart_ctrl_w"
  BY <1>1, StartUpHandlers DEF Access, HandlerOf
<1>3. Wants(op) = {} /\ Starts(op) = {"uart_ctrl"}
  BY <1>1, <1>2 DEF Wants, Starts, Needs
<1> QED
  BY <1>1, <1>3 DEF op

LEMMA ClockWants ==
  /\ Read(Id("TIMER_RTC")) \in Ops /\ Read(Id("TIMER_RTC")).kind = "read"
  /\ Wants(Read(Id("TIMER_RTC"))) = {}
<1> DEFINE op == Read(Id("TIMER_RTC"))
<1>1. op \in Ops /\ op.kind = "read" /\ op.id = Id("TIMER_RTC")
  BY StartUpHandlers, Operations
<1> HIDE DEF op
<1>2. Access(op) /\ HandlerOf(op) = "timer_rtc_r"
  BY <1>1, StartUpHandlers DEF Access, HandlerOf
<1>3. Wants(op) = {}
  BY <1>1, <1>2 DEF Wants, Needs
<1> QED
  BY <1>1, <1>3 DEF op

LEMMA DoWants ==
  ASSUME NEW kind \in Kinds \ {"read", "write"}
  PROVE  /\ Do(kind) \in Ops /\ Do(kind).kind = kind
         /\ kind # "main" => Wants(Do(kind)) = {}
         /\ kind \in {"time_base", "terminal_cells"} => Starts(Do(kind)) = {kind}
<1>1. Do(kind) \in Ops /\ Do(kind).kind = kind
  BY Operations
<1>2. ~Access(Do(kind))
  BY <1>1 DEF Access
<1> QED
  BY <1>1, <1>2 DEF Wants, Starts

\* One sequence of operations after another.
LEMMA Joined ==
  ASSUME NEW s \in Seq(Ops), NEW t \in Seq(Ops)
  PROVE  /\ s \o t \in Seq(Ops) /\ Len(s \o t) = Len(s) + Len(t)
         /\ \A n \in 1..Len(s) : (s \o t)[n] = s[n]
         /\ \A n \in 1..Len(t) : (s \o t)[Len(s) + n] = t[n]
OBVIOUS

\* The operations of start-up.
FillR  == Do("fill_r")
FillW  == Do("fill_w")
Enable == Write(Id("UART_CTRL"))
Clock  == Read(Id("TIMER_RTC"))
Since  == Do("time_base")
Cells  == Do("terminal_cells")
Hello  == Say("Init timer")
Date   == Say("[time]")
Screen == Say("detected screen")
ToMain == Do("main")

LEMMA StartUp ==
  /\ FillR \in Ops /\ FillR.kind = "fill_r" /\ Wants(FillR) = {}
  /\ FillW \in Ops /\ FillW.kind = "fill_w" /\ Wants(FillW) = {}
  /\ Enable \in Ops /\ Enable.kind = "write" /\ Wants(Enable) = {}
  /\ Starts(Enable) = {"uart_ctrl"}
  /\ Clock \in Ops /\ Clock.kind = "read" /\ Wants(Clock) = {}
  /\ Since \in Ops /\ Since.kind = "time_base" /\ Wants(Since) = {}
  /\ Starts(Since) = {"time_base"}
  /\ Cells \in Ops /\ Cells.kind = "terminal_cells" /\ Wants(Cells) = {}
  /\ Starts(Cells) = {"terminal_cells"}
  /\ Hello \in Ops /\ Hello.kind = "write" /\ Wants(Hello) = {"uart_ctrl"}
  /\ Date \in Ops /\ Date.kind = "write" /\ Wants(Date) = {"uart_ctrl"}
  /\ Screen \in Ops /\ Screen.kind = "write" /\ Wants(Screen) = {"uart_ctrl"}
  /\ ToMain \in Ops /\ ToMain.kind = "main"
  /\ Wants(ToMain) = {"uart_ctrl", "time_base", "terminal_cells"}
<1>1. \A kind \in Kinds \ {"read", "write"} :
        /\ Do(kind) \in Ops /\ Do(kind).kind = kind
        /\ kind # "main" => Wants(Do(kind)) = {}
        /\ kind \in {"time_base", "terminal_cells"} => Starts(Do(kind)) = {kind}
  BY DoWants
<1>2. "fill_r" \in Kinds \ {"read", "write"} /\ "fill_w" \in Kinds \ {"read", "write"}
      /\ "time_base" \in Kinds \ {"read", "write"}
      /\ "terminal_cells" \in Kinds \ {"read", "write"} /\ "main" \in Kinds \ {"read", "write"}
  BY DEF Kinds
<1>3. /\ "fill_r" # "main" /\ "fill_w" # "main" /\ "time_base" # "main"
      /\ "terminal_cells" # "main"
  OBVIOUS
<1>4. /\ FillR \in Ops /\ FillR.kind = "fill_r" /\ Wants(FillR) = {}
      /\ FillW \in Ops /\ FillW.kind = "fill_w" /\ Wants(FillW) = {}
  BY <1>1, <1>2, <1>3, Zenon DEF FillR, FillW
<1>5. /\ Since \in Ops /\ Since.kind = "time_base" /\ Wants(Since) = {}
      /\ Starts(Since) = {"time_base"}
  BY <1>1, <1>2, <1>3, Zenon DEF Since
<1>6. /\ Cells \in Ops /\ Cells.kind = "terminal_cells" /\ Wants(Cells) = {}
      /\ Starts(Cells) = {"terminal_cells"}
  BY <1>1, <1>2, <1>3, Zenon DEF Cells
<1>7. /\ Enable \in Ops /\ Enable.kind = "write" /\ Wants(Enable) = {}
      /\ Starts(Enable) = {"uart_ctrl"}
      /\ Clock \in Ops /\ Clock.kind = "read" /\ Wants(Clock) = {}
  BY EnableStarts, ClockWants, Zenon DEF Enable, Clock
<1>8. /\ Hello \in Ops /\ Hello.kind = "write" /\ Wants(Hello) = {"uart_ctrl"}
      /\ Date \in Ops /\ Date.kind = "write" /\ Wants(Date) = {"uart_ctrl"}
      /\ Screen \in Ops /\ Screen.kind = "write" /\ Wants(Screen) = {"uart_ctrl"}
  <2>1. \A text \in Texts :
          Say(text) \in Ops /\ Say(text).kind = "write" /\ Wants(Say(text)) = {"uart_ctrl"}
    BY SayWants
  <2>2. "Init timer" \in Texts /\ "[time]" \in Texts /\ "detected screen" \in Texts
    BY Zenon DEF Texts
  <2> QED
    BY <2>1, <2>2, Zenon DEF Hello, Date, Screen
<1>9. ToMain \in Ops /\ ToMain.kind = "main"
  BY <1>1, <1>2, Zenon DEF ToMain
<1>10. Wants(ToMain) = {"uart_ctrl", "time_base", "terminal_cells"}
  BY <1>9 DEF Wants
<1> QED
  BY <1>4, <1>5, <1>6, <1>7, <1>8, <1>9, <1>10

\* What _trm_init does, in its order.
LEMMA BootIs ==
  /\ Len(Boot) = 10
  /\ Boot[1] = FillR /\ Boot[2] = FillW /\ Boot[3] = Enable /\ Boot[4] = Since
  /\ Boot[5] = Hello /\ Boot[6] = Clock /\ Boot[7] = Date /\ Boot[8] = Screen
  /\ Boot[9] = Cells /\ Boot[10] = ToMain
  /\ Boot \in Seq(Ops)
<1> DEFINE first  == <<FillR, FillW, Enable>>
           clock  == <<Since, Hello, Clock, Date>>
           screen == <<Screen, Cells>>
           last   == <<ToMain>>
<1>4. Boot = first \o clock \o screen \o last
  BY Zenon DEF Boot, StartTimer, StartGpu, FillR, FillW, Enable, Since, Hello, Clock,
     Date, Screen, Cells, ToMain
<1>5. first \in Seq(Ops) /\ clock \in Seq(Ops) /\ screen \in Seq(Ops) /\ last \in Seq(Ops)
  BY StartUp
<1>6. /\ Len(first) = 3 /\ Len(clock) = 4 /\ Len(screen) = 2 /\ Len(last) = 1
      /\ first[1] = FillR /\ first[2] = FillW /\ first[3] = Enable
      /\ clock[1] = Since /\ clock[2] = Hello /\ clock[3] = Clock /\ clock[4] = Date
      /\ screen[1] = Screen /\ screen[2] = Cells
      /\ last[1] = ToMain
  OBVIOUS
<1> HIDE DEF first, clock, screen, last
<1> DEFINE seven == first \o clock
           nine  == seven \o screen
<1>7. /\ seven \in Seq(Ops) /\ Len(seven) = Len(first) + Len(clock)
      /\ \A n \in 1..Len(first) : seven[n] = first[n]
      /\ \A n \in 1..Len(clock) : seven[Len(first) + n] = clock[n]
  BY <1>5, Joined
<1> HIDE DEF seven
<1>8. /\ nine \in Seq(Ops) /\ Len(nine) = Len(seven) + Len(screen)
      /\ \A n \in 1..Len(seven) : nine[n] = seven[n]
      /\ \A n \in 1..Len(screen) : nine[Len(seven) + n] = screen[n]
  BY <1>5, <1>7, Joined
<1> HIDE DEF nine
<1>9. Boot = nine \o last
  BY <1>4 DEF nine, seven
<1>10. /\ Boot \in Seq(Ops) /\ Len(Boot) = Len(nine) + Len(last)
       /\ \A n \in 1..Len(nine) : Boot[n] = nine[n]
       /\ \A n \in 1..Len(last) : Boot[Len(nine) + n] = last[n]
  <2>1. nine \o last \in Seq(Ops) /\ Len(nine \o last) = Len(nine) + Len(last)
    BY <1>5, <1>8, Joined
  <2>2. /\ \A n \in 1..Len(nine) : (nine \o last)[n] = nine[n]
        /\ \A n \in 1..Len(last) : (nine \o last)[Len(nine) + n] = last[n]
    BY <1>5, <1>8, Joined
  <2> QED
    BY <1>9, <2>1, <2>2
<1>11. /\ Len(seven) = 7
       /\ seven[1] = first[1] /\ seven[2] = first[2] /\ seven[3] = first[3]
       /\ seven[4] = clock[1] /\ seven[5] = clock[2] /\ seven[6] = clock[3]
       /\ seven[7] = clock[4]
  <2>1. Len(seven) = 7 /\ seven[1] = first[1] /\ seven[2] = first[2] /\ seven[3] = first[3]
    BY <1>6, <1>7
  <2>2. seven[3 + 1] = clock[1] /\ seven[3 + 2] = clock[2] /\ seven[3 + 3] = clock[3]
        /\ seven[3 + 4] = clock[4]
    BY <1>6, <1>7
  <2> QED
    BY <2>1, <2>2
<1>12. /\ Len(nine) = 9 /\ \A n \in 1..7 : nine[n] = seven[n]
       /\ nine[8] = screen[1] /\ nine[9] = screen[2]
  <2>1. Len(nine) = 9 /\ \A n \in 1..7 : nine[n] = seven[n]
    BY <1>6, <1>8, <1>11
  <2>2. nine[7 + 1] = screen[1] /\ nine[7 + 2] = screen[2]
    BY <1>6, <1>8, <1>11
  <2> QED
    BY <2>1, <2>2
<1>13. Len(Boot) = 10 /\ (\A n \in 1..9 : Boot[n] = nine[n]) /\ Boot[10] = last[1]
  <2>1. Len(Boot) = 10 /\ \A n \in 1..9 : Boot[n] = nine[n]
    BY <1>6, <1>10, <1>12
  <2>2. Boot[9 + 1] = last[1]
    BY <1>6, <1>10, <1>12
  <2> QED
    BY <2>1, <2>2
<1> QED
  BY <1>6, <1>10, <1>11, <1>12, <1>13

LEMMA IoeInit == Init => IoeInv
<1> SUFFICES ASSUME Init PROVE IoeInv
  OBVIOUS
<1>1. todo = Boot /\ state = "on" /\ lut_r = EmptyR /\ lut_w = EmptyW
  BY DEF Init, EmptyR, EmptyW
<1>2. state # "lost"
  BY <1>1
<1>3. Ending
  <2>1. \A n \in 1..9 : Boot[n].kind \notin {"main", "ebreak"}
    <3>1. ASSUME NEW n \in 1..9
          PROVE  Boot[n] \in {FillR, FillW, Enable, Since, Hello, Clock, Date, Screen, Cells}
      BY BootIs
    <3> QED
      BY <3>1, StartUp
  <2> QED
    BY <1>1, <2>1, BootIs, StartUp DEF Ending
<1>4. Ordered
  <2>1. ASSUME NEW n \in 1..10, NEW what \in Wants(Boot[n])
        PROVE  \E m \in 1..(n - 1) : what \in Starts(Boot[m])
    <3>1. Boot[n] \in {FillR, FillW, Enable, Since, Hello, Clock, Date, Screen, Cells, ToMain}
      BY BootIs
    <3>2. n = 10 \/ (n \in 5..8 /\ what = "uart_ctrl")
      <4>1. CASE n \in {1, 2, 3, 4, 6, 9}
        BY <2>1, <4>1, BootIs, StartUp
      <4>2. CASE n \in {5, 7, 8}
        BY <2>1, <4>2, BootIs, StartUp
      <4> QED
        BY <4>1, <4>2
    <3>3. what \in {"uart_ctrl", "time_base", "terminal_cells"}
      BY <2>1, <3>2, BootIs, StartUp
    <3>4. "uart_ctrl" \in Starts(Boot[3]) /\ "time_base" \in Starts(Boot[4])
          /\ "terminal_cells" \in Starts(Boot[9])
      BY BootIs, StartUp
    <3>5. 3 \in 1..(n - 1) /\ (n = 10 => 4 \in 1..(n - 1) /\ 9 \in 1..(n - 1))
      BY <3>2
    <3> QED
      BY <3>2, <3>3, <3>4, <3>5
  <2> QED
    BY <1>1, <2>1, BootIs DEF Ordered
<1>5. FilledFirst
  <2>1. Boot[1].kind = "fill_r" /\ Boot[2].kind = "fill_w"
    BY StartUp, BootIs
  <2>2. ASSUME NEW n \in 1..10, Access(Boot[n]) \/ Boot[n].kind = "main"
        PROVE  1 \in 1..(n - 1) /\ 2 \in 1..(n - 1)
    <3>1. n # 1 /\ n # 2
      BY <2>1, <2>2 DEF Access
    <3> QED
      BY <3>1
  <2> QED
    BY <1>1, <2>1, <2>2, BootIs DEF FilledFirst
<1> QED
  BY <1>2, <1>3, <1>4, <1>5 DEF IoeInv

\* The first operation is done.
LEMMA TailReady ==
  ASSUME IoeInv, todo' = Tail(todo), Head(todo).kind \notin {"main", "ebreak"},
         started \cup Starts(Head(todo)) \subseteq started',
         lut_r' = IF Head(todo).kind = "fill_r" THEN FullR ELSE lut_r,
         lut_w' = IF Head(todo).kind = "fill_w" THEN FullW ELSE lut_w,
         state' # "lost"
  PROVE  IoeInv'
<1>1. /\ todo \in Seq(Ops) /\ Len(todo) \in Nat /\ Len(todo) > 0
      /\ todo[Len(todo)].kind \in {"main", "ebreak"} /\ Head(todo) = todo[1]
  BY DEF IoeInv, Ending
<1>2. Len(todo) # 1
  BY <1>1
<1>3. /\ todo' \in Seq(Ops) /\ Len(todo') = Len(todo) - 1 /\ Len(todo') > 0
      /\ \A k \in 1..Len(todo') : todo'[k] = todo[k + 1] /\ k + 1 \in 1..Len(todo)
  BY <1>1, <1>2
<1>4. Ending'
  BY <1>1, <1>3 DEF Ending
<1>5. Ordered'
  <2>1. ASSUME NEW k \in 1..Len(todo'), NEW what \in Wants(todo'[k]), what \notin started'
        PROVE  \E m \in 1..(k - 1) : what \in Starts(todo'[m])
    <3>1. PICK m \in 1..k : what \in Starts(todo[m])
      BY <1>3, <2>1 DEF IoeInv, Ordered
    <3>2. m # 1
      BY <1>1, <2>1, <3>1
    <3>3. m - 1 \in 1..(k - 1) /\ m - 1 \in 1..Len(todo') /\ (m - 1) + 1 = m
      BY <1>1, <1>3, <3>2
    <3>4. todo'[m - 1] = todo[m]
      BY <1>3, <3>3
    <3> QED
      BY <3>1, <3>3, <3>4
  <2> QED
    BY <2>1 DEF Ordered, Wants, Starts, Access, HandlerOf, Needs
<1>6. FilledFirst'
  <2>1. lut_r' \in {EmptyR, FullR} /\ lut_w' \in {EmptyW, FullW}
    BY DEF IoeInv, FilledFirst
  <2>2. ASSUME NEW k \in 1..Len(todo'), Access(todo'[k]) \/ todo'[k].kind = "main"
        PROVE  /\ lut_r' = FullR \/ \E m \in 1..(k - 1) : todo'[m].kind = "fill_r"
               /\ lut_w' = FullW \/ \E m \in 1..(k - 1) : todo'[m].kind = "fill_w"
    <3>1. /\ lut_r = FullR \/ \E m \in 1..k : todo[m].kind = "fill_r"
          /\ lut_w = FullW \/ \E m \in 1..k : todo[m].kind = "fill_w"
      BY <1>3, <2>2 DEF IoeInv, FilledFirst
    <3>2. ASSUME NEW m \in 1..k, m # 1
          PROVE  m - 1 \in 1..(k - 1) /\ todo'[m - 1] = todo[m]
      <4>1. m - 1 \in 1..(k - 1) /\ m - 1 \in 1..Len(todo') /\ (m - 1) + 1 = m
        BY <1>1, <1>3, <3>2
      <4> QED
        BY <1>3, <4>1
    <3> QED
      BY <1>1, <3>1, <3>2
  <2> QED
    BY <2>1, <2>2 DEF FilledFirst, Access
<1> QED
  BY <1>4, <1>5, <1>6 DEF IoeInv

\* The operations that stop the machine.
Sorry == Say("AM Panic")
Bye   == Say("Exit with code")
Stop  == Do("ebreak")

LEMMA Stopping ==
  /\ Sorry \in Ops /\ Sorry.kind = "write" /\ Wants(Sorry) = {"uart_ctrl"}
  /\ Bye \in Ops /\ Bye.kind = "write" /\ Wants(Bye) = {"uart_ctrl"}
  /\ Stop \in Ops /\ Stop.kind = "ebreak" /\ Wants(Stop) = {}
<1>1. /\ Sorry \in Ops /\ Sorry.kind = "write" /\ Wants(Sorry) = {"uart_ctrl"}
      /\ Bye \in Ops /\ Bye.kind = "write" /\ Wants(Bye) = {"uart_ctrl"}
  <2>1. \A text \in Texts :
          Say(text) \in Ops /\ Say(text).kind = "write" /\ Wants(Say(text)) = {"uart_ctrl"}
    BY SayWants
  <2>2. "AM Panic" \in Texts /\ "Exit with code" \in Texts
    BY Zenon DEF Texts
  <2> QED
    BY <2>1, <2>2, Zenon DEF Sorry, Bye
<1>2. /\ Stop \in Ops /\ Stop.kind = "ebreak" /\ Wants(Stop) = {}
  <2>1. \A kind \in Kinds \ {"read", "write"} :
          /\ Do(kind) \in Ops /\ Do(kind).kind = kind
          /\ kind # "main" => Wants(Do(kind)) = {}
    BY DoWants
  <2>2. "ebreak" \in Kinds \ {"read", "write"} /\ "ebreak" # "main"
    BY DEF Kinds
  <2> QED
    BY <2>1, <2>2, Zenon DEF Stop
<1> QED
  BY <1>1, <1>2

LEMMA HaltIs ==
  Halt \in Seq(Ops) /\ Len(Halt) = 2 /\ Halt[1] = Bye /\ Halt[2] = Stop
<1>1. Halt = <<Bye, Stop>>
  BY Zenon DEF Halt, Bye, Stop
<1> QED
  BY <1>1, Stopping

LEMMA PanicIs ==
  /\ Panic \in Seq(Ops) /\ Len(Panic) = 3
  /\ Panic[1] = Sorry /\ Panic[2] = Bye /\ Panic[3] = Stop
<1> DEFINE first == <<Sorry>>
<1>1. Panic = first \o Halt
  BY Zenon DEF Panic, Sorry
<1>2. first \in Seq(Ops) /\ Len(first) = 1 /\ first[1] = Sorry
  BY Stopping
<1> HIDE DEF first
<1>3. /\ first \o Halt \in Seq(Ops) /\ Len(first \o Halt) = Len(first) + Len(Halt)
      /\ \A n \in 1..Len(first) : (first \o Halt)[n] = first[n]
      /\ \A n \in 1..Len(Halt) : (first \o Halt)[Len(first) + n] = Halt[n]
  BY <1>2, HaltIs, Joined
<1>4. /\ Panic \in Seq(Ops) /\ Len(Panic) = Len(first) + Len(Halt)
      /\ \A n \in 1..Len(first) : Panic[n] = first[n]
      /\ \A n \in 1..Len(Halt) : Panic[Len(first) + n] = Halt[n]
  BY <1>1, <1>3
<1>5. Len(Panic) = 3 /\ Panic[1] = Sorry
  BY <1>2, <1>4, HaltIs
<1>6. Panic[2] = Bye /\ Panic[3] = Stop
  <2>1. Panic[1 + 1] = Bye /\ Panic[1 + 2] = Stop
    BY <1>2, <1>4, HaltIs
  <2>2. 1 + 1 = 2 /\ 1 + 2 = 3
    OBVIOUS
  <2> QED
    BY <2>1, <2>2
<1> QED
  BY <1>4, <1>5, <1>6

\* The machine is to stop, once the transmitter works and the tables are filled.
LEMMA StopReady ==
  ASSUME todo' \in {Panic, Halt}, "uart_ctrl" \in started',
         lut_r' = FullR, lut_w' = FullW, state' # "lost"
  PROVE  IoeInv'
<1>1. /\ todo' \in Seq(Ops) /\ Len(todo') \in {2, 3}
      /\ todo'[Len(todo')] = Stop
      /\ \A n \in 1..Len(todo') : todo'[n] \in {Sorry, Bye, Stop}
  <2>1. CASE todo' = Panic
    BY <2>1, PanicIs
  <2>2. CASE todo' = Halt
    BY <2>2, HaltIs
  <2> QED
    BY <2>1, <2>2
<1>2. Ending'
  BY <1>1, Stopping, SMTT(30) DEF Ending
<1>3. \A n \in 1..Len(todo') : Wants(todo'[n]) \subseteq started'
  BY <1>1, Stopping
<1>4. Ordered'
  BY <1>3 DEF Ordered, Wants, Access, HandlerOf, Needs
<1>5. FilledFirst'
  BY DEF FilledFirst
<1> QED
  BY <1>2, <1>4, <1>5 DEF IoeInv

\* Ordered in the next state.
LEMMA OrderedThen ==
  ASSUME \A n \in 1..Len(todo') : \A what \in Wants(todo'[n]) :
           what \in started' \/ \E m \in 1..(n - 1) : what \in Starts(todo'[m])
  PROVE  Ordered'
BY DEF Ordered, Wants, Starts, Access, HandlerOf, Needs

\* main asks for a register.
LEMMA CallReady ==
  ASSUME IoeInv, Head(todo).kind = "main", UNCHANGED <<lut_r, lut_w, started, state>>,
         NEW op \in Ops, Access(op), todo' = <<op>> \o todo
  PROVE  IoeInv'
<1>1. /\ todo \in Seq(Ops) /\ Len(todo) \in Nat /\ Len(todo) > 0
      /\ todo[Len(todo)].kind \in {"main", "ebreak"}
  BY DEF IoeInv, Ending
<1>2. /\ Wants(Head(todo)) \subseteq started /\ lut_r = FullR /\ lut_w = FullW
  BY HeadReady
<1>3. {"uart_ctrl", "time_base", "terminal_cells"} \subseteq started
  BY <1>2 DEF Wants
<1>4. Wants(op) \subseteq started
  BY <1>3 DEF Wants, Needs, Access
<1>5. /\ todo' \in Seq(Ops) /\ Len(todo') = Len(todo) + 1
      /\ todo'[1] = op
      /\ \A n \in 1..Len(todo) : todo'[n + 1] = todo[n]
  <2> DEFINE one == <<op>>
  <2>1. one \in Seq(Ops) /\ Len(one) = 1 /\ one[1] = op /\ todo' = one \o todo
    OBVIOUS
  <2> HIDE DEF one
  <2>2. /\ todo' \in Seq(Ops) /\ Len(todo') = Len(one) + Len(todo)
        /\ \A n \in 1..Len(one) : todo'[n] = one[n]
        /\ \A n \in 1..Len(todo) : todo'[Len(one) + n] = todo[n]
    BY <1>1, <2>1, Joined
  <2> QED
    BY <1>1, <2>1, <2>2
<1>6. Ending'
  BY <1>1, <1>5 DEF Ending
<1>7. Ordered'
  <2>1. ASSUME NEW n \in 1..Len(todo'), NEW what \in Wants(todo'[n]), what \notin started'
        PROVE  \E m \in 1..(n - 1) : what \in Starts(todo'[m])
    <3>1. n # 1
      BY <1>4, <1>5, <2>1
    <3>2. n - 1 \in 1..Len(todo) /\ (n - 1) + 1 = n
      BY <1>1, <1>5, <3>1
    <3>3. todo'[n] = todo[n - 1]
      BY <1>5, <3>2
    <3>4. PICK m \in 1..((n - 1) - 1) : what \in Starts(todo[m])
      BY <2>1, <3>2, <3>3 DEF IoeInv, Ordered
    <3>5. m \in 1..Len(todo) /\ m + 1 \in 1..(n - 1)
      BY <1>1, <1>5, <3>2
    <3>6. todo'[m + 1] = todo[m]
      BY <1>5, <3>5
    <3>7. what \in Starts(todo'[m + 1])
      BY <3>4, <3>6
    <3> QED
      BY <3>5, <3>7
  <2>2. \A n \in 1..Len(todo') : \A what \in Wants(todo'[n]) :
          what \in started' \/ \E m \in 1..(n - 1) : what \in Starts(todo'[m])
    BY <2>1
  <2> QED
    BY <2>2, OrderedThen
<1>8. FilledFirst'
  BY <1>2 DEF FilledFirst
<1>9. state' # "lost"
  BY DEF IoeInv
<1> QED
  BY <1>6, <1>7, <1>8, <1>9 DEF IoeInv

LEMMA FillStep == IoeInv /\ Fill => IoeInv'
<1> SUFFICES ASSUME IoeInv, Fill PROVE IoeInv'
  OBVIOUS
<1>1. Head(todo).kind \in {"fill_r", "fill_w"} /\ todo' = Tail(todo) /\ started' = started
      /\ state' # "lost"
  BY DEF Fill, Next_, IoeInv
<1>2. Starts(Head(todo)) = {}
  BY <1>1 DEF Starts
<1>3. Filled(EmptyR) = FullR /\ Filled(FullR) = FullR /\ Filled(EmptyW) = FullW
      /\ Filled(FullW) = FullW
  <2>1. ReadEntries \in SUBSET Entries /\ WriteEntries \in SUBSET Entries
    BY DEF Entries
  <2> QED
    BY <2>1, FilledTwice DEF FullR, FullW, EmptyR, EmptyW
<1>4. lut_r \in {EmptyR, FullR} /\ lut_w \in {EmptyW, FullW}
  BY DEF IoeInv, FilledFirst
<1>5. lut_r' = IF Head(todo).kind = "fill_r" THEN FullR ELSE lut_r
  BY <1>3, <1>4 DEF Fill, Next_
<1>6. lut_w' = IF Head(todo).kind = "fill_w" THEN FullW ELSE lut_w
  BY <1>3, <1>4 DEF Fill, Next_
<1> QED
  BY <1>1, <1>2, <1>5, <1>6, TailReady

LEMMA StartStep == IoeInv /\ Start => IoeInv'
<1> SUFFICES ASSUME IoeInv, Start PROVE IoeInv'
  OBVIOUS
<1>1. PICK what \in {"time_base", "terminal_cells"} :
        Head(todo).kind = what /\ started' = started \cup {what}
  BY DEF Start, Next_
<1>2. Starts(Head(todo)) = {what}
  BY <1>1 DEF Starts
<1>3. /\ todo' = Tail(todo) /\ state' # "lost" /\ lut_r' = lut_r /\ lut_w' = lut_w
      /\ Head(todo).kind \notin {"main", "ebreak", "fill_r", "fill_w"}
  BY <1>1 DEF Start, IoeInv
<1> QED
  BY <1>1, <1>2, <1>3, TailReady

LEMMA DispatchStep == IoeInv /\ Dispatch => IoeInv'
<1> SUFFICES ASSUME IoeInv, Dispatch PROVE IoeInv'
  OBVIOUS
<1>1. Dispatching /\ Access(Head(todo))
  BY DEF Dispatch, Dispatching, Next_, Access
<1>2. Handler = HandlerOf(Head(todo)) /\ Handler # NULL
  BY <1>1, Handled
<1>3. /\ Wants(Head(todo)) \subseteq started /\ lut_r = FullR /\ lut_w = FullW
      /\ lut_r' = lut_r /\ lut_w' = lut_w /\ state # "lost"
  BY <1>1, HeadReady DEF Dispatch, IoeInv
<1>4. CASE Handler = "fail"
  <2>1. todo' = Panic /\ started' = started /\ state' = state
    BY <1>2, <1>4 DEF Dispatch
  <2>2. "uart_ctrl" \in started
    BY <1>1, <1>2, <1>3, <1>4 DEF Wants, Access
  <2> QED
    BY <1>3, <2>1, <2>2, StopReady
<1>5. CASE Handler # "fail"
  <2>1. /\ todo' = Tail(todo) /\ state' = state
        /\ started' = IF Handler = "uart_ctrl_w" THEN started \cup {"uart_ctrl"} ELSE started
    BY <1>2, <1>5 DEF Dispatch
  <2>2. Starts(Head(todo)) \subseteq started' /\ started \subseteq started'
    BY <1>1, <1>2, <2>1 DEF Starts, Access
  <2>3. Head(todo).kind \notin {"main", "ebreak", "fill_r", "fill_w"}
    BY <1>1 DEF Access
  <2> QED
    BY <1>3, <2>1, <2>2, <2>3, TailReady
<1> QED
  BY <1>4, <1>5

LEMMA MainCallStep == IoeInv /\ MainCall => IoeInv'
<1> SUFFICES ASSUME IoeInv, MainCall PROVE IoeInv'
  OBVIOUS
<1>1. Head(todo).kind = "main" /\ UNCHANGED <<lut_r, lut_w, started, state>>
  BY DEF MainCall, Next_
<1>2. PICK id \in {d[1] : d \in ToSet(AM_DEVREG)} \cup {0, 127} :
        todo' = <<Read(id)>> \o todo \/ todo' = <<Write(id)>> \o todo
  BY DEF MainCall
<1>3. id \in Ids
  <2> DEFINE numbers == {d[1] : d \in ToSet(AM_DEVREG)}
  <2>1. numbers \subseteq 1..32 /\ id \in numbers \cup {0, 127}
    BY <1>2, Bounded
  <2> HIDE DEF numbers
  <2> QED
    BY <2>1 DEF Ids
<1>4. /\ Read(id) \in Ops /\ Access(Read(id)) /\ Write(id) \in Ops /\ Access(Write(id))
  BY <1>3, Operations DEF Access
<1> QED
  BY <1>1, <1>2, <1>4, CallReady

LEMMA MainEndsStep == IoeInv /\ MainEnds => IoeInv'
<1> SUFFICES ASSUME IoeInv, MainEnds PROVE IoeInv'
  OBVIOUS
<1>1. /\ Head(todo).kind = "main" /\ todo' \in {Panic, Halt}
      /\ started' = started /\ lut_r' = lut_r /\ lut_w' = lut_w /\ state' # "lost"
  BY DEF MainEnds, Next_, IoeInv
<1>2. Wants(Head(todo)) \subseteq started /\ lut_r = FullR /\ lut_w = FullW
  BY <1>1, HeadReady
<1>3. "uart_ctrl" \in started
  BY <1>1, <1>2 DEF Wants
<1> QED
  BY <1>1, <1>2, <1>3, StopReady

\* What the invariant speaks of is unchanged.
LEMMA IoeSame ==
  ASSUME IoeInv, UNCHANGED <<lut_r, lut_w, started, todo>>, state' # "lost"
  PROVE  IoeInv'
<1>1. Ending'
  BY DEF IoeInv, Ending
<1>2. Ordered'
  BY DEF IoeInv, Ordered, Wants, Starts, Access, HandlerOf, Needs
<1>3. FilledFirst'
  BY DEF IoeInv, FilledFirst, Access
<1> QED
  BY <1>1, <1>2, <1>3 DEF IoeInv

LEMMA IoeStep == IoeInv /\ [Next]_vars => IoeInv'
<1> SUFFICES ASSUME IoeInv, [Next]_vars PROVE IoeInv'
  OBVIOUS
<1>1. CASE Fill
  BY <1>1, FillStep
<1>2. CASE Start
  BY <1>2, StartStep
<1>3. CASE Dispatch
  BY <1>3, DispatchStep
<1>4. CASE Ebreak
  BY <1>4, IoeSame DEF Ebreak
<1>5. CASE MainCall
  BY <1>5, MainCallStep
<1>6. CASE MainEnds
  BY <1>6, MainEndsStep
<1>7. CASE UNCHANGED vars
  BY <1>7, IoeSame DEF vars, IoeInv
<1> QED
  BY <1>1, <1>2, <1>3, <1>4, <1>5, <1>6, <1>7 DEF Next, Work, Main

\* What is still to do is always in an order in which it works.
THEOREM IoeInvariant == Spec => []IoeInv
<1>1. Init => IoeInv
  BY IoeInit
<1>2. IoeInv /\ [Next]_vars => IoeInv'
  BY IoeStep
<1> QED
  BY <1>1, <1>2, PTL DEF Spec

\* No access jumps to NULL, and no handler runs before its device has been started,
\* whatever main does and however long it runs (ioe.c:105-119).
THEOREM StartsFirst == Spec => []StartedFirst
<1>1. IoeInv => StartedFirst
  <2> SUFFICES ASSUME IoeInv PROVE StartedFirst
    OBVIOUS
  <2>1. state # "lost"
    BY DEF IoeInv
  <2>2. ASSUME Dispatching PROVE Needs(Handler) \subseteq started
    <3>1. Handler = HandlerOf(Head(todo)) /\ Wants(Head(todo)) \subseteq started
      BY <2>2, Handled, HeadReady
    <3>2. Access(Head(todo))
      BY <2>2 DEF Dispatching, Next_, Access
    <3>3. CASE Handler = "fail"
      BY <3>3 DEF Needs
    <3>4. CASE Handler # "fail"
      BY <3>1, <3>2, <3>4 DEF Wants, Access
    <3> QED
      BY <3>3, <3>4
  <2> QED
    BY <2>1, <2>2 DEF StartedFirst
<1> QED
  BY <1>1, IoeInvariant, PTL

\* Every handler that is called was written for the register it is called for
\* (ioe.c:54-100).
THEOREM BuffersFit == Spec => []BufferFits
<1>1. IoeInv => BufferFits
  <2> SUFFICES ASSUME IoeInv, Dispatching, Handler \notin {NULL, "fail"}
               PROVE  Id(TypeOf(Handler)) = Head(todo).id
    BY DEF BufferFits
  <2>1. PICK e \in Entries : Id(e[1]) = Head(todo).id /\ e[2] = Handler
    BY Handled
  <2>2. TypeOf(e[2]) = e[1]
    BY Entered
  <2> QED
    BY <2>1, <2>2
<1> QED
  BY <1>1, IoeInvariant, PTL

-----------------------------------------------------------------------------
(* Arithmetic.                                                               *)

LEMMA Quotient ==
  ASSUME NEW a \in Int, NEW m \in Nat, m > 0
  PROVE  a \div m \in Int /\ a % m \in 0..(m - 1) /\ a % m = a - m * (a \div m)
<1>1. a \div m \in Int
  BY Z3
<1>2. a % m \in 0..(m - 1)
  BY Z3
<1>3. a % m = a - m * (a \div m)
  BY Z3
<1> QED
  BY <1>1, <1>2, <1>3

\* Quotient and remainder are the only numbers that are one.
LEMMA OneQuotient ==
  ASSUME NEW a \in Int, NEW m \in Nat, m > 0, NEW q \in Int, NEW r \in 0..(m - 1),
         a = m * q + r
  PROVE  a \div m = q /\ a % m = r
<1>1. PICK p \in Int, s \in 0..(m - 1) : p = a \div m /\ s = a % m /\ s = a - m * p
  BY Quotient
<1>2. ASSUME NEW d \in Int, d >= 1 PROVE m * d >= m
  BY <1>2, Z3
<1>3. m * (q - p) = s - r /\ m * (p - q) = r - s
  <2>1. m * q = a - r /\ m * p = a - s
    BY <1>1, Z3
  <2>2. m * (q - p) = m * q - m * p /\ m * (p - q) = m * p - m * q
    BY Z3
  <2>3. m * q \in Int /\ m * p \in Int
    BY Z3
  <2> QED
    BY <2>1, <2>2, <2>3
<1>4. ~(q - p >= 1) /\ ~(p - q >= 1)
  BY <1>2, <1>3
<1>5. p = q
  BY <1>4
<1> QED
  BY <1>1, <1>5

\* A remainder may be taken before adding.
LEMMA RemainderFirst ==
  ASSUME NEW a \in Int, NEW c \in Int, NEW m \in Nat, m > 0
  PROVE  ((a % m) + c) % m = (a + c) % m
<1>1. PICK q \in Int, r \in 0..(m - 1) : q = a \div m /\ r = a % m /\ r = a - m * q
  BY Quotient
<1>2. PICK p \in Int, s \in 0..(m - 1) :
        p = (r + c) \div m /\ s = (r + c) % m /\ s = (r + c) - m * p
  BY Quotient
<1>3. a + c = m * (q + p) + s
  <2>1. m * (q + p) = m * q + m * p
    BY Z3
  <2>2. m * q \in Int /\ m * p \in Int
    BY Z3
  <2> QED
    BY <1>1, <1>2, <2>1, <2>2
<1>4. (a + c) % m = s
  <2>1. a + c \in Int /\ q + p \in Int
    OBVIOUS
  <2> QED
    BY <1>3, <2>1, OneQuotient
<1> QED
  BY <1>1, <1>2, <1>4

-----------------------------------------------------------------------------
(* The timer.                                                                *)

LEMMA TimerNumbers ==
  /\ TimerModulus \in Nat /\ TimerModulus > 0 /\ MINUTE \in Nat /\ MINUTE > 0
  /\ HOUR \in Nat /\ HOUR > 0 /\ DAY \in Nat /\ DAY > 0
  /\ Timer!Register = 0..(TimerModulus - 1)
BY DeviceAssumption DEF Timer!Parameters, Timer!Register

\* A calendar's date.
IsDate(d) ==
  /\ d.second \in 0..(MINUTE - 1) /\ d.minute \in 0..(HOUR - 1)
  /\ d.hour \in 0..(DAY - 1) /\ d.day \in Nat

\* Since the start the counter has counted elapsed, ...
Counted ==
  /\ uptime \in Timer!Register /\ time_base \in Timer!Register /\ elapsed \in Nat
  /\ timer_started \in BOOLEAN
  /\ IF timer_started THEN uptime = (time_base + elapsed) % TimerModulus ELSE elapsed = 0

\* ... and the clock holds the seconds of the calendar's date.
Kept == rtc \in Timer!Register /\ IsDate(date) /\ rtc = Timer!RtcSecs(date)

TimerInv == Counted /\ Kept

\* What the clock shows is the date that it holds.
LEMMA ShowsDate ==
  ASSUME NEW t, IsDate(t), NEW s, s = Timer!RtcSecs(t)
  PROVE  s \in Nat /\ Timer!SameTime(Timer!Calendar(s), t)
<1>1. PICK m \in Nat, h \in Nat, d \in Nat : m = MINUTE /\ h = HOUR /\ d = DAY
  BY TimerNumbers
<1>2. PICK sec \in 0..(m - 1), min \in 0..(h - 1), hour \in 0..(d - 1), day \in Nat :
        sec = t.second /\ min = t.minute /\ hour = t.hour /\ day = t.day
  BY <1>1 DEF IsDate
<1>3. /\ m > 0 /\ h > 0 /\ d > 0
      /\ s = day * m * h * d + hour * m * h + min * m + sec
  BY <1>1, <1>2, TimerNumbers DEF Timer!RtcSecs
<1> USE <1>3
<1>4. PICK minutes \in Nat : minutes = day * h * d + hour * h + min
  BY Z3
<1>5. PICK hours \in Nat : hours = day * d + hour
  BY Z3
<1>6. minutes = h * hours + min
  BY <1>4, <1>5, Z3
<1>7. s = m * minutes + sec
  BY <1>4, Z3
<1>8. s \in Nat
  BY <1>7, Z3
<1>9. s % m = sec /\ s \div m = minutes
  BY <1>7, <1>8, OneQuotient
<1>10. minutes % h = min
  BY <1>6, OneQuotient
<1>11. PICK rest \in 0..(m * h - 1) : rest = min * m + sec
  <2>1. min * m <= (h - 1) * m
    BY Z3
  <2>2. (h - 1) * m = m * h - m /\ m * h \in Nat /\ min * m \in Nat
    BY Z3
  <2>3. min * m + sec \in 0..(m * h - 1)
    BY <2>1, <2>2
  <2> QED
    BY <2>3
<1>12. m * h \in Nat /\ m * h > 0 /\ s = (m * h) * hours + rest
  BY <1>5, <1>11, Z3
<1>13. s \div (m * h) = hours
  BY <1>8, <1>11, <1>12, OneQuotient
<1>14. hours % d = hour
  <2>1. hours = d * day + hour
    BY <1>5, Z3
  <2> QED
    BY <2>1, OneQuotient
<1>15. PICK more \in 0..(m * h * d - 1) : more = hour * (m * h) + rest
  <2> DEFINE mh == m * h
  <2>1. mh \in Nat /\ mh > 0 /\ rest \in 0..(mh - 1)
    BY <1>11, <1>12
  <2> HIDE DEF mh
  <2>2. hour * mh <= (d - 1) * mh
    BY <2>1, Z3
  <2>3. (d - 1) * mh = mh * d - mh /\ mh * d \in Nat /\ hour * mh \in Nat
    BY <2>1, Z3
  <2>4. hour * mh + rest \in 0..(mh * d - 1)
    BY <2>1, <2>2, <2>3
  <2> QED
    BY <2>4 DEF mh
<1>16. m * h * d \in Nat /\ m * h * d > 0 /\ s = (m * h * d) * day + more
  <2> DEFINE mh == m * h
  <2>1. mh \in Nat /\ mh > 0
    BY <1>12
  <2>2. s = mh * hours + rest /\ more = hour * mh + rest /\ rest \in Int
    BY <1>11, <1>12, <1>15
  <2> HIDE DEF mh
  <2>3. mh * d \in Nat /\ mh * d > 0 /\ mh * hours = (mh * d) * day + hour * mh
    BY <1>5, <2>1, Z3
  <2>4. s = (mh * d) * day + more
    <3>1. (mh * d) * day \in Int /\ hour * mh \in Int
      BY <2>1, Z3
    <3> QED
      BY <2>2, <2>3, <3>1
  <2> QED
    BY <2>3, <2>4 DEF mh
<1>17. s \div (m * h * d) = day
  BY <1>8, <1>15, <1>16, OneQuotient
<1>18. /\ s % m = sec /\ (s \div m) % h = min /\ (s \div (m * h)) % d = hour
       /\ s \div (m * h * d) = day
  BY <1>9, <1>10, <1>13, <1>14, <1>17
<1> QED
  BY <1>1, <1>2, <1>8, <1>18 DEF Timer!SameTime, Timer!Calendar, Timer!Minute

\* Any number of seconds is shown as a date that stands for it.
LEMMA DateOf ==
  ASSUME NEW s \in Nat
  PROVE  IsDate(Timer!Calendar(s)) /\ Timer!RtcSecs(Timer!Calendar(s)) = s
<1>1. PICK minutes \in Int, sec \in 0..(MINUTE - 1) :
        minutes = s \div MINUTE /\ sec = s % MINUTE /\ sec = s - MINUTE * minutes
  BY TimerNumbers, Quotient
<1>2. PICK hours \in Int, min \in 0..(HOUR - 1) :
        hours = minutes \div HOUR /\ min = minutes % HOUR /\ min = minutes - HOUR * hours
  BY TimerNumbers, Quotient
<1>3. PICK day \in Int, hour \in 0..(DAY - 1) :
        day = hours \div DAY /\ hour = hours % DAY /\ hour = hours - DAY * day
  BY TimerNumbers, Quotient
<1>4. s = day * MINUTE * HOUR * DAY + hour * MINUTE * HOUR + min * MINUTE + sec
  <2>1. s = MINUTE * minutes + sec /\ minutes = HOUR * hours + min /\ hours = DAY * day + hour
    BY <1>1, <1>2, <1>3, TimerNumbers, Z3
  <2> QED
    BY <2>1, TimerNumbers, Z3
<1>5. ASSUME NEW m \in Nat, m > 0, NEW x \in Int, NEW r \in 0..(m - 1), m * x + r >= 0
      PROVE  x >= 0
  <2>1. x < 0 => m * x <= -m
    BY <1>5, Z3
  <2>2. m * x \in Int
    BY Z3
  <2> QED
    BY <1>5, <2>1, <2>2
<1>6. minutes >= 0
  <2>1. MINUTE * minutes + sec = s
    BY <1>1, TimerNumbers, Z3
  <2> QED
    BY <1>5, <2>1, TimerNumbers
<1>7. hours >= 0
  <2>1. HOUR * hours + min = minutes
    BY <1>2, TimerNumbers, Z3
  <2> QED
    BY <1>5, <1>6, <2>1, TimerNumbers
<1>8. day \in Nat
  <2>1. DAY * day + hour = hours
    BY <1>3, TimerNumbers, Z3
  <2> QED
    BY <1>5, <1>7, <2>1, TimerNumbers
<1> DEFINE t == [second |-> sec, minute |-> min, hour |-> hour, day |-> day]
           d == Timer!Calendar(s)
<1>9. t.second = sec /\ t.minute = min /\ t.hour = hour /\ t.day = day
  OBVIOUS
<1> HIDE DEF t, d
<1>10. IsDate(t) /\ Timer!RtcSecs(t) = s
  BY <1>4, <1>8, <1>9 DEF IsDate, Timer!RtcSecs
<1>11. Timer!SameTime(d, t)
  BY <1>10, ShowsDate DEF d
<1>12. IsDate(d) /\ Timer!RtcSecs(d) = s
  BY <1>10, <1>11 DEF IsDate, Timer!RtcSecs, Timer!SameTime
<1> QED
  BY <1>12 DEF d

\* The next second of a calendar is the next number of seconds.
LEMMA OneSecond ==
  ASSUME NEW d, IsDate(d)
  PROVE  IsDate(Timer!NextSecond(d)) /\ Timer!RtcSecs(Timer!NextSecond(d)) = Timer!RtcSecs(d) + 1
<1>1. PICK sec \in 0..(MINUTE - 1), min \in 0..(HOUR - 1), hour \in 0..(DAY - 1), day \in Nat :
        sec = d.second /\ min = d.minute /\ hour = d.hour /\ day = d.day
  BY DEF IsDate
<1> DEFINE s == sec + 1
           m == IF s = MINUTE THEN min + 1 ELSE min
           h == IF m = HOUR THEN hour + 1 ELSE hour
           e == Timer!NextSecond(d)
<1>2. /\ e.second = IF s = MINUTE THEN 0 ELSE s
      /\ e.minute = IF m = HOUR THEN 0 ELSE m
      /\ e.hour = IF h = DAY THEN 0 ELSE h
      /\ e.day = IF h = DAY THEN day + 1 ELSE day
  BY <1>1 DEF Timer!NextSecond
<1> HIDE DEF e
<1>3. Timer!RtcSecs(d) = day * MINUTE * HOUR * DAY + hour * MINUTE * HOUR + min * MINUTE + sec
  BY <1>1 DEF Timer!RtcSecs
<1>4. CASE s # MINUTE
  <2>1. m = min /\ h = hour /\ m # HOUR /\ h # DAY
    BY <1>4, TimerNumbers
  <2>2. e.second = sec + 1 /\ e.minute = min /\ e.hour = hour /\ e.day = day
    BY <1>2, <1>4, <2>1
  <2>3. sec + 1 \in 0..(MINUTE - 1)
    BY <1>4, TimerNumbers
  <2>4. Timer!RtcSecs(e) = day * MINUTE * HOUR * DAY + hour * MINUTE * HOUR + min * MINUTE + (sec + 1)
    BY <2>2 DEF Timer!RtcSecs
  <2>5. Timer!RtcSecs(e) = Timer!RtcSecs(d) + 1
    BY <1>3, <2>4, TimerNumbers, Z3
  <2> QED
    BY <2>2, <2>3, <2>5 DEF IsDate, e
<1>5. CASE s = MINUTE /\ m # HOUR
  <2>1. m = min + 1 /\ h = hour /\ h # DAY
    BY <1>5, TimerNumbers
  <2>2. e.second = 0 /\ e.minute = min + 1 /\ e.hour = hour /\ e.day = day
    BY <1>2, <1>5, <2>1
  <2>3. min + 1 \in 0..(HOUR - 1) /\ 0 \in 0..(MINUTE - 1)
    BY <1>5, <2>1, TimerNumbers
  <2>4. Timer!RtcSecs(e) = day * MINUTE * HOUR * DAY + hour * MINUTE * HOUR + (min + 1) * MINUTE + 0
    BY <2>2 DEF Timer!RtcSecs
  <2>5. Timer!RtcSecs(e) = Timer!RtcSecs(d) + 1
    BY <1>3, <1>5, <2>4, TimerNumbers, Z3
  <2> QED
    BY <2>2, <2>3, <2>5 DEF IsDate, e
<1>6. CASE s = MINUTE /\ m = HOUR /\ h # DAY
  <2>1. m = min + 1 /\ h = hour + 1
    BY <1>6, TimerNumbers
  <2>2. e.second = 0 /\ e.minute = 0 /\ e.hour = hour + 1 /\ e.day = day
    BY <1>2, <1>6, <2>1
  <2>3. hour + 1 \in 0..(DAY - 1) /\ 0 \in 0..(MINUTE - 1) /\ 0 \in 0..(HOUR - 1)
    BY <1>6, <2>1, TimerNumbers
  <2>4. Timer!RtcSecs(e) = day * MINUTE * HOUR * DAY + (hour + 1) * MINUTE * HOUR + 0 * MINUTE + 0
    BY <2>2 DEF Timer!RtcSecs
  <2>5. sec + 1 = MINUTE /\ min + 1 = HOUR
    BY <1>6, <2>1
  <2>6. Timer!RtcSecs(e) = Timer!RtcSecs(d) + 1
    BY <1>3, <2>4, <2>5, TimerNumbers, Z3
  <2> QED
    BY <2>2, <2>3, <2>6 DEF IsDate, e
<1>7. CASE s = MINUTE /\ m = HOUR /\ h = DAY
  <2>1. m = min + 1 /\ h = hour + 1
    BY <1>7, TimerNumbers
  <2>2. e.second = 0 /\ e.minute = 0 /\ e.hour = 0 /\ e.day = day + 1
    BY <1>2, <1>7, <2>1
  <2>3. 0 \in 0..(DAY - 1) /\ 0 \in 0..(MINUTE - 1) /\ 0 \in 0..(HOUR - 1) /\ day + 1 \in Nat
    BY TimerNumbers
  <2>4. Timer!RtcSecs(e) = (day + 1) * MINUTE * HOUR * DAY + 0 * MINUTE * HOUR + 0 * MINUTE + 0
    BY <2>2 DEF Timer!RtcSecs
  <2>5. sec + 1 = MINUTE /\ min + 1 = HOUR /\ hour + 1 = DAY
    BY <1>7, <2>1
  <2>6. Timer!RtcSecs(e) = Timer!RtcSecs(d) + 1
    BY <1>3, <2>4, <2>5, TimerNumbers, Z3
  <2> QED
    BY <2>2, <2>3, <2>6 DEF IsDate, e
<1> QED
  BY <1>4, <1>5, <1>6, <1>7

LEMMA TimerBegins == Timer!Init => TimerInv
<1> SUFFICES ASSUME Timer!Init PROVE TimerInv
  OBVIOUS
<1>1. Counted
  <2>1. /\ uptime \in Timer!Register /\ time_base = 0 /\ timer_started = FALSE
        /\ elapsed = 0
    BY DEF Timer!Init
  <2>2. 0 \in Timer!Register /\ 0 \in Nat
    BY TimerNumbers
  <2> QED
    BY <2>1, <2>2 DEF Counted
<1>2. rtc \in Timer!Register /\ rtc \in Nat /\ date = Timer!Calendar(rtc)
  BY TimerNumbers DEF Timer!Init
<1>3. Kept
  BY <1>2, DateOf DEF Kept
<1> QED
  BY <1>1, <1>3 DEF TimerInv

LEMMA TimerSteps == TimerInv /\ [Timer!Next]_(Timer!vars) => TimerInv'
<1> SUFFICES ASSUME TimerInv, [Timer!Next]_(Timer!vars) PROVE TimerInv'
  OBVIOUS
<1>1. ASSUME UNCHANGED <<uptime, time_base, timer_started, elapsed>> PROVE Counted'
  BY <1>1 DEF TimerInv, Counted, Timer!Register
<1>2. ASSUME UNCHANGED <<rtc, date>> PROVE Kept'
  BY <1>2 DEF TimerInv, Kept, IsDate, Timer!Register, Timer!RtcSecs
<1>3. CASE Timer!TimerInit
  <2>1. /\ time_base' = uptime /\ timer_started' = TRUE /\ uptime' = uptime
        /\ elapsed' = elapsed /\ elapsed = 0 /\ uptime \in 0..(TimerModulus - 1)
    BY <1>3, TimerNumbers DEF Timer!TimerInit, Timer!registers, TimerInv, Counted
  <2>2. uptime % TimerModulus = uptime
    <3>1. uptime = TimerModulus * 0 + uptime
      BY <2>1, TimerNumbers
    <3> QED
      BY <2>1, <3>1, TimerNumbers, OneQuotient
  <2>3. Counted'
    BY <2>1, <2>2, TimerNumbers DEF Counted
  <2> QED
    BY <1>2, <1>3, <2>3 DEF Timer!TimerInit, Timer!registers, TimerInv
<1>4. CASE Timer!Count
  <2>1. /\ uptime' = (uptime + 1) % TimerModulus /\ time_base' = time_base
        /\ timer_started' = timer_started /\ timer_started \in BOOLEAN
        /\ elapsed' = IF timer_started THEN elapsed + 1 ELSE 0
        /\ elapsed \in Nat /\ uptime \in 0..(TimerModulus - 1)
        /\ time_base \in 0..(TimerModulus - 1)
    BY <1>4, TimerNumbers DEF Timer!Count, TimerInv, Counted
  <2>2. uptime' \in 0..(TimerModulus - 1)
    BY <2>1, TimerNumbers, Quotient
  <2>3. timer_started => uptime' = (time_base' + elapsed') % TimerModulus
    <3>1. SUFFICES ASSUME timer_started
                   PROVE  (uptime + 1) % TimerModulus = (time_base + (elapsed + 1)) % TimerModulus
      BY <2>1
    <3>2. uptime = (time_base + elapsed) % TimerModulus
      BY <3>1 DEF TimerInv, Counted
    <3>3. PICK a \in Int : a = time_base + elapsed
      BY <2>1
    <3>4. ((a % TimerModulus) + 1) % TimerModulus = (a + 1) % TimerModulus
      BY TimerNumbers, RemainderFirst
    <3>5. a + 1 = time_base + (elapsed + 1)
      BY <2>1, <3>3
    <3> QED
      BY <3>2, <3>3, <3>4, <3>5
  <2>4. Counted'
    BY <2>1, <2>2, <2>3, TimerNumbers DEF Counted
  <2> QED
    BY <1>2, <1>4, <2>4 DEF Timer!Count, TimerInv
<1>5. CASE Timer!Second
  <2>1. /\ rtc' = rtc + 1 /\ date' = Timer!NextSecond(date) /\ rtc < TimerModulus - 1
        /\ rtc \in Timer!Register /\ IsDate(date) /\ rtc = Timer!RtcSecs(date)
    BY <1>5 DEF Timer!Second, TimerInv, Kept
  <2>2. IsDate(date') /\ Timer!RtcSecs(date') = Timer!RtcSecs(date) + 1
    BY <2>1, OneSecond
  <2>3. rtc' \in Timer!Register
    BY <2>1, TimerNumbers
  <2>4. Kept'
    BY <2>1, <2>2, <2>3 DEF Kept, IsDate, Timer!Register, Timer!RtcSecs
  <2> QED
    BY <1>1, <1>5, <2>4 DEF Timer!Second, TimerInv
<1>6. CASE Timer!RtcW
  <2>1. PICK d \in Timer!Dates :
          Timer!RtcSecs(d) \in Timer!Register /\ rtc' = Timer!RtcSecs(d) /\ date' = d
    BY <1>6 DEF Timer!RtcW
  <2>2. IsDate(d)
    BY <2>1 DEF IsDate, Timer!Dates
  <2>3. Kept'
    BY <2>1, <2>2 DEF Kept, IsDate, Timer!Register, Timer!RtcSecs
  <2> QED
    BY <1>1, <1>6, <2>3 DEF Timer!RtcW, TimerInv
<1>7. CASE Timer!Uptime \/ Timer!RtcR \/ Timer!IntrR \/ Timer!IntrW \/ UNCHANGED Timer!vars
  BY <1>1, <1>2, <1>7 DEF Timer!Uptime, Timer!RtcR, Timer!IntrR, Timer!IntrW, Timer!vars,
     Timer!registers, TimerInv
<1> QED
  BY <1>3, <1>4, <1>5, <1>6, <1>7 DEF Timer!Next

\* The counter and the clock go with what has passed.
THEOREM TimerInvariant == Timer!Spec => []TimerInv
<1>1. Timer!Init => TimerInv
  BY TimerBegins
<1>2. TimerInv /\ [Timer!Next]_(Timer!vars) => TimerInv'
  BY TimerSteps
<1> QED
  BY <1>1, <1>2, PTL DEF Timer!Spec

\* Uptime tells the time since the start wherever the counter was then, and across any
\* number of its wrappings, as far as a register can tell (timer.c:17-25).
THEOREM UptimeIsRight == Timer!Spec => UptimeRight
<1>1. TimerInv /\ Timer!Uptime => reading'[2] = elapsed % TimerModulus
  <2> SUFFICES ASSUME TimerInv, Timer!Uptime PROVE reading'[2] = elapsed % TimerModulus
    OBVIOUS
  <2>1. /\ uptime = (time_base + elapsed) % TimerModulus /\ elapsed \in Nat
        /\ time_base \in Int
    BY TimerNumbers DEF TimerInv, Counted, Timer!Uptime
  <2>2. reading'[2] = (uptime - time_base) % TimerModulus
    BY DEF Timer!Uptime, Timer!Since
  <2>3. PICK a \in Int, c \in Int : a = time_base + elapsed /\ c = 0 - time_base
    BY <2>1
  <2>4. ((a % TimerModulus) + c) % TimerModulus = (a + c) % TimerModulus
    BY TimerNumbers, RemainderFirst
  <2>5. a % TimerModulus \in Int
    BY TimerNumbers, Quotient
  <2>6. a + c = elapsed /\ (a % TimerModulus) + c = uptime - time_base
    BY <2>1, <2>3, <2>5
  <2> QED
    BY <2>2, <2>4, <2>6
<1> QED
  BY <1>1, TimerInvariant, PTL DEF UptimeRight, Timer!UptimeRight

\* The clock shows the calendar that was set, moved on by one second at a time, through
\* the ends of minutes, hours and days of any length (timer.c:35-49).
THEOREM ClockKeepsTime == Timer!Spec => RtcKeepsTime
<1>1. TimerInv /\ Timer!RtcR => Timer!SameTime(reading'[2], date)
  <2> SUFFICES ASSUME TimerInv, Timer!RtcR PROVE Timer!SameTime(reading'[2], date)
    OBVIOUS
  <2>1. reading'[2] = Timer!Calendar(rtc)
    BY DEF Timer!RtcR
  <2>2. Timer!SameTime(Timer!Calendar(rtc), date)
    BY ShowsDate DEF TimerInv, Kept
  <2> QED
    BY <2>1, <2>2
<1> QED
  BY <1>1, TimerInvariant, PTL DEF RtcKeepsTime, Timer!RtcKeepsTime

-----------------------------------------------------------------------------
(* A picture.                                                                *)

\* Where an address is on the screen, and in the picture.
Column(a) == a % SCREEN_WIDTH
Line(a)   == a \div SCREEN_WIDTH
Across(a) == Column(a) - call.x
Down(a)   == Line(a) - call.y

\* The part of the picture that the loops have been over.
Passed(a) ==
  /\ a < Draw!ScreenNr /\ Across(a) \in 0..(ctl.w - 1) /\ Down(a) \in 0..(ctl.h - 1)
  /\ Down(a) < i \/ (Down(a) = i /\ Across(a) < j)

Colour(k) == IF call.deep THEN Draw!Turn256c(Draw!Pixel32(k)) ELSE Draw!Pixel8(k)

\* Just that part is drawn, each pixel in its place.
Painted ==
  \A a \in Draw!Addresses :
    memory[a] = IF Passed(a) THEN Colour(Across(a) + ctl.w * Down(a)) ELSE 0

\* What the request has become.
Began == call.x <= SCREEN_WIDTH /\ call.y <= SCREEN_HEIGHT

Request ==
  /\ ctl.x = call.x /\ ctl.y = call.y /\ ctl.sync = call.sync /\ ctl.deep = call.deep
  /\ pc = "clip" => ctl.w = call.w /\ ctl.h = call.h
  /\ pc = "draw" => Began
  /\ pc = "clip" \/ ~Began => i = 0 /\ j = 0
  /\ pc # "clip" /\ Began =>
       /\ ctl.w = IF SCREEN_WIDTH - call.x < call.w THEN SCREEN_WIDTH - call.x ELSE call.w
       /\ ctl.h = IF SCREEN_HEIGHT - call.y < call.h THEN SCREEN_HEIGHT - call.y ELSE call.h
       /\ i \in 0..ctl.h /\ j \in 0..ctl.w
       /\ pc = "done" => i = ctl.h

DrawInv == Draw!TypeOK /\ Request /\ Painted

LEMMA ScreenNumbers ==
  /\ SCREEN_WIDTH \in Nat /\ SCREEN_WIDTH > 0 /\ SCREEN_HEIGHT \in Nat /\ SCREEN_HEIGHT > 0
  /\ Behind \in Nat /\ Modulus \in Nat /\ SCREEN_WIDTH < Modulus /\ SCREEN_HEIGHT < Modulus
  /\ Draw!ScreenNr \in Nat /\ Draw!ScreenNr < Modulus
  /\ Draw!Addresses \subseteq Nat
  /\ \A a \in 0..(Draw!ScreenNr - 1) : a \in Draw!Addresses
  /\ Args \subseteq 0..(Modulus - 1)
<1>1. /\ SCREEN_WIDTH \in Nat /\ SCREEN_WIDTH > 0 /\ SCREEN_HEIGHT \in Nat /\ SCREEN_HEIGHT > 0
      /\ Behind \in Nat /\ Modulus \in Nat
      /\ Args \subseteq Nat /\ \A a \in Args : a < Modulus
      /\ Draw!ScreenNr + SCREEN_WIDTH < Modulus
  BY DeviceAssumption DEF Draw!Parameters
<1>2. /\ Draw!ScreenNr \in Nat /\ SCREEN_HEIGHT <= Draw!ScreenNr
  BY <1>1, Z3 DEF Draw!ScreenNr
<1> QED
  BY <1>1, <1>2 DEF Draw!Addresses

\* Every address has a place, and every place of the screen an address.
LEMMA Places ==
  /\ \A a \in Draw!Addresses :
       /\ Column(a) \in 0..(SCREEN_WIDTH - 1) /\ Line(a) \in Nat
       /\ a = SCREEN_WIDTH * Line(a) + Column(a)
       /\ a < Draw!ScreenNr => Line(a) < SCREEN_HEIGHT
  /\ \A c \in 0..(SCREEN_WIDTH - 1), l \in 0..(SCREEN_HEIGHT - 1) :
       /\ SCREEN_WIDTH * l + c \in Draw!Addresses /\ SCREEN_WIDTH * l + c < Draw!ScreenNr
       /\ Column(SCREEN_WIDTH * l + c) = c /\ Line(SCREEN_WIDTH * l + c) = l
<1>1. ASSUME NEW a \in Draw!Addresses
      PROVE  /\ Column(a) \in 0..(SCREEN_WIDTH - 1) /\ Line(a) \in Nat
             /\ a = SCREEN_WIDTH * Line(a) + Column(a)
             /\ a < Draw!ScreenNr => Line(a) < SCREEN_HEIGHT
  <2>1. PICK q \in Int, r \in 0..(SCREEN_WIDTH - 1) :
          q = Line(a) /\ r = Column(a) /\ r = a - SCREEN_WIDTH * q
    BY ScreenNumbers, Quotient DEF Line, Column
  <2>2. a \in Nat /\ SCREEN_WIDTH * q \in Int
    BY ScreenNumbers, Z3
  <2>3. ASSUME q < 0 PROVE SCREEN_WIDTH * q <= -SCREEN_WIDTH
    BY <2>3, ScreenNumbers, Z3
  <2>4. q >= 0
    BY <2>1, <2>2, <2>3, ScreenNumbers
  <2>5. ASSUME q >= SCREEN_HEIGHT PROVE SCREEN_WIDTH * q >= Draw!ScreenNr
    BY <2>5, ScreenNumbers, Z3 DEF Draw!ScreenNr
  <2> QED
    BY <2>1, <2>2, <2>4, <2>5, ScreenNumbers
<1>2. ASSUME NEW c \in 0..(SCREEN_WIDTH - 1), NEW l \in 0..(SCREEN_HEIGHT - 1)
      PROVE  /\ SCREEN_WIDTH * l + c \in Draw!Addresses
             /\ SCREEN_WIDTH * l + c < Draw!ScreenNr
             /\ Column(SCREEN_WIDTH * l + c) = c /\ Line(SCREEN_WIDTH * l + c) = l
  <2>1. SCREEN_WIDTH * l + c \in Nat
    BY ScreenNumbers, Z3
  <2>2. PICK a \in Nat : a = SCREEN_WIDTH * l + c
    BY <2>1
  <2>3. SCREEN_WIDTH * l <= SCREEN_WIDTH * (SCREEN_HEIGHT - 1)
    BY ScreenNumbers, Z3
  <2>4. SCREEN_WIDTH * (SCREEN_HEIGHT - 1) = Draw!ScreenNr - SCREEN_WIDTH
    BY ScreenNumbers, Z3 DEF Draw!ScreenNr
  <2>5. SCREEN_WIDTH * l \in Nat
    BY ScreenNumbers, Z3
  <2>6. a < Draw!ScreenNr
    BY <2>2, <2>3, <2>4, <2>5, ScreenNumbers
  <2>7. a \div SCREEN_WIDTH = l /\ a % SCREEN_WIDTH = c
    BY <2>2, ScreenNumbers, OneQuotient
  <2>8. a \in Draw!Addresses
    BY <2>6, ScreenNumbers
  <2> QED
    BY <2>2, <2>6, <2>7, <2>8 DEF Column, Line
<1> QED
  BY <1>1, <1>2

LEMMA Colours ==
  ASSUME NEW k \in Int, call.deep \in BOOLEAN
  PROVE  /\ Colour(k) \in 0..255
         /\ IF call.deep THEN Draw!Shows(Colour(k), Draw!Pixel32(k))
            ELSE Colour(k) = Draw!Pixel8(k)
<1>1. CASE ~call.deep
  <2>1. (k + 1) % 256 \in 0..(256 - 1)
    BY Z3
  <2> QED
    BY <1>1, <2>1 DEF Colour, Draw!Pixel8
<1>2. CASE call.deep
  <2> DEFINE p == Draw!Pixel32(k)
  <2>1. PICK r \in 0..255, g \in 0..255, b \in 0..255 :
          r = (255 - k) % 256 /\ g = (37 * k + 5) % 256 /\ b = (91 * k + 70) % 256
    <3>1. (255 - k) % 256 \in 0..255 /\ (37 * k + 5) % 256 \in 0..255
          /\ (91 * k + 70) % 256 \in 0..255
      BY Z3
    <3> QED
      BY <3>1
  <2>2. p.red = r /\ p.green = g /\ p.blue = b
    BY <2>1 DEF Draw!Pixel32
  <2>3. PICK c : c = (r \div 32) * 32 + (g \div 32) * 4 + b \div 64
    OBVIOUS
  <2>4. Colour(k) = c
    BY <1>2, <2>2, <2>3 DEF Colour, Draw!Turn256c
  <2>5. c \in 0..255 /\ c \div 32 = (r * 8) \div 256 /\ (c \div 4) % 8 = (g * 8) \div 256
        /\ c % 4 = (b * 4) \div 256
    BY <2>3, Z3T(30)
  <2> QED
    BY <1>2, <2>2, <2>4, <2>5 DEF Draw!Shows
<1> QED
  BY <1>1, <1>2

LEMMA DrawBegins == Draw!Init => DrawInv
<1> SUFFICES ASSUME Draw!Init PROVE DrawInv
  OBVIOUS
<1>1. /\ memory = [a \in Draw!Addresses |-> 0] /\ ctl = call
      /\ call \in [x : Args, y : Args, w : Args, h : Args, sync : BOOLEAN, deep : BOOLEAN]
      /\ i = 0 /\ j = 0 /\ pc = "clip" /\ told = FALSE
  BY DEF Draw!Init
<1>2. call \in [x : Nat, y : Nat, w : 0..(Modulus - 1), h : 0..(Modulus - 1),
                sync : BOOLEAN, deep : BOOLEAN]
  <2>1. Args \subseteq Nat /\ Args \subseteq 0..(Modulus - 1)
    BY ScreenNumbers
  <2> QED
    BY <1>1, <2>1
<1>3. Draw!TypeOK
  <2>1. memory \in [Draw!Addresses -> 0..255]
    BY <1>1
  <2>2. i \in 0..SCREEN_HEIGHT /\ j \in 0..SCREEN_WIDTH
    BY <1>1, ScreenNumbers
  <2> QED
    BY <1>1, <1>2, <2>1, <2>2 DEF Draw!TypeOK
<1>4. Request
  BY <1>1 DEF Request
<1>5. Painted
  <2>1. ASSUME NEW a \in Draw!Addresses PROVE ~Passed(a)
    <3>1. SUFFICES ASSUME Down(a) \in 0..(ctl.h - 1), Across(a) \in 0..(ctl.w - 1),
                          Down(a) < 0 \/ (Down(a) = 0 /\ Across(a) < 0)
                   PROVE  FALSE
      BY <1>1 DEF Passed
    <3> QED
      BY <3>1
  <2> QED
    BY <1>1, <2>1 DEF Painted
<1> QED
  BY <1>3, <1>4, <1>5 DEF DrawInv

\* The pixels passed do not change when the request is cut or a line is ended.
LEMMA SamePainted ==
  ASSUME Painted, UNCHANGED <<memory, call>>,
         \A a \in Draw!Addresses : Passed(a)' <=> Passed(a),
         ctl'.w = ctl.w \/ \A a \in Draw!Addresses : ~Passed(a)
  PROVE  Painted'
<1>1. \A a \in Draw!Addresses : Across(a)' = Across(a) /\ Down(a)' = Down(a)
  BY DEF Across, Down, Column, Line
<1>2. \A k : Colour(k)' = Colour(k)
  BY DEF Colour
<1> QED
  BY <1>1, <1>2 DEF Painted

LEMMA ReturnStep == DrawInv /\ Draw!Return => DrawInv'
<1> SUFFICES ASSUME DrawInv, Draw!Return PROVE DrawInv'
  OBVIOUS
<1>1. /\ UNCHANGED <<memory, ctl, call, i, j, told>> /\ pc = "clip" /\ pc' = "done"
      /\ (SCREEN_WIDTH < ctl.x \/ SCREEN_HEIGHT < ctl.y)
  BY DEF Draw!Return, Draw!Outside
<1>2. Draw!TypeOK'
  BY <1>1 DEF DrawInv, Draw!TypeOK, Draw!Addresses
<1>3. Request'
  <2>1. /\ ctl.x = call.x /\ ctl.y = call.y /\ call.x \in Nat /\ call.y \in Nat
        /\ i = 0 /\ j = 0 /\ ctl.sync = call.sync /\ ctl.deep = call.deep
    BY <1>1 DEF DrawInv, Request, Draw!TypeOK
  <2>2. ~Began
    BY <1>1, <2>1, ScreenNumbers DEF Began
  <2> QED
    BY <1>1, <2>1, <2>2 DEF Request, Began
<1>4. Painted'
  BY <1>1 DEF DrawInv, Painted, Passed, Across, Down, Column, Line, Colour
<1> QED
  BY <1>2, <1>3, <1>4 DEF DrawInv

LEMMA ClipStep == DrawInv /\ Draw!Clip => DrawInv'
<1> SUFFICES ASSUME DrawInv, Draw!Clip PROVE DrawInv'
  OBVIOUS
<1>1. /\ UNCHANGED <<memory, call, i, j, told>> /\ pc = "clip" /\ pc' = "draw"
      /\ ~(SCREEN_WIDTH < ctl.x \/ SCREEN_HEIGHT < ctl.y)
      /\ ctl' = [ctl EXCEPT !.w = Draw!Cut(SCREEN_WIDTH, ctl.x, ctl.w),
                            !.h = Draw!Cut(SCREEN_HEIGHT, ctl.y, ctl.h)]
  BY DEF Draw!Clip, Draw!Outside
<1> DEFINE Requests == [x : Nat, y : Nat, w : 0..(Modulus - 1), h : 0..(Modulus - 1),
                        sync : BOOLEAN, deep : BOOLEAN]
<1>2. ctl \in Requests /\ call \in Requests
  BY DEF DrawInv, Draw!TypeOK
<1>3. /\ ctl.x \in 0..SCREEN_WIDTH /\ ctl.y \in 0..SCREEN_HEIGHT
      /\ ctl.w \in 0..(Modulus - 1) /\ ctl.h \in 0..(Modulus - 1)
  BY <1>1, <1>2, ScreenNumbers
<1>4. /\ ctl.x = call.x /\ ctl.y = call.y /\ ctl.sync = call.sync /\ ctl.deep = call.deep
      /\ ctl.w = call.w /\ ctl.h = call.h /\ i = 0 /\ j = 0
  BY <1>1 DEF DrawInv, Request
<1>5. ASSUME NEW side \in Nat, side < Modulus, NEW at \in 0..side,
             NEW length \in 0..(Modulus - 1)
      PROVE  Draw!Cut(side, at, length) = IF side - at < length THEN side - at ELSE length
  <2>1. (side - at) % Modulus = side - at
    <3>1. side - at = Modulus * 0 + (side - at) /\ side - at \in 0..(Modulus - 1)
          /\ Modulus > 0
      BY <1>5, ScreenNumbers
    <3> QED
      BY <3>1, ScreenNumbers, OneQuotient
  <2> QED
    BY <2>1 DEF Draw!Cut
<1>6. PICK w \in 0..(Modulus - 1), h \in 0..(Modulus - 1) :
        /\ w = Draw!Cut(SCREEN_WIDTH, ctl.x, ctl.w)
        /\ h = Draw!Cut(SCREEN_HEIGHT, ctl.y, ctl.h)
        /\ w = IF SCREEN_WIDTH - ctl.x < ctl.w THEN SCREEN_WIDTH - ctl.x ELSE ctl.w
        /\ h = IF SCREEN_HEIGHT - ctl.y < ctl.h THEN SCREEN_HEIGHT - ctl.y ELSE ctl.h
  <2>1. Draw!Cut(SCREEN_WIDTH, ctl.x, ctl.w)
          = IF SCREEN_WIDTH - ctl.x < ctl.w THEN SCREEN_WIDTH - ctl.x ELSE ctl.w
    BY <1>3, <1>5, ScreenNumbers
  <2>2. Draw!Cut(SCREEN_HEIGHT, ctl.y, ctl.h)
          = IF SCREEN_HEIGHT - ctl.y < ctl.h THEN SCREEN_HEIGHT - ctl.y ELSE ctl.h
    BY <1>3, <1>5, ScreenNumbers
  <2> QED
    BY <1>3, <2>1, <2>2, ScreenNumbers
<1>7. ctl' = [ctl EXCEPT !.w = w, !.h = h]
  BY <1>1, <1>6
<1>8. /\ ctl' \in Requests /\ ctl'.x = ctl.x /\ ctl'.y = ctl.y /\ ctl'.w = w /\ ctl'.h = h
      /\ ctl'.sync = ctl.sync /\ ctl'.deep = ctl.deep
  BY <1>2, <1>7
<1>9. Draw!TypeOK'
  BY <1>1, <1>2, <1>8 DEF DrawInv, Draw!TypeOK, Draw!Addresses
<1>10. Request'
  <2>1. 0 \in 0..w /\ 0 \in 0..h
    OBVIOUS
  <2>2. /\ ctl'.w = IF SCREEN_WIDTH - call'.x < call'.w THEN SCREEN_WIDTH - call'.x ELSE call'.w
        /\ ctl'.h = IF SCREEN_HEIGHT - call'.y < call'.h THEN SCREEN_HEIGHT - call'.y ELSE call'.h
    BY <1>1, <1>4, <1>6, <1>8
  <2>3. call'.x <= SCREEN_WIDTH /\ call'.y <= SCREEN_HEIGHT
    BY <1>1, <1>3, <1>4, ScreenNumbers
  <2>4. i' \in 0..ctl'.h /\ j' \in 0..ctl'.w
    BY <1>1, <1>4, <1>8, <2>1
  <2> QED
    BY <1>1, <1>4, <1>8, <2>2, <2>3, <2>4 DEF Request, Began
<1>11. Painted'
  <2>1. ASSUME NEW a \in Draw!Addresses PROVE ~Passed(a) /\ ~Passed(a)'
    <3>1. /\ Down(a) \in 0..(ctl.h - 1) => ~(Down(a) < 0)
          /\ Across(a) \in 0..(ctl.w - 1) => ~(Across(a) < 0)
      BY <1>3
    <3>2. /\ Down(a)' = Down(a) /\ Across(a)' = Across(a)
      BY <1>1 DEF Down, Across, Column, Line
    <3>3. /\ Down(a) \in 0..(h - 1) => ~(Down(a) < 0)
          /\ Across(a) \in 0..(w - 1) => ~(Across(a) < 0)
      OBVIOUS
    <3> QED
      BY <1>1, <1>4, <1>8, <3>1, <3>2, <3>3 DEF Passed
  <2>2. /\ \A a \in Draw!Addresses : Passed(a)' <=> Passed(a)
        /\ \A a \in Draw!Addresses : ~Passed(a)
    BY <2>1
  <2>3. Painted
    BY DEF DrawInv
  <2> QED
    BY <1>1, <2>2, <2>3, SamePainted
<1> QED
  BY <1>9, <1>10, <1>11 DEF DrawInv

\* Where the loops are.
LEMMA Looping ==
  ASSUME DrawInv, pc = "draw"
  PROVE  /\ Began /\ ctl.x = call.x /\ ctl.y = call.y
         /\ call.x \in 0..SCREEN_WIDTH /\ call.y \in 0..SCREEN_HEIGHT
         /\ ctl.w \in 0..(SCREEN_WIDTH - call.x) /\ ctl.h \in 0..(SCREEN_HEIGHT - call.y)
         /\ i \in 0..ctl.h /\ j \in 0..ctl.w /\ call.deep \in BOOLEAN
         /\ ctl.sync = call.sync /\ ctl.deep = call.deep
<1>1. call.x \in Nat /\ call.y \in Nat /\ call.w \in Nat /\ call.h \in Nat
      /\ call.deep \in BOOLEAN
  BY ScreenNumbers DEF DrawInv, Draw!TypeOK
<1>2. /\ Began /\ ctl.x = call.x /\ ctl.y = call.y
      /\ ctl.sync = call.sync /\ ctl.deep = call.deep
      /\ ctl.w = IF SCREEN_WIDTH - call.x < call.w THEN SCREEN_WIDTH - call.x ELSE call.w
      /\ ctl.h = IF SCREEN_HEIGHT - call.y < call.h THEN SCREEN_HEIGHT - call.y ELSE call.h
      /\ i \in 0..ctl.h /\ j \in 0..ctl.w
  BY DEF DrawInv, Request
<1>3. call.x \in 0..SCREEN_WIDTH /\ call.y \in 0..SCREEN_HEIGHT
  BY <1>1, <1>2, ScreenNumbers DEF Began
<1>4. ctl.w \in 0..(SCREEN_WIDTH - call.x) /\ ctl.h \in 0..(SCREEN_HEIGHT - call.y)
  BY <1>1, <1>2, <1>3, ScreenNumbers
<1> QED
  BY <1>1, <1>2, <1>3, <1>4

LEMMA DrawPixelStep == DrawInv /\ Draw!DrawPixel => DrawInv'
<1> SUFFICES ASSUME DrawInv, Draw!DrawPixel PROVE DrawInv'
  OBVIOUS
<1>1. /\ UNCHANGED <<ctl, call, i, pc, told>> /\ pc = "draw" /\ i < ctl.h /\ j < ctl.w
      /\ j' = j + 1
      /\ memory' = [a \in Draw!Addresses |->
                      IF a = Draw!Target
                      THEN IF ctl.deep THEN Draw!Turn256c(Draw!Pixel32(j + ctl.w * i))
                           ELSE Draw!Pixel8(j + ctl.w * i)
                      ELSE memory[a]]
  BY DEF Draw!DrawPixel
<1>2. /\ Began /\ ctl.x = call.x /\ ctl.y = call.y
      /\ call.x \in 0..SCREEN_WIDTH /\ call.y \in 0..SCREEN_HEIGHT
      /\ ctl.w \in 0..(SCREEN_WIDTH - call.x) /\ ctl.h \in 0..(SCREEN_HEIGHT - call.y)
      /\ i \in 0..ctl.h /\ j \in 0..ctl.w /\ call.deep \in BOOLEAN
      /\ ctl.sync = call.sync /\ ctl.deep = call.deep
  BY <1>1, Looping
<1>3. PICK c \in 0..(SCREEN_WIDTH - 1), l \in 0..(SCREEN_HEIGHT - 1) :
        c = call.x + j /\ l = call.y + i
  BY <1>1, <1>2, ScreenNumbers
<1>4. PICK t \in Draw!Addresses :
        /\ t = SCREEN_WIDTH * l + c /\ t < Draw!ScreenNr /\ Column(t) = c /\ Line(t) = l
  BY Places
<1>5. Draw!Target = t
  <2>1. ctl.x + j + SCREEN_WIDTH * (ctl.y + i) = t
    <3>1. SCREEN_WIDTH * l \in Int
      BY ScreenNumbers, Z3
    <3> QED
      BY <1>2, <1>3, <1>4, <3>1, ScreenNumbers
  <2>2. t \in 0..(Modulus - 1) /\ t = Modulus * 0 + t /\ Modulus > 0
    BY <1>4, ScreenNumbers
  <2>3. t % Modulus = t
    BY <2>2, ScreenNumbers, OneQuotient
  <2> QED
    BY <2>1, <2>3 DEF Draw!Target
<1>6. PICK k \in Int : k = j + ctl.w * i
  <2>1. ctl.w * i \in Int
    BY <1>2, ScreenNumbers, Z3
  <2> QED
    BY <1>2, <2>1, ScreenNumbers
<1>7. memory' = [a \in Draw!Addresses |-> IF a = t THEN Colour(k) ELSE memory[a]]
  BY <1>1, <1>2, <1>5, <1>6 DEF Colour
<1>8. Colour(k) \in 0..255
  BY <1>2, <1>6, Colours
<1>9. Draw!TypeOK'
  <2>1. memory' \in [Draw!Addresses -> 0..255]
    BY <1>7, <1>8 DEF DrawInv, Draw!TypeOK
  <2>2. j' \in 0..SCREEN_WIDTH
    BY <1>1, <1>2, ScreenNumbers
  <2> QED
    BY <1>1, <2>1, <2>2 DEF DrawInv, Draw!TypeOK, Draw!Addresses
<1>10. Request'
  <2>1. j' \in 0..ctl.w
    BY <1>1, <1>2, ScreenNumbers
  <2> QED
    BY <1>1, <1>2, <2>1 DEF DrawInv, Request, Began
<1>11. Painted'
  <2>1. \A a \in Draw!Addresses :
          Across(a)' = Across(a) /\ Down(a)' = Down(a) /\ Across(a) \in Int /\ Down(a) \in Int
    BY <1>1, <1>2, Places, ScreenNumbers DEF Across, Down, Column, Line
  <2>2. ASSUME NEW a \in Draw!Addresses
        PROVE  Passed(a)' <=> Passed(a) \/ a = t
    <3>1. a = t <=> Across(a) = j /\ Down(a) = i
      <4>1. ASSUME a = t PROVE Across(a) = j /\ Down(a) = i
        BY <1>2, <1>3, <1>4, <4>1, ScreenNumbers DEF Across, Down
      <4>2. ASSUME Across(a) = j, Down(a) = i PROVE a = t
        <5>1. Column(a) = c /\ Line(a) = l
          <6>1. Column(a) \in Int /\ Line(a) \in Int
            BY Places, ScreenNumbers
          <6> QED
            BY <1>2, <1>3, <4>2, <6>1, ScreenNumbers DEF Across, Down
        <5>2. a = SCREEN_WIDTH * Line(a) + Column(a)
          BY Places
        <5> QED
          BY <1>4, <5>1, <5>2
      <4> QED
        BY <4>1, <4>2
    <3>2. Passed(a)' <=>
            /\ a < Draw!ScreenNr /\ Across(a) \in 0..(ctl.w - 1) /\ Down(a) \in 0..(ctl.h - 1)
            /\ Down(a) < i \/ (Down(a) = i /\ Across(a) < j + 1)
      BY <1>1, <2>1 DEF Passed, Draw!ScreenNr
    <3>3. Across(a) = j /\ Down(a) = i => a < Draw!ScreenNr
      BY <1>4, <3>1
    <3> HIDE DEF Passed
    <3>4. Across(a) < j + 1 <=> Across(a) < j \/ Across(a) = j
      BY <1>2, <2>1, ScreenNumbers
    <3>5. j \in 0..(ctl.w - 1) /\ i \in 0..(ctl.h - 1)
      BY <1>1, <1>2, ScreenNumbers
    <3> QED
      BY <3>1, <3>2, <3>3, <3>4, <3>5 DEF Passed
  <2>3. \A n \in Int : Colour(n)' = Colour(n)
    BY <1>1 DEF Colour
  <2>4. Across(t) = j /\ Down(t) = i
    BY <1>2, <1>3, <1>4, ScreenNumbers DEF Across, Down
  <2>5. ASSUME NEW a \in Draw!Addresses
        PROVE  memory'[a] = IF Passed(a)' THEN Colour(Across(a) + ctl.w * Down(a)) ELSE 0
    <3>1. CASE a = t
      BY <1>6, <1>7, <2>2, <2>4, <3>1
    <3>2. CASE a # t
      <4>1. memory[a] = IF Passed(a) THEN Colour(Across(a) + ctl.w * Down(a)) ELSE 0
        BY DEF DrawInv, Painted
      <4> QED
        BY <1>7, <2>2, <3>2, <4>1
    <3> QED
      BY <3>1, <3>2
  <2>6. Draw!Addresses' = Draw!Addresses
    BY DEF Draw!Addresses
  <2>7. \A a \in Draw!Addresses :
          Colour(Across(a) + ctl.w * Down(a))' = Colour(Across(a) + ctl.w * Down(a))
    BY <1>1, <2>1 DEF Colour
  <2> QED
    BY <2>5, <2>6, <2>7 DEF Painted
<1> QED
  BY <1>9, <1>10, <1>11 DEF DrawInv

LEMMA NextLineStep == DrawInv /\ Draw!NextLine => DrawInv'
<1> SUFFICES ASSUME DrawInv, Draw!NextLine PROVE DrawInv'
  OBVIOUS
<1>1. /\ UNCHANGED <<memory, ctl, call, pc, told>> /\ pc = "draw" /\ i < ctl.h /\ j >= ctl.w
      /\ i' = i + 1 /\ j' = 0
  BY DEF Draw!NextLine
<1>2. /\ Began /\ ctl.x = call.x /\ ctl.y = call.y
      /\ call.x \in 0..SCREEN_WIDTH /\ call.y \in 0..SCREEN_HEIGHT
      /\ ctl.w \in 0..(SCREEN_WIDTH - call.x) /\ ctl.h \in 0..(SCREEN_HEIGHT - call.y)
      /\ i \in 0..ctl.h /\ j \in 0..ctl.w /\ call.deep \in BOOLEAN
      /\ ctl.sync = call.sync /\ ctl.deep = call.deep
  BY <1>1, Looping
<1>3. i' \in 0..ctl.h /\ j' \in 0..ctl.w /\ i' \in 0..SCREEN_HEIGHT /\ j' \in 0..SCREEN_WIDTH
  BY <1>1, <1>2, ScreenNumbers
<1>4. Draw!TypeOK'
  BY <1>1, <1>3 DEF DrawInv, Draw!TypeOK, Draw!Addresses
<1>5. Request'
  BY <1>1, <1>2, <1>3 DEF DrawInv, Request, Began
<1>6. Painted'
  <2>1. ASSUME NEW a \in Draw!Addresses PROVE Passed(a)' <=> Passed(a)
    <3>1. Across(a)' = Across(a) /\ Down(a)' = Down(a) /\ Across(a) \in Int /\ Down(a) \in Int
      BY <1>1, <1>2, Places, ScreenNumbers DEF Across, Down, Column, Line
    <3>2. /\ Across(a) \in 0..(ctl.w - 1) => Across(a) < j /\ ~(Across(a) < 0)
          /\ Down(a) < i + 1 <=> Down(a) < i \/ Down(a) = i
      BY <1>1, <1>2, <3>1, ScreenNumbers
    <3>3. Passed(a)' <=>
            /\ a < Draw!ScreenNr /\ Across(a) \in 0..(ctl.w - 1) /\ Down(a) \in 0..(ctl.h - 1)
            /\ Down(a) < i + 1 \/ (Down(a) = i + 1 /\ Across(a) < 0)
      BY <1>1, <3>1 DEF Passed, Draw!ScreenNr
    <3> QED
      BY <3>2, <3>3 DEF Passed
  <2>2. Painted
    BY DEF DrawInv
  <2> QED
    BY <1>1, <2>1, <2>2, SamePainted
<1> QED
  BY <1>4, <1>5, <1>6 DEF DrawInv

LEMMA FinishStep == DrawInv /\ Draw!Finish => DrawInv'
<1> SUFFICES ASSUME DrawInv, Draw!Finish PROVE DrawInv'
  OBVIOUS
<1>1. /\ UNCHANGED <<memory, ctl, call, i, j>> /\ pc = "draw" /\ pc' = "done" /\ i >= ctl.h
      /\ told' = ctl.sync
  BY DEF Draw!Finish
<1>2. i = ctl.h /\ Began
  <2>1. /\ Began /\ call.y \in 0..SCREEN_HEIGHT /\ ctl.h \in 0..(SCREEN_HEIGHT - call.y)
        /\ i \in 0..ctl.h
    BY <1>1, Looping
  <2> QED
    BY <1>1, <2>1, ScreenNumbers
<1>3. Draw!TypeOK'
  BY <1>1 DEF DrawInv, Draw!TypeOK, Draw!Addresses
<1>4. Request'
  BY <1>1, <1>2 DEF DrawInv, Request, Began
<1>5. Painted'
  BY <1>1 DEF DrawInv, Painted, Passed, Across, Down, Column, Line, Colour
<1> QED
  BY <1>3, <1>4, <1>5 DEF DrawInv

\* At every step just the pixels passed are drawn, and at the end those are all.
THEOREM DrawInvariant == Draw!Spec => []DrawInv
<1>1. Draw!Init => DrawInv
  BY DrawBegins
<1>2. DrawInv /\ [Draw!Next]_(Draw!vars) => DrawInv'
  <2> SUFFICES ASSUME DrawInv, [Draw!Next]_(Draw!vars) PROVE DrawInv'
    OBVIOUS
  <2>1. CASE UNCHANGED Draw!vars
    BY <2>1 DEF Draw!vars, DrawInv, Draw!TypeOK, Draw!Addresses, Request, Began, Painted,
       Passed, Across, Down, Column, Line, Colour
  <2> QED
    BY <2>1, ReturnStep, ClipStep, DrawPixelStep, NextLineStep, FinishStep DEF Draw!Next
<1> QED
  BY <1>1, <1>2, PTL DEF Draw!Spec

\* Nothing is drawn outside the rectangle asked for or behind the framebuffer, and what
\* is not cut at the right is drawn pixel for pixel, on a screen of any size, for every
\* place and size that an int holds (gpu.c:197-220).
THEOREM DrawsInside == Draw!Spec => []DrawnInside
<1>1. DrawInv => DrawnInside
  <2> SUFFICES ASSUME DrawInv PROVE Draw!TypeOK /\ Draw!DrawnInside
    BY DEF DrawnInside
  <2>1. ASSUME NEW a \in Draw!Addresses
        PROVE  LET k == Across(a) + call.w * Down(a)
               IN IF a < Draw!ScreenNr /\ Across(a) \in 0..(call.w - 1) /\ Down(a) \in 0..(call.h - 1)
                  THEN pc = "done" /\ call.x + call.w <= SCREEN_WIDTH
                         => IF call.deep THEN Draw!Shows(memory[a], Draw!Pixel32(k))
                            ELSE memory[a] = Draw!Pixel8(k)
                  ELSE memory[a] = 0
    <3>1. memory[a] = IF Passed(a) THEN Colour(Across(a) + ctl.w * Down(a)) ELSE 0
      BY DEF DrawInv, Painted
    <3>2. /\ call.x \in Nat /\ call.y \in Nat /\ call.w \in Nat /\ call.h \in Nat
          /\ call.deep \in BOOLEAN /\ pc \in {"clip", "draw", "done"}
      BY ScreenNumbers DEF DrawInv, Draw!TypeOK
    <3>3. Across(a) \in Int /\ Down(a) \in Int
      <4>1. Column(a) \in Int /\ Line(a) \in Int
        BY Places, ScreenNumbers
      <4> QED
        BY <3>2, <4>1 DEF Across, Down
    <3>4. Passed(a) => /\ a < Draw!ScreenNr /\ Across(a) \in 0..(call.w - 1)
                       /\ Down(a) \in 0..(call.h - 1)
      <4>1. CASE pc = "clip" \/ ~Began
        <5>1. i = 0 /\ j = 0
          BY <4>1 DEF DrawInv, Request
        <5> QED
          BY <5>1, <3>3 DEF Passed
      <4>2. CASE pc # "clip" /\ Began
        <5>1. /\ ctl.w \in Int /\ ctl.h \in Int /\ ctl.w <= call.w /\ ctl.h <= call.h
          BY <3>2, <4>2, ScreenNumbers DEF DrawInv, Request, Began
        <5> QED
          BY <3>2, <3>3, <5>1 DEF Passed
      <4> QED
        BY <4>1, <4>2
    <3>5. ASSUME a < Draw!ScreenNr, Across(a) \in 0..(call.w - 1), Down(a) \in 0..(call.h - 1),
                 pc = "done", call.x + call.w <= SCREEN_WIDTH
          PROVE  Passed(a) /\ ctl.w = call.w
      <4>1. Column(a) \in 0..(SCREEN_WIDTH - 1) /\ Line(a) \in 0..(SCREEN_HEIGHT - 1)
        BY <3>5, Places, ScreenNumbers
      <4>2. Began
        BY <3>2, <3>5, <4>1, ScreenNumbers DEF Began, Across, Down
      <4>3. /\ ctl.w = call.w /\ i = ctl.h
            /\ ctl.h = IF SCREEN_HEIGHT - call.y < call.h THEN SCREEN_HEIGHT - call.y ELSE call.h
        BY <3>2, <3>5, <4>2, ScreenNumbers DEF DrawInv, Request
      <4>4. Down(a) < ctl.h /\ ctl.h \in Int
        BY <3>2, <3>5, <4>1, <4>3, ScreenNumbers DEF Down
      <4>5. Down(a) \in 0..(ctl.h - 1)
        BY <3>3, <3>5, <4>4
      <4> QED
        BY <3>5, <4>3, <4>4, <4>5 DEF Passed
    <3>6. PICK k \in Int : k = Across(a) + call.w * Down(a)
      <4>1. call.w * Down(a) \in Int
        BY <3>2, <3>3, Z3
      <4> QED
        BY <3>3, <4>1
    <3>7. IF call.deep THEN Draw!Shows(Colour(k), Draw!Pixel32(k)) ELSE Colour(k) = Draw!Pixel8(k)
      BY <3>2, Colours
    <3> QED
      BY <3>1, <3>4, <3>5, <3>6, <3>7
  <2>2. Draw!DrawnInside
    BY <2>1 DEF Draw!DrawnInside, Across, Down, Column, Line
  <2> QED
    BY <2>2 DEF DrawInv
<1> QED
  BY <1>1, DrawInvariant, PTL
=============================================================================
