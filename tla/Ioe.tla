-------------------------------- MODULE Ioe --------------------------------
(***************************************************************************)
(* Start-up, device registers and the ways to stop: am/src/ioe/ioe.c,      *)
(* am/src/trm.c, the register numbers of am/include/amdev.h and the macros *)
(* of klib-macros.h that print and panic.                                  *)
(*                                                                         *)
(* todo is what the machine has still to do, a sequence of operations; an  *)
(* operation that calls others puts them in front.  What a register's      *)
(* handler does is left to the modules of the devices: here it matters     *)
(* only which one is called, and that printing ends in one of them.        *)
(***************************************************************************)
EXTENDS Integers, Sequences, SequencesExt

CONSTANTS
  NULL,     \* no handler
  MaxCalls  \* BOUND: what main does

ASSUME IoeAssumption == MaxCalls \in Nat

\* amdev.h
AM_DEVREG ==
  << <<1, "UART_CONFIG", "RD">>, <<2, "UART_TX", "WR">>, <<3, "UART_RX", "RD">>,
     <<4, "UART_STATUS", "WR">>, <<5, "UART_CTRL", "WR">>, <<6, "UART_BAUD", "WR">>,
     <<7, "TIMER_CONFIG", "RD">>, <<8, "TIMER_RTC", "WR">>, <<9, "TIMER_UPTIME", "RD">>,
     <<10, "TIMER_INTR", "WR">>, <<11, "INPUT_CONFIG", "RD">>, <<12, "INPUT_KEYBRD", "RD">>,
     <<13, "GPU_CONFIG", "RD">>, <<14, "GPU_STATUS", "RD">>, <<15, "GPU_FBDRAW", "WR">>,
     <<16, "GPU_MEMCPY", "WR">>, <<17, "GPU_RENDER", "WR">>, <<29, "GPU_DRAW256", "WR">>,
     <<30, "GPU_TERMINAL", "WR">>, <<31, "GPU_CHCONFIG", "RD">>, <<32, "GPU_CHSCROLL", "WR">>,
     <<18, "AUDIO_CONFIG", "RD">>, <<19, "AUDIO_CTRL", "WR">>, <<20, "AUDIO_STATUS", "RD">>,
     <<21, "AUDIO_PLAY", "WR">>, <<22, "DISK_CONFIG", "RD">>, <<23, "DISK_STATUS", "RD">>,
     <<24, "DISK_BLKIO", "WR">>, <<25, "NET_CONFIG", "RD">>, <<26, "NET_STATUS", "RD">>,
     <<27, "NET_TX", "WR">>, <<28, "NET_RX", "WR">> >>

Registers == {d[2] : d \in ToSet(AM_DEVREG)}
Id(reg)   == (CHOOSE d \in ToSet(AM_DEVREG) : d[2] = reg)[1]
Ids       == 0..127

\* The register whose type the prototype of a handler names (ioe.c:10-47).
TypeOf(h) ==
  CASE h = "uart_get_data" -> "UART_RX"        [] h = "uart_send_data" -> "UART_TX"
    [] h = "uart_status_r" -> "UART_STATUS"    [] h = "uart_status_w" -> "UART_STATUS"
    [] h = "uart_ctrl_r" -> "UART_CTRL"        [] h = "uart_ctrl_w" -> "UART_CTRL"
    [] h = "uart_baud_r" -> "UART_BAUD"        [] h = "uart_baud_w" -> "UART_BAUD"
    [] h = "uart_config" -> "UART_CONFIG"      [] h = "input_keybrd" -> "INPUT_KEYBRD"
    [] h = "input_config" -> "INPUT_CONFIG"    [] h = "timer_config" -> "TIMER_CONFIG"
    [] h = "timer_rtc_r" -> "TIMER_RTC"        [] h = "timer_rtc_w" -> "TIMER_RTC"
    [] h = "timer_intr_r" -> "TIMER_INTR"      [] h = "timer_intr_w" -> "TIMER_INTR"
    [] h = "timer_uptime" -> "TIMER_UPTIME"    [] h = "gpu_config" -> "GPU_CONFIG"
    [] h = "gpu_status" -> "GPU_STATUS"        [] h = "gpu_fbdraw" -> "GPU_FBDRAW"
    [] h = "gpu_fbdraw256" -> "GPU_DRAW256"    [] h = "gpu_terminal" -> "GPU_TERMINAL"
    [] h = "gpu_chconfig" -> "GPU_CHCONFIG"    [] h = "gpu_chscroll" -> "GPU_CHSCROLL"

\* A table with its initialisers that are not NULL.
Table(entries) ==
  [i \in Ids |-> IF \E e \in entries : Id(e[1]) = i
                 THEN (CHOOSE e \in entries : Id(e[1]) = i)[2] ELSE NULL]

ReadEntries ==
  { <<"UART_CONFIG", "uart_config">>, <<"UART_RX", "uart_get_data">>,
    <<"UART_STATUS", "uart_status_r">>, <<"UART_CTRL", "uart_ctrl_r">>,
    <<"UART_BAUD", "uart_baud_r">>, <<"TIMER_UPTIME", "timer_uptime">>,
    <<"TIMER_CONFIG", "timer_config">>, <<"TIMER_RTC", "timer_rtc_r">>,
    <<"TIMER_INTR", "timer_intr_r">>, <<"INPUT_CONFIG", "input_config">>,
    <<"INPUT_KEYBRD", "input_keybrd">>, <<"GPU_CONFIG", "gpu_config">>,
    <<"GPU_STATUS", "gpu_status">>, <<"GPU_CHCONFIG", "gpu_chconfig">> }

CommonWrites ==
  { <<"UART_STATUS", "uart_status_w">>, <<"UART_CTRL", "uart_ctrl_w">>,
    <<"UART_BAUD", "uart_baud_w">>, <<"TIMER_RTC", "timer_rtc_w">>,
    <<"TIMER_INTR", "timer_intr_w">>, <<"GPU_FBDRAW", "gpu_fbdraw">>,
    <<"GPU_TERMINAL", "gpu_terminal">>, <<"GPU_CHSCROLL", "gpu_chscroll">> }

\* Mutants: a handler entered for another register; the one that prints forgotten.
WriteEntriesMixed  == CommonWrites \cup {<<"UART_TX", "uart_send_data">>,
                                         <<"GPU_DRAW256", "gpu_terminal">>}
WriteEntriesSilent == CommonWrites \cup {<<"GPU_DRAW256", "gpu_fbdraw256">>}
WriteEntries       == CommonWrites \cup {<<"UART_TX", "uart_send_data">>,
                                         <<"GPU_DRAW256", "gpu_fbdraw256">>}

\* No handler is NULL.
ASSUME NullAssumption ==
  NULL \notin {"fail"} \cup {e[2] : e \in ReadEntries \cup WriteEntries}

-----------------------------------------------------------------------------

VARIABLES
  lut_r, lut_w,  \* the tables
  started,       \* what has been started: the transmitter, the timer, the cells
  todo,
  said,          \* the texts that went out
  calls,         \* how much main has done
  state          \* "on", "halted", or "lost" after a jump to NULL

vars == <<lut_r, lut_w, started, todo, said, calls, state>>

Op(kind, id, text) == [kind |-> kind, id |-> id, text |-> text]
Read(id)   == Op("read", id, "none")
Write(id)  == Op("write", id, "none")
\* putstr and printf: putch writes each character to UART_TX.
Say(text)  == Op("write", Id("UART_TX"), text)
Do(kind)   == Op(kind, 0, "none")

\* halt and panic; nothing that was to be done after them is.
Halt  == <<Say("Exit with code"), Do("ebreak")>>
Panic == <<Say("AM Panic")>> \o Halt

\* ioe_init, and _trm_init around it.  Mutant: the timer, whose start prints, comes
\* before the UART.
StartTimer == <<Do("time_base"), Say("Init timer"), Read(Id("TIMER_RTC")), Say("[time]")>>
StartGpu   == <<Say("detected screen"), Do("terminal_cells")>>
BootTimerFirst  == <<Do("fill_r"), Do("fill_w")>> \o StartTimer
                   \o <<Write(Id("UART_CTRL"))>> \o StartGpu \o <<Do("main")>>
Boot            == <<Do("fill_r"), Do("fill_w"), Write(Id("UART_CTRL"))>>
                   \o StartTimer \o StartGpu \o <<Do("main")>>

Init ==
  /\ lut_r = Table(ReadEntries) /\ lut_w = Table(WriteEntries)
  /\ started = {} /\ said = {} /\ calls = 0
  /\ todo = Boot /\ state = "on"

Next_(kind) == state = "on" /\ Head(todo).kind = kind

Filled(lut) == [i \in Ids |-> IF lut[i] = NULL THEN "fail" ELSE lut[i]]

Fill ==
  /\ \/ Next_("fill_r") /\ lut_r' = Filled(lut_r) /\ UNCHANGED lut_w
     \/ Next_("fill_w") /\ lut_w' = Filled(lut_w) /\ UNCHANGED lut_r
  /\ todo' = Tail(todo)
  /\ UNCHANGED <<started, said, calls, state>>

Start ==
  /\ \E what \in {"time_base", "terminal_cells"} :
       Next_(what) /\ started' = started \cup {what}
  /\ todo' = Tail(todo)
  /\ UNCHANGED <<lut_r, lut_w, said, calls, state>>

\* ioe_read and ioe_write, and the handler called: the transmitter never gets a byte
\* out before it has been enabled, and its handler waits.
Handler == IF Head(todo).kind = "read" THEN lut_r[Head(todo).id] ELSE lut_w[Head(todo).id]

Dispatch ==
  /\ Next_("read") \/ Next_("write")
  /\ IF Handler = NULL THEN state' = "lost" /\ UNCHANGED <<todo, started, said>>
     ELSE IF Handler = "fail" THEN todo' = Panic /\ UNCHANGED <<started, said, state>>
     ELSE /\ todo' = Tail(todo)
          /\ Handler = "uart_send_data" => "uart_ctrl" \in started
          /\ said' = IF Handler = "uart_send_data" THEN said \cup {Head(todo).text} ELSE said
          /\ started' = IF Handler = "uart_ctrl_w" THEN started \cup {"uart_ctrl"} ELSE started
          /\ UNCHANGED state
  /\ UNCHANGED <<lut_r, lut_w, calls>>

\* main: it uses registers, panics or fails an assertion, calls mpe_init with an entry
\* that returns (a panic too), or returns.
MainCall ==
  /\ Next_("main") /\ calls < MaxCalls
  /\ \E id \in {d[1] : d \in ToSet(AM_DEVREG)} \cup {0, 127} :
       \/ todo' = <<Read(id)>> \o todo
       \/ todo' = <<Write(id)>> \o todo
  /\ calls' = calls + 1
  /\ UNCHANGED <<lut_r, lut_w, started, said, state>>

MainEnds ==
  /\ Next_("main")
  /\ todo' \in {Panic, Halt}
  /\ UNCHANGED <<lut_r, lut_w, started, said, calls, state>>

Ebreak ==
  /\ Next_("ebreak")
  /\ state' = "halted"
  /\ UNCHANGED <<lut_r, lut_w, started, todo, said, calls>>

\* What the AM does by itself.
Work == Fill \/ Start \/ Dispatch \/ Ebreak
Main == MainCall \/ MainEnds

Next == Work \/ Main

\* The only hart goes on, and the transmitter with it; main may run for ever.
Spec == Init /\ [][Next]_vars /\ WF_vars(Work)

-----------------------------------------------------------------------------
(* Properties.                                                               *)

Dispatching == Next_("read") \/ Next_("write")

\* What a handler finds in static variables or in the device, which the devices'
\* start-up puts there.
Needs(h) ==
  CASE h \in {"uart_send_data", "uart_get_data"} -> {"uart_ctrl"}
    [] h = "timer_uptime" -> {"time_base"}
    [] h \in {"gpu_fbdraw", "gpu_fbdraw256", "gpu_terminal", "gpu_chscroll"} -> {"terminal_cells"}
    [] OTHER -> {}

\* No access of start-up, of main or of a panic jumps to NULL, and no handler runs before
\* its device has been started, those that starting a device calls to print and to tell
\* the time included (ioe.c:105-119, timer.c:17-21, gpu.c:58-66).
StartedFirst ==
  /\ state # "lost"
  /\ Dispatching => Needs(Handler) \subseteq started

\* A handler gets a buffer of the type it was written for: the tables hold void *, and
\* the compiler does not look (ioe.c:54-100).
BufferFits == Dispatching /\ Handler \notin {NULL, "fail"} => Id(TypeOf(Handler)) = Head(todo).id

\* An access to a register without a handler stops the machine after its message has
\* gone out: the panic's own use of a register does not fail in turn (ioe.c:103,
\* klib-macros.h:37-44, trm.c:19-24).
FailStops ==
  (Dispatching /\ Handler = "fail") ~> (state = "halted" /\ {"AM Panic", "Exit with code"} \subseteq said)

=============================================================================
