-------------------------------- MODULE Uart --------------------------------
(***************************************************************************)
(* The serial port: am/src/ioe/uart.c over the device it drives.           *)
(*                                                                         *)
(* send_data polls the status register, writes TX, and polls again until   *)
(* the byte is out; get_data polls, reads RX and writes back the status it *)
(* read with rx_ready cleared.  Kernel threads are preemptible and the     *)
(* device runs by itself, so a step is one access to a register.  The      *)
(* driver has no lock: one thread sends and one (perhaps the same) reads.  *)
(***************************************************************************)
EXTENDS Integers, Sequences, SequencesExt

CONSTANTS
  Sender,      \* the thread that sends
  Reader,      \* the thread that reads
  BusyWritable,\* whether a write to the status register also sets tx_busy
  MaxSend,     \* BOUND: bytes sent
  MaxArrive,   \* BOUND: bytes that arrive
  None         \* no byte

Threads == {Sender, Reader}
Status  == [tx_busy : BOOLEAN, rx_ready : BOOLEAN]

ASSUME UartAssumption ==
  /\ BusyWritable \in BOOLEAN /\ MaxSend \in Nat /\ MaxArrive \in Nat
  /\ None \notin 1..MaxSend \cup 1..MaxArrive
  /\ BusyWritable => Sender = Reader

VARIABLES
  inited,                  \* whether __am_uart_init has run
  tx_enable, rx_enable,    \* device: control register
  tx_busy, rx_ready,       \* device: status register
  tx, rx,                  \* device: the byte it is sending, the byte it has got
  pc,                      \* pc[t]: the access t does next
  uart_status,             \* uart_status[t]: t's copy of the status
  line,                    \* what went out
  arrived,                 \* how many bytes came in: they are 1, 2, ...
  sent, got                \* bytes given to send_data, bytes get_data returned

device == <<tx_enable, rx_enable, tx_busy, rx_ready, tx, rx, line, arrived>>
vars   == <<inited, device, pc, uart_status, sent, got>>

Init ==
  /\ inited = FALSE /\ tx_enable = FALSE /\ rx_enable = FALSE
  /\ tx_busy = FALSE /\ rx_ready = FALSE
  /\ tx = None /\ rx = None
  /\ pc = [t \in Threads |-> "idle"]
  /\ uart_status = [t \in Threads |-> [tx_busy |-> FALSE, rx_ready |-> FALSE]]
  /\ line = <<>> /\ arrived = 0 /\ sent = <<>> /\ got = <<>>

Goto(t, l) == pc' = [pc EXCEPT ![t] = l]

\* The control word __am_uart_init writes.  Mutant: the transmitter stays off.
EnabledRx == [rx |-> TRUE, tx |-> FALSE]
Enabled   == [rx |-> TRUE, tx |-> TRUE]

\* __am_uart_init, through __am_uart_ctrl_w, before any thread uses the port.
UartInit ==
  /\ ~inited
  /\ inited' = TRUE
  /\ tx_enable' = Enabled.tx /\ rx_enable' = Enabled.rx
  /\ UNCHANGED <<tx_busy, rx_ready, tx, rx, line, arrived, pc, uart_status, sent, got>>

-----------------------------------------------------------------------------
(* The device.                                                               *)

TxDone ==
  /\ tx_enable /\ tx_busy
  /\ tx_busy' = FALSE /\ line' = Append(line, tx) /\ tx' = None
  /\ UNCHANGED <<inited, tx_enable, rx_enable, rx_ready, rx, arrived, pc, uart_status, sent, got>>

\* A byte that was not read yet is overwritten.
Arrive ==
  /\ rx_enable /\ arrived < MaxArrive
  /\ arrived' = arrived + 1
  /\ rx' = arrived + 1 /\ rx_ready' = TRUE
  /\ UNCHANGED <<inited, tx_enable, rx_enable, tx_busy, tx, line, pc, uart_status, sent, got>>

-----------------------------------------------------------------------------
(* __am_uart_send_data                                                       *)

\* io_read(AM_UART_STATUS)
ReadStatus(t) ==
  uart_status' = [uart_status EXCEPT ![t] = [tx_busy |-> tx_busy, rx_ready |-> rx_ready]]

Send ==
  /\ inited /\ pc[Sender] = "idle" /\ Len(sent) < MaxSend
  /\ sent' = Append(sent, Len(sent) + 1)
  /\ Goto(Sender, "poll_tx")
  /\ UNCHANGED <<inited, device, uart_status, got>>

PollTx ==
  /\ pc[Sender] = "poll_tx"
  /\ ReadStatus(Sender)
  /\ Goto(Sender, IF tx_busy THEN "poll_tx" ELSE "write_tx")
  /\ UNCHANGED <<inited, device, sent, got>>

WriteTx ==
  /\ pc[Sender] = "write_tx"
  /\ tx' = Last(sent) /\ tx_busy' = TRUE
  /\ Goto(Sender, "drain")
  /\ UNCHANGED <<inited, tx_enable, rx_enable, rx_ready, rx, line, arrived, uart_status, sent, got>>

\* The second loop.  Mutant: it is not there.
DrainNot == Goto(Sender, "idle")
Drained  == Goto(Sender, IF tx_busy THEN "drain" ELSE "idle")

Drain ==
  /\ pc[Sender] = "drain"
  /\ ReadStatus(Sender)
  /\ Drained
  /\ UNCHANGED <<inited, device, sent, got>>

-----------------------------------------------------------------------------
(* __am_uart_get_data                                                        *)

Get ==
  /\ inited /\ pc[Reader] = "idle"
  /\ Goto(Reader, "poll_rx")
  /\ UNCHANGED <<inited, device, uart_status, sent, got>>

PollRx ==
  /\ pc[Reader] = "poll_rx"
  /\ ReadStatus(Reader)
  /\ Goto(Reader, IF rx_ready THEN "read_rx" ELSE "poll_rx")
  /\ UNCHANGED <<inited, device, sent, got>>

ReadRx ==
  /\ pc[Reader] = "read_rx"
  /\ got' = Append(got, rx)
  /\ Goto(Reader, "write_status")
  /\ UNCHANGED <<inited, device, uart_status, sent>>

\* uart_status.rx_ready = false, on the copy.  Mutant: it is not done.
ClearedNot(t) == uart_status[t]
Cleared(t)    == [tx_busy |-> uart_status[t].tx_busy, rx_ready |-> FALSE]

\* ioe_write(AM_UART_STATUS, &uart_status)
WriteStatus ==
  /\ pc[Reader] = "write_status"
  /\ rx_ready' = Cleared(Reader).rx_ready
  /\ tx_busy' = IF BusyWritable THEN Cleared(Reader).tx_busy ELSE tx_busy
  /\ Goto(Reader, "idle")
  /\ UNCHANGED <<inited, tx_enable, rx_enable, tx, rx, line, arrived, uart_status, sent, got>>

SendStep == PollTx \/ WriteTx \/ Drain
GetStep  == PollRx \/ ReadRx \/ WriteStatus

Next == UartInit \/ TxDone \/ Arrive \/ Send \/ SendStep \/ Get \/ GetStep

\* The sender's code goes on running and the device sends the byte it has.  Nobody
\* has to call the driver, and no byte has to arrive.
Fairness == WF_vars(SendStep) /\ WF_vars(TxDone)

Spec == Init /\ [][Next]_vars /\ Fairness

-----------------------------------------------------------------------------
(* Properties.                                                               *)

Labels == {"idle", "poll_tx", "write_tx", "drain", "poll_rx", "read_rx", "write_status"}

\* Every variable has its type.
TypeOK ==
  /\ inited \in BOOLEAN /\ tx_enable \in BOOLEAN /\ rx_enable \in BOOLEAN
  /\ tx_busy \in BOOLEAN /\ rx_ready \in BOOLEAN
  /\ tx \in 1..MaxSend \cup {None} /\ rx \in 1..MaxArrive \cup {None}
  /\ pc \in [Threads -> Labels] /\ uart_status \in [Threads -> Status]
  /\ line \in Seq(1..MaxSend) /\ sent \in Seq(1..MaxSend)
  /\ arrived \in 0..MaxArrive /\ got \in Seq(1..MaxArrive)

\* Outside __am_uart_send_data every byte given to it is on the line, in order and
\* once, and inside all but the last are (uart.c:48-56): the busy bit guards the one
\* byte of TX against the next call and against a reader's writes of the status.
SentInOrder ==
  /\ pc[Sender] \notin {"poll_tx", "write_tx", "drain"} => line = sent
  /\ pc[Sender] \in {"poll_tx", "write_tx"} => line = Front(sent)
  /\ pc[Sender] = "drain" => line = IF tx_busy THEN Front(sent) ELSE sent

\* get_data never returns a byte twice, nor one that did not come in (uart.c:26-37):
\* bytes may be lost, but what it returns is in the order of arrival.
ReceivedOnce ==
  \A i \in 1..Len(got) : got[i] \in 1..arrived /\ (i > 1 => got[i - 1] < got[i])

\* A call of send_data returns once the transmitter has been enabled: neither of its
\* polling loops waits for something that does not come, though get_data writes
\* tx_busy back as it read it (uart.c:48-68).
SendReturns ==
  (pc[Sender] \in {"poll_tx", "write_tx", "drain"}) ~> (pc[Sender] = "idle")
=============================================================================
