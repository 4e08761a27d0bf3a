----------------------------- MODULE UartProofs -----------------------------
(***************************************************************************)
(* Proofs about Uart, for any numbers of bytes sent and arriving, whether  *)
(* one thread sends and receives or two do: TypeOK, SentInOrder and        *)
(* ReceivedOnce.  Neither of the last two is inductive.  What they rest on *)
(* is the busy bit, which is set only while send_data waits for the byte   *)
(* it wrote, and which a reader that writes the status back must have read *)
(* as clear; and that the byte of RX is the last one that arrived, newer   *)
(* than any returned while it is marked ready.                             *)
(***************************************************************************)
EXTENDS Uart, SequenceTheorems, TLAPS

SendLabels == {"poll_tx", "write_tx", "drain"}
GetLabels  == {"poll_rx", "read_rx", "write_status"}

\* A thread is in the calls it makes.
Places ==
  Sender # Reader => pc[Sender] \notin GetLabels /\ pc[Reader] \notin SendLabels

\* The transmitter is busy only with the byte the sender waits for.
Busy ==
  /\ pc[Sender] \in SendLabels => sent # <<>>
  /\ tx_busy => pc[Sender] = "drain" /\ tx = Last(sent)

\* What a reader that is also the sender has read of the busy bit.
Copied ==
  BusyWritable /\ pc[Reader] \in {"read_rx", "write_status"} => ~uart_status[Reader].tx_busy

\* RX holds the byte that came last, and the bytes returned came earlier.
Newest ==
  /\ rx = IF arrived = 0 THEN None ELSE arrived
  /\ (rx_ready /\ pc[Reader] # "write_status") \/ pc[Reader] = "read_rx" =>
       arrived > 0 /\ (got # <<>> => Last(got) < arrived)

\* The inductive invariant.
IInv ==
  /\ TypeOK /\ Places /\ Busy /\ SentInOrder /\ Copied
  /\ Newest /\ ReceivedOnce

-----------------------------------------------------------------------------
(* Sequences.                                                                *)

\* Front takes back what Append did.
LEMMA FrontOfAppend ==
  ASSUME NEW S, NEW s \in Seq(S), NEW x \in S
  PROVE  Front(Append(s, x)) = s /\ Last(Append(s, x)) = x
<1> DEFINE a == Append(s, x)
<1>1. /\ a \in Seq(S) /\ Len(a) = Len(s) + 1 /\ Len(s) \in Nat
      /\ \A i \in 1..Len(s) : a[i] = s[i]
      /\ a[Len(s) + 1] = x
  BY AppendProperties, LenProperties
<1>2. Last(a) = x
  BY <1>1 DEF Last
<1>3. /\ SubSeq(a, 1, Len(s)) \in Seq(S) /\ Len(SubSeq(a, 1, Len(s))) = Len(s)
      /\ \A i \in 1..Len(s) : SubSeq(a, 1, Len(s))[i] = a[i]
  <2> HIDE DEF a
  <2>1. \A i \in 1..Len(s) : a[i] \in S
    BY <1>1, ElementOfSeq
  <2> QED
    BY <1>1, <2>1, SubSeqProperties
<1>4. Front(a) = SubSeq(a, 1, Len(s))
  BY <1>1 DEF Front
<1>5. SubSeq(a, 1, Len(s)) = s
  <2> HIDE DEF a
  <2> QED
    BY <1>1, <1>3, SeqEqual
<1> QED
  BY <1>2, <1>4, <1>5

\* Append gives back what Front left out.
LEMMA AppendOfFront ==
  ASSUME NEW S, NEW s \in Seq(S), s # <<>>
  PROVE  /\ Append(Front(s), Last(s)) = s
         /\ Last(s) \in S
<1>1. PICK t \in Seq(S), x \in S : s = Append(t, x)
  BY SequenceEmptyOrAppend
<1>2. Front(s) = t /\ Last(s) = x
  BY <1>1, FrontOfAppend
<1> QED
  BY <1>1, <1>2

-----------------------------------------------------------------------------
(* The initial states, and the steps of the device.                          *)

LEMMA InitInv == Init => IInv
<1> SUFFICES ASSUME Init PROVE IInv
  OBVIOUS
<1> USE DEF Init
<1>1. TypeOK
  <2>1. pc \in [Threads -> Labels] /\ uart_status \in [Threads -> Status]
    BY DEF Labels, Status
  <2>2. line \in Seq(1..MaxSend) /\ sent \in Seq(1..MaxSend) /\ got \in Seq(1..MaxArrive)
    BY EmptySeq
  <2>3. arrived \in 0..MaxArrive
    BY UartAssumption
  <2> QED
    BY <2>1, <2>2, <2>3 DEF TypeOK
<1>2. Places /\ Busy /\ Copied
  BY DEF Places, Busy, Copied, Threads, SendLabels, GetLabels
<1>3. SentInOrder /\ ReceivedOnce
  BY DEF SentInOrder, ReceivedOnce, Threads
<1>4. Newest
  BY DEF Newest, Threads
<1> QED
  BY <1>1, <1>2, <1>3, <1>4 DEF IInv

LEMMA UartInitInv == IInv /\ UartInit => IInv'
<1> SUFFICES ASSUME IInv, UartInit PROVE IInv'
  OBVIOUS
<1> USE DEF IInv, UartInit
<1>1. TypeOK'
  BY DEF TypeOK, Enabled
<1>2. Places' /\ Busy' /\ Copied'
  BY DEF Places, Busy, Copied
<1>3. SentInOrder' /\ ReceivedOnce' /\ Newest'
  BY DEF SentInOrder, ReceivedOnce, Newest
<1> QED
  BY <1>1, <1>2, <1>3

\* The byte that leaves the transmitter is the one the line lacks.
LEMMA TxDoneInv == IInv /\ TxDone => IInv'
<1> SUFFICES ASSUME IInv, TxDone PROVE IInv'
  OBVIOUS
<1> USE DEF IInv, TxDone
<1>1. /\ pc[Sender] = "drain" /\ sent \in Seq(1..MaxSend) /\ sent # <<>>
      /\ tx = Last(sent) /\ line = Front(sent)
  BY DEF Busy, SentInOrder, TypeOK, SendLabels
<1>2. line' = sent /\ tx \in 1..MaxSend
  BY <1>1, AppendOfFront
<1>3. TypeOK'
  BY <1>2 DEF TypeOK
<1>4. Places' /\ Busy' /\ Copied'
  BY DEF Places, Busy, Copied
<1>5. SentInOrder'
  BY <1>1, <1>2 DEF SentInOrder
<1>6. ReceivedOnce' /\ Newest'
  BY DEF ReceivedOnce, Newest
<1> QED
  BY <1>3, <1>4, <1>5, <1>6

\* A byte that arrives is newer than any returned.
LEMMA ArriveInv == IInv /\ Arrive => IInv'
<1> SUFFICES ASSUME IInv, Arrive PROVE IInv'
  OBVIOUS
<1> USE DEF IInv, Arrive
<1>1. arrived \in Nat /\ MaxArrive \in Nat /\ got \in Seq(1..MaxArrive)
  BY UartAssumption DEF TypeOK
<1>2. TypeOK'
  BY <1>1 DEF TypeOK
<1>3. Places' /\ Busy' /\ Copied' /\ SentInOrder'
  BY DEF Places, Busy, Copied, SentInOrder
<1>4. ReceivedOnce'
  BY <1>1 DEF ReceivedOnce
<1>5. got # <<>> => Last(got) \in 1..arrived
  <2> SUFFICES ASSUME got # <<>> PROVE Last(got) \in 1..arrived
    OBVIOUS
  <2>1. Len(got) \in 1..Len(got) /\ Last(got) = got[Len(got)]
    BY <1>1, EmptySeq DEF Last
  <2> QED
    BY <2>1 DEF ReceivedOnce
<1>6. Newest'
  BY <1>1, <1>5 DEF Newest
<1> QED
  BY <1>2, <1>3, <1>4, <1>6

-----------------------------------------------------------------------------
(* The steps of send_data.                                                   *)

LEMMA SendInv == IInv /\ Send => IInv'
<1> SUFFICES ASSUME IInv, Send PROVE IInv'
  OBVIOUS
<1> USE DEF IInv, Send, Goto, device
<1>1. /\ sent \in Seq(1..MaxSend) /\ Len(sent) \in Nat /\ MaxSend \in Nat
      /\ line = sent /\ ~tx_busy
  BY UartAssumption DEF TypeOK, SentInOrder, Busy
<1>2. Len(sent) + 1 \in 1..MaxSend
  BY <1>1
<1>3. sent' \in Seq(1..MaxSend) /\ sent' # <<>> /\ Front(sent') = sent
  BY <1>1, <1>2, FrontOfAppend, AppendProperties
<1>4. pc \in [Threads -> Labels] /\ Sender \in Threads /\ Reader \in Threads
  BY DEF TypeOK, Threads
<1>5. TypeOK'
  BY <1>3 DEF TypeOK, Labels
<1>6. Places' /\ Copied'
  BY <1>4 DEF Places, Copied, SendLabels, GetLabels
<1>7. Busy'
  BY <1>1, <1>3, <1>4 DEF Busy
<1>8. SentInOrder'
  BY <1>1, <1>3, <1>4 DEF SentInOrder
<1>9. ReceivedOnce' /\ Newest'
  BY <1>4 DEF ReceivedOnce, Newest
<1> QED
  BY <1>5, <1>6, <1>7, <1>8, <1>9

\* A sender that stands in send_data is in no call of get_data.
LEMMA PollTxInv == IInv /\ PollTx => IInv'
<1> SUFFICES ASSUME IInv, PollTx PROVE IInv'
  OBVIOUS
<1> USE DEF IInv, PollTx, Goto, ReadStatus, device
<1>1. /\ pc \in [Threads -> Labels] /\ Sender \in Threads /\ Reader \in Threads
      /\ uart_status \in [Threads -> Status] /\ ~tx_busy
  BY DEF TypeOK, Threads, Busy
<1>2. TypeOK'
  BY <1>1 DEF TypeOK, Labels, Status
<1>3. Places' /\ Copied'
  BY <1>1 DEF Places, Copied, SendLabels, GetLabels
<1>4. Busy' /\ SentInOrder'
  BY <1>1 DEF Busy, SentInOrder, SendLabels
<1>5. ReceivedOnce' /\ Newest'
  BY <1>1 DEF ReceivedOnce, Newest
<1> QED
  BY <1>2, <1>3, <1>4, <1>5

LEMMA WriteTxInv == IInv /\ WriteTx => IInv'
<1> SUFFICES ASSUME IInv, WriteTx PROVE IInv'
  OBVIOUS
<1> USE DEF IInv, WriteTx, Goto
<1>1. /\ pc \in [Threads -> Labels] /\ Sender \in Threads /\ Reader \in Threads
      /\ sent \in Seq(1..MaxSend) /\ sent # <<>>
  BY DEF TypeOK, Threads, Busy, SendLabels
<1>2. Last(sent) \in 1..MaxSend
  BY <1>1, AppendOfFront
<1>3. TypeOK'
  BY <1>1, <1>2 DEF TypeOK, Labels
<1>4. Places' /\ Copied'
  BY <1>1 DEF Places, Copied, SendLabels, GetLabels
<1>5. Busy' /\ SentInOrder'
  BY <1>1 DEF Busy, SentInOrder, SendLabels
<1>6. ReceivedOnce' /\ Newest'
  BY <1>1 DEF ReceivedOnce, Newest
<1> QED
  BY <1>3, <1>4, <1>5, <1>6

LEMMA DrainInv == IInv /\ Drain => IInv'
<1> SUFFICES ASSUME IInv, Drain PROVE IInv'
  OBVIOUS
<1> USE DEF IInv, Drain, Drained, Goto, ReadStatus, device
<1>1. /\ pc \in [Threads -> Labels] /\ Sender \in Threads /\ Reader \in Threads
      /\ uart_status \in [Threads -> Status]
  BY DEF TypeOK, Threads
<1>2. TypeOK'
  BY <1>1 DEF TypeOK, Labels, Status
<1>3. Places' /\ Copied'
  BY <1>1 DEF Places, Copied, SendLabels, GetLabels
<1>4. Busy' /\ SentInOrder'
  BY <1>1 DEF Busy, SentInOrder, SendLabels
<1>5. ReceivedOnce' /\ Newest'
  BY <1>1 DEF ReceivedOnce, Newest
<1> QED
  BY <1>2, <1>3, <1>4, <1>5

-----------------------------------------------------------------------------
(* The steps of get_data.                                                    *)

LEMMA GetInv == IInv /\ Get => IInv'
<1> SUFFICES ASSUME IInv, Get PROVE IInv'
  OBVIOUS
<1> USE DEF IInv, Get, Goto, device
<1>1. /\ pc \in [Threads -> Labels] /\ Sender \in Threads /\ Reader \in Threads
  BY DEF TypeOK, Threads
<1>2. TypeOK'
  BY <1>1 DEF TypeOK, Labels
<1>3. Places' /\ Copied'
  BY <1>1 DEF Places, Copied, SendLabels, GetLabels
<1>4. Busy' /\ SentInOrder'
  BY <1>1 DEF Busy, SentInOrder, SendLabels
<1>5. ReceivedOnce' /\ Newest'
  BY <1>1 DEF ReceivedOnce, Newest
<1> QED
  BY <1>2, <1>3, <1>4, <1>5

\* A reader that is the sender finds the transmitter idle.
LEMMA PollRxInv == IInv /\ PollRx => IInv'
<1> SUFFICES ASSUME IInv, PollRx PROVE IInv'
  OBVIOUS
<1> USE DEF IInv, PollRx, Goto, ReadStatus, device
<1>1. /\ pc \in [Threads -> Labels] /\ Sender \in Threads /\ Reader \in Threads
      /\ uart_status \in [Threads -> Status] /\ (BusyWritable => Sender = Reader)
  BY UartAssumption DEF TypeOK, Threads
<1>2. TypeOK'
  BY <1>1 DEF TypeOK, Labels, Status
<1>3. Places'
  BY <1>1 DEF Places, SendLabels, GetLabels
<1>4. Copied'
  BY <1>1 DEF Copied, Busy
<1>5. Busy' /\ SentInOrder'
  BY <1>1 DEF Busy, SentInOrder, SendLabels
<1>6. ReceivedOnce' /\ Newest'
  BY <1>1 DEF ReceivedOnce, Newest
<1> QED
  BY <1>2, <1>3, <1>4, <1>5, <1>6

LEMMA ReadRxInv == IInv /\ ReadRx => IInv'
<1> SUFFICES ASSUME IInv, ReadRx PROVE IInv'
  OBVIOUS
<1> USE DEF IInv, ReadRx, Goto, device
<1>1. /\ pc \in [Threads -> Labels] /\ Sender \in Threads /\ Reader \in Threads
      /\ got \in Seq(1..MaxArrive) /\ Len(got) \in Nat
      /\ arrived \in Nat /\ MaxArrive \in Nat /\ arrived <= MaxArrive
  BY UartAssumption DEF TypeOK, Threads
<1>2. rx = arrived /\ arrived > 0 /\ (got # <<>> => Last(got) < rx)
  BY <1>1 DEF Newest
<1>3. /\ got' \in Seq(1..MaxArrive) /\ Len(got') = Len(got) + 1
      /\ \A i \in 1..Len(got) : got'[i] = got[i]
      /\ got'[Len(got) + 1] = rx
  BY <1>1, <1>2, AppendProperties
<1>4. TypeOK'
  BY <1>1, <1>3 DEF TypeOK, Labels
<1>5. Places' /\ Copied'
  BY <1>1 DEF Places, Copied, SendLabels, GetLabels
<1>6. Busy' /\ SentInOrder'
  BY <1>1 DEF Busy, SentInOrder, SendLabels
<1>7. ReceivedOnce'
  <2> SUFFICES ASSUME NEW i \in 1..Len(got')
               PROVE  got'[i] \in 1..arrived /\ (i > 1 => got'[i - 1] < got'[i])
    BY DEF ReceivedOnce
  <2>1. CASE i \in 1..Len(got)
    <3>1. i > 1 => i - 1 \in 1..Len(got)
      BY <2>1
    <3> QED
      BY <1>3, <2>1, <3>1 DEF ReceivedOnce
  <2>2. CASE i = Len(got) + 1
    <3>1. i > 1 => got # <<>> /\ Len(got) \in 1..Len(got) /\ i - 1 = Len(got)
      BY <1>1, <2>2, EmptySeq
    <3>2. i > 1 => got'[i - 1] = Last(got)
      BY <1>3, <3>1 DEF Last
    <3>3. got'[i] = rx /\ rx \in 1..arrived
      BY <1>1, <1>2, <1>3, <2>2
    <3> QED
      BY <1>2, <3>1, <3>2, <3>3
  <2> QED
    BY <1>1, <1>3, <2>1, <2>2
<1>8. Newest'
  BY <1>1 DEF Newest
<1> QED
  BY <1>4, <1>5, <1>6, <1>7, <1>8

\* What is written to the busy bit is what it is.
LEMMA WriteStatusInv == IInv /\ WriteStatus => IInv'
<1> SUFFICES ASSUME IInv, WriteStatus PROVE IInv'
  OBVIOUS
<1> USE DEF IInv, WriteStatus, Goto, Cleared
<1>1. /\ pc \in [Threads -> Labels] /\ Sender \in Threads /\ Reader \in Threads
      /\ uart_status \in [Threads -> Status] /\ (BusyWritable => Sender = Reader)
      /\ tx_busy \in BOOLEAN
  BY UartAssumption DEF TypeOK, Threads
<1>2. tx_busy' = tx_busy /\ ~rx_ready'
  <2>1. uart_status[Reader].tx_busy \in BOOLEAN
    BY <1>1 DEF Status
  <2>2. BusyWritable => ~uart_status[Reader].tx_busy /\ ~tx_busy
    BY <1>1 DEF Copied, Busy
  <2>3. /\ Cleared(Reader).tx_busy = uart_status[Reader].tx_busy
        /\ Cleared(Reader).rx_ready = FALSE
    OBVIOUS
  <2> HIDE DEF Cleared
  <2> QED
    BY <1>1, <2>1, <2>2, <2>3
<1>3. TypeOK'
  BY <1>1, <1>2 DEF TypeOK, Labels
<1>4. Places' /\ Copied'
  BY <1>1 DEF Places, Copied, SendLabels, GetLabels
<1>5. Busy' /\ SentInOrder'
  BY <1>1, <1>2 DEF Busy, SentInOrder, SendLabels
<1>6. ReceivedOnce' /\ Newest'
  BY <1>1, <1>2 DEF ReceivedOnce, Newest
<1> QED
  BY <1>3, <1>4, <1>5, <1>6

-----------------------------------------------------------------------------
(* The theorems.                                                             *)

LEMMA StutterInv == IInv /\ UNCHANGED vars => IInv'
BY DEF IInv, vars, device, TypeOK, Places, Busy, SentInOrder, Copied, Newest, ReceivedOnce

LEMMA NextInv == IInv /\ [Next]_vars => IInv'
BY InitInv, UartInitInv, TxDoneInv, ArriveInv, SendInv, PollTxInv, WriteTxInv, DrainInv,
   GetInv, PollRxInv, ReadRxInv, WriteStatusInv, StutterInv DEF Next, SendStep, GetStep

\* The inductive invariant of the serial port holds in every reachable state.
THEOREM Invariant == Spec => []IInv
<1>1. Init => IInv
  BY InitInv
<1>2. IInv /\ [Next]_vars => IInv'
  BY NextInv
<1> QED
  BY <1>1, <1>2, PTL DEF Spec

\* Every variable of the serial port keeps its type.
THEOREM TypeCorrect == Spec => []TypeOK
<1>1. IInv => TypeOK
  BY DEF IInv
<1> QED
  BY <1>1, Invariant, PTL

\* Every byte given to send_data goes out, in order and once, whatever the device does
\* between two accesses and whatever a reader writes to the status (uart.c:48-68).
THEOREM SendsInOrder == Spec => []SentInOrder
<1>1. IInv => SentInOrder
  BY DEF IInv
<1> QED
  BY <1>1, Invariant, PTL

\* get_data returns bytes that came in, each at most once and in their order, though
\* bytes arrive between any two of its accesses (uart.c:26-37).
THEOREM ReceivesOnce == Spec => []ReceivedOnce
<1>1. IInv => ReceivedOnce
  BY DEF IInv
<1> QED
  BY <1>1, Invariant, PTL
=============================================================================
