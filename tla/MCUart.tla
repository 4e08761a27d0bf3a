------------------------------- MODULE MCUart -------------------------------
(* Instances of Uart for TLC: one thread that sends and receives, over a     *)
(* device whose busy bit can be written, or a thread for each.               *)
EXTENDS Uart

CONSTANT Second  \* the reader where there are two threads

VARIABLE alone

TwoThreads == INSTANCE Uart WITH Reader <- Second, BusyWritable <- FALSE

MCInit == \/ alone = TRUE /\ Init
          \/ alone = FALSE /\ TwoThreads!Init

MCNext == /\ \/ alone /\ Next
             \/ ~alone /\ TwoThreads!Next
          /\ UNCHANGED alone

MCSpec == MCInit /\ [][MCNext]_<<vars, alone>> /\ Fairness
=============================================================================
