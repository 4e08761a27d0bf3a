SPECIFICATION MCSpec
CONSTANTS
  Sender = t1
  Reader = t1
  Second = t2
  BusyWritable = TRUE
  MaxSend = 4
  MaxArrive = 4
  None = 0
INVARIANTS SentInOrder ReceivedOnce
PROPERTY SendReturns
CHECK_DEADLOCK FALSE
