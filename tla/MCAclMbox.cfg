\* Two senders, seven messages, a reader whose calls may time out.
CONSTANTS
  s1 = s1
  s2 = s2
  s3 = s3
  a = a
  b = b
  Senders <- MCTwo
  Msgs <- MCOneMsg
  Nil = Nil
  Unlocked = Unlocked
  MaxMsgs = 7
  MaxWaits = 1
SPECIFICATION FairSpec
INVARIANTS NoLostWakeup BytesBounded
PROPERTIES ImplementsMailbox AllReceived
CHECK_DEADLOCK FALSE
