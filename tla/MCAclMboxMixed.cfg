\* A read without a timeout after one that timed out.
CONSTANTS
  s1 = s1
  s2 = s2
  s3 = s3
  a = a
  b = b
  Senders <- MCTwo
  Msgs <- MCMsgs
  Nil = Nil
  Unlocked = Unlocked
  MaxMsgs = 3
  MaxWaits = 2
SPECIFICATION Spec
INVARIANT ForeverReadsMessage
CHECK_DEADLOCK FALSE
