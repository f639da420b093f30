\* Two coroutines of one loop and one message.
CONSTANTS
  Message = {m1}
  Incoming = {}
  ThreadCall = {}
  TaskCall = {a1, a2}
  NoCall = NoCall
  NoMessage = NoMessage
  MaxInterrupts = 0
SPECIFICATION FairSpec
PROPERTIES SecondSendAnswered
\* The loop stands still for good: that is the point.
CHECK_DEADLOCK FALSE
