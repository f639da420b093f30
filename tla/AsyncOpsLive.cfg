\* A receive and a send that time out, succeed, are cancelled or find the
\* socket closed, under fairness.
CONSTANTS
  RecvCall = {r1}
  SendCall = {s1}
  Helper = {h1, h2}
  NoHelper = NoHelper
  MaxSlot = 2
  MaxPool = 1
  MaxLoop = 1
  Path = {"native", "asyncio", "trio"}
  Holder = {"socket", "context"}
SPECIFICATION FairSpec
PROPERTIES CancelEnds CloseEndsCalls
