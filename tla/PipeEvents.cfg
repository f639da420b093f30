\* Two pipes on two connector threads: every overtaking of the reaper, with
\* pipes and the socket closed from callbacks and from elsewhere.
CONSTANTS
  Pipe = {p1, p2}
  MaxRemoved = 2
  MaxConnecting = 2
SPECIFICATION FairSpec
PROPERTIES RefinesCallbacks RejectedIsSilent PipeForgotten RemoveFollowsConnect CloseReturns
