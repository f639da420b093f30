\* Three requests for two workers, and one iteration.
CONSTANTS
  Req = {r1, r2, r3}
  Worker = {w1, w2}
  Consumer = {c1}
  Nothing = Nothing
  Sentinel = Sentinel
  Timeout = {recv_timeout}
  Listens = TRUE
  LateReply = FALSE
SPECIFICATION FairSpec
INVARIANTS ReplyToRequester 
PROPERTIES RequestServed  FailedStartEnds
CHECK_DEADLOCK FALSE
