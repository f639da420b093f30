\* Two threads and a coroutine with a message of their own and one that is
\* still to come; two interrupts, the second of which can hit a cleanup.
CONSTANTS
  Message = {m1, m2}
  Incoming = {m2}
  ThreadCall = {t1, t2}
  TaskCall = {a1}
  NoCall = NoCall
  NoMessage = NoMessage
  MaxInterrupts = 2
SPECIFICATION Spec
SYMMETRY Symmetry
INVARIANTS NeverFreedTwice NoLeak SentOnce SyncRecvOutlivesCallback
PROPERTIES RefusedSendKeepsMessage
