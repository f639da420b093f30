\* Two receives and a send over two event loops, pools of one helper, two
\* slot ids that wrap.
CONSTANTS
  RecvCall = {r1, r2}
  SendCall = {s1}
  Helper = {h1, h2, h3}
  NoHelper = NoHelper
  MaxSlot = 2
  MaxPool = 1
  MaxLoop = 2
  Path = {"native", "trio"}
  Holder = {"socket", "context"}
SPECIFICATION Spec
SYMMETRY Symmetry
INVARIANTS HelperExclusive OwnCompletion MessageSettled CancelPropagates
 
