\* One pipe whose events reach two tasks, while the stream is made and closed.
CONSTANTS
  Pipe = {p1}
  MaxRemoved = 1
  MaxConnecting = 1
  Consumer = {c1, c2}
  Sentinel = Sentinel
SPECIFICATION StreamSpec
SYMMETRY Symmetry
INVARIANTS StreamFaithful ClosedStreamEnds
