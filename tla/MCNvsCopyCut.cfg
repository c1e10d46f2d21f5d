SPECIFICATION Spec
CONSTANTS
  k1 = k1  k2 = k2  a = a  b = b
  Key = {k1, k2}
  Value = {a, b}
  Gone = Gone
  Corrupt = Corrupt
  Size <- MCSize
  Words = 8
  SeqRange = 4
  CutAt = {"copy"}
  TearAt = {}
  FailAt = {}
INVARIANT Durable
