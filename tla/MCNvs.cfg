SPECIFICATION FairSpec
CONSTANTS
  k1 = k1  k2 = k2  a = a  b = b
  Key = {k1, k2}
  Value = {a, b}
  Gone = Gone
  Corrupt = Corrupt
  Size <- MCSize
  Words = 8
  SeqRange = 4
  CutAt = {"drop", "idle", "format0", "format1", "format_header", "compact_erase", "compact_header", "compact_source", "append"}
  TearAt = {}
  FailAt = {"format0", "format1", "format_header", "compact_erase", "compact_header", "append"}
INVARIANTS Durable RebootAgrees
PROPERTIES ImplementsKvStore Returns
