\* Two of three handles fit the table, so that the third is refused.  Addresses
\* end at 32, where the buffer ends too: sums near its end wrap.
SPECIFICATION Spec
CONSTANTS
  Space = 32
  Base = 25
  Capacity = 6
  Pointer = 4
  Request = {1, 3, 31}
  Alignment = {0, 1, 3, 4}
  MaxMarks = 1
  p1 = p1
  p2 = p2
  Pool = {p1, p2}
  ArenaHandle = ram
  BlockSize <- MCBlockSize
  BlockCount <- MCBlockCount
  ReserveBytes = {3}
  MaxBackends = 2
  MaxAccount = 4
INVARIANTS BlocksSafe AccountsMatch
PROPERTIES ReserveKept SpacePaid

