\* A ring of four slots: chunks wrap past its end, and the counters wrap after
\* two rounds; so do those of the queue.
\* Interrupts masked around the main loop's calls of the pool.  Three blocks:
\* long enough a list for a cycle, a lost tail or a wrong link in its middle.
SPECIFICATION SharedSpec
CONSTANTS
  Byte = {b1, b2}
  Unset = Unset
  Capacity = 4
  Modulus = 8
  MaxCount = 2
  PoolCapacity = 3
  Null = Null
  Stray = Stray
  Main = main
  Isr = isr
  Context = {main, isr}
  Nobody = Nobody
  Masked = TRUE
  MainTask = {t1}
  IsrTask = {t3}
  Range = 8
  Timeout = 3
  MaxLag = 2
  Item = {i1, i2}
  QueueCapacity = 2
  UsizeRange = 4
  Sender = {s1, s2}
  SliceLimit = 2
INVARIANTS SlotsSafe AnswersHold QuietListSound KickJustified BeatsKept
PROPERTIES ImplementsFifo Drains ImplementsAllocator HangCaught RustQueueIsFifo
