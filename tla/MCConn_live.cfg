\* The reading end under fairness, and what is accepted is delivered: a reader,
\* Listener.Close (c1) and handleTaker (c2), which closes once HandlePlayers is
\* over, and a writer.
SPECIFICATION FairSpec
CONSTANTS
  Writers = {w1}
  Closers = {c1, c2}
  Followers = {c2}
  Readers = {r1}
  FlushLoop = loop
  FrameLens <- MCFrameLens
  BytePerWrite = 3
  MaxBufferedByte = 5
  MaxFrames = 1
INVARIANTS
  NilReadNeedsListenerClose
PROPERTIES
  Delivered CloseReturns
