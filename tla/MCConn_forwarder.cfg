\* The forwarder's end: goroutines that write and one that closes.
SPECIFICATION Spec
CONSTANTS
  Writers = {w1, w2}
  Closers = {c1}
  Followers = {}
  Readers = {}
  FlushLoop = loop
  FrameLens <- MCFrameLens
  BytePerWrite = 3
  MaxBufferedByte = 5
  MaxFrames = 2
SYMMETRY MCSymmetry
INVARIANTS
  NothingLost GracefulClose NilWriteNeedsOvertaking FlushDue
PROPERTIES
  NoAcceptAfterLastFlush ImplementsStream
