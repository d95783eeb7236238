SPECIFICATION Spec
CONSTANTS
  Closers = {c1, c2}
  Redialretrys = 1
  MaxConns = 2
\* The program may have panicked, the redialer have given up, and after MaxConns
\* connections no dial succeeds.
CHECK_DEADLOCK FALSE
INVARIANTS
  StrayNeedsOutside PanicNeedsStray OneFlushLoop NoLeak Attended NoCloseHangs
