\* Two threads, two contents of one size, two writes at times of their own.
CONSTANTS
  old = old  new = new  empty = empty  t1 = t1  t2 = t2
  None = None
  Threads <- TwoThreads
  Contents <- SameSize
  Empty = empty
  Size <- Sizes
  Malformed <- NoMessages
  MaxTime = 2
SPECIFICATION Spec
SYMMETRY Symmetry
INVARIANTS TypeOK CacheIsTrue
PROPERTY AnswersAreFresh
