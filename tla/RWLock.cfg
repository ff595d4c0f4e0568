CONSTANTS
  Threads = {t1, t2, t3, t4}
  MayInterrupt = {t1}
SPECIFICATION FairSpec
INVARIANTS Exclusion SleeperHasWaker
PROPERTIES ImplementsSharedExclusiveLock WritersNotStarvedByReaders
