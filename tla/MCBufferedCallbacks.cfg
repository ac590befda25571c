\* Two library threads, two mallocs that fail, a burst limit that is smaller
\* than the queue can get.
SPECIFICATION FairSpec
CONSTANTS
  t1 = t1
  t2 = t2
  Threads = {t1, t2}
  Main = main
  NoThread = NoThread
  NoItem = NoItem
  Maximum = 1
  MaxCallbacks <- MCCallbacks
  MaxFailures = 2
INVARIANTS TypeOK ListIsStable ExactlyOnceInOrder HeapIsExact
PROPERTIES ImplementsFifo EventuallyDelivered FailuresReported
\* The process may crash on a failed malloc and stops after clearing.
CHECK_DEADLOCK FALSE
