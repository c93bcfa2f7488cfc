\* The epoll thread, three workers and a stopper.
SPECIFICATION FairSpec
CONSTANTS
  Writers = {w1}
  Readers = {r1, r2, r3}
  Stoppers = {s1}
  Tasks = {a, b}
  QUEUE_MAX_SIZE = 2
  NULL = NULL
INVARIANTS NoLostWakeup
PROPERTIES ImplementsFifo WriterGetsThrough 
