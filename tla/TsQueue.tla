------------------------------ MODULE TsQueue ------------------------------
(***************************************************************************)
(* src/ts_queue.c: the bounded task queue between the epoll thread and the *)
(* workers.  A ring buffer guarded by one mutex, with one condition        *)
(* variable per direction.  Every thread is inside at most one call; `pc'  *)
(* says how far it has come:                                               *)
(*   idle    not in a call            wait    in pthread_cond_wait         *)
(*   lock    wants q->lock            unlock  about to release q->lock     *)
(*   crit    holds q->lock            gone    got 0 from queue_read        *)
(***************************************************************************)
EXTENDS Integers, Sequences, FiniteSets, NullPointer

CONSTANTS Writers, Readers, Stoppers,  \* threads by the function they call
          Tasks,                       \* the data_ptr values
          QUEUE_MAX_SIZE

ASSUME QueueSize == QUEUE_MAX_SIZE \in Nat \ {0}
ASSUME QueueThreads ==
  /\ Writers \cap Readers = {}
  /\ Stoppers \cap (Writers \cup Readers) = {}
  /\ NULL \notin Writers \cup Readers \cup Stoppers \cup Tasks
  /\ IsFiniteSet(Writers) /\ IsFiniteSet(Readers)

Threads == Writers \cup Readers \cup Stoppers

VARIABLES buffer, head, tail, count, shutdown,   \* ts_queue_t
          lock,                                  \* owner of q->lock
          pc, data

vars == <<buffer, head, tail, count, shutdown, lock, pc, data>>
ring == <<buffer, head, tail, count>>

queue_init ==
  /\ buffer = [i \in 0 .. QUEUE_MAX_SIZE - 1 |-> NULL]
  /\ head = 0
  /\ tail = 0
  /\ count = 0
  /\ shutdown = FALSE
  /\ lock = NULL

Init ==
  /\ queue_init
  /\ pc = [t \in Threads |-> "idle"]
  /\ data = [t \in Writers \cup Readers |-> NULL]

----------------------------------------------------------------------------
(* pthread primitives, as ts_queue.c uses them. *)

pthread_mutex_lock(t) ==
  /\ pc[t] = "lock"
  /\ lock = NULL
  /\ lock' = t
  /\ pc' = [pc EXCEPT ![t] = "crit"]
  /\ UNCHANGED <<ring, shutdown, data>>

pthread_mutex_unlock(t) ==
  /\ pc[t] = "unlock"
  /\ lock' = NULL
  /\ pc' = [pc EXCEPT ![t] = IF t \in Readers /\ data[t] = NULL THEN "gone" ELSE "idle"]
  /\ UNCHANGED <<ring, shutdown, data>>

\* Releases the mutex and starts waiting in one step.
pthread_cond_wait(t) ==
  /\ lock' = NULL
  /\ pc' = [pc EXCEPT ![t] = "wait"]
  /\ UNCHANGED <<ring, shutdown, data>>

Waiting(S) == {t \in S : pc[t] = "wait"}

\* Thread t goes to "unlock" while the threads W stop waiting.
Waking(t, W) ==
  pc' = [u \in Threads |-> IF u = t THEN "unlock" ELSE IF u \in W THEN "lock" ELSE pc[u]]

\* Fault: signals only the first task.
pthread_cond_signal_WhenEmpty(t, S) ==
  \E W \in SUBSET Waiting(S) :
    /\ Waiting(S) # {} /\ count = 0 => W # {}
    /\ Waking(t, W)

\* Fault: no signal.
pthread_cond_signal_Lost(t, S) == Waking(t, {})

\* At least one waiter of S wakes when there is one.
pthread_cond_signal(t, S) ==
  \E W \in SUBSET Waiting(S) :
    /\ Waiting(S) # {} => W # {}
    /\ Waking(t, W)

\* Fault: only one of the waiters wakes.
pthread_cond_broadcast_One(t, S) ==
  IF Waiting(S) = {} THEN Waking(t, {}) ELSE \E u \in Waiting(S) : Waking(t, {u})

pthread_cond_broadcast(t, S) == Waking(t, Waiting(S))

\* POSIX lets a waiter return without a signal.
SpuriousWakeup(t) ==
  /\ pc[t] = "wait"
  /\ pc' = [pc EXCEPT ![t] = "lock"]
  /\ UNCHANGED <<ring, shutdown, lock, data>>

----------------------------------------------------------------------------
(* queue_write *)

\* The conditions of the two while loops, and the step of an index.
Full_Never == FALSE                \* Fault: "if" for "while".
Full == count = QUEUE_MAX_SIZE
Empty == count = 0
Advance(i) == (i + 1) % QUEUE_MAX_SIZE

queue_write_call(t, v) ==
  /\ pc[t] = "idle"
  /\ pc' = [pc EXCEPT ![t] = "lock"]
  /\ data' = [data EXCEPT ![t] = v]
  /\ UNCHANGED <<ring, shutdown, lock>>

queue_write_wait(t) ==
  /\ pc[t] = "crit"
  /\ Full
  /\ pthread_cond_wait(t)

queue_write_put(t) ==
  /\ pc[t] = "crit"
  /\ ~Full
  /\ buffer' = [buffer EXCEPT ![tail] = data[t]]
  /\ tail' = Advance(tail)
  /\ count' = count + 1
  /\ data' = [data EXCEPT ![t] = NULL]
  /\ pthread_cond_signal(t, Readers)
  /\ UNCHANGED <<head, shutdown, lock>>

----------------------------------------------------------------------------
(* queue_read *)

queue_read_call(t) ==
  /\ pc[t] = "idle"
  /\ pc' = [pc EXCEPT ![t] = "lock"]
  /\ data' = [data EXCEPT ![t] = NULL]
  /\ UNCHANGED <<ring, shutdown, lock>>

queue_read_wait(t) ==
  /\ pc[t] = "crit"
  /\ Empty /\ ~shutdown
  /\ pthread_cond_wait(t)

\* Queue empty and shutting down: the caller gets 0.
queue_read_stop(t) ==
  /\ pc[t] = "crit"
  /\ Empty /\ shutdown
  /\ pc' = [pc EXCEPT ![t] = "unlock"]
  /\ UNCHANGED <<ring, shutdown, lock, data>>

queue_read_take(t) ==
  /\ pc[t] = "crit"
  /\ ~Empty
  /\ data' = [data EXCEPT ![t] = buffer[head]]
  /\ head' = Advance(head)
  /\ count' = count - 1
  /\ pthread_cond_signal(t, Writers)
  /\ UNCHANGED <<buffer, tail, shutdown, lock>>

----------------------------------------------------------------------------
(* queue_shutdown *)

queue_shutdown_call(t) ==
  /\ pc[t] = "idle"
  /\ ~shutdown
  /\ pc' = [pc EXCEPT ![t] = "lock"]
  /\ UNCHANGED <<ring, shutdown, lock, data>>

queue_shutdown_body(t) ==
  /\ pc[t] = "crit"
  /\ shutdown' = TRUE
  /\ pthread_cond_broadcast(t, Threads)
  /\ UNCHANGED <<ring, lock, data>>

----------------------------------------------------------------------------

WriterStep(t) ==
  queue_write_wait(t) \/ queue_write_put(t)
ReaderStep(t) ==
  queue_read_wait(t) \/ queue_read_stop(t) \/ queue_read_take(t)
MutexStep(t) ==
  pthread_mutex_lock(t) \/ pthread_mutex_unlock(t)

Next ==
  \/ \E t \in Threads : MutexStep(t)
  \/ \E t \in Writers \cup Readers : SpuriousWakeup(t)
  \/ \E t \in Writers : WriterStep(t) \/ \E v \in Tasks : queue_write_call(t, v)
  \/ \E t \in Readers : ReaderStep(t) \/ queue_read_call(t)
  \/ \E t \in Stoppers : queue_shutdown_call(t) \/ queue_shutdown_body(t)

Spec == Init /\ [][Next]_vars

(* A thread inside a call keeps running, and a worker comes back for its   *)
(* next task.  Nothing obliges a writer or a stopper to call, and a        *)
(* spurious wakeup need never happen.                                      *)
Fairness ==
  /\ \A t \in Threads : WF_vars(MutexStep(t))
  /\ \A t \in Writers : WF_vars(WriterStep(t))
  /\ \A t \in Readers : WF_vars(ReaderStep(t) \/ queue_read_call(t))
  /\ \A t \in Stoppers : WF_vars(queue_shutdown_body(t))

FairSpec == Spec /\ Fairness

----------------------------------------------------------------------------
(* Properties *)

\* Every field keeps its type; indices stay inside the array.
TypeOK ==
  /\ buffer \in [0 .. QUEUE_MAX_SIZE - 1 -> Tasks \cup {NULL}]
  /\ head \in 0 .. QUEUE_MAX_SIZE - 1
  /\ tail \in 0 .. QUEUE_MAX_SIZE - 1
  /\ count \in 0 .. QUEUE_MAX_SIZE
  /\ shutdown \in BOOLEAN
  /\ lock \in Threads \cup {NULL}
  /\ pc \in [Threads -> {"idle", "lock", "crit", "wait", "unlock", "gone"}]
  /\ data \in [Writers \cup Readers -> Tasks \cup {NULL}]

\* The occupied slots are the `count' slots from head on, each holding a task
\* (queue_read never hands out an empty slot, queue_write never overwrites one).
Occupied(i) == (head + i) % QUEUE_MAX_SIZE
RingConsistent ==
  /\ tail = Occupied(count)
  /\ \A i \in 0 .. count - 1 : buffer[Occupied(i)] # NULL

\* The queue's contents, read off the ring: the refinement mapping.
Contents == [i \in 1 .. count |-> buffer[Occupied(i - 1)]]
Fifo == INSTANCE BoundedFifo
          WITH fifo <- Contents, closed <- shutdown, slot <- data,
               Capacity <- QUEUE_MAX_SIZE

\* The ring buffer with its condition variables is a bounded FIFO queue: tasks
\* leave in the order they entered, none is lost, duplicated or made up, and
\* writers wait exactly while it is full.
ImplementsFifo == Fifo!FifoSpec

Inside(S) == {t \in S : pc[t] \in {"lock", "crit"}}

\* No lost wakeup: while a reader sleeps on not_empty there are at least as many
\* readers awake inside queue_read as there are queued tasks, and while a writer
\* sleeps on not_full there is an awake writer for every free slot (one signal
\* per write and per read is enough).
NoLostWakeup ==
  /\ Waiting(Readers) # {} => count <= Cardinality(Inside(Readers))
  /\ Waiting(Writers) # {} => QUEUE_MAX_SIZE - count <= Cardinality(Inside(Writers))

\* The one writer (the epoll thread) always gets its task in, also when it found
\* the queue full, as long as the workers keep calling queue_read, unless somebody
\* shuts the queue down (main.c never does), if spurious wakeups are finitely many.
WriterGetsThrough ==
  <>[][\A t \in Threads : ~SpuriousWakeup(t)]_vars
    => \A t \in Writers : data[t] # NULL ~> data[t] = NULL \/ shutdown

\* queue_shutdown gets every reader out of pthread_cond_wait for good.
ShutdownReleasesReaders ==
  \A t \in Readers : shutdown /\ pc[t] = "wait" ~> pc[t] # "wait"
=============================================================================
