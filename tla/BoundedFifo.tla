---------------------------- MODULE BoundedFifo ----------------------------
(***************************************************************************)
(* What ts_queue.c promises its callers: a first-in first-out queue of at  *)
(* most Capacity tasks.  queue_write and queue_read each take effect at    *)
(* one instant; `slot' is the argument a writer still has to enqueue, or   *)
(* the task a reader has been handed.                                      *)
(***************************************************************************)
EXTENDS Integers, Sequences

CONSTANTS Writers, Readers, Tasks, Capacity, NULL

VARIABLES fifo,      \* the queued tasks, oldest first
          closed,    \* queue_shutdown has been called
          slot       \* [Writers \cup Readers -> Tasks \cup {NULL}]

fifoVars == <<fifo, closed, slot>>

FifoInit ==
  /\ fifo = <<>>
  /\ closed = FALSE
  /\ slot = [t \in Writers \cup Readers |-> NULL]

\* A writer calls queue_write with a task.
Offer(t, v) ==
  /\ slot[t] = NULL
  /\ slot' = [slot EXCEPT ![t] = v]
  /\ UNCHANGED <<fifo, closed>>

\* The offered task enters at the tail; a full queue makes the writer wait.
Put(t) ==
  /\ slot[t] # NULL
  /\ Len(fifo) < Capacity
  /\ fifo' = Append(fifo, slot[t])
  /\ slot' = [slot EXCEPT ![t] = NULL]
  /\ UNCHANGED closed

\* A reader is handed the oldest task.
Take(t) ==
  /\ slot[t] = NULL
  /\ fifo # <<>>
  /\ slot' = [slot EXCEPT ![t] = Head(fifo)]
  /\ fifo' = Tail(fifo)
  /\ UNCHANGED closed

\* A reader is done with its task and calls queue_read again.
Finish(t) ==
  /\ slot' = [slot EXCEPT ![t] = NULL]
  /\ UNCHANGED <<fifo, closed>>

Close ==
  /\ closed' = TRUE
  /\ UNCHANGED <<fifo, slot>>

FifoNext ==
  \/ \E t \in Writers : Put(t) \/ \E v \in Tasks : Offer(t, v)
  \/ \E t \in Readers : Take(t) \/ Finish(t)
  \/ Close

FifoSpec == FifoInit /\ [][FifoNext]_fifoVars
=============================================================================
