---------------------------- MODULE TsQueueProofs ----------------------------
(***************************************************************************)
(* Proofs about the task queue, for any size and any sets of writers,      *)
(* readers and tasks: it implements the bounded queue, and a wake-up is    *)
(* never lost.                                                             *)
(***************************************************************************)
EXTENDS TsQueue, FiniteSetTheorems, TLAPS

\* Most leaves need no arithmetic: Zenon, unless a leaf names SMT.
USE Zenon

----------------------------------------------------------------------------
(* The inductive invariant. *)

\* A thread is inside a call, before its effect.
Pending(t) == pc[t] \in {"lock", "crit", "wait"}

\* A writer carries a task exactly until it has been put; a reader has none until it
\* has taken one.
SlotsFollowCalls ==
  /\ \A t \in Writers : data[t] # NULL <=> Pending(t)
  /\ \A t \in Readers : Pending(t) => data[t] = NULL

IInv == TypeOK /\ SlotsFollowCalls /\ RingConsistent

----------------------------------------------------------------------------
(* Arithmetic of the ring: an index counted from head, at most one lap.    *)

\* Different positions are in different slots.
LEMMA RingInjective ==
  ASSUME NEW n \in Nat \ {0}, NEW h \in 0 .. n - 1, NEW j \in 0 .. n - 1, NEW i \in 0 .. j - 1
  PROVE  (h + i) % n # (h + j) % n
BY SMT

\* Position i + 1 from h is position i from the slot after h, and the slot after
\* position i; position 0 is h itself.
LEMMA RingShift ==
  ASSUME NEW n \in Nat \ {0}, NEW h \in 0 .. n - 1, NEW i \in 0 .. n - 1
  PROVE  /\ (((h + 1) % n) + i) % n = (h + (i + 1)) % n
         /\ (((h + i) % n) + 1) % n = (h + (i + 1)) % n
         /\ (h + 0) % n = h
BY SMT

\* An index stays inside the array.
LEMMA RingRange ==
  ASSUME NEW n \in Nat \ {0}, NEW a \in Nat
  PROVE  a % n \in 0 .. n - 1
BY SMT

----------------------------------------------------------------------------
(* The state after a wakeup, and the types of threads.                     *)

\* A writer is no reader, and only the threads that were waiting change from
\* "wait" to "lock" when a thread signals.
LEMMA WakingPc ==
  ASSUME TypeOK, NEW t \in Threads, NEW W \in SUBSET {u \in Threads : pc[u] = "wait"},
         Waking(t, W)
  PROVE  /\ pc' \in [Threads -> {"idle", "lock", "crit", "wait", "unlock", "gone"}]
         /\ pc'[t] = "unlock"
         /\ \A u \in Threads \ {t} : Pending(u)' <=> Pending(u)
BY DEF TypeOK, Waking, Pending

\* Whoever is woken by a signal or a broadcast was waiting.
LEMMA SignalPc ==
  ASSUME TypeOK, NEW t \in Threads, NEW S \in SUBSET Threads,
         pthread_cond_signal(t, S) \/ pthread_cond_broadcast(t, S)
  PROVE  /\ pc' \in [Threads -> {"idle", "lock", "crit", "wait", "unlock", "gone"}]
         /\ pc'[t] = "unlock"
         /\ \A u \in Threads \ {t} : Pending(u)' <=> Pending(u)
<1>1. \E W \in SUBSET {u \in Threads : pc[u] = "wait"} : Waking(t, W)
  BY DEF pthread_cond_signal, pthread_cond_broadcast, Waiting
<1>. QED  BY <1>1, WakingPc

LEMMA InitIInv == Init => IInv
<1>. SUFFICES ASSUME Init PROVE IInv
  OBVIOUS
<1>1. TypeOK
  <2>1. 0 \in 0 .. QUEUE_MAX_SIZE - 1 /\ 0 \in 0 .. QUEUE_MAX_SIZE
    BY QueueSize, SMT
  <2>. QED  BY <2>1 DEF Init, queue_init, TypeOK
<1>2. SlotsFollowCalls
  BY DEF Init, SlotsFollowCalls, Pending, Threads
<1>3. RingConsistent
  BY QueueSize, RingShift, SMT DEF Init, queue_init, RingConsistent, Occupied
<1>. QED  BY <1>1, <1>2, <1>3 DEF IInv

\* A step that leaves the ring alone keeps it consistent.
LEMMA SameRing ==
  ASSUME RingConsistent, UNCHANGED ring
  PROVE  RingConsistent'
BY DEF RingConsistent, Occupied, ring

\* The mutex, the waits and the calls: the ring is not touched.
LEMMA QuietSteps ==
  ASSUME IInv, NEW t \in Threads,
         \/ pthread_mutex_lock(t) \/ pthread_mutex_unlock(t) \/ SpuriousWakeup(t)
         \/ t \in Writers /\ queue_write_wait(t)
         \/ t \in Readers /\ (queue_read_wait(t) \/ queue_read_stop(t))
         \/ t \in Stoppers /\ queue_shutdown_call(t)
  PROVE  IInv'
<1>1. UNCHANGED <<ring, data, shutdown>> /\ lock' \in {lock, NULL, t}
  BY DEF pthread_mutex_lock, pthread_mutex_unlock, SpuriousWakeup, queue_write_wait,
         queue_read_wait, queue_read_stop, queue_shutdown_call, pthread_cond_wait
<1>2. \E l \in {"idle", "lock", "crit", "wait", "unlock", "gone"} :
        /\ pc' = [pc EXCEPT ![t] = l]
        /\ t \in Writers => (Pending(t) <=> l \in {"lock", "crit", "wait"})
        /\ t \in Readers /\ l \in {"lock", "crit", "wait"} => Pending(t)
  BY QueueThreads DEF pthread_mutex_lock, pthread_mutex_unlock, SpuriousWakeup, queue_write_wait,
         queue_read_wait, queue_read_stop, queue_shutdown_call, pthread_cond_wait, Pending
<1>3. TypeOK'
  BY <1>1, <1>2 DEF IInv, TypeOK, ring
<1>4. SlotsFollowCalls'
  BY <1>1, <1>2 DEF IInv, TypeOK, SlotsFollowCalls, Pending, Threads
<1>. QED  BY <1>1, <1>3, <1>4, SameRing DEF IInv

\* queue_write and queue_read take their argument; the ring is not touched.
LEMMA CallSteps ==
  ASSUME IInv, NEW t \in Threads,
         \/ t \in Writers /\ \E v \in Tasks : queue_write_call(t, v)
         \/ t \in Readers /\ queue_read_call(t)
  PROVE  IInv'
<1>1. UNCHANGED <<ring, lock, shutdown>> /\ pc' = [pc EXCEPT ![t] = "lock"]
  BY DEF queue_write_call, queue_read_call
<1>2. \E v \in Tasks \cup {NULL} :
        data' = [data EXCEPT ![t] = v] /\ (t \in Writers => v # NULL) /\ (t \in Readers => v = NULL)
  BY QueueThreads DEF queue_write_call, queue_read_call
<1>3. TypeOK'
  BY <1>1, <1>2 DEF IInv, TypeOK, ring, Threads
<1>4. SlotsFollowCalls'
  BY <1>1, <1>2, QueueThreads DEF IInv, TypeOK, SlotsFollowCalls, Pending, Threads
<1>. QED  BY <1>1, <1>3, <1>4, SameRing DEF IInv

\* queue_write stores at tail, one past the occupied slots.
LEMMA PutStep ==
  ASSUME IInv, NEW t \in Writers, queue_write_put(t)
  PROVE  IInv'
<1>. USE QueueSize
<1>1. t \in Threads /\ Readers \in SUBSET Threads
  BY DEF Threads
<1>2. /\ pc' \in [Threads -> {"idle", "lock", "crit", "wait", "unlock", "gone"}]
      /\ pc'[t] = "unlock"
      /\ \A u \in Threads \ {t} : Pending(u)' <=> Pending(u)
  BY <1>1, SignalPc DEF IInv, queue_write_put
<1>3. data[t] \in Tasks
  BY <1>1 DEF IInv, TypeOK, SlotsFollowCalls, Pending, queue_write_put
<1>4. count < QUEUE_MAX_SIZE /\ count' = count + 1 /\ head' = head
  BY SMT DEF IInv, TypeOK, queue_write_put, Full
<1>5. TypeOK'
  BY <1>2, <1>3, <1>4, RingRange, SMT DEF IInv, TypeOK, queue_write_put, Advance
<1>6. SlotsFollowCalls'
  BY <1>1, <1>2, QueueThreads DEF IInv, TypeOK, SlotsFollowCalls, Pending, queue_write_put, Threads
<1>7. tail' = Occupied(count)'
  <2>1. tail = (head + count) % QUEUE_MAX_SIZE /\ tail' = (tail + 1) % QUEUE_MAX_SIZE
    BY DEF IInv, RingConsistent, Occupied, queue_write_put, Advance
  <2>2. head \in 0 .. QUEUE_MAX_SIZE - 1 /\ count \in 0 .. QUEUE_MAX_SIZE - 1
    BY <1>4, SMT DEF IInv, TypeOK
  <2>3. (((head + count) % QUEUE_MAX_SIZE) + 1) % QUEUE_MAX_SIZE = (head + (count + 1)) % QUEUE_MAX_SIZE
    BY <2>2, RingShift
  <2>. QED  BY <1>4, <2>1, <2>3 DEF Occupied
<1>8. ASSUME NEW i \in 0 .. count' - 1
      PROVE  buffer'[Occupied(i)'] # NULL
  <2>1. CASE i = count
    BY <1>3, <1>4, <2>1, QueueThreads DEF IInv, TypeOK, RingConsistent, Occupied, queue_write_put
  <2>2. CASE i < count
    <3>1. i \in 0 .. count - 1 /\ Occupied(i)' = Occupied(i)
      BY <1>4, <2>2, SMT DEF IInv, TypeOK, Occupied
    <3>2. Occupied(i) # tail
      <4>1. /\ head \in 0 .. QUEUE_MAX_SIZE - 1 /\ count \in 0 .. QUEUE_MAX_SIZE - 1
            /\ i \in 0 .. count - 1
        BY <1>4, <3>1, SMT DEF IInv, TypeOK
      <4>2. (head + i) % QUEUE_MAX_SIZE # (head + count) % QUEUE_MAX_SIZE
        BY <4>1, RingInjective
      <4>. QED  BY <4>2 DEF IInv, RingConsistent, Occupied
    <3>3. buffer'[Occupied(i)] = buffer[Occupied(i)]
      BY <3>2, <3>1, RingRange, SMT DEF IInv, TypeOK, Occupied, queue_write_put
    <3>. QED  BY <3>1, <3>3 DEF IInv, RingConsistent
  <2>. QED  BY <1>4, <2>1, <2>2, SMT DEF IInv, TypeOK
<1>. QED  BY <1>5, <1>6, <1>7, <1>8 DEF IInv, RingConsistent

\* queue_read takes from head, the first of the occupied slots.
LEMMA TakeStep ==
  ASSUME IInv, NEW t \in Readers, queue_read_take(t)
  PROVE  IInv'
<1>. USE QueueSize
<1>1. t \in Threads /\ Writers \in SUBSET Threads
  BY DEF Threads
<1>2. /\ pc' \in [Threads -> {"idle", "lock", "crit", "wait", "unlock", "gone"}]
      /\ pc'[t] = "unlock"
      /\ \A u \in Threads \ {t} : Pending(u)' <=> Pending(u)
  BY <1>1, SignalPc DEF IInv, queue_read_take
<1>3. count > 0 /\ count' = count - 1 /\ buffer' = buffer /\ tail' = tail
  BY SMT DEF IInv, TypeOK, queue_read_take, Empty
<1>4. TypeOK'
  BY <1>2, <1>3, RingRange, SMT DEF IInv, TypeOK, queue_read_take, Advance
<1>5. SlotsFollowCalls'
  BY <1>1, <1>2, QueueThreads DEF IInv, TypeOK, SlotsFollowCalls, Pending, queue_read_take, Threads
<1>6. ASSUME NEW i \in 0 .. count - 1
      PROVE  Occupied(i)' = Occupied(i + 1)
  <2>1. head \in 0 .. QUEUE_MAX_SIZE - 1 /\ i \in 0 .. QUEUE_MAX_SIZE - 1
    BY SMT DEF IInv, TypeOK
  <2>2. (((head + 1) % QUEUE_MAX_SIZE) + i) % QUEUE_MAX_SIZE = (head + (i + 1)) % QUEUE_MAX_SIZE
    BY <2>1, RingShift
  <2>. QED  BY <2>2 DEF Occupied, queue_read_take, Advance
<1>7. tail' = Occupied(count)'
  BY <1>3, <1>6, SMT DEF IInv, TypeOK, RingConsistent, Occupied
<1>8. ASSUME NEW i \in 0 .. count' - 1
      PROVE  buffer'[Occupied(i)'] # NULL
  BY <1>3, <1>6, SMT DEF IInv, TypeOK, RingConsistent
<1>. QED  BY <1>4, <1>5, <1>7, <1>8 DEF IInv, RingConsistent

\* queue_shutdown sets the flag and wakes everybody.
LEMMA ShutdownStep ==
  ASSUME IInv, NEW t \in Stoppers, queue_shutdown_body(t)
  PROVE  IInv'
<1>1. t \in Threads \ (Writers \cup Readers)
  BY QueueThreads DEF Threads
<1>2. /\ pc' \in [Threads -> {"idle", "lock", "crit", "wait", "unlock", "gone"}]
      /\ \A u \in Threads \ {t} : Pending(u)' <=> Pending(u)
  BY <1>1, SignalPc DEF IInv, queue_shutdown_body
<1>3. UNCHANGED <<ring, data, lock>> /\ shutdown' = TRUE
  BY DEF queue_shutdown_body
<1>4. TypeOK'
  BY <1>2, <1>3 DEF IInv, TypeOK, ring
<1>5. SlotsFollowCalls'
  BY <1>1, <1>2, <1>3 DEF IInv, SlotsFollowCalls, Threads
<1>. QED  BY <1>3, <1>4, <1>5, SameRing DEF IInv

LEMMA NextIInv == IInv /\ [Next]_vars => IInv'
<1>. SUFFICES ASSUME IInv, [Next]_vars PROVE IInv'
  OBVIOUS
<1>. USE DEF Threads
<1>1. CASE \E t \in Threads : MutexStep(t)
  BY <1>1, QuietSteps DEF MutexStep
<1>2. CASE \E t \in Writers \cup Readers : SpuriousWakeup(t)
  BY <1>2, QuietSteps
<1>3. CASE \E t \in Writers : WriterStep(t)
  BY <1>3, QuietSteps, PutStep DEF WriterStep
<1>4. CASE \E t \in Readers : ReaderStep(t)
  BY <1>4, QuietSteps, TakeStep DEF ReaderStep
<1>5. CASE \E t \in Writers : \E v \in Tasks : queue_write_call(t, v)
  BY <1>5, CallSteps
<1>6. CASE \E t \in Readers : queue_read_call(t)
  BY <1>6, CallSteps
<1>7. CASE \E t \in Stoppers : queue_shutdown_call(t)
  BY <1>7, QuietSteps
<1>8. CASE \E t \in Stoppers : queue_shutdown_body(t)
  BY <1>8, ShutdownStep
<1>9. CASE UNCHANGED vars
  BY <1>9 DEF vars, IInv, TypeOK, SlotsFollowCalls, Pending, RingConsistent, Occupied
<1>. QED  BY <1>1, <1>2, <1>3, <1>4, <1>5, <1>6, <1>7, <1>8, <1>9 DEF Next

LEMMA Inductive == Spec => []IInv
BY InitIInv, NextIInv, PTL DEF Spec

----------------------------------------------------------------------------
(* Theorems *)

\* Every field of ts_queue_t keeps its type, whatever the threads do.
THEOREM TypeCorrect == Spec => []TypeOK
BY Inductive, PTL DEF IInv

\* queue_write fills and queue_read empties exactly the slots between head and
\* tail, for every QUEUE_MAX_SIZE.
THEOREM RingIsConsistent == Spec => []RingConsistent
BY Inductive, PTL DEF IInv

----------------------------------------------------------------------------
(* The ring buffer implements the FIFO queue. *)

\* The queue read off the ring is as long as the counter says.
LEMMA ContentsLength ==
  ASSUME TypeOK
  PROVE  Contents \in Seq(Tasks \cup {NULL}) /\ Len(Contents) = count
<1>1. \A i \in 1 .. count : Occupied(i - 1) \in 0 .. QUEUE_MAX_SIZE - 1
  BY QueueSize, RingRange, SMT DEF TypeOK, Occupied
<1>. QED  BY <1>1, SMT DEF TypeOK, Contents

\* queue_write appends to it.
LEMMA ContentsPut ==
  ASSUME IInv, NEW t \in Writers, queue_write_put(t)
  PROVE  Contents' = Append(Contents, data[t])
<1>. USE QueueSize
<1>1. count \in 0 .. QUEUE_MAX_SIZE - 1 /\ count' = count + 1 /\ head' = head
  BY SMT DEF IInv, TypeOK, queue_write_put, Full
<1>2. tail = Occupied(count) /\ buffer' = [buffer EXCEPT ![tail] = data[t]]
  BY DEF IInv, RingConsistent, queue_write_put
<1>3. ASSUME NEW i \in 1 .. count
      PROVE  buffer'[Occupied(i - 1)] = buffer[Occupied(i - 1)]
  <2>1. head \in 0 .. QUEUE_MAX_SIZE - 1 /\ i - 1 \in 0 .. count - 1
    BY <1>1, SMT DEF IInv, TypeOK
  <2>2. Occupied(i - 1) # Occupied(count)
    BY <1>1, <2>1, RingInjective DEF Occupied
  <2>. QED  BY <1>2, <2>2, SMT
<1>4. buffer'[Occupied(count)] = data[t]
  BY <1>1, <1>2 DEF IInv, TypeOK
<1>5. Contents' = [i \in 1 .. count + 1 |-> IF i <= count THEN Contents[i] ELSE data[t]]
  <2>1. Contents' = [i \in 1 .. count + 1 |-> buffer'[Occupied(i - 1)]]
    BY <1>1 DEF Contents, Occupied
  <2>2. ASSUME NEW i \in 1 .. count + 1
        PROVE  buffer'[Occupied(i - 1)] = IF i <= count THEN Contents[i] ELSE data[t]
    <3>1. CASE i <= count
      BY <1>1, <1>3, <3>1, SMT DEF Contents
    <3>2. CASE i = count + 1
      BY <1>1, <1>4, <3>2, SMT
    <3>. QED  BY <1>1, <3>1, <3>2, SMT
  <2>. QED  BY <2>1, <2>2
<1>6. Len(Contents) = count /\ Contents \in Seq(Tasks \cup {NULL})
  BY ContentsLength DEF IInv
<1>. QED  BY <1>1, <1>5, <1>6, SMT

\* queue_read removes its first element.
LEMMA ContentsTake ==
  ASSUME IInv, NEW t \in Readers, queue_read_take(t)
  PROVE  Contents # <<>> /\ buffer[head] = Head(Contents) /\ Contents' = Tail(Contents)
<1>. USE QueueSize
<1>1. count \in 1 .. QUEUE_MAX_SIZE /\ count' = count - 1 /\ buffer' = buffer
  BY SMT DEF IInv, TypeOK, queue_read_take, Empty
<1>2. Len(Contents) = count /\ Contents \in Seq(Tasks \cup {NULL})
  BY ContentsLength DEF IInv
<1>3. head \in 0 .. QUEUE_MAX_SIZE - 1 /\ Occupied(0) = head
  <2>1. head \in 0 .. QUEUE_MAX_SIZE - 1
    BY DEF IInv, TypeOK
  <2>. QED  BY <2>1, RingShift DEF Occupied
<1>4. ASSUME NEW i \in 1 .. count - 1
      PROVE  Occupied(i - 1)' = Occupied(i)
  <2>1. i - 1 \in 0 .. QUEUE_MAX_SIZE - 1 /\ head' = (head + 1) % QUEUE_MAX_SIZE
    BY <1>1, SMT DEF queue_read_take, Advance
  <2>2. (((head + 1) % QUEUE_MAX_SIZE) + (i - 1)) % QUEUE_MAX_SIZE = (head + ((i - 1) + 1)) % QUEUE_MAX_SIZE
    BY <1>3, <2>1, RingShift
  <2>. QED  BY <1>1, <2>1, <2>2, SMT DEF Occupied
<1>5. Contents' = [i \in 1 .. count - 1 |-> Contents[i + 1]]
  <2>1. Contents' = [i \in 1 .. count - 1 |-> buffer[Occupied(i - 1)']]
    BY <1>1 DEF Contents, Occupied
  <2>2. ASSUME NEW i \in 1 .. count - 1
        PROVE  buffer[Occupied(i - 1)'] = Contents[i + 1]
    BY <1>1, <1>4, SMT DEF Contents
  <2>. QED  BY <2>1, <2>2
<1>6. Head(Contents) = buffer[head]
  BY <1>1, <1>2, <1>3, SMT DEF Contents
<1>7. Contents # <<>>
  BY <1>1, <1>2, SMT
<1>8. Contents' = Tail(Contents)
  <2>1. /\ Tail(Contents) \in Seq(Tasks \cup {NULL})
        /\ Len(Tail(Contents)) = count - 1
        /\ \A i \in 1 .. Len(Tail(Contents)) : Tail(Contents)[i] = Contents[i + 1]
    BY <1>2, <1>7, SMT
  <2>2. Contents' \in Seq(Tasks \cup {NULL}) /\ Len(Contents') = count - 1
    BY <1>1, <1>2, <1>5, SMT
  <2>3. \A i \in 1 .. Len(Contents') : Contents'[i] = Tail(Contents)[i]
    BY <1>1, <1>5, <2>1, <2>2
  <2>. QED  BY <2>1, <2>2, <2>3, SMT
<1>. QED  BY <1>6, <1>7, <1>8

\* Every step of the code is a step of the FIFO queue, or changes nothing of it.
LEMMA StepRefines == IInv /\ [Next]_vars => [Fifo!FifoNext]_(Fifo!fifoVars)
<1>. SUFFICES ASSUME IInv, [Next]_vars PROVE [Fifo!FifoNext]_(Fifo!fifoVars)
  OBVIOUS
<1>. USE DEF Threads
<1>1. ASSUME UNCHANGED <<ring, shutdown, data>>
      PROVE  UNCHANGED Fifo!fifoVars
  BY <1>1 DEF ring, Contents, Occupied, Fifo!fifoVars
<1>2. ASSUME NEW t \in Threads, MutexStep(t) \/ SpuriousWakeup(t)
      PROVE  UNCHANGED <<ring, shutdown, data>>
  BY <1>2 DEF MutexStep, pthread_mutex_lock, pthread_mutex_unlock, SpuriousWakeup
<1>3. ASSUME NEW t, queue_write_wait(t) \/ queue_read_wait(t) \/ queue_read_stop(t) \/ queue_shutdown_call(t)
      PROVE  UNCHANGED <<ring, shutdown, data>>
  BY <1>3 DEF queue_write_wait, queue_read_wait, queue_read_stop, queue_shutdown_call, pthread_cond_wait
<1>4. ASSUME NEW t \in Writers, NEW v \in Tasks, queue_write_call(t, v)
      PROVE  Fifo!Offer(t, v)
  <2>1. data[t] = NULL
    BY <1>4 DEF IInv, SlotsFollowCalls, Pending, queue_write_call
  <2>. QED  BY <1>4, <2>1 DEF Fifo!Offer, queue_write_call, ring, Contents, Occupied
<1>5. ASSUME NEW t \in Writers, queue_write_put(t)
      PROVE  Fifo!Put(t)
  <2>1. data[t] # NULL
    BY <1>5 DEF IInv, SlotsFollowCalls, Pending, queue_write_put
  <2>2. Len(Contents) < QUEUE_MAX_SIZE
    BY <1>5, QueueSize, ContentsLength, SMT DEF IInv, TypeOK, queue_write_put, Full
  <2>. QED  BY <1>5, <2>1, <2>2, ContentsPut DEF Fifo!Put, queue_write_put
<1>6. ASSUME NEW t \in Readers, queue_read_call(t)
      PROVE  Fifo!Finish(t)
  BY <1>6 DEF Fifo!Finish, queue_read_call, ring, Contents, Occupied
<1>7. ASSUME NEW t \in Readers, queue_read_take(t)
      PROVE  Fifo!Take(t)
  <2>1. data[t] = NULL
    BY <1>7 DEF IInv, SlotsFollowCalls, Pending, queue_read_take
  <2>. QED  BY <1>7, <2>1, ContentsTake DEF Fifo!Take, queue_read_take
<1>8. ASSUME NEW t \in Stoppers, queue_shutdown_body(t)
      PROVE  Fifo!Close
  BY <1>8 DEF Fifo!Close, queue_shutdown_body, ring, Contents, Occupied
<1>9. CASE UNCHANGED vars
  BY <1>1, <1>9 DEF vars, ring
<1>10. CASE \E t \in Writers : WriterStep(t) \/ \E v \in Tasks : queue_write_call(t, v)
  BY <1>1, <1>3, <1>4, <1>5, <1>10 DEF WriterStep, Fifo!FifoNext
<1>11. CASE \E t \in Readers : ReaderStep(t) \/ queue_read_call(t)
  BY <1>1, <1>3, <1>6, <1>7, <1>11 DEF ReaderStep, Fifo!FifoNext
<1>12. CASE \E t \in Stoppers : queue_shutdown_call(t) \/ queue_shutdown_body(t)
  BY <1>1, <1>3, <1>8, <1>12 DEF Fifo!FifoNext
<1>. QED  BY <1>1, <1>2, <1>9, <1>10, <1>11, <1>12 DEF Next

\* The ring buffer with its mutex and condition variables implements a bounded
\* first-in first-out queue, for any number of threads and any QUEUE_MAX_SIZE.
THEOREM QueueIsFifo == Spec => ImplementsFifo
<1>1. Init => Fifo!FifoInit
  BY SMT DEF Init, queue_init, Contents, Fifo!FifoInit
<1>. QED  BY <1>1, Inductive, StepRefines, PTL DEF Spec, ImplementsFifo, Fifo!FifoSpec

----------------------------------------------------------------------------
(* No wakeup is lost.  NoLostWakeup is inductive relative to the types:    *)
(* the awake threads of a side only become fewer by as many as the tasks,  *)
(* or the free slots, they take.                                           *)

\* Counting parts of a finite set: a larger part, one with an element more, and one
\* with an element less.
LEMMA Counting ==
  ASSUME NEW S, IsFiniteSet(S), NEW A \in SUBSET S, NEW B \in SUBSET S
  PROVE  /\ Cardinality(A) \in Nat
         /\ A \subseteq B => Cardinality(A) <= Cardinality(B)
         /\ \A x \in B \ A : A \subseteq B => Cardinality(A) + 1 <= Cardinality(B)
         /\ \A x : A \subseteq B \cup {x} => Cardinality(A) <= Cardinality(B) + 1
<1>1. IsFiniteSet(A) /\ IsFiniteSet(B)
  BY FS_Subset
<1>2. Cardinality(A) \in Nat /\ Cardinality(B) \in Nat
  BY <1>1, FS_CardinalityType
<1>3. A \subseteq B => Cardinality(A) <= Cardinality(B)
  BY <1>1, FS_Subset
<1>4. ASSUME NEW x \in B \ A, A \subseteq B
      PROVE  Cardinality(A) + 1 <= Cardinality(B)
  <2>1. Cardinality(A \cup {x}) = Cardinality(A) + 1
    BY <1>1, FS_AddElement
  <2>2. Cardinality(A \cup {x}) <= Cardinality(B)
    BY <1>1, <1>4, FS_Subset
  <2>. QED  BY <2>1, <2>2
<1>5. ASSUME NEW x, A \subseteq B \cup {x}
      PROVE  Cardinality(A) <= Cardinality(B) + 1
  <2>1. IsFiniteSet(B \cup {x}) /\ Cardinality(B \cup {x}) \in {Cardinality(B), Cardinality(B) + 1}
    BY <1>1, <1>2, FS_AddElement
  <2>2. Cardinality(A) <= Cardinality(B \cup {x})
    BY <1>5, <2>1, FS_Subset
  <2>. QED  BY <1>2, <2>1, <2>2, SMT
<1>. QED  BY <1>2, <1>3, <1>4, <1>5

\* One side of NoLostWakeup: the threads S sleep only while `work' is covered.
Covered(S, work) == Waiting(S) # {} => work <= Cardinality(Inside(S))

\* It survives when nobody of S stops being awake and nobody starts to sleep.
LEMMA CoveredGrows ==
  ASSUME NEW S, IsFiniteSet(S), NEW work \in Int, Covered(S, work),
         Inside(S) \subseteq Inside(S)', Waiting(S)' \subseteq Waiting(S)
  PROVE  Waiting(S)' # {} => work <= Cardinality(Inside(S)')
<1>1. Inside(S) \in SUBSET S /\ Inside(S)' \in SUBSET S
  BY DEF Inside
<1>2. /\ Cardinality(Inside(S)) <= Cardinality(Inside(S)')
      /\ Cardinality(Inside(S)) \in Nat /\ Cardinality(Inside(S)') \in Nat
  BY <1>1, Counting
<1>. QED  BY <1>2, SMT DEF Covered

\* A signal pays for one more unit of work.
LEMMA CoveredSignal ==
  ASSUME NEW S \in SUBSET Threads, IsFiniteSet(S), NEW work \in Int, Covered(S, work),
         NEW t \in Threads \ S, pthread_cond_signal(t, S)
  PROVE  Waiting(S)' # {} => work + 1 <= Cardinality(Inside(S)')
<1>. SUFFICES ASSUME Waiting(S)' # {} PROVE work + 1 <= Cardinality(Inside(S)')
  OBVIOUS
<1>1. PICK W \in SUBSET Waiting(S) : (Waiting(S) # {} => W # {}) /\ Waking(t, W)
  BY DEF pthread_cond_signal
<1>2. Waiting(S)' \subseteq Waiting(S) /\ Inside(S)' = Inside(S) \cup W
  BY <1>1 DEF Waking, Waiting, Inside
<1>3. PICK x \in W : x \notin Inside(S)
  BY <1>1, <1>2 DEF Waiting, Inside
<1>4. Inside(S) \in SUBSET S /\ Inside(S)' \in SUBSET S
  BY DEF Inside
<1>5. /\ Cardinality(Inside(S)) + 1 <= Cardinality(Inside(S)')
      /\ Cardinality(Inside(S)) \in Nat /\ Cardinality(Inside(S)') \in Nat
  BY <1>2, <1>3, <1>4, Counting
<1>. QED  BY <1>2, <1>5, SMT DEF Covered

\* A thread of S that leaves has done one unit of work.
LEMMA CoveredLeaves ==
  ASSUME NEW S \in SUBSET Threads, IsFiniteSet(S), NEW work \in Int, Covered(S, work),
         NEW t \in S, NEW R, S \cap R = {}, pthread_cond_signal(t, R)
  PROVE  Waiting(S)' # {} => work - 1 <= Cardinality(Inside(S)')
<1>1. PICK W \in SUBSET Waiting(R) : Waking(t, W)
  BY DEF pthread_cond_signal
<1>2. Waiting(S)' \subseteq Waiting(S) /\ Inside(S) \subseteq Inside(S)' \cup {t}
  BY <1>1 DEF Waking, Waiting, Inside
<1>3. Inside(S) \in SUBSET S /\ Inside(S)' \in SUBSET S
  BY DEF Inside
<1>4. /\ Cardinality(Inside(S)) <= Cardinality(Inside(S)') + 1
      /\ Cardinality(Inside(S)) \in Nat /\ Cardinality(Inside(S)') \in Nat
  BY <1>2, <1>3, Counting
<1>. QED  BY <1>2, <1>4, SMT DEF Covered

\* Steps of one thread that neither sleeps nor leaves, and leaves the counter alone.
LEMMA QuietWakeup ==
  ASSUME IInv, NoLostWakeup, count' = count, NEW t \in Threads, NEW l,
         pc' = [pc EXCEPT ![t] = l], l # "wait",
         t \in Stoppers \/ l \in {"lock", "crit"} \/ pc[t] \notin {"lock", "crit"}
  PROVE  NoLostWakeup'
<1>1. ASSUME NEW S \in {Readers, Writers}
      PROVE  Inside(S) \subseteq Inside(S)' /\ Waiting(S)' \subseteq Waiting(S)
  BY QueueThreads DEF IInv, TypeOK, Inside, Waiting, Threads
<1>2. count \in Int /\ QUEUE_MAX_SIZE - count \in Int /\ count' \in Int
  BY QueueSize, SMT DEF IInv, TypeOK
<1>3. Covered(Readers, count) /\ Covered(Writers, QUEUE_MAX_SIZE - count)
  BY DEF NoLostWakeup, Covered
<1>4. Waiting(Readers)' # {} => count <= Cardinality(Inside(Readers)')
  BY <1>1, <1>2, <1>3, QueueThreads, CoveredGrows
<1>5. Waiting(Writers)' # {} => QUEUE_MAX_SIZE - count <= Cardinality(Inside(Writers)')
  BY <1>1, <1>2, <1>3, QueueThreads, CoveredGrows
<1>. QED  BY <1>4, <1>5 DEF NoLostWakeup

\* Going to sleep, or stopping: only with no work left for this side.
LEMMA SleepWakeup ==
  ASSUME IInv, NoLostWakeup, count' = count, NEW t \in Threads, NEW l,
         pc' = [pc EXCEPT ![t] = l],
         \/ t \in Readers /\ count = 0
         \/ t \in Writers /\ count = QUEUE_MAX_SIZE
  PROVE  NoLostWakeup'
<1>1. ASSUME NEW S \in {Readers, Writers}
      PROVE  /\ Inside(S) \in SUBSET S /\ Inside(S)' \in SUBSET S
             /\ Cardinality(Inside(S)) \in Nat /\ Cardinality(Inside(S)') \in Nat
             /\ t \notin S => Inside(S)' = Inside(S) /\ Waiting(S)' = Waiting(S)
  <2>1. IsFiniteSet(S) /\ Inside(S) \in SUBSET S /\ Inside(S)' \in SUBSET S
    BY QueueThreads DEF Inside
  <2>2. Cardinality(Inside(S)) \in Nat /\ Cardinality(Inside(S)') \in Nat
    BY <2>1, Counting
  <2>3. t \notin S => Inside(S)' = Inside(S) /\ Waiting(S)' = Waiting(S)
    BY DEF IInv, TypeOK, Inside, Waiting, Threads
  <2>. QED  BY <2>1, <2>2, <2>3
<1>2. CASE t \in Readers /\ count = 0
  <2>1. t \notin Writers
    BY <1>2, QueueThreads
  <2>. QED  BY <1>1, <1>2, <2>1, SMT DEF NoLostWakeup
<1>3. CASE t \in Writers /\ count = QUEUE_MAX_SIZE
  <2>1. t \notin Readers /\ QUEUE_MAX_SIZE - count' = 0
    BY <1>3, QueueThreads, QueueSize, SMT
  <2>. QED  BY <1>1, <2>1, SMT DEF NoLostWakeup
<1>. QED  BY <1>2, <1>3

LEMMA NextWakeup == IInv /\ NoLostWakeup /\ [Next]_vars => NoLostWakeup'
<1>. SUFFICES ASSUME IInv, NoLostWakeup, [Next]_vars PROVE NoLostWakeup'
  OBVIOUS
<1>. USE DEF Threads, ring
<1>1. count \in Int /\ QUEUE_MAX_SIZE \in Int
  BY QueueSize, SMT DEF IInv, TypeOK
<1>2. Covered(Readers, count) /\ Covered(Writers, QUEUE_MAX_SIZE - count)
  BY DEF NoLostWakeup, Covered
<1>3. CASE \E t \in Threads : MutexStep(t) \/ (t \in Writers \cup Readers /\ SpuriousWakeup(t))
  BY <1>3, QuietWakeup DEF MutexStep, pthread_mutex_lock, pthread_mutex_unlock, SpuriousWakeup
<1>4. CASE \E t \in Writers : \E v \in Tasks : queue_write_call(t, v)
  BY <1>4, QuietWakeup DEF queue_write_call
<1>5. CASE \E t \in Readers : queue_read_call(t)
  BY <1>5, QuietWakeup DEF queue_read_call
<1>6. CASE \E t \in Stoppers : queue_shutdown_call(t)
  BY <1>6, QuietWakeup DEF queue_shutdown_call
<1>7. CASE \E t \in Writers : queue_write_wait(t)
  BY <1>7, SleepWakeup DEF queue_write_wait, pthread_cond_wait, Full
<1>8. CASE \E t \in Readers : queue_read_wait(t) \/ queue_read_stop(t)
  BY <1>8, SleepWakeup DEF queue_read_wait, queue_read_stop, pthread_cond_wait, Empty
<1>9. ASSUME NEW t \in Writers, queue_write_put(t)
      PROVE  NoLostWakeup'
  <2>1. count' = count + 1 /\ pthread_cond_signal(t, Readers) /\ t \in Threads \ Readers
    BY <1>9, QueueThreads DEF queue_write_put
  <2>2. Waiting(Readers)' # {} => count + 1 <= Cardinality(Inside(Readers)')
    BY <1>1, <1>2, <2>1, QueueThreads, CoveredSignal
  <2>3. Waiting(Writers)' # {} => (QUEUE_MAX_SIZE - count) - 1 <= Cardinality(Inside(Writers)')
    BY <1>1, <1>2, <2>1, QueueThreads, CoveredLeaves, SMT
  <2>. QED  BY <1>1, <2>1, <2>2, <2>3, SMT DEF NoLostWakeup
<1>10. ASSUME NEW t \in Readers, queue_read_take(t)
       PROVE  NoLostWakeup'
  <2>1. count' = count - 1 /\ pthread_cond_signal(t, Writers) /\ t \in Threads \ Writers
    BY <1>10, QueueThreads DEF queue_read_take
  <2>2. Waiting(Writers)' # {} => (QUEUE_MAX_SIZE - count) + 1 <= Cardinality(Inside(Writers)')
    BY <1>1, <1>2, <2>1, QueueThreads, CoveredSignal, SMT
  <2>3. Waiting(Readers)' # {} => count - 1 <= Cardinality(Inside(Readers)')
    BY <1>1, <1>2, <2>1, QueueThreads, CoveredLeaves
  <2>. QED  BY <1>1, <2>1, <2>2, <2>3, SMT DEF NoLostWakeup
<1>11. CASE \E t \in Stoppers : queue_shutdown_body(t)
  <2>1. Waiting(Readers)' = {} /\ Waiting(Writers)' = {}
    BY <1>11 DEF queue_shutdown_body, pthread_cond_broadcast, Waking, Waiting
  <2>. QED  BY <2>1 DEF NoLostWakeup
<1>12. CASE UNCHANGED vars
  BY <1>12 DEF vars, NoLostWakeup, Waiting, Inside
<1>. QED  BY <1>3, <1>4, <1>5, <1>6, <1>7, <1>8, <1>9, <1>10, <1>11, <1>12
          DEF Next, WriterStep, ReaderStep

\* One pthread_cond_signal per write and per read never leaves a thread asleep that
\* has work, for any number of threads and any QUEUE_MAX_SIZE.
THEOREM NoWakeupLost == Spec => []NoLostWakeup
<1>1. Init => NoLostWakeup
  BY DEF Init, NoLostWakeup, Waiting, Threads
<1>. QED  BY <1>1, Inductive, NextWakeup, PTL DEF Spec
=============================================================================
