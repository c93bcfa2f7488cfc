--------------------------- MODULE ClientManager ---------------------------
(***************************************************************************)
(* src/client_manager.c: the registry of connected clients, and the life   *)
(* of a Client struct from malloc to free, under clients_rwlock and the    *)
(* per-client mutex c->lock.                                               *)
(*                                                                         *)
(* A Client is a heap address that malloc may hand out again after free,   *)
(* and an Fd is a descriptor number that accept may hand out again after   *)
(* close.  Each accepted connection gets a number of its own (a history    *)
(* value the program does not have), so that properties can tell whether   *)
(* an address or a descriptor still means what a thread thinks it means.   *)
(*                                                                         *)
(* Every section that holds clients_rwlock for writing acquires no other   *)
(* lock, so it is one step, enabled when no thread holds it for reading.   *)
(* Holding it for reading lasts as long as the wait for a c->lock, hence   *)
(* the set rdlock.                                                         *)
(*                                                                         *)
(* `at' is where a thread stands with respect to the registry:             *)
(*   out       in none of its functions, holding no client                 *)
(*   adding    in client_add, struct filled in, not yet in the map         *)
(*   getting   in client_get_and_lock_by_fd, waiting for c->lock           *)
(*   asking    in client_get_and_lock_by_hostname, waiting for c->lock     *)
(*   holding   got c, owns c->lock                                         *)
(*   naming    in client_set_hostname, between its two locks               *)
(*   removing  in client_remove, between its two locks                     *)
(*   walking   iterating over the map (sweep_inactive, print_status)       *)
(***************************************************************************)
EXTENDS Integers, BrokerProcess

CONSTANTS Client, Hostname,
          MaxConn                   \* bound: connections ever accepted

ASSUME NullIsNoClient == NULL \notin Client \cup Hostname
ASSUME ConnBound == MaxConn \in Nat

VARIABLES heap,           \* [Client -> struct], freed structs included
          fd_key,         \* clients_map, the "fd:%d" keys
          host_key,       \* clients_map, the hostname keys
          rdlock,         \* threads holding clients_rwlock for reading
          sock,           \* the kernel's descriptor table
          accepted,       \* number of connections accepted so far
          at, ptr, arg,   \* per thread: see above; local c; local hostname
          todo,           \* per thread: clients a walk has still to visit
          fds_to_remove   \* of sweep_inactive, each with its connection

cmVars == <<heap, fd_key, host_key, rdlock, sock, accepted, at, ptr, arg, todo,
            fds_to_remove>>

Conn == 1 .. MaxConn
Closed == [kind |-> "closed", conn |-> 0]
Sockets == [kind : {"vault", "lobby"}, conn : Conn] \cup {Closed}

Structs == [alloc : BOOLEAN, fd : Fd \cup {NULL}, hostname : Hostname \cup {NULL},
            idle : BOOLEAN,             \* now - last_activity > timeout_seconds
            lock : Thread \cup {NULL},  \* owner of c->lock
            conn : 0 .. MaxConn]
Freed == [alloc |-> FALSE, fd |-> NULL, hostname |-> NULL, idle |-> FALSE,
          lock |-> NULL, conn |-> 0]

client_manager_init ==
  /\ heap = [p \in Client |-> Freed]
  /\ fd_key = [f \in Fd |-> NULL]
  /\ host_key = [h \in Hostname |-> NULL]
  /\ rdlock = {}
  /\ sock = [f \in Fd |-> Closed]
  /\ accepted = 0
  /\ at = [t \in Thread |-> "out"]
  /\ ptr = [t \in Thread |-> NULL]
  /\ arg = [t \in Thread |-> NULL]
  /\ todo = [t \in Thread |-> {}]
  /\ fds_to_remove = {}

\* What a thread's registry position becomes: in state s with local pointer p.
Goes(t, s, p) ==
  /\ at' = [at EXCEPT ![t] = s]
  /\ ptr' = [ptr EXCEPT ![t] = p]

----------------------------------------------------------------------------
(* The kernel, as main.c and worker.c use it. *)

\* accept() hands out any descriptor that is not open.
accept(f, kind) ==
  /\ sock[f] = Closed
  /\ accepted < MaxConn
  /\ accepted' = accepted + 1
  /\ sock' = [sock EXCEPT ![f] = [kind |-> kind, conn |-> accepted']]

close(f) == sock' = [sock EXCEPT ![f] = Closed]

\* A minute passes without input from the client.
grow_idle(p) ==
  /\ heap[p].alloc
  /\ ~heap[p].idle
  /\ heap' = [heap EXCEPT ![p].idle = TRUE]
  /\ UNCHANGED <<fd_key, host_key, rdlock, sock, accepted, at, ptr, arg, todo, fds_to_remove>>

----------------------------------------------------------------------------
(* client_add: accept, malloc and the field assignments need no lock; the  *)
(* map entry does.                                                         *)

accept_vault(t, f, p) ==
  /\ at[t] = "out"
  /\ accept(f, "vault")
  /\ ~heap[p].alloc
  /\ heap' = [heap EXCEPT ![p] = [alloc |-> TRUE, fd |-> f, hostname |-> NULL, idle |-> FALSE,
                                  lock |-> NULL, conn |-> accepted']]
  /\ Goes(t, "adding", p)
  /\ UNCHANGED <<fd_key, host_key, rdlock, arg, todo, fds_to_remove>>

client_add(t) ==
  /\ at[t] = "adding"
  /\ rdlock = {}
  /\ fd_key' = [fd_key EXCEPT ![heap[ptr[t]].fd] = ptr[t]]
  /\ Goes(t, "out", NULL)
  /\ UNCHANGED <<heap, host_key, rdlock, sock, accepted, arg, todo, fds_to_remove>>

\* Lobby sockets are never in the registry.
accept_lobby(f) ==
  /\ accept(f, "lobby")
  /\ UNCHANGED <<heap, fd_key, host_key, rdlock, at, ptr, arg, todo, fds_to_remove>>

close_lobby(f) ==
  /\ close(f)
  /\ UNCHANGED <<heap, fd_key, host_key, rdlock, accepted, at, ptr, arg, todo, fds_to_remove>>

----------------------------------------------------------------------------
(* client_get_and_lock_by_fd, client_get_and_lock_by_hostname,             *)
(* client_unlock                                                           *)

\* Fault: clients_rwlock is not kept.
pthread_rwlock_rdlock_Dropped(t) == rdlock' = rdlock

\* clients_rwlock, for reading.  (For writing: a step guarded by rdlock = {}.)
pthread_rwlock_rdlock(t) == rdlock' = rdlock \cup {t}

\* The map's answer for descriptor f (NULL also for the -1 of a freed struct).
Lookup(f) == IF f \in Fd THEN fd_key[f] ELSE NULL

\* c->lock is taken: wait for it without letting go of clients_rwlock.
get_wait(t, p, s) ==
  /\ at[t] = "out"
  /\ p # NULL
  /\ heap[p].lock # NULL
  /\ pthread_rwlock_rdlock(t)
  /\ Goes(t, s, p)
  /\ UNCHANGED <<heap, fd_key, host_key, sock, accepted, arg, todo, fds_to_remove>>

\* The client thread t's lookup found: p, or the one it is already waiting for.
Found(t, p) == IF at[t] \in {"getting", "asking"} THEN ptr[t] ELSE p

\* c->lock is acquired, then clients_rwlock released.
get_lock(t, p) ==
  /\ at[t] \in {"out", "getting"}
  /\ Found(t, p) # NULL
  /\ heap[Found(t, p)].lock = NULL
  /\ heap' = [heap EXCEPT ![Found(t, p)].lock = t]
  /\ rdlock' = rdlock \ {t}
  /\ Goes(t, "holding", Found(t, p))
  /\ UNCHANGED <<fd_key, host_key, sock, accepted, arg, todo, fds_to_remove>>

\* A caller that does no registry operation between get_lock and client_unlock
\* (one subscriber in pubsub_publish, the CLI reading c->fd): both in one step.
get_visit(t, p) ==
  /\ at[t] \in {"out", "getting", "asking"}
  /\ Found(t, p) # NULL
  /\ heap[Found(t, p)].lock = NULL
  /\ rdlock' = rdlock \ {t}
  /\ Goes(t, "out", NULL)
  /\ UNCHANGED <<heap, fd_key, host_key, sock, accepted, arg, todo, fds_to_remove>>

\* worker.c:113, by the thread that holds the client.
touch(t) ==
  /\ at[t] = "holding"
  /\ heap' = [heap EXCEPT ![ptr[t]].idle = FALSE]
  /\ UNCHANGED <<fd_key, host_key, rdlock, sock, accepted, at, ptr, arg, todo, fds_to_remove>>

client_unlock(t) ==
  /\ at[t] = "holding"
  /\ heap' = [heap EXCEPT ![ptr[t]].lock = NULL]
  /\ Goes(t, "out", NULL)
  /\ UNCHANGED <<fd_key, host_key, rdlock, sock, accepted, arg, todo, fds_to_remove>>

----------------------------------------------------------------------------
(* client_set_hostname: the map entry first, c->hostname after clients_rwlock *)
(* has been released, through a pointer nothing protects any more.         *)

\* Fault: no hostname key.
set_hostname_key_Never(h, p) == host_key' = host_key

set_hostname_key(h, p) == host_key' = [host_key EXCEPT ![h] = p]

client_set_hostname(t, f, h) ==
  /\ at[t] = "out"
  /\ rdlock = {}
  /\ IF fd_key[f] = NULL
       THEN UNCHANGED <<host_key, at, ptr, arg>>
       ELSE /\ set_hostname_key(h, fd_key[f])
            /\ Goes(t, "naming", fd_key[f])
            /\ arg' = [arg EXCEPT ![t] = h]
  /\ UNCHANGED <<heap, fd_key, rdlock, sock, accepted, todo, fds_to_remove>>

client_set_hostname_copy(t) ==
  /\ at[t] = "naming"
  /\ heap[ptr[t]].lock = NULL
  /\ heap' = [heap EXCEPT ![ptr[t]].hostname = arg[t]]
  /\ Goes(t, "out", NULL)
  /\ arg' = [arg EXCEPT ![t] = NULL]
  /\ UNCHANGED <<fd_key, host_key, rdlock, sock, accepted, todo, fds_to_remove>>

----------------------------------------------------------------------------
(* client_remove *)

\* Fault: the descriptor stays in the map.
del_fd_key_Later(f) == fd_key' = fd_key

del_fd_key(f) == fd_key' = [fd_key EXCEPT ![f] = NULL]

\* Only if the key points to this client.
del_hostname_key(p) ==
  host_key' = [h \in Hostname |-> IF h = heap[p].hostname /\ host_key[h] = p
                                    THEN NULL ELSE host_key[h]]

client_remove(t, f) ==
  /\ at[t] = "out"
  /\ rdlock = {}
  /\ IF fd_key[f] = NULL
       THEN UNCHANGED <<fd_key, host_key, at, ptr>>
       ELSE /\ del_fd_key(f)
            /\ del_hostname_key(fd_key[f])
            /\ Goes(t, "removing", fd_key[f])
  /\ UNCHANGED <<heap, rdlock, sock, accepted, arg, todo, fds_to_remove>>

\* Lock, close, unlock, free.
client_remove_destroy(t) ==
  /\ at[t] = "removing"
  /\ heap[ptr[t]].lock = NULL
  /\ close(heap[ptr[t]].fd)
  /\ heap' = [heap EXCEPT ![ptr[t]] = Freed]
  /\ Goes(t, "out", NULL)
  /\ UNCHANGED <<fd_key, host_key, rdlock, accepted, arg, todo, fds_to_remove>>

----------------------------------------------------------------------------
(* client_manager_sweep_inactive (its first loop) and                      *)
(* client_manager_print_status: visit every client under clients_rwlock.   *)

walk_begin(t) ==
  /\ at[t] = "out"
  /\ pthread_rwlock_rdlock(t)
  /\ todo' = [todo EXCEPT ![t] = {p \in Client : \E f \in Fd : fd_key[f] = p}]
  /\ Goes(t, "walking", NULL)
  /\ UNCHANGED <<heap, fd_key, host_key, sock, accepted, arg, fds_to_remove>>

\* Fault: the wrong sign in the comparison.
Expired_Never(p) == FALSE

\* now - c->last_activity > timeout_seconds, and what is noted down of such a client.
Expired(p) == heap[p].idle

Noted(p) == <<heap[p].fd, heap[p].conn>>

walk_visit(t, p, sweeping) ==
  /\ at[t] = "walking"
  /\ p \in todo[t]
  /\ heap[p].lock = NULL
  /\ todo' = [todo EXCEPT ![t] = @ \ {p}]
  /\ fds_to_remove' = IF sweeping /\ Expired(p) THEN fds_to_remove \cup {Noted(p)}
                                             ELSE fds_to_remove
  /\ UNCHANGED <<heap, fd_key, host_key, rdlock, sock, accepted, at, ptr, arg>>

walk_end(t) ==
  /\ at[t] = "walking"
  /\ todo[t] = {}
  /\ rdlock' = rdlock \ {t}
  /\ Goes(t, "out", NULL)
  /\ UNCHANGED <<heap, fd_key, host_key, sock, accepted, arg, todo, fds_to_remove>>

\* The second loop of the sweep moves on to its next descriptor.
sweep_next(e) ==
  /\ e \in fds_to_remove
  /\ fds_to_remove' = fds_to_remove \ {e}
  /\ UNCHANGED <<heap, fd_key, host_key, rdlock, sock, accepted, at, ptr, arg, todo>>

----------------------------------------------------------------------------
(* Any threads, calling any of these functions in any order.  The only     *)
(* rule callers keep is close_lobby's: worker.c closes by number only a    *)
(* descriptor that came from the lobby port.                               *)

\* What leaves clients_map as it is,
cmReads ==
  \/ \E p \in Client : grow_idle(p)
  \/ \E f \in Fd : accept_lobby(f) \/ (sock[f].kind = "lobby" /\ close_lobby(f))
  \/ \E e \in fds_to_remove : sweep_next(e)
  \/ \E t \in Thread :
       \/ \E f \in Fd, p \in Client : accept_vault(t, f, p)
       \/ \E f \in Fd : \/ get_wait(t, fd_key[f], "getting")
                        \/ get_lock(t, fd_key[f])
                        \/ get_visit(t, fd_key[f])
       \/ \E h \in Hostname : get_wait(t, host_key[h], "asking") \/ get_visit(t, host_key[h])
       \/ touch(t) \/ client_unlock(t)
       \/ client_set_hostname_copy(t)
       \/ client_remove_destroy(t)
       \/ walk_begin(t) \/ walk_end(t)
       \/ \E p \in Client : walk_visit(t, p, TRUE) \/ walk_visit(t, p, FALSE)

\* and what changes it.
cmNext ==
  \/ cmReads
  \/ \E t \in Thread :
       \/ client_add(t)
       \/ \E f \in Fd : client_remove(t, f)
       \/ \E f \in Fd, h \in Hostname : client_set_hostname(t, f, h)

cmSpec == client_manager_init /\ [][cmNext]_cmVars

----------------------------------------------------------------------------
(* Properties *)

\* Every variable keeps its type.
cmTypeOK ==
  /\ heap \in [Client -> Structs]
  /\ fd_key \in [Fd -> Client \cup {NULL}]
  /\ host_key \in [Hostname -> Client \cup {NULL}]
  /\ rdlock \in SUBSET Thread
  /\ sock \in [Fd -> Sockets]
  /\ accepted \in 0 .. MaxConn
  /\ at \in [Thread -> {"out", "adding", "getting", "asking", "holding", "naming", "removing", "walking"}]
  /\ ptr \in [Thread -> Client \cup {NULL}]
  /\ arg \in [Thread -> Hostname \cup {NULL}]
  /\ todo \in [Thread -> SUBSET Client]
  /\ fds_to_remove \in SUBSET (Fd \X Conn)

\* "Safe destruction" for clients obtained by descriptor: a thread that got a
\* client from client_get_and_lock_by_fd owns its lock and the struct has not been
\* freed, however many other threads remove that client meanwhile.
HeldIsLive ==
  \A t \in Thread : at[t] = "holding" => heap[ptr[t]].alloc /\ heap[ptr[t]].lock = t

\* A registered descriptor is open, and is the connection its struct was made for:
\* client_remove takes the key out before it closes, so a descriptor number that
\* accept hands out again is never still in the map.
RegisteredIsOpen ==
  \A f \in Fd : fd_key[f] # NULL =>
    /\ heap[fd_key[f]].alloc
    /\ heap[fd_key[f]].fd = f
    /\ sock[f] = [kind |-> "vault", conn |-> heap[fd_key[f]].conn]

\* No double free: of the threads that call client_remove for a client at the same
\* time (worker, heartbeat) only one goes on to destroy it, and the struct and the
\* socket it destroys are still the ones it unregistered.
OneDestroyer ==
  \A t \in Thread : at[t] = "removing" =>
    /\ heap[ptr[t]].alloc
    /\ sock[heap[ptr[t]].fd] = [kind |-> "vault", conn |-> heap[ptr[t]].conn]
    /\ \A u \in Thread \ {t} : at[u] = "removing" => ptr[u] # ptr[t]

\* A thread that waits for c->lock, or will visit c on a walk, waits for a struct
\* that cannot be freed before it has been there.  (Stated for lookups by
\* descriptor; hostname keys can dangle, see Broker.)
WalkedIsLive ==
  \A t \in Thread :
    /\ at[t] = "getting" => heap[ptr[t]].alloc
    /\ at[t] = "walking" => \A p \in todo[t] : heap[p].alloc
=============================================================================
